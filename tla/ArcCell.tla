------------------------------ MODULE ArcCell ------------------------------
(***************************************************************************)
(* An atomic pointer that owns one Arc, and the steps threads take on it:  *)
(* the operations of AtomicArc (stabby-abi/src/alloc/sync.rs) at the       *)
(* granularity of one atomic access.  AtomicArc.tla lets an arbitrary      *)
(* program call them, VtVec.tla the registry of v-tables, and VtBtree.tla  *)
(* has an atomic pointer of its own that is used in the same way.          *)
(*                                                                         *)
(* A slot is a local variable that may hold an Arc, so an Arc is owned by  *)
(* the cell or by a slot of a thread.  The allocation of an Arc is its     *)
(* address and its strong count; what ArcWeak.tla shows of the drop of the *)
(* last Arc (it frees the memory, once) is one step here.                  *)
(***************************************************************************)
EXTENDS Integers, FiniteSets

CONSTANTS
  Thread,    \* the threads that share the cell
  Slot,      \* the local variables of a thread that hold an Option<Arc>
  Addr,      \* the addresses the allocator hands out
  Null,      \* the null pointer, None
  Overlap    \* whether a thread may be interrupted between the load of the
             \* pointer and the increment of the count behind it

ASSUME PlaceAssumption == IsFiniteSet(Thread) /\ IsFiniteSet(Slot)
ASSUME NullAssumption == Null \notin Addr
ASSUME OverlapAssumption == Overlap \in BOOLEAN

VARIABLES
  cell,     \* AtomicArc.ptr
  arc,      \* arc[<<t, s>>]: the Arc in slot s of thread t, Null if none
  seen,     \* seen[t]: a pointer t read from the cell and has not counted yet
  strong,   \* strong[a]: the strong count in the prefix of allocation a
  memory    \* memory[a]: "live" or "free"

cellVars == <<cell, arc, seen, strong, memory>>

Pointer == Addr \cup {Null}
Place == Thread \X Slot
Holders(a) == Cardinality({p \in Place : arc[p] = a})
Owners(a) == Holders(a) + IF cell = a THEN 1 ELSE 0

\* The scheduling the run allows: unless Overlap, nobody else moves while a
\* thread is between reading the pointer and counting itself.
Quiet(t) == Overlap \/ \A u \in Thread \ {t} : seen[u] = Null

CellInit ==
  /\ cell = Null
  /\ arc = [p \in Place |-> Null]
  /\ seen = [t \in Thread |-> Null]
  /\ strong = [a \in Addr |-> 0]
  /\ memory = [a \in Addr |-> "free"]

-----------------------------------------------------------------------------

\* Arc::new: a fresh allocation with a count of 1.
New(t, s, a) ==
  /\ arc[<<t, s>>] = Null
  /\ memory[a] = "free"
  /\ arc' = [arc EXCEPT ![<<t, s>>] = a]
  /\ strong' = [strong EXCEPT ![a] = 1]
  /\ memory' = [memory EXCEPT ![a] = "live"]
  /\ UNCHANGED <<cell, seen>>

\* Drop for Arc: the last one frees the allocation.
ReleaseLate(t, s) == \* mutant: compares the new count with 1
  LET a == arc[<<t, s>>] IN
  /\ a # Null
  /\ arc' = [arc EXCEPT ![<<t, s>>] = Null]
  /\ strong' = [strong EXCEPT ![a] = @ - 1]
  /\ memory' = [memory EXCEPT ![a] = IF strong[a] <= 2 THEN "free" ELSE @]
  /\ UNCHANGED <<cell, seen>>

Release(t, s) ==
  LET a == arc[<<t, s>>] IN
  /\ a # Null
  /\ arc' = [arc EXCEPT ![<<t, s>>] = Null]
  /\ strong' = [strong EXCEPT ![a] = @ - 1]
  /\ memory' = [memory EXCEPT ![a] = IF strong[a] = 1 THEN "free" ELSE @]
  /\ UNCHANGED <<cell, seen>>

\* The assignment of the Arc in slot new to the variable old: what the variable
\* held is dropped.
Assign(t, old, new) ==
  LET a == arc[<<t, old>>] IN
  /\ old # new
  /\ arc' = [arc EXCEPT ![<<t, old>>] = arc[<<t, new>>], ![<<t, new>>] = Null]
  /\ strong' = [b \in Addr |-> IF b = a THEN strong[b] - 1 ELSE strong[b]]
  /\ memory' = [b \in Addr |-> IF b = a /\ strong[b] = 1 THEN "free" ELSE memory[b]]
  /\ UNCHANGED <<cell, seen>>

\* AtomicArc::load, first half: the pointer is read, nothing keeps it alive.
ReadCell(t) ==
  /\ seen' = [seen EXCEPT ![t] = cell]
  /\ UNCHANGED <<cell, arc, strong, memory>>

\* The second half of load, is and compare_exchange: increment_strong_count
\* behind the pointer, and an Arc from it into slot s.
Increment(t, s) ==
  /\ seen[t] # Null
  /\ arc[<<t, s>>] = Null
  /\ strong' = [strong EXCEPT ![seen[t]] = @ + 1]
  /\ arc' = [arc EXCEPT ![<<t, s>>] = seen[t]]
  /\ seen' = [seen EXCEPT ![t] = Null]
  /\ UNCHANGED <<cell, memory>>

\* AtomicArc::is: compares the pointer with the Arc in slot current, and goes on
\* to count itself in what it read if they differ.
Is(t, current) ==
  IF cell = arc[<<t, current>>] THEN UNCHANGED cellVars ELSE ReadCell(t)

StoreDrops(t, s) == \* mutant: what was there is dropped, not leaked
  /\ cell' = arc[<<t, s>>]
  /\ arc' = [arc EXCEPT ![<<t, s>>] = Null]
  /\ strong' = [b \in Addr |-> IF b = cell THEN strong[b] - 1 ELSE strong[b]]
  /\ memory' = [b \in Addr |-> IF b = cell /\ strong[b] = 1 THEN "free" ELSE memory[b]]
  /\ UNCHANGED seen

\* AtomicArc::store: the Arc in slot s moves into the cell; the pointer that was
\* there is overwritten, its Arc never dropped.
Store(t, s) ==
  /\ cell' = arc[<<t, s>>]
  /\ arc' = [arc EXCEPT ![<<t, s>>] = Null]
  /\ UNCHANGED <<seen, strong, memory>>

\* The compare_exchange of the pointer succeeds: slot s and the cell trade Arcs.
Exchange(t, s) ==
  /\ cell' = arc[<<t, s>>]
  /\ arc' = [arc EXCEPT ![<<t, s>>] = cell]
  /\ UNCHANGED <<seen, strong, memory>>

\* AtomicArc::compare_exchange of the Arc in slot current for the one in slot s,
\* which a failure forgets: into_raw gave it up before the exchange was tried.
CompareExchangeKept(t, current, s) == \* mutant: a success leaves the old Arc in the cell's name
  IF cell = arc[<<t, current>>]
    THEN /\ cell' = arc[<<t, s>>]
         /\ arc' = [arc EXCEPT ![<<t, s>>] = arc[<<t, s>>]]
         /\ UNCHANGED <<seen, strong, memory>>
    ELSE /\ arc' = [arc EXCEPT ![<<t, s>>] = Null]
         /\ seen' = [seen EXCEPT ![t] = cell]
         /\ UNCHANGED <<cell, strong, memory>>

CompareExchange(t, current, s) ==
  IF cell = arc[<<t, current>>]
    THEN Exchange(t, s)
    ELSE /\ arc' = [arc EXCEPT ![<<t, s>>] = Null]
         /\ seen' = [seen EXCEPT ![t] = cell]
         /\ UNCHANGED <<cell, strong, memory>>

\* Drop for AtomicArc: &mut self, so no call on the cell is in progress.
DropCell ==
  /\ \A t \in Thread : seen[t] = Null
  /\ cell # Null
  /\ cell' = Null
  /\ strong' = [strong EXCEPT ![cell] = @ - 1]
  /\ memory' = [memory EXCEPT ![cell] = IF strong[cell] = 1 THEN "free" ELSE @]
  /\ UNCHANGED <<arc, seen>>

-----------------------------------------------------------------------------

CellTypeOK ==
  /\ cell \in Pointer
  /\ arc \in [Place -> Pointer]
  /\ seen \in [Thread -> Pointer]
  /\ strong \in [Addr -> Nat]
  /\ memory \in [Addr -> {"live", "free"}]

\* The Arc in the cell and the Arcs in the slots point to live allocations.
OwnedArcsAreLive ==
  /\ cell # Null => memory[cell] = "live"
  /\ \A p \in Place : arc[p] # Null => memory[arc[p]] = "live"

\* "Atomically load the current value": the pointer read from the cell still
\* points to a live allocation when load, is or compare_exchange counts it.
LoadedArcsAreLive ==
  \A t \in Thread : seen[t] # Null => memory[seen[t]] = "live"

\* While a thread is inside a load, the pointer stays what it was.
PointerRests == (\E t \in Thread : seen[t] # Null) => cell' = cell

\* Every owner is counted (an Arc that was forgotten stays counted forever).
CountsOwners == \A a \in Addr : memory[a] = "live" => strong[a] >= Owners(a)

\* Unless loads overlap with other steps, the thread that read the pointer
\* counts itself while the cell still owns what it read.
SeenIsCurrent == Overlap \/ \A t \in Thread : seen[t] \in {Null, cell}

CellInv ==
  /\ CellTypeOK
  /\ OwnedArcsAreLive
  /\ CountsOwners
  /\ SeenIsCurrent
=============================================================================
