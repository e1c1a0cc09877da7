--------------------------- MODULE TraitObjects ---------------------------
(***************************************************************************)
(* Stable trait objects (stabby-abi/src/fatptr.rs and vtable/mod.rs, and   *)
(* what stabby-macros/src/traits.rs makes of a trait).  A handle is a      *)
(* pointer of some kind, a table of functions, and a static type that says *)
(* what may be called through it: a list of traits and the markers "Send"  *)
(* and "Sync", from the innermost to the outermost.                        *)
(*                                                                         *)
(* The handles of one value, made, cast, borrowed, cloned and dropped by   *)
(* one thread; the counts of an Arc under threads are ArcWeak's.           *)
(***************************************************************************)
EXTENDS Integers, SequencesExt

CONSTANTS
  Handle,        \* the handles there may be at a time
  NoDyn,         \* what is in place of one
  Type,          \* the types of the values
  Trait,         \* the traits they implement
  Methods,       \* Methods[t]: the methods [name, mut] of t as declared
  Bounds,        \* the types `dyn ...` that handles are made with
  TryAsMutOf     \* the pointers that try_as_mut is called on

AutoTrait == {"Send", "Sync"}

ASSUME MethodsAssumption == DOMAIN Methods = Trait
ASSUME BoundsAssumption == Bounds \subseteq Seq(Trait \cup AutoTrait)

-----------------------------------------------------------------------------
(* Tables *)

\* The functions of a trait: those that take &self first.
Functions(t) ==
  SelectSeq(Methods[t], LAMBDA m : ~m.mut) \o SelectSeq(Methods[t], LAMBDA m : m.mut)

\* What a list of bounds puts into a table: its traits.  VtSend and VtSync add
\* nothing.
Heads(as) == {k \in DOMAIN as : as[k] \notin AutoTrait}

\* VTable<Head, Tail>: the tail comes first, so that a table begins with those of
\* its super types, and the functions of a trait come behind those below it.
Level(as, k) == Cardinality({j \in 1 .. k - 1 : as[j] \notin AutoTrait})

\* IConstConstructor::VTABLE for a type, as the registry keeps it: whose functions
\* it has, and of which trait they are at each level.
TableOf(ty, as) ==
  [of |-> ty,
   heads |-> [n \in {Level(as, k) : k \in Heads(as)} |->
                as[CHOOSE k \in Heads(as) : Level(as, k) = n]]]

\* Where tderef finds a trait: as many tails in as there are traits above it.
Position(as, t) == CHOOSE k \in Heads(as) : as[k] = t

\* The casts that IntoSuperTrait allows.  What is left of a list `dyn B + s`, s
\* being at most two different markers at its end: fewer of the markers, or B
\* without its last trait and with all of s or nothing of it.
Splits(as) ==
  {k \in 0 .. Len(as) : Len(as) - k <= 2 /\ \A i \in k + 1 .. Len(as) : as[i] \in AutoTrait
                        /\ \A j \in k + 1 .. i - 1 : as[i] # as[j]}
Supers(as) == UNION {
  {RemoveAt(as, i) : i \in k + 1 .. Len(as)}
  \cup (IF k = Len(as) THEN {} ELSE {SubSeq(as, 1, k)})
  \cup (IF k \in Heads(as) THEN {SubSeq(as, 1, k - 1), RemoveAt(as, k)} ELSE {})
  : k \in Splits(as)}

\* HasSendVt and HasSyncVt, which the handles' own Send and Sync depend on: a
\* table over VtSync asks what it is over, and one over a trait for Sync.
HasSyncVt(as) == "Sync" \in ToSet(as)
HasSendVt(as) == \E k \in DOMAIN as :
  /\ \A j \in k + 1 .. Len(as) : as[j] = "Sync"
  /\ \/ as[k] = "Send"
     \/ as[k] \notin AutoTrait /\ HasSyncVt(SubSeq(as, 1, k - 1))

-----------------------------------------------------------------------------
(* State *)

VARIABLES
  value,   \* the value: its type, where it is kept, and the drops it has seen
  handles  \* handles[h]: [ptr, as, table, to, from]

objects == <<value, handles>>

\* A Dyn of a Box, an Arc, a Weak, a &mut or an AnonymRefMut, or a DynRef.
IPtrMut == {"Box", "&mut", "AnonymRefMut"}
IPtr == IPtrMut \cup {"Arc"}
Ptr == IPtr \cup {"Weak", "DynRef"}
Owners == {"Box", "Arc"}
Tables == {TableOf(ty, dyn) : ty \in Type, dyn \in Bounds}
Dyn == [ptr : Ptr, as : Seq(Trait \cup AutoTrait), table : Tables,
        to : {"value", "pointer"}, from : Handle]

\* Those that implement IPtrTryAsMut.
ASSUME TryAsMutAssumption == TryAsMutOf \subseteq IPtr
ASSUME NoDynAssumption == NoDyn \notin Dyn

NoValue == [of |-> "none", kept |-> "nowhere", drops |-> << >>]
Live(S) == {h \in Handle : handles[h] # NoDyn /\ handles[h].ptr \in S}
Free(h) == handles[h] = NoDyn
Fresh(h) == Free(h) /\ h = CHOOSE g \in Handle : Free(g)
Borrowers(h) == {g \in Handle \ {h} : ~Free(g) /\ handles[g].from = h}
Unborrowed(h) == ~Free(h) /\ Borrowers(h) = {}
Shareable(h) == ~Free(h) /\ \A g \in Borrowers(h) : handles[g].ptr = "DynRef"

ObjectsInit ==
  /\ value = NoValue
  /\ handles = [h \in Handle |-> NoDyn]

\* A handle to the value itself; `to` tells where the pointer leads.
New(ptr, as, table, from) == [ptr |-> ptr, as |-> as, table |-> table, to |-> "value", from |-> from]
Put(h, r) == handles' = [handles EXCEPT ![h] = r]

\* A handle with the table and the static type of another.
Like(h, ptr, from) == [ptr |-> ptr, as |-> handles[h].as, table |-> handles[h].table,
                       to |-> handles[h].to, from |-> from]

-----------------------------------------------------------------------------
(* Making handles *)

\* Dyn::from(Box) and Dyn::from(Arc), of a value that is made for it.
FromOwner(h, ty, as, ptr) ==
  /\ value = NoValue /\ Fresh(h)
  /\ value' = [of |-> ty, kept |-> ptr, drops |-> << >>]
  /\ Put(h, New(ptr, as, TableOf(ty, as), h))

\* The value is a local variable.
Declare(ty) ==
  /\ value = NoValue
  /\ value' = [of |-> ty, kept |-> "local", drops |-> << >>]
  /\ UNCHANGED handles

\* Dyn::from(&mut T) and DynRef::from(&T).
FromReference(h, as, ptr) ==
  /\ value.kept = "local" /\ value.drops = << >> /\ Fresh(h)
  /\ \A g \in Handle : ~Free(g) => ptr = "DynRef" /\ handles[g].ptr = "DynRef"
  /\ Put(h, New(ptr, as, TableOf(value.of, as), h))
  /\ UNCHANGED value

AsRef(h, g) ==
  /\ Shareable(h) /\ handles[h].ptr \in IPtr /\ Fresh(g)
  /\ Put(g, Like(h, "DynRef", h))
  /\ UNCHANGED value

CopyRef(h, g) ==
  /\ handles[h] # NoDyn /\ handles[h].ptr = "DynRef" /\ Fresh(g)
  /\ Put(g, Like(h, "DynRef", IF handles[h].from = h THEN g ELSE handles[h].from))
  /\ UNCHANGED value

AsMut(h, g) ==
  /\ Unborrowed(h) /\ handles[h].ptr \in IPtrMut /\ Fresh(g)
  /\ Put(g, Like(h, "AnonymRefMut", h))
  /\ UNCHANGED value

\* An Arc gives its value away if it is unique; for the others IPtrTryAsMut makes
\* a pointer of its own &mut self, which leads to the pointer.
IsUnique(h) == Live({"Arc", "Weak"}) = {h}

TryAsMut(h, g) ==
  /\ Unborrowed(h) /\ handles[h].ptr \in TryAsMutOf /\ Fresh(g)
  /\ handles[h].ptr = "Arc" => IsUnique(h)
  /\ Put(g, [Like(h, "AnonymRefMut", h) EXCEPT
                !.to = IF handles[h].ptr = "Arc" THEN @ ELSE "pointer"])
  /\ UNCHANGED value

\* Clone, of a Dyn<Arc> and a Dyn<Weak>.
CloneHandle(h, g) ==
  /\ Shareable(h) /\ handles[h].ptr \in {"Arc", "Weak"} /\ Fresh(g)
  /\ Put(g, Like(h, handles[h].ptr, g))
  /\ UNCHANGED value

Downgrade(h, g) ==
  /\ Shareable(h) /\ handles[h].ptr = "Arc" /\ Fresh(g)
  /\ Put(g, Like(h, "Weak", g))
  /\ UNCHANGED value

\* The Weak is taken by value, and gone afterwards.
Upgrade(h) ==
  /\ Unborrowed(h) /\ handles[h].ptr = "Weak"
  /\ Put(h, IF Live({"Arc"}) # {} THEN Like(h, "Arc", handles[h].from) ELSE NoDyn)
  /\ UNCHANGED value

-----------------------------------------------------------------------------
(* Casts and drops *)

\* P::drop with the drop function of the table.
DropFn(h) == handles[h].table.of
DropValue(h) == value' = [value EXCEPT !.drops = Append(@, DropFn(h))]
DropsValue(h) ==
  \/ handles[h].ptr = "Box"
  \/ handles[h].ptr = "Arc" /\ Live({"Arc"}) = {h}

\* The pointer is read out of what is forgotten.
IntoSuperAndDrop(h, as) == \* mutant: it is not forgotten
  /\ Unborrowed(h) /\ as \in Supers(handles[h].as)
  /\ Put(h, [handles[h] EXCEPT !.as = as])
  /\ IF DropsValue(h) THEN DropValue(h) ELSE UNCHANGED value

IntoSuper(h, as) ==
  /\ Unborrowed(h) /\ as \in Supers(handles[h].as)
  /\ Put(h, [handles[h] EXCEPT !.as = as])
  /\ UNCHANGED value

DropHandle(h) ==
  /\ Unborrowed(h)
  /\ Put(h, NoDyn)
  /\ IF DropsValue(h) THEN DropValue(h) ELSE UNCHANGED value

\* A local goes out of scope, and then its place is free for another value.
EndOfScope ==
  /\ value.kept = "local" /\ value.drops = << >> /\ Live(IPtr \cup {"DynRef"}) = {}
  /\ value' = [value EXCEPT !.drops = Append(@, value.of)]
  /\ UNCHANGED handles

Forgotten ==
  /\ value # NoValue /\ value.drops # << >> /\ \A h \in Handle : Free(h)
  /\ value' = NoValue
  /\ UNCHANGED handles

ObjectsNext ==
  \/ \E ty \in Type : Declare(ty)
  \/ \E h \in Handle, ty \in Type, dyn \in Bounds, ptr \in Owners : FromOwner(h, ty, dyn, ptr)
  \/ \E h \in Handle, dyn \in Bounds, ptr \in {"&mut", "DynRef"} : FromReference(h, dyn, ptr)
  \/ \E h, g \in Handle :
       \/ AsRef(h, g) \/ CopyRef(h, g) \/ AsMut(h, g) \/ TryAsMut(h, g)
       \/ CloneHandle(h, g) \/ Downgrade(h, g)
  \/ \E h \in Handle :
       \/ Upgrade(h) \/ DropHandle(h)
       \/ ~Free(h) /\ \E dyn \in Supers(handles[h].as) : IntoSuper(h, dyn)
  \/ EndOfScope \/ Forgotten

-----------------------------------------------------------------------------

\* The functions that can be called through a handle, where tderef finds them,
\* and whom they belong to.
CallableOn(r) == {m \in {[trait |-> t, fn |-> f] : t \in ToSet(r.as) \ AutoTrait, f \in UNION {ToSet(Functions(u)) : u \in Trait}} :
  m.fn \in ToSet(Functions(m.trait)) /\ (m.fn.mut => r.ptr \in IPtrMut) /\ r.ptr # "Weak"}
Called(r, m) ==
  LET trait == r.table.heads[Level(r.as, Position(r.as, m.trait))]
      n == CHOOSE i \in DOMAIN Functions(m.trait) : Functions(m.trait)[i] = m.fn
  IN [of |-> r.table.of, trait |-> trait, name |-> Functions(trait)[n].name]

\* downcast: the tables are equal if they are one and the same.
Downcasts(r, ty) == r.table = TableOf(ty, r.as)

\* What is called through a handle, also after casts and borrows, is the method
\* of the value's own type, on the value, while it lives; and a downcast finds
\* the type of the value.
CallsMethod(r, m) ==
  /\ Called(r, m) = [of |-> value.of, trait |-> m.trait, name |-> m.fn.name]
  /\ r.to = "value" /\ value.drops = << >>

\* Nobody calls anything on a value that another may change.
Exclusive(h) == \A g \in Handle \ {h} : Shareable(g) => handles[g].ptr = "Weak"

TraitCalls == \A h \in Handle : ~Free(h) =>
  /\ \A m \in CallableOn(handles[h]) : CallsMethod(handles[h], m)
  /\ \A ty \in Type : Downcasts(handles[h], ty) => ty = value.of
  /\ Unborrowed(h) /\ handles[h].ptr \in IPtrMut => Exclusive(h)

\* The value is destroyed once, as what it is, when its last owner goes.
GoesOnce ==
  IF value.kept = "local" THEN value.drops \in {<< >>, <<value.of>>}
  ELSE value # NoValue => value.drops = IF Live(Owners) = {} THEN <<value.of>> ELSE << >>
=============================================================================
