--------------------------- MODULE VtBtreeProofs ---------------------------
(***************************************************************************)
(* The roots of the registry of v-tables as a tree.  An edit compares the  *)
(* pointer with a root it holds no Arc of, so VtBtree::insert is not one   *)
(* of AtomicArc's programs; but each of its steps on the pointer and on    *)
(* the counts is one that ArcCellProofs has a lemma of.  Hence what may go *)
(* wrong when an address is handed out again is never memory safety.       *)
(*                                                                         *)
(* Where a freed address is not handed out again, the tree that an edit    *)
(* searched is still behind the pointer when its swap succeeds: a content  *)
(* gets one entry, every get finds what was swapped in, and the registry   *)
(* implements Interner.                                                    *)
(***************************************************************************)
EXTENDS VtBtree, TLAPS

Cell == INSTANCE ArcCellProofs

Label == {"idle", "load", "copy", "edit", "drop_copy", "compare_exchange", "drop_old",
          "drop_new", "get", "get_copy", "look_up", "drop_tree", "unwind", "panicked", "return"}

\* A thread has a root that it has not counted yet only until it clones it.
ReadsToCount ==
  /\ pc \in [Thread -> Label]
  /\ seen \in [Thread -> Pointer]
  /\ \A t \in Thread : pc[t] \notin {"copy", "get_copy", "drop_new"} => seen[t] = Null

\* The inductive invariant of the roots.
TreeInv == ReadsToCount /\ Cell!CellInv

\* The assumptions under which ArcCellProofs is instantiated.
LEMMA CellAssumptions ==
  /\ Cell!IsFiniteSet(Thread) /\ Cell!IsFiniteSet(Slot)
  /\ Null \notin Addr /\ Overlap \in BOOLEAN
BY PlaceAssumption, NullAssumption, OverlapAssumption DEF IsFiniteSet, Cell!IsFiniteSet

\* The registry starts with a null pointer and no root.
LEMMA InitTree == Init => TreeInv
<1> SUFFICES ASSUME Init PROVE TreeInv
  OBVIOUS
<1>1. Cell!CellInit
  BY DEF Init, RegistryInit, CellInit, Place, Cell!CellInit, Cell!Place
<1>2. Cell!CellInv
  BY <1>1, CellAssumptions, Cell!InitCell
<1> QED
  BY <1>2 DEF Init, RegistryInit, CellInit, TreeInv, ReadsToCount, Label, Pointer

\* A step that touches neither the pointer nor a count.
LEMMA QuietStep ==
  ASSUME TreeInv, UNCHANGED cellVars
  PROVE  Cell!CellInv'
BY DEF TreeInv, cellVars, Cell!CellInv, Cell!CellTypeOK, Cell!OwnedArcsAreLive,
       Cell!CountsOwners, Cell!Owners, Cell!Holders, Cell!SeenIsCurrent

\* Between reading the pointer and counting itself, no other thread moves; and
\* a thread that is not in between reads the pointer only in Load, Swap and Get.
LEMMA StepReads ==
  ASSUME TreeInv, NEW t \in Thread, Step(t)
  PROVE  ReadsToCount'
<1> USE DEF TreeInv, ReadsToCount, Goto, Label
<1>0. cell \in Pointer
  BY DEF Cell!CellInv, Cell!CellTypeOK, Cell!Pointer, Pointer
<1>1. CASE Load(t) \/ Get(t) \/ Swap(t)
  BY <1>0, <1>1 DEF Load, Get, Swap, ReadCell, Exchange, Pointer
<1>2. CASE CopyFromPtr(t) \/ GetCopy(t)
  BY <1>2 DEF CopyFromPtr, GetCopy, Increment, Pointer
<1>3. CASE DropCopy(t)
  BY <1>3 DEF DropCopy, Release
<1>4. CASE DropNew(t)
  BY <1>4 DEF DropNew, Release
<1>5. ASSUME NEW r \in Ref, Found(t, r) PROVE ReadsToCount'
  BY <1>5 DEF Found, cellVars
<1>6. ASSUME NEW r \in Ref, NEW a \in Addr, Add(t, r, a) PROVE ReadsToCount'
  BY <1>6 DEF Add, New
<1>7. CASE Return(t)
  BY <1>7 DEF Return, ReturnInsert, cellVars
<1>8. CASE LookUp(t)
  BY <1>8 DEF LookUp, Take, Panic, cellVars
<1> QED
  BY <1>1, <1>2, <1>3, <1>4, <1>5, <1>6, <1>7, <1>8 DEF Step

\* Every step on the pointer and the counts is one of the AtomicArc's.
LEMMA StepCell ==
  ASSUME TreeInv, LoadedArcsAreLive, NEW t \in Thread, Step(t)
  PROVE  Cell!CellInv'
<1> USE CellAssumptions
<1>0. Cell!CellInv /\ Cell!LoadedArcsAreLive /\ "tree" \in Slot /\ "new" \in Slot
  BY SlotAssumption DEF TreeInv, LoadedArcsAreLive, Cell!LoadedArcsAreLive
<1>1. ASSUME ReadCell(t) PROVE Cell!CellInv'
  BY <1>0, <1>1, Cell!ReadCellInv DEF ReadCell, Cell!ReadCell
<1>2. ASSUME NEW s \in Slot, Increment(t, s) PROVE Cell!CellInv'
  BY <1>0, <1>2, Cell!IncrementInv DEF Increment, Cell!Increment
<1>3. ASSUME NEW s \in Slot, Release(t, s) PROVE Cell!CellInv'
  BY <1>0, <1>3, Cell!ReleaseInv DEF Release, Cell!Release
<1>4. ASSUME NEW s \in Slot, NEW a \in Addr, New(t, s, a) PROVE Cell!CellInv'
  BY <1>0, <1>4, Cell!NewInv DEF New, Cell!New
<1>5. ASSUME NEW s \in Slot, Exchange(t, s), pc[t] = "compare_exchange"
      PROVE  Cell!CellInv'
  <2>1. Cell!Alone(t)
    BY <1>5 DEF TreeInv, ReadsToCount, Step, Quiet, Cell!Alone
  <2> QED
    BY <1>0, <1>5, <2>1, Cell!ExchangeInv DEF Exchange, Cell!Exchange
<1>6. CASE Load(t) \/ Get(t)
  BY <1>1, <1>6 DEF Load, Get
<1>7. CASE Swap(t)
  BY <1>0, <1>1, <1>5, <1>7 DEF Swap
<1>8. CASE CopyFromPtr(t) \/ GetCopy(t)
  BY <1>0, <1>2, <1>8 DEF CopyFromPtr, GetCopy
<1>9. CASE DropCopy(t) \/ DropNew(t)
  BY <1>0, <1>3, <1>9 DEF DropCopy, DropNew
<1>10. ASSUME NEW r \in Ref, NEW a \in Addr, Add(t, r, a) PROVE Cell!CellInv'
  BY <1>0, <1>4, <1>10 DEF Add
<1>11. ASSUME NEW r \in Ref, Found(t, r) PROVE Cell!CellInv'
  BY <1>11, QuietStep DEF Found
<1>12. CASE LookUp(t) \/ Return(t)
  BY <1>12, QuietStep DEF LookUp, Return
<1> QED
  BY <1>6, <1>7, <1>8, <1>9, <1>10, <1>11, <1>12 DEF Step

\* Hence the counts and the roots stay right.
LEMMA NextTree ==
  ASSUME TreeInv, LoadedArcsAreLive, [Next]_vars
  PROVE  TreeInv'
<1>1. CASE UNCHANGED vars
  BY <1>1, QuietStep DEF vars, cellVars, TreeInv, ReadsToCount, Pointer
<1>2. ASSUME NEW t \in Thread, Step(t) PROVE TreeInv'
  BY <1>2, StepReads, StepCell DEF TreeInv
<1>3. ASSUME NEW t \in Thread, NEW c \in Content, Insert(t, c) PROVE TreeInv'
  BY <1>3, QuietStep
     DEF Insert, CallInsert, Goto, Label, cellVars, TreeInv, ReadsToCount, Pointer
<1> QED
  BY <1>1, <1>2, <1>3 DEF Next

\* What a thread is about to clone is the root behind the pointer.
SeenIsInCell == \A t \in Thread : seen[t] \in {Null, cell}

\* Then it is live, as the registry owns it.
LEMMA CurrentIsLive == TreeInv /\ SeenIsInCell => LoadedArcsAreLive
BY DEF TreeInv, Cell!CellInv, Cell!OwnedArcsAreLive, SeenIsInCell, LoadedArcsAreLive

\* It is so where no thread is interrupted inside of a load.
LEMMA WholeLoads == ~Overlap /\ TreeInv => SeenIsInCell /\ LoadedArcsAreLive
BY CurrentIsLive DEF TreeInv, Cell!CellInv, Cell!SeenIsCurrent, SeenIsInCell

\* A thread has read nothing, what it had read before, or what is in the cell.
LEMMA NextSeen ==
  ASSUME TreeInv, [Next]_vars, NEW t \in Thread
  PROVE  seen'[t] \in {Null, seen[t], cell} /\ (seen'[t] \in {seen[t], Null} \/ cell' = cell)
<1>0. seen \in [Thread -> Pointer]
  BY DEF TreeInv, ReadsToCount
<1>1. CASE UNCHANGED vars
  BY <1>1 DEF vars, cellVars
<1>2. ASSUME NEW u \in Thread, NEW c \in Content, Insert(u, c) PROVE seen' = seen
  BY <1>2 DEF Insert, CallInsert, cellVars
<1>3. ASSUME NEW u \in Thread, Step(u)
      PROVE  seen' = seen \/ (cell' = cell /\ \E x \in {Null, cell} : seen' = [seen EXCEPT ![u] = x])
  BY <1>3 DEF Step, Load, Get, Swap, ReadCell, Exchange, CopyFromPtr, GetCopy, Increment, DropCopy,
              DropNew, Release, Found, Add, New, Return, ReturnInsert, LookUp, Take, Panic, cellVars
<1> QED
  BY <1>0, <1>1, <1>2, <1>3 DEF Next

\* However the edits and gets interleave, also inside of a load, and whether or
\* not the allocator hands out the address of a root that an edit still compares
\* the pointer with: no root that one of them holds or that the registry points
\* to is freed, as long as no thread is about to clone one that was; and none is,
\* if the only thing that does not come between reading the pointer and cloning
\* the root behind it (arc_btree.rs:68) is a swap that replaces the root.
THEOREM RootsAreLive ==
  /\ Spec /\ []LoadedArcsAreLive => []OwnedArcsAreLive
  /\ Spec /\ [][PointerRests]_cellVars => []LoadedArcsAreLive
<1>1. TreeInv /\ LoadedArcsAreLive /\ [Next]_vars => TreeInv'
  BY NextTree
<1>2. TreeInv => OwnedArcsAreLive
  BY DEF TreeInv, Cell!CellInv, Cell!OwnedArcsAreLive, Cell!Place, OwnedArcsAreLive, Place
<1>3. Init => SeenIsInCell
  BY DEF Init, RegistryInit, CellInit, SeenIsInCell
<1>4. TreeInv /\ SeenIsInCell /\ [Next]_vars /\ [PointerRests]_cellVars => SeenIsInCell'
  <2> SUFFICES ASSUME TreeInv, SeenIsInCell, [Next]_vars, [PointerRests]_cellVars, NEW t \in Thread
               PROVE  seen'[t] \in {Null, cell'}
    BY DEF SeenIsInCell
  <2>1. CASE seen[t] = Null
    BY <2>1, NextSeen
  <2>2. CASE seen[t] # Null
    <3>1. cell' = cell
      BY <2>2 DEF PointerRests, cellVars
    <3> QED
      BY <3>1, NextSeen DEF SeenIsInCell
  <2> QED
    BY <2>1, <2>2
<1>5. Spec /\ []LoadedArcsAreLive => []OwnedArcsAreLive
  BY <1>1, <1>2, InitTree, PTL DEF Spec
<1>6. TreeInv /\ SeenIsInCell => LoadedArcsAreLive
  BY CurrentIsLive
<1>7. Spec /\ [][PointerRests]_cellVars => []LoadedArcsAreLive
  BY <1>1, <1>3, <1>4, <1>6, InitTree, PTL DEF Spec
<1> QED
  BY <1>5, <1>7

-----------------------------------------------------------------------------
(* The entries of the registry *)

\* The types of what the registry adds to its pointer.
RegistryType ==
  /\ vtable \in [Thread -> Content \cup {Null}]
  /\ allocated_slice \in [Thread -> Ref \cup {Null}]
  /\ result \in [Thread -> Ref \cup {Null}]
  /\ slices \in [Ref -> Content \cup {Null}]
  /\ returned \subseteq Content \X Ref
  /\ current \in [Thread -> Pointer]
  /\ entries \in [Addr -> SUBSET Ref]

\* The trees that an insert holds.
CopiedTree(t) == Tree(arc[<<t, "tree">>])
NewTree(t) == Tree(arc[<<t, "new">>])

\* The root that t compares the pointer with may still be the one in it.
Kept(t) == current[t] = Null \/ memory[current[t]] = "live"

Edited == {"drop_copy", "compare_exchange"}

\* What the variables of an insert hold at each of its steps; in particular, it
\* never panics.
Held(t) ==
  /\ pc[t] \notin {"unwind", "panicked"}
  /\ vtable[t] = Null <=> pc[t] = "idle"
  /\ pc[t] = "idle" => allocated_slice[t] = Null
  /\ pc[t] \in Edited \cup Swapped => allocated_slice[t] # Null
  /\ result[t] # Null <=> pc[t] \in {"drop_tree", "return"}
  /\ pc[t] \in {"idle", "load", "return"} => arc[<<t, "tree">>] = Null
  /\ pc[t] \in {"copy", "drop_new"} => current[t] = seen[t]
  /\ pc[t] = "edit" => current[t] = arc[<<t, "tree">>]

\* A tree it holds was in the registry.  What it edited is the tree behind the
\* pointer that it compares with, unless that was freed.
Trees(t) ==
  /\ CopiedTree(t) \subseteq Current
  /\ pc[t] \in Edited /\ Kept(t) =>
       /\ Tree(current[t]) \subseteq Current
       /\ \A r \in Tree(current[t]) : slices[r] # vtable[t]
       /\ NewTree(t) = Tree(current[t]) \cup {allocated_slice[t]}
  /\ pc[t] = "look_up" => allocated_slice[t] \in CopiedTree(t)

\* Its slice is its own until it is swapped in, its result an entry.
OwnSlice(t) ==
  /\ allocated_slice[t] # Null =>
       /\ slices[allocated_slice[t]] = vtable[t]
       /\ allocated_slice[t] \in Current <=> pc[t] \in Swapped
  /\ result[t] # Null => slices[result[t]] = vtable[t] /\ result[t] \in Current

InsertInv(t) == Held(t) /\ Trees(t) /\ OwnSlice(t)

\* What is behind the pointer has a content each, and no two the same.
EntriesInv ==
  /\ \A r \in Current : slices[r] # Null
  /\ \A q, r \in Current : slices[q] = slices[r] => q = r
SlicesInv ==
  /\ \A t, u \in Thread :
       allocated_slice[t] = allocated_slice[u] /\ t # u => allocated_slice[t] = Null
  /\ \A r \in Ref : slices[r] # Null => r \in Current \/ \E t \in Thread : allocated_slice[t] = r
\* What was returned for a content is its entry.
ReturnedInv == \A p \in returned : slices[p[2]] = p[1] /\ p[2] \in Current

\* The inductive invariant of the registry.
RegistryInv ==
  /\ RegistryType
  /\ EntriesInv /\ SlicesInv /\ ReturnedInv
  /\ \A t \in Thread : InsertInv(t)

-----------------------------------------------------------------------------

\* What TreeInv says of the roots, without the names of ArcCellProofs.
CellFacts ==
  /\ cell \in Pointer
  /\ arc \in [Place -> Pointer]
  /\ seen \in [Thread -> Pointer]
  /\ memory \in [Addr -> {"live", "free"}]
  /\ pc \in [Thread -> Label]
  /\ OwnedArcsAreLive
  /\ \A t \in Thread : seen[t] \in {Null, cell}

\* They follow from it.
LEMMA TreeFacts == ~Overlap /\ TreeInv => CellFacts
BY DEF TreeInv, ReadsToCount, CellFacts, OwnedArcsAreLive, Place, Pointer, Cell!CellInv,
       Cell!CellTypeOK, Cell!OwnedArcsAreLive, Cell!SeenIsCurrent, Cell!Place, Cell!Pointer

\* A step of t, as Next has them.
Moves(t) == Step(t) \/ \E c \in Content : Insert(t, c)

\* A tree holds entries only.
LEMMA TreeType ==
  ASSUME RegistryType, NEW p \in Pointer
  PROVE  Tree(p) \subseteq Ref
BY DEF RegistryType, Tree, Pointer

\* A tree stays what it is as long as somebody owns its root.
LEMMA TreesStay ==
  ASSUME NEW t \in Thread, Moves(t), NEW p \in Pointer,
         p # Null => memory[p] = "live" /\ memory'[p] = "live"
  PROVE  Tree(p)' = Tree(p)
<1>1. CASE UNCHANGED entries
  BY <1>1 DEF Tree
<1>2. CASE DropTrees
  BY <1>2 DEF Tree, DropTrees, Pointer
<1>3. ASSUME NEW r \in Ref, NEW a \in Addr, Add(t, r, a) PROVE Tree(p)' = Tree(p)
  BY <1>3 DEF Tree, Add, New, Pointer
<1> QED
  BY <1>1, <1>2, <1>3
     DEF Moves, Insert, Step, Load, CopyFromPtr, Found, DropCopy, Swap, DropNew, Get, GetCopy,
         LookUp, Return

\* The address of a root that an edit compares the pointer with is not handed out
\* again: once freed, it stays free.
LEMMA NotReused ==
  ASSUME ~Reuse, CellFacts, NEW t \in Thread, Moves(t), NEW u \in Thread,
         current[u] \in Addr, memory'[current[u]] = "live"
  PROVE  memory[current[u]] = "live"
<1>1. CASE UNCHANGED memory
  BY <1>1
<1>2. ASSUME NEW s \in Slot, Release(t, s) PROVE memory[current[u]] = "live"
  BY <1>2 DEF Release, CellFacts
<1>3. ASSUME NEW r \in Ref, NEW a \in Addr, Add(t, r, a) PROVE memory[current[u]] = "live"
  BY <1>3 DEF Add, New, CellFacts
<1> QED
  BY <1>1, <1>2, <1>3, SlotAssumption
     DEF Moves, Insert, Step, Load, CopyFromPtr, Increment, Found, DropCopy, Swap, Exchange, ReadCell,
         DropNew, Get, GetCopy, LookUp, Return, cellVars

\* So does the tree of a root that moves from one owner to another.
LEMMA OwnedTreeStays ==
  ASSUME CellFacts, CellFacts', NEW t \in Thread, Moves(t), NEW p \in Pointer,
         p = cell \/ \E o \in Place : arc[o] = p, p = cell' \/ \E o \in Place : arc'[o] = p
  PROVE  Tree(p)' = Tree(p)
<1>1. p # Null => memory[p] = "live" /\ memory'[p] = "live"
  BY DEF CellFacts, OwnedArcsAreLive
<1> QED
  BY <1>1, TreesStay

\* The entries of the registry stay what they are as long as its pointer does.
LEMMA CurrentStays ==
  ASSUME CellFacts, CellFacts', NEW t \in Thread, Moves(t), cell' = cell
  PROVE  Current' = Current
<1>1. ASSUME NEW q \in Pointer, q = cell PROVE Tree(q)' = Tree(q)
  BY <1>1, OwnedTreeStays
<1> QED
  BY <1>1 DEF CellFacts, Current, Tree

\* A tree in a slot that a step leaves alone stays what it is.
LEMMA SlotTreeStays ==
  ASSUME CellFacts, CellFacts', NEW t \in Thread, Moves(t), NEW u \in Thread, NEW s \in Slot,
         arc'[<<u, s>>] = arc[<<u, s>>]
  PROVE  Tree(arc[<<u, s>>])' = Tree(arc[<<u, s>>])
<1>1. arc[<<u, s>>] \in Pointer /\ <<u, s>> \in Place
  BY DEF CellFacts, Place
<1>2. ASSUME NEW q \in Pointer, q = arc[<<u, s>>] PROVE Tree(q)' = Tree(q)
  BY <1>1, <1>2, OwnedTreeStays
<1> QED
  BY <1>1, <1>2 DEF Tree

\* The tree that an edit compares with is what it was, if it still is.
LEMMA KeptTreeStays ==
  ASSUME ~Reuse, RegistryType, CellFacts, NEW t \in Thread, Moves(t), NEW u \in Thread,
         current'[u] = current[u], Kept(u)'
  PROVE  Kept(u) /\ Tree(current[u])' = Tree(current[u])
<1>1. current[u] \in Pointer
  BY DEF RegistryType
<1>2. current[u] # Null => memory'[current[u]] = "live" /\ memory[current[u]] = "live"
  BY <1>1, NotReused DEF Kept, Pointer
<1>3. ASSUME NEW q \in Pointer, q = current[u] PROVE Tree(q)' = Tree(q)
  BY <1>2, <1>3, TreesStay
<1> QED
  BY <1>1, <1>2, <1>3 DEF Kept, Tree

\* The registry starts with no entry.
LEMMA InitInv == Init => RegistryInv
<1> SUFFICES ASSUME Init PROVE RegistryInv
  OBVIOUS
<1> USE DEF Init, RegistryInit, CellInit
<1>1. RegistryType
  BY DEF RegistryType, Pointer
<1>2. Current = {} /\ \A t \in Thread : CopiedTree(t) = {}
  BY SlotAssumption DEF Current, Tree, CopiedTree, Place
<1>3. EntriesInv /\ SlicesInv /\ ReturnedInv
  BY <1>2 DEF EntriesInv, SlicesInv, ReturnedInv
<1>4. ASSUME NEW t \in Thread PROVE InsertInv(t)
  BY <1>2, SlotAssumption DEF InsertInv, Held, Trees, OwnSlice, Edited, Swapped, Place
<1> QED
  BY <1>1, <1>3, <1>4 DEF RegistryInv

\* A step that does not concern insert u.
SameFor(u) ==
  /\ pc'[u] = pc[u] /\ vtable'[u] = vtable[u] /\ allocated_slice'[u] = allocated_slice[u]
  /\ result'[u] = result[u] /\ current'[u] = current[u] /\ seen'[u] = seen[u]
  /\ \A s \in Slot : arc'[<<u, s>>] = arc[<<u, s>>]

\* What holds of the inserts of the other threads goes on to hold if the tree in
\* the registry only grows and their slices are left alone.
LEMMA OtherInsert ==
  ASSUME ~Reuse, RegistryInv, CellFacts, CellFacts', NEW t \in Thread, Moves(t),
         NEW u \in Thread, SameFor(u), Current \subseteq Current',
         \A r \in Current : slices'[r] = slices[r],
         allocated_slice[u] # Null =>
           /\ slices'[allocated_slice[u]] = slices[allocated_slice[u]]
           /\ allocated_slice[u] \in Current' => allocated_slice[u] \in Current
  PROVE  InsertInv(u)'
<1> USE DEF SameFor
<1>0. InsertInv(u) /\ RegistryType
  BY DEF RegistryInv
<1>1. CopiedTree(u)' = CopiedTree(u) /\ NewTree(u)' = NewTree(u)
  BY SlotAssumption, SlotTreeStays DEF CopiedTree, NewTree
<1>2. Held(u)'
  BY <1>0, SlotAssumption DEF InsertInv, Held
<1>3. Trees(u)'
  <2>1. CopiedTree(u)' \subseteq Current'
    BY <1>0, <1>1 DEF InsertInv, Trees
  <2>2. ASSUME pc[u] \in Edited, Kept(u)'
        PROVE  /\ Tree(current[u])' \subseteq Current'
               /\ \A r \in Tree(current[u])' : slices'[r] # vtable'[u]
               /\ NewTree(u)' = Tree(current[u])' \cup {allocated_slice'[u]}
    <3>1. Kept(u) /\ Tree(current[u])' = Tree(current[u])
      BY <1>0, <2>2, KeptTreeStays
    <3>2. /\ Tree(current[u]) \subseteq Current
          /\ \A r \in Tree(current[u]) : slices[r] # vtable[u]
          /\ NewTree(u) = Tree(current[u]) \cup {allocated_slice[u]}
      BY <1>0, <2>2, <3>1 DEF InsertInv, Trees
    <3> QED
      BY <1>1, <3>1, <3>2
  <2>3. pc'[u] = "look_up" => allocated_slice'[u] \in CopiedTree(u)'
    BY <1>0, <1>1 DEF InsertInv, Trees
  <2> QED
    BY <2>1, <2>2, <2>3 DEF Trees
<1>4. OwnSlice(u)'
  BY <1>0 DEF InsertInv, OwnSlice
<1> QED
  BY <1>2, <1>3, <1>4 DEF InsertInv

\* A step that leaves the pointer and all slices alone is a matter of the insert
\* that takes it.
LEMMA LocalStep ==
  ASSUME ~Reuse, RegistryInv, CellFacts, CellFacts', NEW t \in Thread, Moves(t),
         \A u \in Thread \ {t} : SameFor(u),
         cell' = cell, UNCHANGED <<slices, returned, allocated_slice>>,
         RegistryType', Current' = Current => InsertInv(t)'
  PROVE  RegistryInv'
<1>1. Current' = Current
  BY CurrentStays
<1>2. EntriesInv' /\ SlicesInv' /\ ReturnedInv'
  BY <1>1 DEF RegistryInv, EntriesInv, SlicesInv, ReturnedInv
<1>3. ASSUME NEW u \in Thread \ {t} PROVE InsertInv(u)'
  BY <1>1, OtherInsert
<1> QED
  BY <1>1, <1>2, <1>3 DEF RegistryInv

\* What is loaded is compared with nothing yet.
LEMMA LoadInv ==
  ASSUME ~Reuse, RegistryInv, CellFacts, CellFacts', NEW t \in Thread, Moves(t), Load(t)
  PROVE  RegistryInv'
<1> USE DEF Load, ReadCell, Goto, registryVars
<1>0. /\ pc[t] = "load" /\ pc'[t] = (IF cell = Null THEN "edit" ELSE "copy")
      /\ current'[t] = cell /\ seen'[t] = cell /\ arc' = arc /\ InsertInv(t)
  BY DEF RegistryInv, RegistryType, CellFacts
<1>1. RegistryType'
  BY DEF RegistryInv, RegistryType, CellFacts
<1>2. \A u \in Thread \ {t} : SameFor(u)
  BY DEF SameFor, CellFacts, RegistryInv, RegistryType
<1>3. ASSUME Current' = Current PROVE InsertInv(t)'
  <2>1. CopiedTree(t)' = CopiedTree(t)
    BY <1>0, SlotTreeStays, SlotAssumption DEF CopiedTree
  <2>2. Held(t)'
    BY <1>0 DEF InsertInv, Held, Edited, Swapped
  <2>3. Trees(t)'
    BY <1>0, <2>1, <1>3 DEF InsertInv, Trees, Edited
  <2>4. OwnSlice(t)'
    BY <1>0, <1>3 DEF InsertInv, OwnSlice, Swapped
  <2> QED
    BY <2>2, <2>3, <2>4 DEF InsertInv
<1> QED
  BY <1>1, <1>2, <1>3, LocalStep

\* The tree that is cloned is the registry's own.
LEMMA CopyInv ==
  ASSUME ~Reuse, RegistryInv, CellFacts, CellFacts', NEW t \in Thread, Moves(t), CopyFromPtr(t)
  PROVE  RegistryInv'
<1> USE DEF CopyFromPtr, Increment, Goto, registryVars
<1>0. /\ pc[t] = "copy" /\ pc'[t] = "edit" /\ InsertInv(t)
      /\ current[t] = cell /\ seen[t] = cell /\ arc'[<<t, "tree">>] = cell
  BY SlotAssumption DEF RegistryInv, InsertInv, Held, CellFacts, Place
<1>1. RegistryType'
  BY DEF RegistryInv, RegistryType
<1>2. \A u \in Thread \ {t} : SameFor(u)
  BY DEF SameFor, CellFacts, Place
<1>3. ASSUME Current' = Current PROVE InsertInv(t)'
  <2>1. CopiedTree(t)' = Current
    BY <1>0, <1>3 DEF CopiedTree, Current, Tree
  <2>2. Held(t)'
    BY <1>0 DEF InsertInv, Held, Edited, Swapped
  <2>3. Trees(t)'
    BY <1>0, <2>1, <1>3 DEF Trees, Edited
  <2>4. OwnSlice(t)'
    BY <1>0, <1>3 DEF InsertInv, OwnSlice, Swapped
  <2> QED
    BY <2>2, <2>3, <2>4 DEF InsertInv
<1> QED
  BY <1>1, <1>2, <1>3, LocalStep

\* The entry that is found is in the tree that was cloned, hence in the registry.
LEMMA FoundInv ==
  ASSUME ~Reuse, RegistryInv, CellFacts, CellFacts', NEW t \in Thread, Moves(t),
         NEW r \in Ref, Found(t, r)
  PROVE  RegistryInv'
<1> USE DEF Found, Goto, cellVars
<1>0. /\ pc[t] = "edit" /\ pc'[t] = "drop_tree" /\ InsertInv(t) /\ result'[t] = r /\ r # Null
      /\ r \in Current /\ slices[r] = vtable[t]
  BY ContentAssumption
     DEF RegistryInv, RegistryType, CellFacts, Matches, InsertInv, Trees, CopiedTree, Copied
<1>1. RegistryType'
  BY DEF RegistryInv, RegistryType, Pointer
<1>2. \A u \in Thread \ {t} : SameFor(u)
  BY DEF SameFor, CellFacts, RegistryInv, RegistryType
<1>3. ASSUME Current' = Current PROVE InsertInv(t)'
  <2>1. CopiedTree(t)' = CopiedTree(t)
    BY SlotTreeStays, SlotAssumption DEF CopiedTree
  <2>2. Held(t)'
    BY <1>0 DEF InsertInv, Held, Edited, Swapped
  <2>3. Trees(t)'
    BY <1>0, <2>1, <1>3 DEF InsertInv, Trees, Edited
  <2>4. OwnSlice(t)'
    BY <1>0, <1>3 DEF InsertInv, OwnSlice, Swapped
  <2> QED
    BY <2>2, <2>3, <2>4 DEF InsertInv
<1> QED
  BY <1>1, <1>2, <1>3, LocalStep

\* The tree that is dropped is one that the edit or the get has no use for.
LEMMA DropCopyInv ==
  ASSUME ~Reuse, RegistryInv, CellFacts, CellFacts', NEW t \in Thread, Moves(t), DropCopy(t)
  PROVE  RegistryInv'
<1> USE DEF DropCopy, Release, Goto, registryVars
<1>0. /\ \/ pc[t] = "drop_copy" /\ pc'[t] = "compare_exchange"
         \/ pc[t] = "drop_tree" /\ pc'[t] = "return"
      /\ InsertInv(t) /\ RegistryType
  BY DEF RegistryInv, InsertInv, Held, CellFacts
<1>1. RegistryType'
  BY <1>0 DEF RegistryType, DropTrees
<1>2. \A u \in Thread \ {t} : SameFor(u)
  BY DEF SameFor, CellFacts, Place
<1>3. ASSUME Current' = Current PROVE InsertInv(t)'
  <2>0. arc'[<<t, "tree">>] = Null /\ arc'[<<t, "new">>] = arc[<<t, "new">>] /\ seen'[t] = seen[t]
    BY SlotAssumption DEF CellFacts, Place
  <2>1. CopiedTree(t)' = {} /\ NewTree(t)' = NewTree(t)
    BY <2>0, SlotTreeStays, SlotAssumption DEF CopiedTree, NewTree, Tree
  <2>2. Held(t)'
    BY <1>0, <2>0 DEF InsertInv, Held, Edited, Swapped
  <2>3. Trees(t)'
    <3>1. ASSUME pc'[t] = "compare_exchange", Kept(t)'
          PROVE  /\ Tree(current[t])' \subseteq Current'
                 /\ \A r \in Tree(current[t])' : slices'[r] # vtable'[t]
                 /\ NewTree(t)' = Tree(current[t])' \cup {allocated_slice'[t]}
      <4>1. Kept(t) /\ Tree(current[t])' = Tree(current[t])
        BY <1>0, <3>1, KeptTreeStays
      <4>2. pc[t] \in Edited
        BY <1>0, <3>1 DEF Edited
      <4> QED
        BY <1>0, <1>3, <2>1, <4>1, <4>2 DEF InsertInv, Trees
    <3> QED
      BY <1>0, <2>1, <3>1 DEF Trees, Edited
  <2>4. OwnSlice(t)'
    BY <1>0, <1>3 DEF InsertInv, OwnSlice, Swapped
  <2> QED
    BY <2>2, <2>3, <2>4 DEF InsertInv
<1> QED
  BY <1>1, <1>2, <1>3, LocalStep

\* A swap that fails loads another root, to be cloned and searched anew.
LEMMA SwapFailsInv ==
  ASSUME ~Reuse, RegistryInv, CellFacts, CellFacts', NEW t \in Thread, Moves(t),
         Swap(t), cell # current[t]
  PROVE  RegistryInv'
<1> USE DEF Swap, ReadCell, Goto, registryVars
<1>0. /\ pc[t] = "compare_exchange" /\ pc'[t] = "drop_new" /\ InsertInv(t) /\ RegistryType
      /\ current'[t] = cell /\ seen'[t] = cell /\ arc' = arc
  BY DEF RegistryInv, RegistryType, CellFacts
<1>1. RegistryType'
  BY <1>0 DEF RegistryType, CellFacts
<1>2. \A u \in Thread \ {t} : SameFor(u)
  BY <1>0 DEF SameFor, CellFacts, RegistryType
<1>3. ASSUME Current' = Current PROVE InsertInv(t)'
  <2>1. CopiedTree(t)' = CopiedTree(t)
    BY <1>0, SlotTreeStays, SlotAssumption DEF CopiedTree
  <2>2. Held(t)'
    BY <1>0 DEF InsertInv, Held, Edited, Swapped
  <2>3. Trees(t)'
    BY <1>0, <2>1, <1>3 DEF InsertInv, Trees, Edited
  <2>4. OwnSlice(t)'
    BY <1>0, <1>3 DEF InsertInv, OwnSlice, Swapped
  <2> QED
    BY <2>2, <2>3, <2>4 DEF InsertInv
<1> QED
  BY <1>1, <1>2, <1>3, LocalStep

\* The tree that was not swapped in is dropped; the slice stays the insert's own.
LEMMA DropNewInv ==
  ASSUME ~Reuse, RegistryInv, CellFacts, CellFacts', NEW t \in Thread, Moves(t), DropNew(t)
  PROVE  RegistryInv'
<1> USE DEF DropNew, Release, Goto, registryVars
<1>0. /\ \/ pc[t] = "drop_old" /\ pc'[t] = "get"
         \/ pc[t] = "drop_new" /\ pc'[t] = "copy"
      /\ InsertInv(t) /\ RegistryType
  BY DEF RegistryInv, CellFacts
<1>1. RegistryType'
  BY <1>0 DEF RegistryType, DropTrees
<1>2. \A u \in Thread \ {t} : SameFor(u)
  BY DEF SameFor, CellFacts, Place
<1>3. ASSUME Current' = Current PROVE InsertInv(t)'
  <2>0. arc'[<<t, "tree">>] = arc[<<t, "tree">>] /\ seen'[t] = seen[t] /\ current'[t] = current[t]
    BY SlotAssumption DEF CellFacts, Place
  <2>1. CopiedTree(t)' = CopiedTree(t)
    BY <2>0, SlotTreeStays, SlotAssumption DEF CopiedTree
  <2>2. Held(t)'
    BY <1>0, <2>0 DEF InsertInv, Held, Edited, Swapped
  <2>3. Trees(t)'
    BY <1>0, <2>1, <1>3 DEF InsertInv, Trees, Edited
  <2>4. OwnSlice(t)'
    BY <1>0, <1>3 DEF InsertInv, OwnSlice, Swapped
  <2> QED
    BY <2>2, <2>3, <2>4 DEF InsertInv
<1> QED
  BY <1>1, <1>2, <1>3, LocalStep

\* The entry is in the registry, which is therefore not empty.
LEMMA GetInv ==
  ASSUME ~Reuse, RegistryInv, CellFacts, CellFacts', NEW t \in Thread, Moves(t), Get(t)
  PROVE  RegistryInv'
<1> USE DEF Get, ReadCell, Goto, registryVars
<1>a. pc[t] = "get" /\ InsertInv(t) /\ RegistryType
  BY DEF RegistryInv
<1>b. allocated_slice[t] \in Current
  BY <1>a DEF InsertInv, Held, OwnSlice, Swapped
<1>c. cell # Null
  BY <1>b DEF Current, Tree
<1>0. pc'[t] = "get_copy" /\ arc' = arc
  BY <1>c DEF CellFacts
<1>1. RegistryType'
  BY <1>a DEF RegistryType
<1>2. \A u \in Thread \ {t} : SameFor(u)
  BY DEF SameFor, CellFacts
<1>3. ASSUME Current' = Current PROVE InsertInv(t)'
  <2>1. CopiedTree(t)' = CopiedTree(t)
    BY <1>0, SlotTreeStays, SlotAssumption DEF CopiedTree
  <2>2. Held(t)'
    BY <1>0, <1>a DEF InsertInv, Held, Edited, Swapped
  <2>3. Trees(t)'
    BY <1>0, <1>a, <2>1, <1>3 DEF InsertInv, Trees, Edited
  <2>4. OwnSlice(t)'
    BY <1>0, <1>a, <1>3 DEF InsertInv, OwnSlice, Swapped
  <2> QED
    BY <2>2, <2>3, <2>4 DEF InsertInv
<1> QED
  BY <1>1, <1>2, <1>3, LocalStep

\* The tree that get clones still has the slice that was swapped in.
LEMMA GetCopyInv ==
  ASSUME ~Reuse, RegistryInv, CellFacts, CellFacts', NEW t \in Thread, Moves(t), GetCopy(t)
  PROVE  RegistryInv'
<1> USE DEF GetCopy, Increment, Goto, registryVars
<1>0. /\ pc[t] = "get_copy" /\ pc'[t] = "look_up" /\ InsertInv(t)
      /\ arc'[<<t, "tree">>] = cell
  BY SlotAssumption DEF RegistryInv, CellFacts, Place
<1>1. RegistryType'
  BY DEF RegistryInv, RegistryType
<1>2. \A u \in Thread \ {t} : SameFor(u)
  BY DEF SameFor, CellFacts, Place
<1>3. ASSUME Current' = Current PROVE InsertInv(t)'
  <2>1. CopiedTree(t)' = Current
    BY <1>0, <1>3 DEF CopiedTree, Current, Tree
  <2>2. Held(t)'
    BY <1>0 DEF InsertInv, Held, Edited, Swapped
  <2>3. Trees(t)'
    BY <1>0, <2>1, <1>3 DEF InsertInv, Held, OwnSlice, Trees, Edited, Swapped
  <2>4. OwnSlice(t)'
    BY <1>0, <1>3 DEF InsertInv, OwnSlice, Swapped
  <2> QED
    BY <2>2, <2>3, <2>4 DEF InsertInv
<1> QED
  BY <1>1, <1>2, <1>3, LocalStep

\* A call starts with nothing in its variables.
LEMMA CallInv ==
  ASSUME ~Reuse, RegistryInv, CellFacts, CellFacts', NEW t \in Thread, Moves(t),
         NEW c \in Content, Insert(t, c)
  PROVE  RegistryInv'
<1> USE DEF Insert, CallInsert, Goto, cellVars
<1>0. pc[t] = "idle" /\ pc'[t] = "load" /\ InsertInv(t) /\ vtable'[t] = c /\ c # Null
  BY ContentAssumption DEF RegistryInv, RegistryType, CellFacts
<1>1. RegistryType'
  BY DEF RegistryInv, RegistryType
<1>2. \A u \in Thread \ {t} : SameFor(u)
  BY DEF SameFor, CellFacts, RegistryInv, RegistryType
<1>3. ASSUME Current' = Current PROVE InsertInv(t)'
  <2>1. CopiedTree(t)' = CopiedTree(t)
    BY SlotTreeStays, SlotAssumption DEF CopiedTree
  <2>2. Held(t)'
    BY <1>0 DEF InsertInv, Held, Edited, Swapped
  <2>3. Trees(t)'
    BY <1>0, <2>1, <1>3 DEF InsertInv, Trees, Edited
  <2>4. OwnSlice(t)'
    BY <1>0 DEF InsertInv, Held, OwnSlice
  <2> QED
    BY <2>2, <2>3, <2>4 DEF InsertInv
<1> QED
  BY <1>1, <1>2, <1>3, LocalStep

\* The slice that an edit allocates, if there is none yet, is nobody else's.
LEMMA OwnSliceIsNew ==
  ASSUME RegistryInv, NEW t \in Thread, pc[t] = "edit", NEW r \in Ref, NeedSlice(t, r)
  PROVE  /\ r # Null /\ r \notin Current /\ vtable[t] # Null
         /\ allocated_slice' = [allocated_slice EXCEPT ![t] = r]
         /\ slices' = [slices EXCEPT ![r] = vtable[t]]
         /\ \A u \in Thread \ {t} : allocated_slice[u] # r
         /\ allocated_slice[t] # Null => allocated_slice[t] = r
         /\ slices[r] # Null => slices'[r] = slices[r]
<1>0. InsertInv(t) /\ RegistryType /\ r # Null /\ vtable[t] # Null
  BY ContentAssumption DEF RegistryInv, InsertInv, Held
<1>1. CASE allocated_slice[t] = Null
  <2>1. slices[r] = Null /\ slices' = [slices EXCEPT ![r] = vtable[t]]
        /\ allocated_slice' = [allocated_slice EXCEPT ![t] = r]
    BY <1>1 DEF NeedSlice
  <2>2. r \notin Current
    BY <2>1 DEF RegistryInv, EntriesInv
  <2>3. \A u \in Thread : allocated_slice[u] # r
    BY <1>0, <2>1, ContentAssumption DEF RegistryInv, InsertInv, OwnSlice, Held, RegistryType
  <2> QED
    BY <1>0, <1>1, <2>1, <2>2, <2>3
<1>2. CASE allocated_slice[t] # Null
  <2>1. r = allocated_slice[t] /\ UNCHANGED <<slices, allocated_slice>>
    BY <1>2 DEF NeedSlice
  <2>2. slices[r] = vtable[t] /\ r \notin Current
    BY <1>0, <1>2, <2>1 DEF InsertInv, OwnSlice, Swapped
  <2>3. slices' = [slices EXCEPT ![r] = vtable[t]] /\ allocated_slice' = [allocated_slice EXCEPT ![t] = r]
    BY <1>0, <2>1, <2>2 DEF RegistryType
  <2>4. \A u \in Thread \ {t} : allocated_slice[u] # r
    BY <1>2, <2>1 DEF RegistryInv, SlicesInv
  <2> QED
    BY <1>0, <1>2, <2>1, <2>2, <2>3, <2>4
<1> QED
  BY <1>1, <1>2

\* The new tree is the one that was searched and the insert's own slice.
LEMMA AddInv ==
  ASSUME ~Reuse, RegistryInv, CellFacts, CellFacts', NEW t \in Thread, Moves(t),
         NEW r \in Ref, NEW a \in Addr, Add(t, r, a)
  PROVE  RegistryInv'
<1> DEFINE T == Tree(arc[<<t, "tree">>])
<1>0. /\ pc[t] = "edit" /\ pc'[t] \in Edited /\ InsertInv(t) /\ RegistryType
      /\ NeedSlice(t, r) /\ New(t, "new", a)
      /\ entries' = [entries EXCEPT ![a] = T \cup {r}]
      /\ \A q \in T : slices[q] # vtable[t]
      /\ UNCHANGED <<vtable, result, returned, current>>
      /\ \A u \in Thread \ {t} : pc'[u] = pc[u]
  BY DEF RegistryInv, CellFacts, Add, Goto, Edited, Matches, Copied
<1>n. /\ arc' = [arc EXCEPT ![<<t, "new">>] = a] /\ memory[a] = "free" /\ UNCHANGED <<cell, seen>>
      /\ arc' \in [Place -> Pointer]
  BY <1>0 DEF New, CellFacts
<1>1. /\ r # Null /\ r \notin Current /\ vtable[t] # Null
      /\ allocated_slice' = [allocated_slice EXCEPT ![t] = r]
      /\ slices' = [slices EXCEPT ![r] = vtable[t]]
      /\ \A u \in Thread \ {t} : allocated_slice[u] # r
      /\ allocated_slice[t] # Null => allocated_slice[t] = r
      /\ slices[r] # Null => slices'[r] = slices[r]
  BY <1>0, OwnSliceIsNew
<1>p. /\ allocated_slice'[t] = r /\ slices'[r] = vtable[t]
      /\ \A u \in Thread \ {t} : allocated_slice'[u] = allocated_slice[u]
      /\ \A q \in Ref \ {r} : slices'[q] = slices[q]
  BY <1>0, <1>1 DEF RegistryType
<1>c. Current' = Current /\ Current \subseteq Ref
  BY <1>0, <1>n, CurrentStays, TreeType DEF CellFacts, Current
<1>t. T \subseteq Current
  BY <1>0 DEF InsertInv, Trees, CopiedTree
<1>2. RegistryType'
  <2>1. T \cup {r} \in SUBSET Ref
    BY <1>c, <1>t
  <2> HIDE DEF T
  <2> QED
    BY <1>0, <1>1, <2>1 DEF RegistryType
<1>3. \A q \in Current : slices'[q] = slices[q]
  BY <1>1, <1>p, <1>c
<1>4. EntriesInv'
  BY <1>c, <1>3 DEF RegistryInv, EntriesInv
<1>5. SlicesInv'
  <2>1. ASSUME NEW u \in Thread, NEW v \in Thread,
               allocated_slice'[u] = allocated_slice'[v], u # v
        PROVE  allocated_slice'[u] = Null
    BY <1>1, <1>p, <2>1 DEF RegistryInv, SlicesInv
  <2>2. ASSUME NEW q \in Ref, slices'[q] # Null
        PROVE  q \in Current' \/ \E u \in Thread : allocated_slice'[u] = q
    <3>1. CASE q = r
      BY <1>p, <3>1
    <3>2. CASE q # r
      <4>1. slices[q] # Null
        BY <1>p, <2>2, <3>2
      <4>2. ASSUME NEW u \in Thread, allocated_slice[u] = q PROVE allocated_slice'[u] = q
        BY <1>1, <1>p, <3>2, <4>2, ContentAssumption
      <4> QED
        BY <1>c, <4>1, <4>2 DEF RegistryInv, SlicesInv
    <3> QED
      BY <3>1, <3>2
  <2> QED
    BY <2>1, <2>2 DEF SlicesInv
<1>6. ReturnedInv'
  BY <1>0, <1>c, <1>3 DEF RegistryInv, ReturnedInv
<1>7. ASSUME NEW u \in Thread \ {t} PROVE InsertInv(u)'
  <2>1. SameFor(u)
    BY <1>0, <1>n, <1>p DEF SameFor, CellFacts, Place
  <2>2. allocated_slice[u] # Null => slices'[allocated_slice[u]] = slices[allocated_slice[u]]
    BY <1>0, <1>1, <1>p DEF RegistryType
  <2> QED
    BY <1>c, <1>3, <2>1, <2>2, OtherInsert
<1>8. InsertInv(t)'
  <2>0. /\ arc'[<<t, "tree">>] = arc[<<t, "tree">>] /\ arc'[<<t, "new">>] = a
        /\ arc[<<t, "tree">>] \in Pointer /\ current[t] = arc[<<t, "tree">>]
    BY <1>0, <1>n, SlotAssumption DEF CellFacts, Place, InsertInv, Held
  <2>1. CopiedTree(t)' = T
    BY <2>0, SlotTreeStays, SlotAssumption DEF CopiedTree
  <2>2. Tree(current[t])' = T
    BY <1>0, <2>0, <2>1 DEF CopiedTree
  <2>3. NewTree(t)' = T \cup {r}
    <3> HIDE DEF T
    <3> QED
      BY <1>0, <2>0, NullAssumption DEF NewTree, Tree, RegistryType
  <2>4. Held(t)'
    BY <1>0, <1>1, <1>p, <2>0 DEF InsertInv, Held, Edited, Swapped
  <2>5. \A q \in T : slices'[q] # vtable'[t]
    BY <1>0, <1>t, <1>3
  <2>6. Trees(t)'
    <3> HIDE DEF T
    <3> QED
      BY <1>0, <1>t, <1>c, <1>p, <2>1, <2>2, <2>3, <2>5 DEF Trees, Edited
  <2>7. OwnSlice(t)'
    BY <1>0, <1>1, <1>p, <1>c DEF InsertInv, Held, OwnSlice, Edited, Swapped
  <2> QED
    BY <2>4, <2>6, <2>7 DEF InsertInv
<1> QED
  BY <1>2, <1>4, <1>5, <1>6, <1>7, <1>8 DEF RegistryInv

\* What a swap that succeeds does to the tree and the slices: the root that the
\* pointer is compared with is the one that was edited.
LEMMA SwapGrows ==
  ASSUME RegistryInv, CellFacts, NEW t \in Thread, Swap(t), cell = current[t]
  PROVE  /\ Current' = Current \cup {allocated_slice[t]} /\ Current \subseteq Ref
         /\ allocated_slice[t] \in Ref /\ allocated_slice[t] \notin Current
         /\ slices[allocated_slice[t]] = vtable[t] /\ vtable[t] \in Content
         /\ \A r \in Current : slices[r] # vtable[t]
         /\ arc' = [arc EXCEPT ![<<t, "new">>] = cell]
<1> USE DEF Swap, Exchange, Goto
<1>0. pc[t] = "compare_exchange" /\ InsertInv(t) /\ RegistryType
  BY DEF RegistryInv
<1>1. Current = Tree(current[t]) /\ Current \subseteq Ref /\ Kept(t)
  BY <1>0, TreeType DEF Current, CellFacts, Kept, OwnedArcsAreLive
<1>2. allocated_slice[t] \in Ref /\ allocated_slice[t] \notin Current /\ slices[allocated_slice[t]] = vtable[t]
  BY <1>0 DEF RegistryType, InsertInv, Held, OwnSlice, Edited, Swapped
<1>3. vtable[t] \in Content
  BY <1>0 DEF RegistryType, InsertInv, Held
<1>4. cell' = arc[<<t, "new">>] /\ entries' = entries /\ arc' = [arc EXCEPT ![<<t, "new">>] = cell]
  OBVIOUS
<1>5. Current' = NewTree(t)
  BY <1>4 DEF Current, NewTree, Tree
<1>6. NewTree(t) = Current \cup {allocated_slice[t]} /\ \A r \in Current : slices[r] # vtable[t]
  BY <1>0, <1>1 DEF InsertInv, Trees, Edited
<1> QED
  BY <1>1, <1>2, <1>3, <1>4, <1>5, <1>6

\* A swap that succeeds makes the slice of the insert an entry.
LEMMA SwapWinsInv ==
  ASSUME ~Reuse, RegistryInv, CellFacts, CellFacts', NEW t \in Thread, Moves(t),
         Swap(t), cell = current[t]
  PROVE  RegistryInv'
<1>0. /\ pc[t] = "compare_exchange" /\ pc'[t] \in {"get", "drop_old"} /\ InsertInv(t) /\ RegistryType
      /\ current' = [current EXCEPT ![t] = Null]
      /\ \A u \in Thread \ {t} : pc'[u] = pc[u]
      /\ UNCHANGED <<vtable, allocated_slice, result, slices, returned, entries, seen>>
  BY DEF RegistryInv, CellFacts, Swap, Exchange, Goto, registryVars
<1>g. /\ Current' = Current \cup {allocated_slice[t]} /\ Current \subseteq Ref
      /\ allocated_slice[t] \in Ref /\ allocated_slice[t] \notin Current
      /\ slices[allocated_slice[t]] = vtable[t] /\ vtable[t] \in Content
      /\ \A r \in Current : slices[r] # vtable[t]
      /\ arc' = [arc EXCEPT ![<<t, "new">>] = cell]
      /\ allocated_slice[t] # Null /\ vtable[t] # Null
  BY SwapGrows, ContentAssumption
<1>1. RegistryType'
  BY <1>0 DEF RegistryType, Pointer
<1>2. EntriesInv'
  BY <1>0, <1>g DEF RegistryInv, EntriesInv
<1>3. SlicesInv'
  BY <1>0, <1>g DEF RegistryInv, SlicesInv
<1>4. ReturnedInv'
  BY <1>0, <1>g DEF RegistryInv, ReturnedInv
<1>5. ASSUME NEW u \in Thread \ {t} PROVE InsertInv(u)'
  <2>1. SameFor(u)
    BY <1>0, <1>g DEF SameFor, CellFacts, Place, RegistryType
  <2>2. allocated_slice[u] # Null => allocated_slice[u] # allocated_slice[t]
    BY <1>g DEF RegistryInv, SlicesInv
  <2> QED
    BY <1>0, <1>g, <2>1, <2>2, OtherInsert
<1>6. InsertInv(t)'
  <2>0. arc'[<<t, "tree">>] = arc[<<t, "tree">>]
    BY <1>g, SlotAssumption DEF CellFacts, Place
  <2>1. CopiedTree(t)' = CopiedTree(t)
    BY <2>0, SlotTreeStays, SlotAssumption DEF CopiedTree
  <2>2. Held(t)'
    BY <1>0, <1>g, <2>0 DEF InsertInv, Held, Edited, Swapped
  <2>3. Trees(t)'
    BY <1>0, <1>g, <2>1 DEF InsertInv, Trees, Edited
  <2>4. OwnSlice(t)'
    BY <1>0, <1>g DEF InsertInv, Held, OwnSlice, Swapped
  <2> QED
    BY <2>2, <2>3, <2>4 DEF InsertInv
<1> QED
  BY <1>1, <1>2, <1>3, <1>4, <1>5, <1>6 DEF RegistryInv

\* get finds the slice that edit swapped in, and nothing else.
LEMMA LookUpFinds ==
  ASSUME RegistryInv, NEW t \in Thread, pc[t] = "look_up"
  PROVE  Matches(t) = {allocated_slice[t]} /\ allocated_slice[t] \in Current
<1>0. InsertInv(t)
  BY DEF RegistryInv
<1>1. /\ allocated_slice[t] \in CopiedTree(t) /\ CopiedTree(t) \subseteq Current
      /\ slices[allocated_slice[t]] = vtable[t]
  BY <1>0 DEF InsertInv, Trees, Held, OwnSlice, Swapped
<1>2. \A r \in CopiedTree(t) : slices[r] = vtable[t] <=> r = allocated_slice[t]
  BY <1>1 DEF RegistryInv, EntriesInv
<1> QED
  BY <1>1, <1>2 DEF Matches, Copied, CopiedTree

\* The slice is forgotten by the insert that swapped it in, and by no other.
LEMMA LookUpInv ==
  ASSUME ~Reuse, RegistryInv, CellFacts, CellFacts', NEW t \in Thread, Moves(t), LookUp(t)
  PROVE  RegistryInv'
<1> USE DEF LookUp, Take, Goto, cellVars
<1>0. pc[t] = "look_up" /\ InsertInv(t) /\ RegistryType
  BY DEF RegistryInv
<1>1. Matches(t) = {allocated_slice[t]} /\ allocated_slice[t] \in Current
  BY <1>0, LookUpFinds
<1>2. /\ result' = [result EXCEPT ![t] = allocated_slice[t]]
      /\ allocated_slice' = [allocated_slice EXCEPT ![t] = Null]
      /\ pc' = [pc EXCEPT ![t] = "drop_tree"]
      /\ UNCHANGED <<cellVars, vtable, slices, returned, current, entries>>
  BY <1>1
<1> HIDE DEF LookUp, Take
<1>3. allocated_slice[t] # Null /\ allocated_slice[t] \in Ref /\ slices[allocated_slice[t]] = vtable[t]
  BY <1>0 DEF InsertInv, Held, OwnSlice, Swapped, RegistryType
<1>c. Current' = Current
  BY <1>2, CurrentStays
<1>4. RegistryType'
  BY <1>0, <1>2, <1>3 DEF RegistryType
<1>5. EntriesInv' /\ ReturnedInv'
  BY <1>2, <1>c DEF RegistryInv, EntriesInv, ReturnedInv
<1>p. /\ \A u \in Thread : allocated_slice'[u] = IF u = t THEN Null ELSE allocated_slice[u]
      /\ result'[t] = allocated_slice[t] /\ pc'[t] = "drop_tree"
  BY <1>0, <1>2 DEF RegistryType, CellFacts
<1>6. SlicesInv'
  BY <1>1, <1>2, <1>c, <1>p DEF RegistryInv, SlicesInv
<1>7. ASSUME NEW u \in Thread \ {t} PROVE InsertInv(u)'
  <2>1. SameFor(u)
    BY <1>0, <1>2, <1>p DEF SameFor, CellFacts, RegistryType
  <2> QED
    BY <1>2, <1>c, <2>1, OtherInsert
<1>8. InsertInv(t)'
  <2>1. CopiedTree(t)' = CopiedTree(t)
    BY <1>2, SlotTreeStays, SlotAssumption DEF CopiedTree
  <2>2. Held(t)'
    BY <1>0, <1>2, <1>3, <1>p DEF InsertInv, Held, Edited, Swapped
  <2>3. Trees(t)'
    BY <1>0, <1>c, <1>p, <2>1 DEF InsertInv, Trees, Edited
  <2>4. OwnSlice(t)'
    BY <1>1, <1>2, <1>3, <1>c, <1>p DEF OwnSlice
  <2> QED
    BY <2>2, <2>3, <2>4 DEF InsertInv
<1> QED
  BY <1>4, <1>5, <1>6, <1>7, <1>8 DEF RegistryInv

\* A return frees a slice only if it is no entry.
LEMMA ReturnInv ==
  ASSUME ~Reuse, RegistryInv, CellFacts, CellFacts', NEW t \in Thread, Moves(t), Return(t)
  PROVE  RegistryInv'
<1> USE DEF Return, ReturnInsert, Goto, cellVars
<1>0. /\ pc[t] = "return" /\ pc'[t] = "idle" /\ InsertInv(t) /\ RegistryType
      /\ vtable'[t] = Null /\ allocated_slice'[t] = Null /\ result'[t] = Null
      /\ vtable[t] \in Content /\ result[t] \in Ref
      /\ slices[result[t]] = vtable[t] /\ result[t] \in Current
      /\ allocated_slice[t] # Null => allocated_slice[t] \notin Current
  BY DEF RegistryInv, CellFacts, RegistryType, InsertInv, Held, OwnSlice, Swapped
<1>1. RegistryType'
  BY <1>0 DEF RegistryType
<1>2. Current' = Current /\ Current \subseteq Ref
  BY <1>0, CurrentStays, TreeType DEF CellFacts, Current
<1>3. \A q \in Current : slices'[q] = slices[q]
  BY <1>0, <1>2, ContentAssumption
<1>4. EntriesInv'
  <2>1. EntriesInv
    BY DEF RegistryInv
  <2> HIDE DEF Return, ReturnInsert
  <2> QED
    BY <1>2, <1>3, <2>1 DEF EntriesInv
<1>5. SlicesInv'
  <2>1. \A u \in Thread : allocated_slice'[u] = IF u = t THEN Null ELSE allocated_slice[u]
    BY <1>0 DEF RegistryType
  <2>2. ASSUME NEW q \in Ref, slices'[q] # Null
        PROVE  q \in Current' \/ \E u \in Thread : allocated_slice'[u] = q
    <3>1. q # allocated_slice[t] /\ slices[q] # Null
      BY <2>2
    <3> QED
      BY <1>2, <2>1, <3>1 DEF RegistryInv, SlicesInv
  <2> QED
    BY <2>1, <2>2 DEF RegistryInv, SlicesInv
<1>6. ReturnedInv'
  <2>1. ASSUME NEW p \in returned' PROVE slices'[p[2]] = p[1] /\ p[2] \in Current
    <3>1. slices[p[2]] = p[1] /\ p[2] \in Current
      BY <1>0 DEF RegistryInv, ReturnedInv
    <3> QED
      BY <1>3, <3>1
  <2> QED
    BY <1>2, <2>1 DEF ReturnedInv
<1>7. ASSUME NEW u \in Thread \ {t} PROVE InsertInv(u)'
  <2>1. SameFor(u)
    BY <1>0 DEF SameFor, CellFacts, RegistryType
  <2>2. allocated_slice[u] # Null => slices'[allocated_slice[u]] = slices[allocated_slice[u]]
    BY <1>0 DEF RegistryInv, SlicesInv, RegistryType
  <2> QED
    BY <1>2, <1>3, <2>1, <2>2, OtherInsert
<1>8. InsertInv(t)'
  <2>1. CopiedTree(t)' = CopiedTree(t)
    BY SlotTreeStays, SlotAssumption DEF CopiedTree
  <2>2. Held(t)'
    BY <1>0 DEF InsertInv, Held, Edited, Swapped
  <2>3. Trees(t)'
    BY <1>0, <1>2, <2>1 DEF InsertInv, Trees, Edited
  <2>4. OwnSlice(t)'
    BY <1>0 DEF OwnSlice
  <2> QED
    BY <2>2, <2>3, <2>4 DEF InsertInv
<1> QED
  BY <1>1, <1>4, <1>5, <1>6, <1>7, <1>8 DEF RegistryInv

\* Nothing changes in a stuttering step.
LEMMA StutterInv == RegistryInv /\ UNCHANGED vars => RegistryInv'
<1> SUFFICES ASSUME RegistryInv, UNCHANGED vars PROVE RegistryInv'
  OBVIOUS
<1> USE DEF vars, cellVars, registryVars
<1>1. Current' = Current
  BY DEF Current, Tree
<1>2. RegistryType' /\ EntriesInv' /\ SlicesInv' /\ ReturnedInv'
  BY <1>1 DEF RegistryInv, RegistryType, EntriesInv, SlicesInv, ReturnedInv
<1>3. ASSUME NEW t \in Thread PROVE InsertInv(t)'
  <2>1. CopiedTree(t)' = CopiedTree(t) /\ NewTree(t)' = NewTree(t) /\ Tree(current[t])' = Tree(current[t])
    BY DEF CopiedTree, NewTree, Tree
  <2>2. InsertInv(t)
    BY DEF RegistryInv
  <2> QED
    BY <1>1, <2>1, <2>2 DEF InsertInv, Held, Trees, Kept, OwnSlice
<1> QED
  BY <1>2, <1>3 DEF RegistryInv

\* Every step of every insert keeps the invariant.
LEMMA NextInv ==
  ASSUME ~Reuse, RegistryInv, CellFacts, CellFacts', [Next]_vars
  PROVE  RegistryInv'
<1>1. CASE UNCHANGED vars
  BY <1>1, StutterInv
<1>2. ASSUME NEW t \in Thread, NEW c \in Content, Insert(t, c) PROVE RegistryInv'
  BY <1>2, CallInv DEF Moves
<1>3. ASSUME NEW t \in Thread, Step(t) PROVE RegistryInv'
  <2> USE DEF Moves
  <2>1. CASE Load(t)
    BY <1>3, <2>1, LoadInv
  <2>2. CASE CopyFromPtr(t)
    BY <1>3, <2>2, CopyInv
  <2>3. CASE DropCopy(t)
    BY <1>3, <2>3, DropCopyInv
  <2>4. CASE Swap(t)
    BY <1>3, <2>4, SwapWinsInv, SwapFailsInv
  <2>5. CASE DropNew(t)
    BY <1>3, <2>5, DropNewInv
  <2>6. ASSUME NEW r \in Ref, Found(t, r) PROVE RegistryInv'
    BY <1>3, <2>6, FoundInv
  <2>7. ASSUME NEW r \in Ref, NEW a \in Addr, Add(t, r, a) PROVE RegistryInv'
    BY <1>3, <2>7, AddInv
  <2>8. CASE Get(t)
    BY <1>3, <2>8, GetInv
  <2>9. CASE GetCopy(t)
    BY <1>3, <2>9, GetCopyInv
  <2>10. CASE LookUp(t)
    BY <1>3, <2>10, LookUpInv
  <2>11. CASE Return(t)
    BY <1>3, <2>11, ReturnInv
  <2> QED
    BY <1>3, <2>1, <2>2, <2>3, <2>4, <2>5, <2>6, <2>7, <2>8, <2>9, <2>10, <2>11 DEF Step
<1> QED
  BY <1>1, <1>2, <1>3 DEF Next

\* However the inserts interleave, if no load is interrupted between its two
\* steps and no address is handed out again too early: an edit swaps in a tree with one more entry
\* only for the tree that it searched, and get finds the slice that was added.
THEOREM RegistryInvariant ==
  ASSUME ~Overlap, ~Reuse
  PROVE  Spec => [](RegistryInv /\ CellFacts)
<1>1. Init => RegistryInv /\ TreeInv
  BY InitInv, InitTree
<1>2. TreeInv => CellFacts
  BY TreeFacts
<1>3. TreeInv /\ [Next]_vars => TreeInv'
  BY NextTree, WholeLoads
<1>4. RegistryInv /\ CellFacts /\ CellFacts' /\ [Next]_vars => RegistryInv'
  BY NextInv
<1> QED
  BY <1>1, <1>2, <1>3, <1>4, PTL DEF Spec

\* "VTable should've been inserted by now": where the allocator does not hand out
\* the address of a root that an edit still compares with, get finds what edit
\* inserted and VtBtree::insert does not panic.
THEOREM NeverPanicsTheorem ==
  ASSUME ~Overlap, ~Reuse
  PROVE  Spec => []NeverPanics
<1>1. RegistryInv => NeverPanics
  BY LookUpFinds DEF NeverPanics
<1> QED
  BY <1>1, RegistryInvariant, PTL

\* A boxed slice that VtBtree::insert allocates is forgotten exactly when it is an
\* entry: it is neither freed by a return as well nor leaked.
THEOREM SlicesHaveOneOwnerTheorem ==
  ASSUME ~Overlap, ~Reuse
  PROVE  Spec => []SlicesHaveOneOwner
<1>1. RegistryInv /\ CellFacts => SlicesHaveOneOwner
  <2> SUFFICES ASSUME RegistryInv, CellFacts PROVE SlicesHaveOneOwner
    OBVIOUS
  <2>1. Current \subseteq Ref
    BY TreeType DEF RegistryInv, CellFacts, Current
  <2>2. ASSUME NEW t \in Thread, pc[t] = "return" PROVE allocated_slice[t] \notin Current
    <3>1. CASE allocated_slice[t] = Null
      BY <2>1, <3>1, ContentAssumption
    <3>2. CASE allocated_slice[t] # Null
      BY <2>2, <3>2 DEF RegistryInv, InsertInv, OwnSlice, Swapped
    <3> QED
      BY <3>1, <3>2
  <2> QED
    BY <2>2 DEF RegistryInv, SlicesInv, SlicesHaveOneOwner
<1> QED
  BY <1>1, RegistryInvariant, PTL

\* "&'a Vt" for any 'a: no pointer that VtBtree::insert returned is ever freed or
\* overwritten, so the reference it is turned into may live forever.
THEOREM ReturnedPointersStayValidTheorem ==
  ASSUME ~Overlap, ~Reuse
  PROVE  Spec => []ReturnedPointersStayValid
<1>1. RegistryInv => ReturnedPointersStayValid
  BY DEF RegistryInv, ReturnedInv, ReturnedPointersStayValid
<1> QED
  BY <1>1, RegistryInvariant, PTL

-----------------------------------------------------------------------------
(* The registry is an interner *)

\* The table of the abstract interner, and what it answers.
Table == TableOf(Current)
Answer == [t \in Thread |-> IF pc[t] \in Swapped THEN allocated_slice[t] ELSE result[t]]

\* The table has exactly the entries, each at its content.
LEMMA TableHasTheEntries ==
  ASSUME RegistryInv, CellFacts, NEW c \in Content
  PROVE  /\ \A r \in Current : slices[r] = c => Table[c] = r
         /\ Table[c] # Null => Table[c] \in Current /\ slices[Table[c]] = c
<1>2. Table[c] = IF \E r \in Current : slices[r] = c
                   THEN CHOOSE r \in Current : slices[r] = c
                   ELSE Null
  BY DEF Table, TableOf
<1>3. CASE \E r \in Current : slices[r] = c
  <2>1. Table[c] = CHOOSE r \in Current : slices[r] = c
    BY <1>2, <1>3
  <2>2. Table[c] \in Current /\ slices[Table[c]] = c
    BY <2>1, <1>3
  <2> QED
    BY <2>2 DEF RegistryInv, EntriesInv
<1>4. CASE ~ \E r \in Current : slices[r] = c
  BY <1>2, <1>4
<1> QED
  BY <1>3, <1>4

\* A step that leaves the entries and what they hold alone.
LEMMA TableStays ==
  ASSUME CellFacts, CellFacts', NEW t \in Thread, Moves(t),
         cell' = cell, \A r \in Current : slices'[r] = slices[r]
  PROVE  Table' = Table
<1>1. Current' = Current
  BY CurrentStays
<1>2. ASSUME NEW c \in Content
      PROVE  /\ (\E r \in Current : slices'[r] = c) <=> (\E r \in Current : slices[r] = c)
             /\ (CHOOSE r \in Current : slices'[r] = c) = (CHOOSE r \in Current : slices[r] = c)
  OBVIOUS
<1> QED
  BY <1>1, <1>2 DEF Table, TableOf

\* A tree with one more entry, for a content that has none yet.
LEMMA TableGrows ==
  ASSUME NEW r \in Ref, NEW c \in Content, Current' = Current \cup {r}, slices' = slices,
         slices[r] = c, \A q \in Current : slices[q] # c
  PROVE  Table' = [Table EXCEPT ![c] = r]
<1> DEFINE F == Current \cup {r}
<1> DEFINE At(S, d) == IF \E q \in S : slices[q] = d THEN CHOOSE q \in S : slices[q] = d ELSE Null
<1>1. Table = [d \in Content |-> At(Current, d)] /\ Table' = [d \in Content |-> At(F, d)]
  BY DEF Table, TableOf
<1>2. At(F, c) = r
  <2>1. \A q \in F : slices[q] = c <=> q = r
    OBVIOUS
  <2> QED
    BY <2>1
<1>3. ASSUME NEW d \in Content \ {c} PROVE At(F, d) = At(Current, d)
  <2>1. \A q : q \in F /\ slices[q] = d <=> q \in Current /\ slices[q] = d
    OBVIOUS
  <2> HIDE DEF F
  <2> QED
    BY <2>1
<1> HIDE DEF At, F
<1> QED
  BY <1>1, <1>2, <1>3

\* The calls that return a pointer, and the steps that take effect, are the only
\* ones that the interner sees.
LEMMA StepImplements ==
  ASSUME ~Reuse, RegistryInv, CellFacts, CellFacts', [Next]_vars
  PROVE  [Set!Next]_(Set!vars)
<1> DEFINE Stutter == UNCHANGED <<Table, vtable, Answer>>
<1>s. Stutter => [Set!Next]_(Set!vars)
  BY DEF Set!vars, Table, Answer
<1>1. CASE UNCHANGED vars
  BY <1>1, <1>s DEF vars, cellVars, registryVars, Table, TableOf, Answer, Current, Tree
<1>a. ASSUME NEW t \in Thread, NEW l \in Label, pc' = [pc EXCEPT ![t] = l],
             UNCHANGED <<result, allocated_slice>>,
             l \in Swapped <=> pc[t] \in Swapped
      PROVE  Answer' = Answer
  <2>1. ASSUME NEW u \in Thread PROVE pc'[u] \in Swapped <=> pc[u] \in Swapped
    BY <1>a DEF CellFacts
  <2> QED
    BY <1>a, <2>1 DEF Answer
<1>2. ASSUME NEW t \in Thread, NEW c \in Content, Insert(t, c) PROVE Set!Next
  <2>1. Table' = Table
    BY <1>2, TableStays DEF Moves, Insert, CallInsert, cellVars
  <2>2. vtable[t] = Null
    BY <1>2 DEF Insert, CallInsert, RegistryInv, InsertInv, Held
  <2>3. Answer' = Answer
    BY <1>2, <1>a DEF Insert, CallInsert, Goto, Label, Swapped
  <2> QED
    BY <1>2, <2>1, <2>2, <2>3 DEF Insert, CallInsert, Set!Next, Set!Ask, Table, Answer
<1>3. ASSUME NEW t \in Thread, Step(t) PROVE [Set!Next]_(Set!vars)
  <2>m. Moves(t) /\ InsertInv(t) /\ RegistryType
    BY <1>3 DEF Moves, RegistryInv
  <2>1. CASE Load(t) \/ CopyFromPtr(t) \/ DropCopy(t) \/ DropNew(t) \/ Get(t) \/ GetCopy(t)
             \/ (Swap(t) /\ cell # current[t])
    <3>1. UNCHANGED <<cell, vtable, slices, result, allocated_slice>>
      BY <2>1 DEF Load, ReadCell, CopyFromPtr, Increment, DropCopy, DropNew, Release, Get, GetCopy,
                  Swap, registryVars
    <3>2. Table' = Table
      BY <2>m, <3>1, TableStays
    <3>3. PICK l \in Label : pc' = [pc EXCEPT ![t] = l] /\ (l \in Swapped <=> pc[t] \in Swapped)
      <4>1. CASE Load(t) \/ CopyFromPtr(t)
        BY <4>1 DEF Load, CopyFromPtr, Goto, Label, Swapped
      <4>2. CASE DropCopy(t)
        BY <2>m, <4>2 DEF DropCopy, Goto, Label, Swapped
      <4>3. CASE DropNew(t)
        BY <4>3 DEF DropNew, Goto, Label, Swapped
      <4>4. CASE Get(t) \/ GetCopy(t)
        BY <4>4 DEF Get, GetCopy, Goto, Label, Swapped
      <4>5. CASE Swap(t) /\ cell # current[t]
        BY <4>5 DEF Swap, Goto, Label, Swapped
      <4> QED
        BY <2>1, <4>1, <4>2, <4>3, <4>4, <4>5
    <3>4. Answer' = Answer
      BY <1>a, <3>1, <3>3
    <3> QED
      BY <1>s, <3>1, <3>2, <3>4
  <2>2. ASSUME NEW r \in Ref, Found(t, r) PROVE Set!Next
    <3>1. Table' = Table
      BY <2>m, <2>2, TableStays DEF Found, cellVars
    <3>2. pc[t] = "edit" /\ vtable[t] # Null /\ vtable[t] \in Content /\ result[t] = Null
      BY <2>m, <2>2 DEF Found, InsertInv, Held, RegistryType
    <3>3. r \in Current /\ slices[r] = vtable[t]
      BY <2>m, <2>2 DEF Found, Matches, InsertInv, Trees, CopiedTree, Copied
    <3>4. Table[vtable[t]] = r /\ r # Null
      BY <3>2, <3>3, TableHasTheEntries, ContentAssumption
    <3>5. Answer[t] = Null /\ Answer' = [Answer EXCEPT ![t] = r]
      <4>1. \A u \in Thread : Answer'[u] = IF u = t THEN r ELSE Answer[u]
        BY <2>m, <2>2 DEF Found, Goto, Answer, Swapped, CellFacts, RegistryType
      <4>2. Answer = [u \in Thread |-> Answer[u]] /\ Answer' = [u \in Thread |-> Answer'[u]]
        BY DEF Answer
      <4> QED
        BY <3>2, <4>1, <4>2 DEF Answer, Swapped
    <3> QED
      BY <2>2, <3>1, <3>2, <3>4, <3>5 DEF Found, Set!Next, Set!Find, Table, Answer
  <2>3. ASSUME NEW r \in Ref, NEW a \in Addr, Add(t, r, a) PROVE Stutter
    <3>1. r \notin Current /\ slices' = [slices EXCEPT ![r] = vtable[t]]
          /\ allocated_slice' = [allocated_slice EXCEPT ![t] = r]
      BY <2>3, OwnSliceIsNew DEF Add
    <3>2. Current \subseteq Ref
      BY <2>m, TreeType DEF CellFacts, Current
    <3>3. Table' = Table
      BY <2>m, <2>3, <3>1, <3>2, TableStays DEF Add, New, RegistryType
    <3>4. \A u \in Thread : Answer'[u] = Answer[u]
      BY <2>m, <2>3, <3>1 DEF Add, Goto, Answer, Swapped, CellFacts, RegistryType
    <3>5. Answer' = Answer
      BY <3>4 DEF Answer
    <3> QED
      BY <2>3, <3>3, <3>5 DEF Add
  <2>4. CASE Swap(t) /\ cell = current[t]
    <3> DEFINE r == allocated_slice[t]
    <3> DEFINE c == vtable[t]
    <3>1. /\ Current' = Current \cup {r} /\ r \in Ref /\ r \notin Current /\ slices[r] = c
          /\ c \in Content /\ c # Null /\ r # Null /\ \A q \in Current : slices[q] # c
      BY <2>4, SwapGrows, ContentAssumption
    <3>2. UNCHANGED <<vtable, slices, result, allocated_slice>> /\ result[t] = Null
          /\ pc[t] = "compare_exchange" /\ pc'[t] \in Swapped /\ \A u \in Thread \ {t} : pc'[u] = pc[u]
      BY <2>m, <2>4 DEF Swap, Goto, registryVars, InsertInv, Held, Swapped, CellFacts
    <3>3. Table[c] = Null /\ \A d \in Content : Table[d] # r
      BY <3>1, TableHasTheEntries
    <3>4. Table' = [Table EXCEPT ![c] = r]
      BY <3>1, <3>2, TableGrows
    <3>5. Answer[t] = Null /\ Answer' = [Answer EXCEPT ![t] = r]
      <4>1. \A u \in Thread : Answer'[u] = IF u = t THEN r ELSE Answer[u]
        BY <3>2 DEF Answer
      <4>2. Answer = [u \in Thread |-> Answer[u]] /\ Answer' = [u \in Thread |-> Answer'[u]]
        BY DEF Answer
      <4>3. Answer[t] = Null
        BY <3>2 DEF Answer, Swapped
      <4> HIDE DEF r
      <4> QED
        BY <4>1, <4>2, <4>3
    <3> QED
      BY <3>1, <3>2, <3>3, <3>4, <3>5 DEF Set!Next, Set!Intern, Table, Answer
  <2>5. CASE LookUp(t)
    <3>1. Matches(t) = {allocated_slice[t]}
      BY <2>5, LookUpFinds DEF LookUp
    <3>2. /\ result' = [result EXCEPT ![t] = allocated_slice[t]]
          /\ allocated_slice' = [allocated_slice EXCEPT ![t] = Null]
          /\ pc[t] = "look_up" /\ pc' = [pc EXCEPT ![t] = "drop_tree"]
          /\ UNCHANGED <<cell, vtable, slices>>
      BY <2>5, <3>1 DEF LookUp, Take, Goto, cellVars
    <3>3. Table' = Table
      BY <2>m, <3>2, TableStays
    <3>4. \A u \in Thread : Answer'[u] = Answer[u]
      BY <2>m, <3>2 DEF Answer, Swapped, CellFacts, RegistryType
    <3>5. Answer' = Answer
      BY <3>4 DEF Answer
    <3> QED
      BY <1>s, <3>2, <3>3, <3>5
  <2>6. CASE Return(t)
    <3>1. Current \subseteq Ref /\ allocated_slice[t] \notin Current
      BY <2>m, <2>6, TreeType, ContentAssumption
         DEF CellFacts, Current, Return, ReturnInsert, InsertInv, OwnSlice, Swapped
    <3>2. Table' = Table
      BY <2>m, <2>6, <3>1, TableStays DEF Return, ReturnInsert, cellVars
    <3>3. result[t] # Null /\ pc[t] = "return"
      BY <2>m, <2>6 DEF Return, ReturnInsert, InsertInv, Held
    <3>4. Answer[t] # Null /\ Answer' = [Answer EXCEPT ![t] = Null]
      <4>1. \A u \in Thread : Answer'[u] = IF u = t THEN Null ELSE Answer[u]
        BY <2>m, <2>6 DEF Return, ReturnInsert, Goto, Answer, Swapped, CellFacts, RegistryType
      <4>2. Answer = [u \in Thread |-> Answer[u]] /\ Answer' = [u \in Thread |-> Answer'[u]]
        BY DEF Answer
      <4> QED
        BY <3>3, <4>1, <4>2 DEF Answer, Swapped
    <3> QED
      BY <2>6, <3>2, <3>4 DEF Return, ReturnInsert, Set!Next, Set!Return, Table, Answer
  <2> QED
    BY <1>3, <1>s, <2>1, <2>2, <2>3, <2>4, <2>5, <2>6 DEF Step
<1> QED
  BY <1>1, <1>2, <1>3 DEF Next

\* VtBtree::insert is an interner where addresses are not handed out again too
\* early: a content gets one pointer, the same for all threads and for good, and
\* each insert takes effect at one instant between its call and its return.
THEOREM VtBtreeImplementsInterner ==
  ASSUME ~Overlap, ~Reuse
  PROVE  Spec => ImplementsInterner
<1>1. Init => Set!Init
  <2> SUFFICES ASSUME Init PROVE Set!Init
    OBVIOUS
  <2>1. Current = {}
    BY DEF Init, RegistryInit, CellInit, Current, Tree
  <2> QED
    BY <2>1 DEF Init, RegistryInit, Set!Init, TableOf, Swapped
<1>2. RegistryInv /\ CellFacts /\ CellFacts' /\ [Next]_vars => [Set!Next]_(Set!vars)
  BY StepImplements
<1> QED
  BY <1>1, <1>2, RegistryInvariant, PTL DEF Spec, ImplementsInterner, Set!Spec

-----------------------------------------------------------------------------
(* No root leaks *)

\* VtBtree counts owners as ArcCell does.
LEMMA SameOwners == \A a : Cell!Owners(a) = Owners(a)
BY DEF Cell!Owners, Owners, Cell!Holders, Holders, Cell!Cardinality, Cardinality, Cell!Place, Place

\* RootsAreOwned, as ArcCellProofs counts.
Counted == \A a \in Addr : memory[a] = "live" => strong[a] = Cell!Owners(a) /\ Cell!Owners(a) # 0

\* The owners of each allocation after a step that changes one slot.
OthersKept(t, s) == \A q \in Cell!Place \ {<<t, s>>} : arc'[q] = arc[q]

LEMMA OneSlotChanges ==
  ASSUME TreeInv, TreeInv', NEW t \in Thread, NEW s \in Slot, OthersKept(t, s), NEW a
  PROVE  /\ Cell!Owners(a) \in Nat
         /\ Cell!Owners(a)' = Cell!Owners(a) - Cell!Hit(arc[<<t, s>>], a)
                              + Cell!Hit(arc'[<<t, s>>], a)
                              - Cell!Hit(cell, a) + Cell!Hit(cell', a)
<1>1. <<t, s>> \in Cell!Place /\ Cell!CellTypeOK /\ Cell!CellTypeOK'
  BY DEF TreeInv, Cell!CellInv, Cell!Place
<1> QED
  BY <1>1, CellAssumptions, Cell!OwnersStep DEF OthersKept

\* An assignment to one slot leaves the others alone.
LEMMA SlotWritten ==
  ASSUME TreeInv, NEW t \in Thread, NEW s \in Slot, NEW v, arc' = [arc EXCEPT ![<<t, s>>] = v]
  PROVE  OthersKept(t, s) /\ arc'[<<t, s>>] = v
BY DEF TreeInv, Cell!CellInv, Cell!CellTypeOK, Cell!Place, OthersKept

\* A clone of the root behind the pointer is counted.
LEMMA IncrementCounts ==
  ASSUME ~Overlap, TreeInv, TreeInv', Counted, NEW t \in Thread, NEW s \in Slot, Increment(t, s)
  PROVE  Counted'
<1>1. /\ cell = seen[t] /\ cell \in Addr /\ cell' = cell /\ memory' = memory
      /\ arc[<<t, s>>] = Null /\ arc' = [arc EXCEPT ![<<t, s>>] = cell]
      /\ strong' = [strong EXCEPT ![cell] = @ + 1] /\ strong \in [Addr -> Nat]
  BY TreeFacts DEF Increment, CellFacts, Pointer, TreeInv, Cell!CellInv, Cell!CellTypeOK
<1>2. ASSUME NEW a \in Addr, memory'[a] = "live"
      PROVE  strong'[a] = Cell!Owners(a)' /\ Cell!Owners(a)' # 0
  <2>1. Cell!Owners(a) \in Nat /\ Cell!Owners(a)' = Cell!Owners(a) + (IF cell = a THEN 1 ELSE 0)
    <3>1. /\ Cell!Owners(a) \in Nat
          /\ Cell!Owners(a)' = Cell!Owners(a) - Cell!Hit(arc[<<t, s>>], a) + Cell!Hit(cell, a)
                                              - Cell!Hit(cell, a) + Cell!Hit(cell', a)
      <4>1. OthersKept(t, s) /\ arc'[<<t, s>>] = cell
        <5>1. PICK v : v = cell
          OBVIOUS
        <5>2. arc' = [arc EXCEPT ![<<t, s>>] = v]
          BY <1>1, <5>1
        <5> QED
          BY <5>1, <5>2, SlotWritten
      <4>2. /\ Cell!Owners(a) \in Nat
            /\ Cell!Owners(a)' = Cell!Owners(a) - Cell!Hit(arc[<<t, s>>], a)
                                 + Cell!Hit(arc'[<<t, s>>], a)
                                 - Cell!Hit(cell, a) + Cell!Hit(cell', a)
        BY <4>1, OneSlotChanges
      <4> QED
        BY <4>1, <4>2
    <3> QED
      BY <1>1, <3>1, NullAssumption DEF Cell!Hit
  <2> QED
    BY <1>1, <1>2, <2>1 DEF Counted
<1> QED
  BY <1>2 DEF Counted

\* So is the drop of an Arc, which frees the root with its last owner.
LEMMA ReleaseCounts ==
  ASSUME ~Overlap, TreeInv, TreeInv', Counted, NEW t \in Thread, NEW s \in Slot, Release(t, s)
  PROVE  Counted'
<1> DEFINE b == arc[<<t, s>>]
<1>1. /\ b \in Addr /\ cell' = cell /\ arc' = [arc EXCEPT ![<<t, s>>] = Null]
      /\ strong' = [strong EXCEPT ![b] = @ - 1] /\ strong \in [Addr -> Nat]
      /\ memory' = [memory EXCEPT ![b] = IF strong[b] = 1 THEN "free" ELSE @]
      /\ memory \in [Addr -> {"live", "free"}] /\ memory[b] = "live"
  BY TreeFacts
     DEF Release, CellFacts, OwnedArcsAreLive, Pointer, Place, TreeInv, Cell!CellInv, Cell!CellTypeOK
<1>2. ASSUME NEW a \in Addr, memory'[a] = "live"
      PROVE  strong'[a] = Cell!Owners(a)' /\ Cell!Owners(a)' # 0
  <2>1. Cell!Owners(a) \in Nat /\ Cell!Owners(a)' = Cell!Owners(a) - (IF b = a THEN 1 ELSE 0)
    <3>1. /\ Cell!Owners(a) \in Nat
          /\ Cell!Owners(a)' = Cell!Owners(a) - Cell!Hit(b, a) + Cell!Hit(Null, a)
                                              - Cell!Hit(cell, a) + Cell!Hit(cell', a)
      <4>1. OthersKept(t, s) /\ arc'[<<t, s>>] = Null
        BY <1>1, SlotWritten
      <4>2. /\ Cell!Owners(a) \in Nat
            /\ Cell!Owners(a)' = Cell!Owners(a) - Cell!Hit(arc[<<t, s>>], a)
                                 + Cell!Hit(arc'[<<t, s>>], a)
                                 - Cell!Hit(cell, a) + Cell!Hit(cell', a)
        BY <4>1, OneSlotChanges
      <4> QED
        BY <4>1, <4>2
    <3> QED
      BY <1>1, <3>1, NullAssumption DEF Cell!Hit
  <2>2. memory[a] = "live" /\ (a = b => strong[a] # 1)
    BY <1>1, <1>2
  <2>3. strong[a] = Cell!Owners(a) /\ Cell!Owners(a) # 0
    BY <2>2 DEF Counted
  <2> HIDE DEF b
  <2> QED
    BY <1>1, <2>1, <2>2, <2>3
<1> QED
  BY <1>2 DEF Counted

\* A root starts with the one owner that made it.
LEMMA NewCounts ==
  ASSUME ~Overlap, TreeInv, TreeInv', Counted, NEW t \in Thread, NEW s \in Slot,
         NEW b \in Addr, New(t, s, b)
  PROVE  Counted'
<1>1. /\ arc[<<t, s>>] = Null /\ cell' = cell /\ arc' = [arc EXCEPT ![<<t, s>>] = b]
      /\ strong' = [strong EXCEPT ![b] = 1] /\ strong \in [Addr -> Nat]
      /\ memory[b] = "free" /\ memory' = [memory EXCEPT ![b] = "live"]
      /\ memory \in [Addr -> {"live", "free"}]
  BY DEF New, TreeInv, Cell!CellInv, Cell!CellTypeOK
<1>2. Cell!Owners(b) = 0
  <2>1. cell # b /\ \A p \in Cell!Place : arc[p] # b
    BY <1>1, NullAssumption DEF TreeInv, Cell!CellInv, Cell!OwnedArcsAreLive
  <2>2. {p \in Cell!Place : arc[p] = b} = {}
    BY <2>1
  <2> QED
    <3>1. Cell!Holders(b) = Cell!Cardinality({})
      BY <2>2 DEF Cell!Holders
    <3>2. Cell!Cardinality({}) = 0
      BY CellAssumptions, Cell!FS_EmptySet
    <3> QED
      BY <2>1, <3>1, <3>2, SMT DEF Cell!Owners
<1>3. ASSUME NEW a \in Addr, memory'[a] = "live"
      PROVE  strong'[a] = Cell!Owners(a)' /\ Cell!Owners(a)' # 0
  <2>1. Cell!Owners(a) \in Nat /\ Cell!Owners(a)' = Cell!Owners(a) + (IF b = a THEN 1 ELSE 0)
    <3>1. /\ Cell!Owners(a) \in Nat
          /\ Cell!Owners(a)' = Cell!Owners(a) - Cell!Hit(arc[<<t, s>>], a) + Cell!Hit(b, a)
                                              - Cell!Hit(cell, a) + Cell!Hit(cell', a)
      <4>1. OthersKept(t, s) /\ arc'[<<t, s>>] = b
        BY <1>1, SlotWritten
      <4>2. /\ Cell!Owners(a) \in Nat
            /\ Cell!Owners(a)' = Cell!Owners(a) - Cell!Hit(arc[<<t, s>>], a)
                                 + Cell!Hit(arc'[<<t, s>>], a)
                                 - Cell!Hit(cell, a) + Cell!Hit(cell', a)
        BY <4>1, OneSlotChanges
      <4> QED
        BY <4>1, <4>2
    <3> QED
      BY <1>1, <3>1, NullAssumption DEF Cell!Hit
  <2>2. CASE a = b
    BY <1>1, <1>2, <2>1, <2>2
  <2>3. CASE a # b
    BY <1>1, <1>3, <2>1, <2>3 DEF Counted
  <2> QED
    BY <2>2, <2>3
<1> QED
  BY <1>3 DEF Counted

\* An exchange swaps two owners of two roots.
LEMMA ExchangeCounts ==
  ASSUME ~Overlap, TreeInv, TreeInv', Counted, NEW t \in Thread, NEW s \in Slot, Exchange(t, s)
  PROVE  Counted'
<1>1. /\ cell' = arc[<<t, s>>] /\ arc' = [arc EXCEPT ![<<t, s>>] = cell]
      /\ UNCHANGED <<strong, memory>>
  BY DEF Exchange
<1>2. ASSUME NEW a PROVE Cell!Owners(a)' = Cell!Owners(a)
  <2>1. /\ Cell!Owners(a) \in Nat
        /\ Cell!Owners(a)' = Cell!Owners(a) - Cell!Hit(arc[<<t, s>>], a) + Cell!Hit(cell, a)
                                            - Cell!Hit(cell, a) + Cell!Hit(cell', a)
    <3>1. OthersKept(t, s) /\ arc'[<<t, s>>] = cell
      BY <1>1, SlotWritten
    <3>2. /\ Cell!Owners(a) \in Nat
          /\ Cell!Owners(a)' = Cell!Owners(a) - Cell!Hit(arc[<<t, s>>], a)
                               + Cell!Hit(arc'[<<t, s>>], a)
                               - Cell!Hit(cell, a) + Cell!Hit(cell', a)
      BY <3>1, OneSlotChanges
    <3> QED
      BY <3>1, <3>2
  <2> QED
    BY <1>1, <2>1 DEF Cell!Hit
<1> QED
  BY <1>1, <1>2 DEF Counted

\* A step that changes neither an owner nor a count.
LEMMA SameCounts ==
  ASSUME Counted, UNCHANGED <<cell, arc, strong, memory>>
  PROVE  Counted'
BY DEF Counted, Cell!Owners, Cell!Holders

\* Every step of every insert counts.
LEMMA NextCounts ==
  ASSUME ~Overlap, TreeInv, TreeInv', Counted, [Next]_vars
  PROVE  Counted'
<1>1. CASE UNCHANGED vars
  BY <1>1, SameCounts DEF vars, cellVars
<1>2. ASSUME NEW t \in Thread, NEW c \in Content, Insert(t, c) PROVE Counted'
  BY <1>2, SameCounts DEF Insert, cellVars
<1>3. ASSUME NEW t \in Thread, Step(t) PROVE Counted'
  <2>0. "tree" \in Slot /\ "new" \in Slot
    BY SlotAssumption
  <2>1. CASE Load(t) \/ Get(t)
    BY <2>1, SameCounts DEF Load, Get, ReadCell
  <2>2. CASE CopyFromPtr(t) \/ GetCopy(t)
    BY <2>0, <2>2, IncrementCounts DEF CopyFromPtr, GetCopy
  <2>3. CASE DropCopy(t) \/ DropNew(t)
    BY <2>0, <2>3, ReleaseCounts DEF DropCopy, DropNew
  <2>4. CASE Swap(t)
    BY <2>0, <2>4, ExchangeCounts, SameCounts DEF Swap, ReadCell
  <2>5. ASSUME NEW r \in Ref, Found(t, r) PROVE Counted'
    BY <2>5, SameCounts DEF Found, cellVars
  <2>6. ASSUME NEW r \in Ref, NEW a \in Addr, Add(t, r, a) PROVE Counted'
    BY <2>0, <2>6, NewCounts DEF Add
  <2>7. CASE LookUp(t) \/ Return(t)
    BY <2>7, SameCounts DEF LookUp, Return, cellVars
  <2> QED
    BY <1>3, <2>1, <2>2, <2>3, <2>4, <2>5, <2>6, <2>7 DEF Step
<1> QED
  BY <1>1, <1>2, <1>3 DEF Next

\* The roots that edit replaces or cannot swap in are all dropped, as is the clone
\* that get makes: VtBtree leaks no root, whether addresses are reused or not.
THEOREM RootsAreOwnedTheorem ==
  ASSUME ~Overlap
  PROVE  Spec => []RootsAreOwned
<1>1. Init => Counted
  BY DEF Init, RegistryInit, CellInit, Counted
<1>2. TreeInv /\ TreeInv' /\ Counted /\ [Next]_vars => Counted'
  BY NextCounts
<1>3. TreeInv /\ [Next]_vars => TreeInv'
  BY NextTree, WholeLoads
<1>4. Counted => RootsAreOwned
  BY SameOwners DEF Counted, RootsAreOwned
<1> QED
  BY <1>1, <1>2, <1>3, <1>4, InitTree, PTL DEF Spec
=============================================================================
