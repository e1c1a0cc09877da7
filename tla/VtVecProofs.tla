---------------------------- MODULE VtVecProofs ----------------------------
(***************************************************************************)
(* The inserts of VtVec are one of the programs that AtomicArc allows, so  *)
(* the memory safety that ArcCellProofs shows of all of them holds of the  *)
(* registry, for any number of threads, contents and addresses.  On top of *)
(* it, the entries of the registry: RegistryInv says what an insert knows  *)
(* of the list it read, which is what makes its compare_exchange add an    *)
(* entry only for a content that has none, and from that the registry      *)
(* implements Interner.                                                    *)
(***************************************************************************)
EXTENDS VtVec, FiniteSetTheorems, TLAPS

Label == {"idle", "load", "increment", "assign", "search", "is", "is_again", "new",
          "compare_exchange", "drop_old", "drop_vtables", "return"}

\* What ties an insert to the call on the cell that it is in: it reads a pointer
\* only to count it next, and counts it into a variable that it assigns next.
BetweenCalls ==
  /\ pc \in [Thread -> Label]
  /\ seen \in [Thread -> Pointer]
  /\ arc \in [Place -> Pointer]
  /\ cell \in Pointer
  /\ \A t \in Thread :
       /\ pc[t] # "increment" => seen[t] = Null
       /\ pc[t] # "assign" => arc[<<t, "updated">>] = Null

LEMMA InitBetween == Init => BetweenCalls
BY SlotAssumption DEF Init, RegistryInit, CellInit, BetweenCalls, Label, Pointer, Place

\* A step that leaves the cell and the variables of the insert alone.
LEMMA QuietStep ==
  ASSUME BetweenCalls, NEW t \in Thread, NEW l \in Label,
         pc[t] \notin {"increment", "assign"}, Goto(t, l), UNCHANGED cellVars
  PROVE  BetweenCalls'
BY DEF BetweenCalls, Goto, cellVars, Pointer, Place

LEMMA NextBetween == BetweenCalls /\ [Next]_vars => BetweenCalls'
<1> SUFFICES ASSUME BetweenCalls, [Next]_vars PROVE BetweenCalls'
  OBVIOUS
<1>1. CASE UNCHANGED vars
  BY <1>1 DEF vars, cellVars, BetweenCalls, Pointer, Place
<1>2. ASSUME NEW t \in Thread, NEW c \in Content, Insert(t, c) PROVE BetweenCalls'
  BY <1>2, QuietStep DEF Insert, CallInsert, Label
<1>3. ASSUME NEW t \in Thread, Step(t) PROVE BetweenCalls'
  <2> USE SlotAssumption DEF Label
  <2>1. CASE Load(t)
    BY <2>1 DEF Load, ReadCell, Goto, BetweenCalls, Pointer, Place
  <2>2. CASE Acquire(t)
    BY <2>2 DEF Acquire, Increment, Goto, BetweenCalls, Pointer, Place
  <2>3. CASE Update(t)
    BY <2>3 DEF Update, Assign, Goto, BetweenCalls, Pointer, Place
  <2>4. ASSUME NEW r \in Ref, Found(t, r) PROVE BetweenCalls'
    BY <2>4, QuietStep DEF Found
  <2>5. ASSUME NEW r \in Ref, Allocate(t, r) PROVE BetweenCalls'
    BY <2>5, QuietStep DEF Allocate
  <2>6. CASE StillCurrent(t)
    BY <2>6 DEF StillCurrent, Is, Vtables, ReadCell, cellVars, Goto, BetweenCalls, Pointer, Place
  <2>7. ASSUME NEW a \in Addr, Copy(t, a) PROVE BetweenCalls'
    <3>1. a \in Pointer /\ "vec" \in Slot
      BY DEF Pointer
    <3>2. /\ pc[t] = "new" /\ Goto(t, "compare_exchange")
          /\ arc' = [arc EXCEPT ![<<t, "vec">>] = a] /\ UNCHANGED <<cell, seen>>
      BY <2>7 DEF Copy, New
    <3> QED
      BY <3>1, <3>2 DEF Goto, BetweenCalls, Place
  <2>8. CASE Swap(t)
    <3>1. /\ Goto(t, "return") \/ Goto(t, "drop_old") \/ Goto(t, "increment")
          /\ pc[t] = "compare_exchange" /\ cell' \in {cell, arc[<<t, "vec">>]}
          /\ arc' = [arc EXCEPT ![<<t, "vec">>] = cell] \/ arc' = [arc EXCEPT ![<<t, "vec">>] = Null]
          /\ seen' = seen \/ (seen' = [seen EXCEPT ![t] = cell] /\ Goto(t, "increment"))
      BY <2>8 DEF Swap, CompareExchange, Exchange, Vtables
    <3> QED
      BY <3>1 DEF Goto, BetweenCalls, Pointer, Place
  <2>9. CASE DropOld(t)
    BY <2>9 DEF DropOld, Release, Goto, BetweenCalls, Pointer, Place
  <2>10. CASE DropVtables(t)
    BY <2>10 DEF DropVtables, Release, Goto, BetweenCalls, Pointer, Place
  <2>11. CASE Return(t)
    BY <2>11, QuietStep DEF Return, ReturnInsert
  <2> QED
    BY <1>3, <2>1, <2>2, <2>3, <2>4, <2>5, <2>6, <2>7, <2>8, <2>9, <2>10, <2>11 DEF Step
<1> QED
  BY <1>1, <1>2, <1>3 DEF Next

\* Every access of an insert to the cell and to the counts behind it is a call
\* that AtomicArc lets any program make.
LEMMA StepIsCall == BetweenCalls /\ [Next]_vars => [Client!Next]_cellVars
<1> SUFFICES ASSUME BetweenCalls, [Next]_vars PROVE [Client!Next]_cellVars
  OBVIOUS
<1>1. CASE UNCHANGED vars
  BY <1>1 DEF vars
<1>2. ASSUME NEW t \in Thread, NEW c \in Content, Insert(t, c) PROVE [Client!Next]_cellVars
  BY <1>2 DEF Insert
<1>3. ASSUME NEW t \in Thread, Step(t) PROVE [Client!Next]_cellVars
  <2> USE SlotAssumption
  <2>1. ASSUME Client!Resume(t) \/ Client!Call(t) PROVE Client!Next
    BY <1>3, <2>1 DEF Step, Client!Next, Quiet, Client!Quiet
  <2>2. CASE Load(t)
    BY <2>1, <2>2 DEF Load, ReadCell, BetweenCalls, Client!Call, Client!ReadCell
  <2>3. CASE Acquire(t)
    BY <2>1, <2>3 DEF Acquire, Increment, Client!Resume, Client!Increment
  <2>4. CASE Update(t)
    BY <2>1, <2>4 DEF Update, Assign, BetweenCalls, Client!Call, Client!Assign
  <2>5. ASSUME NEW r \in Ref, Found(t, r) \/ Allocate(t, r) PROVE UNCHANGED cellVars
    BY <2>5 DEF Found, Allocate
  <2>6. CASE StillCurrent(t)
    BY <2>1, <2>6
    DEF StillCurrent, Is, ReadCell, BetweenCalls, Client!Call, Client!Is, Client!ReadCell, cellVars, Client!cellVars
  <2>7. ASSUME NEW a \in Addr, Copy(t, a) PROVE Client!Next
    BY <2>1, <2>7 DEF Copy, New, BetweenCalls, Client!Call, Client!New
  <2>8. CASE Swap(t)
    BY <2>1, <2>8
    DEF Swap, CompareExchange, Exchange, BetweenCalls, Client!Call, Client!CompareExchange, Client!Exchange
  <2>9. CASE DropOld(t) \/ DropVtables(t)
    BY <2>1, <2>9 DEF DropOld, DropVtables, Release, BetweenCalls, Client!Call, Client!Release
  <2>10. CASE Return(t)
    BY <2>10 DEF Return
  <2> QED
    BY <1>3, <2>2, <2>3, <2>4, <2>5, <2>6, <2>7, <2>8, <2>9, <2>10 DEF Step
<1> QED
  BY <1>1, <1>2, <1>3 DEF Next

\* VtVec::insert uses its AtomicArc as any program may: the registry implements
\* AtomicArc.
THEOREM RegistryUsesAtomicArc == Spec => ImplementsAtomicArc
<1>1. Init => Client!Init
  BY DEF Init, RegistryInit, CellInit, Place, Client!Init, Client!CellInit, Client!Place
<1>2. BetweenCalls /\ [Next]_vars => [Client!Next]_(Client!cellVars)
  BY StepIsCall DEF cellVars, Client!cellVars
<1> QED
  BY <1>1, <1>2, InitBetween, NextBetween, PTL DEF Spec, ImplementsAtomicArc, Client!Spec

Cell == INSTANCE ArcCellProofs

\* Client and Cell are the same program, of which ArcCellProofs has theorems.
LEMMA SameProgram == Client!Spec => Cell!Spec
<1>1. Client!Init => Cell!Init
  BY DEF Client!Init, Client!CellInit, Client!Place, Cell!Init, Cell!CellInit, Cell!Place
<1>2. Client!Next => Cell!Next
  BY DEF Client!Next, Client!Quiet, Client!Resume, Client!Call, Client!Increment,
         Client!ReadCell, Client!Is, Client!Store, Client!CompareExchange,
         Client!Exchange, Client!New, Client!Release, Client!Assign, Client!DropCell,
         Client!cellVars, Cell!Next, Cell!Quiet, Cell!Resume, Cell!Call, Cell!Increment,
         Cell!ReadCell, Cell!Is, Cell!Store, Cell!CompareExchange, Cell!Exchange,
         Cell!New, Cell!Release, Cell!Assign, Cell!DropCell, Cell!cellVars
<1>3. [Client!Next]_(Client!cellVars) => [Cell!Next]_(Cell!cellVars)
  BY <1>2 DEF Client!cellVars, Cell!cellVars
<1> QED
  BY <1>1, <1>3, PTL DEF Client!Spec, Cell!Spec

\* However the inserts interleave, also inside of a load: no list that an insert
\* holds or that the registry points to is freed, as long as no insert is about
\* to count itself in one that was; and none is, if the only thing that does not
\* come between the two halves of a load is a compare_exchange that replaces the
\* list.  Inserts may read, copy, fail to swap, clone and drop there.  What
\* AtomicArc guarantees of every program, it guarantees of VtVec::insert; what a
\* swap does inside of a load of sync.rs:900 is shown by AtomicArcLoadRace.
THEOREM ListsAreLive ==
  /\ Spec /\ []LoadedArcsAreLive => []OwnedArcsAreLive
  /\ Spec /\ [][PointerRests]_cellVars => []LoadedArcsAreLive
<1>1. Cell!IsFiniteSet(Thread) /\ Cell!IsFiniteSet(Slot)
  BY PlaceAssumption DEF IsFiniteSet, Cell!IsFiniteSet
<1>2. Cell!Spec /\ []Cell!LoadedArcsAreLive => [](Cell!OwnedArcsAreLive /\ Cell!CountsOwners)
  BY <1>1, Cell!OwnedArcsAreLiveTheorem, NullAssumption, OverlapAssumption
<1>3. Cell!Spec /\ [][Cell!SwapsSpareLoads]_(Cell!cellVars) => []Cell!LoadedArcsAreLive
  BY <1>1, Cell!LoadedArcsAreLiveTheorem, NullAssumption, OverlapAssumption
<1>4. [PointerRests]_cellVars => [Cell!SwapsSpareLoads]_(Cell!cellVars)
  BY DEF PointerRests, Cell!SwapsSpareLoads, cellVars, Cell!cellVars
<1>5. Cell!OwnedArcsAreLive <=> OwnedArcsAreLive
  BY DEF OwnedArcsAreLive, Cell!OwnedArcsAreLive, Place, Cell!Place
<1>6. Cell!LoadedArcsAreLive <=> LoadedArcsAreLive
  BY DEF LoadedArcsAreLive, Cell!LoadedArcsAreLive
<1>7. Spec /\ []LoadedArcsAreLive => []OwnedArcsAreLive
  BY <1>2, <1>5, <1>6, RegistryUsesAtomicArc, SameProgram, PTL DEF ImplementsAtomicArc
<1>8. Spec /\ [][PointerRests]_cellVars => []LoadedArcsAreLive
  BY <1>3, <1>4, <1>6, RegistryUsesAtomicArc, SameProgram, PTL DEF ImplementsAtomicArc
<1> QED
  BY <1>7, <1>8
-----------------------------------------------------------------------------
(* The entries of the registry *)

\* What CellTheorem says of the registry's AtomicArc.
CellFacts ==
  /\ memory \in [Addr -> {"live", "free"}]
  /\ OwnedArcsAreLive
  /\ \A t \in Thread : seen[t] \in {Null, cell}

RegistryType ==
  /\ vtable \in [Thread -> Content \cup {Null}]
  /\ allocated_slice \in [Thread -> Ref \cup {Null}]
  /\ result \in [Thread -> Ref \cup {Null}]
  /\ slices \in [Ref -> Content \cup {Null}]
  /\ returned \subseteq Content \X Ref
  /\ search_start \in [Thread -> Nat]
  /\ entries \in [Addr -> Seq(Ref)]

Begins(L, M) == Len(L) <= Len(M) /\ \A i \in 1 .. Len(L) : L[i] = M[i]
Entry(r) == \E i \in 1 .. Len(Current) : Current[i] = r

\* Among the first n entries of a list none holds what t inserts.
Unlike(t, L, n) == \A i \in 1 .. n : slices[L[i]] # vtable[t]

Ready == {"is", "is_again", "new", "compare_exchange"}
Done == {"drop_old", "drop_vtables", "return"}

VtablesList(t) == List(arc[<<t, "vtables">>])
UpdatedList(t) == List(arc[<<t, "updated">>])
VecList(t) == List(arc[<<t, "vec">>])

\* What the variables of an insert hold at each of its steps.
Held(t) ==
  /\ vtable[t] = Null <=> pc[t] = "idle"
  /\ pc[t] = "idle" => allocated_slice[t] = Null /\ search_start[t] = 0
  /\ pc[t] \in Ready => allocated_slice[t] # Null
  /\ result[t] # Null <=> pc[t] \in Done
  /\ pc[t] \in {"idle", "load", "return"} => arc[<<t, "vtables">>] = Null
  /\ pc[t] \notin {"compare_exchange", "drop_old"} => arc[<<t, "vec">>] = Null
  /\ pc[t] = "compare_exchange" => arc[<<t, "vec">>] # Null

\* Its lists are what the registry was before, or will be if nobody is faster.
Lists(t) ==
  /\ Begins(VtablesList(t), Current)
  /\ pc[t] = "assign" => Begins(UpdatedList(t), Current) /\ Begins(VtablesList(t), UpdatedList(t))
  /\ pc[t] = "compare_exchange" => VecList(t) = Append(VtablesList(t), allocated_slice[t])

\* What it has searched.
Searched(t) ==
  /\ pc[t] \notin Done => search_start[t] <= Len(VtablesList(t)) /\ Unlike(t, VtablesList(t), search_start[t])
  /\ pc[t] \in Ready => Unlike(t, VtablesList(t), Len(VtablesList(t)))

\* Its slice is its own, its result an entry.
OwnSlice(t) ==
  /\ allocated_slice[t] # Null => slices[allocated_slice[t]] = vtable[t] /\ ~Entry(allocated_slice[t])
  /\ result[t] # Null => slices[result[t]] = vtable[t] /\ Entry(result[t])

InsertInv(t) == Held(t) /\ Lists(t) /\ Searched(t) /\ OwnSlice(t)

EntriesInv ==
  /\ \A i \in 1 .. Len(Current) : slices[Current[i]] # Null
  /\ \A i, j \in 1 .. Len(Current) : slices[Current[i]] = slices[Current[j]] => i = j
SlicesInv ==
  /\ \A t, u \in Thread : allocated_slice[t] = allocated_slice[u] /\ t # u => allocated_slice[t] = Null
  /\ \A r \in Ref : slices[r] # Null => Entry(r) \/ \E t \in Thread : allocated_slice[t] = r
ReturnedInv == \A p \in returned : slices[p[2]] = p[1] /\ Entry(p[2])

RegistryInv ==
  /\ RegistryType
  /\ EntriesInv /\ SlicesInv /\ ReturnedInv
  /\ \A t \in Thread : InsertInv(t)

-----------------------------------------------------------------------------

\* The lists are sequences of slices.
LEMMA ListType ==
  ASSUME RegistryType, NEW p \in Pointer
  PROVE  List(p) \in Seq(Ref) /\ Len(List(p)) \in Nat /\ \A i \in 1 .. Len(List(p)) : List(p)[i] \in Ref
<1>1. List(p) \in Seq(Ref)
  BY DEF RegistryType, List, Pointer
<1> QED
  BY <1>1

\* A step of t, as Next has them.
Moves(t) == Step(t) \/ \E c \in Content : Insert(t, c)

\* A list stays what it is as long as somebody owns it.
LEMMA ListsStay ==
  ASSUME CellFacts, NEW t \in Thread, Moves(t), NEW p \in Pointer,
         p # Null => memory[p] = "live" /\ memory'[p] = "live"
  PROVE  List(p)' = List(p)
<1>1. CASE UNCHANGED entries
  BY <1>1 DEF List
<1>2. CASE DropLists
  BY <1>2 DEF List, DropLists, Pointer
<1>3. ASSUME NEW a \in Addr, Copy(t, a) PROVE List(p)' = List(p)
  BY <1>3 DEF List, Copy, New, Pointer
<1> QED
  BY <1>1, <1>2, <1>3
     DEF Moves, Insert, Step, Load, Acquire, Update, Found, Allocate, StillCurrent, Swap, DropOld, DropVtables, Return

\* What lies behind the first n elements of a sequence.
LEMMA SubSeqSet ==
  ASSUME NEW S, NEW L \in Seq(S), NEW n \in Nat, n <= Len(L)
  PROVE  ToSet(SubSeq(L, n + 1, Len(L))) = {L[i] : i \in n + 1 .. Len(L)}
<1> DEFINE M == SubSeq(L, n + 1, Len(L))
<1>1. Len(L) \in Nat /\ Len(M) = Len(L) - n /\ DOMAIN M = 1 .. Len(M)
  BY SMT
<1>2. \A i \in 1 .. Len(M) : M[i] = L[n + i] /\ n + i \in n + 1 .. Len(L)
  BY <1>1, SMT
<1>3. \A i \in n + 1 .. Len(L) : i - n \in DOMAIN M /\ L[i] = M[i - n]
  BY <1>1, <1>2
<1>4. ToSet(M) = {M[i] : i \in DOMAIN M}
  BY DEF ToSet
<1> HIDE DEF M
<1>5. ASSUME NEW x \in {L[i] : i \in n + 1 .. Len(L)} PROVE x \in ToSet(M)
  BY <1>3, <1>4
<1>6. ASSUME NEW x \in ToSet(M) PROVE x \in {L[i] : i \in n + 1 .. Len(L)}
  BY <1>1, <1>2, <1>4
<1>7. ToSet(M) = {L[i] : i \in n + 1 .. Len(L)}
  BY <1>5, <1>6
<1> QED
  BY <1>7 DEF M

\* An empty registry, and nobody inserts.
LEMMA InitInv == Init => RegistryInv
<1> SUFFICES ASSUME Init PROVE RegistryInv
  OBVIOUS
<1> USE DEF Init, RegistryInit, CellInit
<1>1. RegistryType
  BY DEF RegistryType
<1>2. Current = << >> /\ \A t \in Thread : VtablesList(t) = << >>
  BY SlotAssumption DEF Current, List, VtablesList, Place
<1>3. EntriesInv /\ SlicesInv /\ ReturnedInv
  BY <1>2 DEF EntriesInv, SlicesInv, ReturnedInv, Entry
<1>4. ASSUME NEW t \in Thread PROVE InsertInv(t)
  <2>1. Held(t)
    BY SlotAssumption DEF Held, Ready, Done, Place
  <2>2. Lists(t)
    BY <1>2 DEF Lists, Begins
  <2>3. Searched(t) /\ OwnSlice(t)
    BY <1>2 DEF Searched, OwnSlice, Unlike, Ready
  <2> QED
    BY <2>1, <2>2, <2>3 DEF InsertInv
<1> QED
  BY <1>1, <1>3, <1>4 DEF RegistryInv

\* So does the list of an Arc that moves from one owner to another.
LEMMA OwnedListStays ==
  ASSUME CellFacts, CellFacts', BetweenCalls, BetweenCalls',
         NEW t \in Thread, Moves(t), NEW p \in Pointer,
         p = cell \/ \E o \in Place : arc[o] = p, p = cell' \/ \E o \in Place : arc'[o] = p
  PROVE  List(p)' = List(p)
<1>1. p # Null => memory[p] = "live" /\ memory'[p] = "live"
  BY DEF CellFacts, OwnedArcsAreLive
<1> QED
  BY <1>1, ListsStay

\* The list in the registry is another one only after a swap.
LEMMA CurrentStays ==
  ASSUME CellFacts, CellFacts', BetweenCalls, BetweenCalls',
         NEW t \in Thread, Moves(t), cell' = cell
  PROVE  Current' = Current
<1>1. ASSUME NEW q \in Pointer, q = cell PROVE List(q)' = List(q)
  BY <1>1, OwnedListStays
<1> QED
  BY <1>1 DEF BetweenCalls, Current, List

\* A variable that is not assigned has the list it had.
LEMMA SlotListStays ==
  ASSUME CellFacts, CellFacts', BetweenCalls, BetweenCalls',
         NEW t \in Thread, Moves(t), NEW u \in Thread, NEW s \in Slot,
         arc'[<<u, s>>] = arc[<<u, s>>]
  PROVE  List(arc[<<u, s>>])' = List(arc[<<u, s>>])
<1>1. arc[<<u, s>>] \in Pointer /\ <<u, s>> \in Place
  BY DEF BetweenCalls, Place
<1>2. ASSUME NEW q \in Pointer, q = arc[<<u, s>>] PROVE List(q)' = List(q)
  BY <1>1, <1>2, OwnedListStays
<1> QED
  BY <1>1, <1>2 DEF List

\* A step that does not concern insert u.
SameFor(u) ==
  /\ pc'[u] = pc[u] /\ vtable'[u] = vtable[u] /\ allocated_slice'[u] = allocated_slice[u]
  /\ result'[u] = result[u] /\ search_start'[u] = search_start[u]
  /\ \A s \in Slot : arc'[<<u, s>>] = arc[<<u, s>>]

\* What holds of the inserts of the other threads goes on to hold if the list in
\* the registry only grows and their slices are left alone.
LEMMA OtherInsert ==
  ASSUME RegistryInv, CellFacts, CellFacts', BetweenCalls, BetweenCalls',
         NEW t \in Thread, Moves(t), NEW u \in Thread, SameFor(u),
         Begins(Current, Current'),
         \A i \in 1 .. Len(Current) : slices'[Current[i]] = slices[Current[i]],
         allocated_slice[u] # Null => slices'[allocated_slice[u]] = slices[allocated_slice[u]]
                                      /\ ~Entry(allocated_slice[u])'
  PROVE  InsertInv(u)'
<1> DEFINE V == VtablesList(u)
<1> DEFINE U == UpdatedList(u)
<1> USE DEF SameFor
<1>0. InsertInv(u) /\ RegistryType
  BY DEF RegistryInv
<1>1. V \in Seq(Ref) /\ U \in Seq(Ref) /\ Current \in Seq(Ref)
  BY <1>0, SlotAssumption, ListType DEF BetweenCalls, Place, VtablesList, UpdatedList, Current
<1>2. V' = V /\ U' = U /\ VecList(u)' = VecList(u)
  BY SlotAssumption, SlotListStays DEF SameFor, VtablesList, UpdatedList, VecList
<1>3. Held(u)'
  BY <1>0, SlotAssumption DEF InsertInv, Held
<1>4. Lists(u)'
  <2>1. ASSUME NEW L \in Seq(Ref), Begins(L, Current) PROVE Begins(L, Current')
    BY <2>1, <1>1 DEF Begins
  <2> QED
    BY <1>0, <1>1, <1>2, <2>1 DEF InsertInv, Lists, Begins
<1>5. Searched(u)'
  <2>1. Len(V) \in Nat /\ \A i \in 1 .. Len(V) : slices'[V[i]] = slices[V[i]]
    BY <1>0, <1>1 DEF InsertInv, Lists, Begins
  <2>2. search_start[u] \in Nat
    BY <1>0 DEF RegistryType
  <2>3. ASSUME NEW n \in Nat, n <= Len(V), Unlike(u, V, n)
        PROVE  \A i \in 1 .. n : slices'[V[i]] # vtable'[u]
    BY <2>1, <2>3 DEF Unlike
  <2>4. VtablesList(u)' = V /\ search_start'[u] = search_start[u] /\ pc'[u] = pc[u]
    BY <1>2
  <2>5. pc[u] \notin Done => search_start[u] <= Len(V) /\ \A i \in 1 .. search_start[u] : slices'[V[i]] # vtable'[u]
    BY <1>0, <2>2, <2>3 DEF InsertInv, Searched
  <2>6. pc[u] \in Ready => \A i \in 1 .. Len(V) : slices'[V[i]] # vtable'[u]
    BY <1>0, <2>1, <2>3 DEF InsertInv, Searched
  <2> QED
    BY <2>4, <2>5, <2>6 DEF Searched, Unlike
<1>6. OwnSlice(u)'
  <2>1. ASSUME NEW r, Entry(r) PROVE Entry(r)' /\ slices'[r] = slices[r]
    BY <2>1, <1>1 DEF Entry, Begins
  <2> QED
    BY <1>0, <2>1 DEF InsertInv, OwnSlice
<1> QED
  BY <1>3, <1>4, <1>5, <1>6 DEF InsertInv

\* A step that leaves the registry and all slices alone is a matter of the insert
\* that takes it.
LEMMA LocalStep ==
  ASSUME RegistryInv, CellFacts, CellFacts', BetweenCalls, BetweenCalls',
         NEW t \in Thread, Moves(t), \A u \in Thread \ {t} : SameFor(u),
         cell' = cell, UNCHANGED <<slices, returned, allocated_slice>>,
         RegistryType', Current' = Current => InsertInv(t)'
  PROVE  RegistryInv'
<1>1. Current' = Current
  BY CurrentStays
<1>2. ASSUME NEW r PROVE Entry(r)' <=> Entry(r)
  BY <1>1 DEF Entry
<1>3. EntriesInv' /\ SlicesInv' /\ ReturnedInv'
  BY <1>1, <1>2 DEF RegistryInv, EntriesInv, SlicesInv, ReturnedInv
<1>4. Begins(Current, Current')
  <2>1. Current \in Seq(Ref)
    BY ListType DEF RegistryInv, BetweenCalls, Current
  <2> QED
    BY <1>1, <2>1 DEF Begins
<1>5. ASSUME NEW u \in Thread \ {t} PROVE InsertInv(u)'
  <2>1. allocated_slice[u] # Null => ~Entry(allocated_slice[u])'
    BY <1>2 DEF RegistryInv, InsertInv, OwnSlice
  <2> QED
    BY <1>4, <2>1, OtherInsert
<1> QED
  BY <1>1, <1>3, <1>5 DEF RegistryInv

\* A load has read the pointer and holds nothing yet.
LEMMA LoadInv ==
  ASSUME RegistryInv, CellFacts, CellFacts', BetweenCalls, BetweenCalls',
         NEW t \in Thread, Moves(t), Load(t)
  PROVE  RegistryInv'
<1> USE DEF Load, ReadCell, Goto, registryVars
<1>1. RegistryType'
  BY DEF RegistryInv, RegistryType
<1>2. \A u \in Thread \ {t} : SameFor(u)
  BY DEF SameFor, BetweenCalls
<1>3. ASSUME Current' = Current PROVE InsertInv(t)'
  <2>0. pc[t] = "load" /\ pc'[t] \in {"search", "increment"} /\ InsertInv(t)
    BY DEF RegistryInv, BetweenCalls
  <2>1. VtablesList(t)' = VtablesList(t)
    BY SlotListStays, SlotAssumption DEF VtablesList
  <2>2. Held(t)'
    BY <2>0 DEF InsertInv, Held, Ready, Done
  <2>3. Lists(t)'
    BY <2>0, <2>1, <1>3 DEF InsertInv, Lists, Begins
  <2>4. Searched(t)'
    BY <2>0, <2>1 DEF InsertInv, Searched, Unlike, Ready, Done
  <2>5. OwnSlice(t)'
    BY <2>0, <1>3 DEF InsertInv, OwnSlice, Entry
  <2> QED
    BY <2>2, <2>3, <2>4, <2>5 DEF InsertInv
<1> QED
  BY <1>1, <1>2, <1>3, LocalStep

\* The list that was read is counted in before anybody can replace it.
LEMMA AcquireInv ==
  ASSUME RegistryInv, CellFacts, CellFacts', BetweenCalls, BetweenCalls',
         NEW t \in Thread, Moves(t), Acquire(t)
  PROVE  RegistryInv'
<1> USE DEF Acquire, Increment, Goto, registryVars
<1>0. pc[t] = "increment" /\ pc'[t] = "assign" /\ InsertInv(t) /\ seen[t] = cell
  BY DEF RegistryInv, BetweenCalls, CellFacts
<1>1. RegistryType'
  BY DEF RegistryInv, RegistryType
<1>2. \A u \in Thread \ {t} : SameFor(u)
  BY DEF SameFor, BetweenCalls, Place
<1>3. ASSUME Current' = Current PROVE InsertInv(t)'
  <2>1. VtablesList(t)' = VtablesList(t) /\ arc'[<<t, "vtables">>] = arc[<<t, "vtables">>]
        /\ arc'[<<t, "vec">>] = arc[<<t, "vec">>]
    BY SlotListStays, SlotAssumption DEF VtablesList, BetweenCalls, Place
  <2>2. UpdatedList(t)' = Current
    <3>1. arc'[<<t, "updated">>] = cell'
      BY <1>0, SlotAssumption DEF BetweenCalls, Place
    <3> QED
      BY <3>1, <1>3 DEF UpdatedList, Current, List
  <2>3. Held(t)'
    BY <1>0, <2>1 DEF InsertInv, Held, Ready, Done
  <2>4. Lists(t)'
    <3>1. Current \in Seq(Ref)
      BY ListType DEF RegistryInv, BetweenCalls, Current
    <3> QED
      BY <1>0, <2>1, <2>2, <1>3, <3>1 DEF InsertInv, Lists, Begins
  <2>5. Searched(t)'
    BY <1>0, <2>1 DEF InsertInv, Searched, Unlike, Ready, Done
  <2>6. OwnSlice(t)'
    BY <1>0, <1>3 DEF InsertInv, OwnSlice, Entry
  <2> QED
    BY <2>3, <2>4, <2>5, <2>6 DEF InsertInv
<1> QED
  BY <1>1, <1>2, <1>3, LocalStep

\* The list that is assigned begins with the one it replaces, so what was searched
\* of the old one need not be searched again.
LEMMA UpdateInv ==
  ASSUME RegistryInv, CellFacts, CellFacts', BetweenCalls, BetweenCalls',
         NEW t \in Thread, Moves(t), Update(t)
  PROVE  RegistryInv'
<1> USE DEF Update, Assign, Goto, registryVars
<1>0. pc[t] = "assign" /\ pc'[t] = "search" /\ InsertInv(t) /\ RegistryType
  BY DEF RegistryInv, BetweenCalls
<1>1. RegistryType'
  BY <1>0 DEF RegistryType, DropLists
<1>2. \A u \in Thread \ {t} : SameFor(u)
  BY DEF SameFor, BetweenCalls, Place
<1>3. ASSUME Current' = Current PROVE InsertInv(t)'
  <2>0. /\ arc'[<<t, "vtables">>] = arc[<<t, "updated">>] /\ arc'[<<t, "vec">>] = arc[<<t, "vec">>]
        /\ arc[<<t, "updated">>] \in Pointer /\ <<t, "updated">> \in Place /\ <<t, "vtables">> \in Place
    BY SlotAssumption DEF BetweenCalls, Place
  <2>1. VtablesList(t)' = UpdatedList(t)
    <3>1. ASSUME NEW q \in Pointer, q = arc[<<t, "updated">>] PROVE List(q)' = List(q)
      BY <2>0, <3>1, OwnedListStays
    <3> QED
      BY <2>0, <3>1 DEF VtablesList, UpdatedList, List
  <2>2. VtablesList(t) \in Seq(Ref) /\ UpdatedList(t) \in Seq(Ref) /\ search_start[t] \in Nat
    BY <1>0, ListType, SlotAssumption DEF RegistryType, BetweenCalls, Place, VtablesList, UpdatedList
  <2>3. Held(t)'
    BY <1>0, <2>0 DEF InsertInv, Held, Ready, Done
  <2>4. Lists(t)'
    BY <1>0, <2>1, <1>3 DEF InsertInv, Lists, Begins
  <2>5. Searched(t)'
    <3>1. search_start[t] <= Len(VtablesList(t)) /\ Unlike(t, VtablesList(t), search_start[t])
      BY <1>0 DEF InsertInv, Searched, Done
    <3>2. Begins(VtablesList(t), UpdatedList(t))
      BY <1>0 DEF InsertInv, Lists
    <3>3. search_start[t] <= Len(UpdatedList(t)) /\ \A i \in 1 .. search_start[t] : slices[UpdatedList(t)[i]] # vtable[t]
      BY <2>2, <3>1, <3>2 DEF Begins, Unlike
    <3> QED
      BY <1>0, <2>1, <3>3 DEF Searched, Unlike, Ready
  <2>6. OwnSlice(t)'
    BY <1>0, <1>3 DEF InsertInv, OwnSlice, Entry
  <2> QED
    BY <2>3, <2>4, <2>5, <2>6 DEF InsertInv
<1> QED
  BY <1>1, <1>2, <1>3, LocalStep

\* What a search finds is an entry; what it does not find is not in the list.
LEMMA MatchesAreEntries ==
  ASSUME RegistryInv, BetweenCalls, NEW t \in Thread, pc[t] = "search"
  PROVE  /\ \A r \in Matches(t) : slices[r] = vtable[t] /\ Entry(r)
         /\ Matches(t) = {} => Unlike(t, VtablesList(t), Len(VtablesList(t)))
<1> DEFINE V == VtablesList(t)
<1> DEFINE n == search_start[t]
<1>0. InsertInv(t) /\ RegistryType
  BY DEF RegistryInv
<1>1. V \in Seq(Ref) /\ n \in Nat /\ n <= Len(V) /\ Len(V) \in Nat /\ Unlike(t, V, n)
  BY <1>0, ListType, SlotAssumption DEF BetweenCalls, Place, VtablesList, RegistryType, InsertInv, Searched, Done
<1>2. ToSet(SubSeq(V, n + 1, Len(V))) = {V[i] : i \in n + 1 .. Len(V)}
  BY <1>1, SubSeqSet
<1>3. Matches(t) = {r \in {V[i] : i \in n + 1 .. Len(V)} : slices[r] = vtable[t]}
  BY <1>2 DEF Matches, Vtables, VtablesList
<1>4. Begins(V, Current)
  BY <1>0 DEF InsertInv, Lists
<1>5. \A i \in 1 .. Len(V) : Entry(V[i])
  BY <1>1, <1>4, ListType DEF Begins, Entry, RegistryInv, BetweenCalls, Current
<1>6. \A r \in Matches(t) : slices[r] = vtable[t] /\ Entry(r)
  BY <1>1, <1>3, <1>5
<1>7. Matches(t) = {} => Unlike(t, V, Len(V))
  BY <1>1, <1>3 DEF Unlike
<1> QED
  BY <1>6, <1>7

\* What is returned is an entry with the content that was asked for.
LEMMA FoundInv ==
  ASSUME RegistryInv, CellFacts, CellFacts', BetweenCalls, BetweenCalls',
         NEW t \in Thread, Moves(t), NEW r \in Ref, Found(t, r)
  PROVE  RegistryInv'
<1> USE DEF Found, Goto, cellVars
<1>0. pc[t] = "search" /\ pc'[t] = "drop_vtables" /\ InsertInv(t) /\ RegistryType /\ result'[t] = r
  BY DEF RegistryInv, RegistryType, BetweenCalls
<1>1. RegistryType'
  BY <1>0 DEF RegistryType
<1>2. \A u \in Thread \ {t} : SameFor(u)
  BY <1>0 DEF SameFor, BetweenCalls, RegistryType
<1>3. ASSUME Current' = Current PROVE InsertInv(t)'
  <2>1. VtablesList(t)' = VtablesList(t)
    BY SlotListStays, SlotAssumption DEF VtablesList
  <2>2. Held(t)'
    BY <1>0, ContentAssumption DEF InsertInv, Held, Ready, Done
  <2>3. Lists(t)'
    BY <1>0, <2>1, <1>3 DEF InsertInv, Lists, Begins
  <2>4. Searched(t)'
    BY <1>0, <2>1 DEF InsertInv, Searched, Unlike, Ready, Done
  <2>5. r \in Matches(t) /\ Entry(r)
    BY <1>0, MatchesAreEntries
  <2>6. OwnSlice(t)'
    BY <1>0, <1>3, <2>5 DEF InsertInv, OwnSlice, Entry, Matches
  <2> QED
    BY <2>2, <2>3, <2>4, <2>6 DEF InsertInv
<1> QED
  BY <1>1, <1>2, <1>3, LocalStep

\* A comparison with the cell learns nothing that lasts.
LEMMA StillCurrentInv ==
  ASSUME RegistryInv, CellFacts, CellFacts', BetweenCalls, BetweenCalls',
         NEW t \in Thread, Moves(t), StillCurrent(t)
  PROVE  RegistryInv'
<1> USE DEF StillCurrent, Is, ReadCell, Goto, registryVars, cellVars
<1>0. /\ pc[t] \in {"is", "is_again"} /\ pc'[t] \in {"is_again", "new", "increment"}
      /\ InsertInv(t) /\ arc' = arc
  BY DEF RegistryInv, BetweenCalls
<1>1. RegistryType'
  BY DEF RegistryInv, RegistryType
<1>2. \A u \in Thread \ {t} : SameFor(u)
  BY <1>0 DEF SameFor, BetweenCalls
<1>3. ASSUME Current' = Current PROVE InsertInv(t)'
  <2>1. VtablesList(t)' = VtablesList(t)
    BY <1>0, SlotListStays, SlotAssumption DEF VtablesList
  <2>2. Held(t)'
    BY <1>0 DEF InsertInv, Held, Ready, Done
  <2>3. Lists(t)'
    BY <1>0, <2>1, <1>3 DEF InsertInv, Lists, Begins
  <2>4. Searched(t)'
    BY <1>0, <2>1 DEF InsertInv, Searched, Unlike, Ready, Done
  <2>5. OwnSlice(t)'
    BY <1>0, <1>3 DEF InsertInv, OwnSlice, Entry
  <2> QED
    BY <2>2, <2>3, <2>4, <2>5 DEF InsertInv
<1> QED
  BY <1>0, <1>1, <1>2, <1>3, LocalStep

\* The old list goes, the entries stay.
LEMMA DropOldInv ==
  ASSUME RegistryInv, CellFacts, CellFacts', BetweenCalls, BetweenCalls',
         NEW t \in Thread, Moves(t), DropOld(t)
  PROVE  RegistryInv'
<1> USE DEF DropOld, Release, Goto, registryVars
<1>0. pc[t] = "drop_old" /\ pc'[t] = "drop_vtables" /\ InsertInv(t) /\ RegistryType
  BY DEF RegistryInv, BetweenCalls
<1>1. RegistryType'
  BY <1>0 DEF RegistryType, DropLists
<1>2. \A u \in Thread \ {t} : SameFor(u)
  BY DEF SameFor, BetweenCalls, Place
<1>3. ASSUME Current' = Current PROVE InsertInv(t)'
  <2>0. arc'[<<t, "vtables">>] = arc[<<t, "vtables">>] /\ arc'[<<t, "vec">>] = Null
    BY SlotAssumption DEF BetweenCalls, Place
  <2>1. VtablesList(t)' = VtablesList(t)
    BY <2>0, SlotListStays, SlotAssumption DEF VtablesList
  <2>2. Held(t)'
    BY <1>0, <2>0 DEF InsertInv, Held, Ready, Done
  <2>3. Lists(t)'
    BY <1>0, <2>1, <1>3 DEF InsertInv, Lists
  <2>4. Searched(t)'
    BY <1>0 DEF Searched, Ready, Done
  <2>5. OwnSlice(t)'
    BY <1>0, <1>3 DEF InsertInv, OwnSlice, Entry
  <2> QED
    BY <2>2, <2>3, <2>4, <2>5 DEF InsertInv
<1> QED
  BY <1>1, <1>2, <1>3, LocalStep

\* So does the list that was searched.
LEMMA DropVtablesInv ==
  ASSUME RegistryInv, CellFacts, CellFacts', BetweenCalls, BetweenCalls',
         NEW t \in Thread, Moves(t), DropVtables(t)
  PROVE  RegistryInv'
<1> USE DEF DropVtables, Release, Goto, registryVars
<1>0. pc[t] = "drop_vtables" /\ pc'[t] = "return" /\ InsertInv(t) /\ RegistryType
  BY DEF RegistryInv, BetweenCalls
<1>1. RegistryType'
  BY <1>0 DEF RegistryType, DropLists
<1>2. \A u \in Thread \ {t} : SameFor(u)
  BY DEF SameFor, BetweenCalls, Place
<1>3. ASSUME Current' = Current PROVE InsertInv(t)'
  <2>0. arc'[<<t, "vtables">>] = Null /\ arc'[<<t, "vec">>] = arc[<<t, "vec">>]
    BY SlotAssumption DEF BetweenCalls, Place
  <2>1. Begins(VtablesList(t)', Current)
    <3>1. Len(Current) \in Nat
      BY ListType DEF RegistryInv, BetweenCalls, Current
    <3> QED
      BY <2>0, <3>1 DEF VtablesList, List, Begins
  <2>2. Held(t)'
    BY <1>0, <2>0 DEF InsertInv, Held, Ready, Done
  <2>3. Lists(t)'
    BY <1>0, <2>1, <1>3 DEF Lists
  <2>4. Searched(t)'
    BY <1>0 DEF Searched, Ready, Done
  <2>5. OwnSlice(t)'
    BY <1>0, <1>3 DEF InsertInv, OwnSlice, Entry
  <2> QED
    BY <2>2, <2>3, <2>4, <2>5 DEF InsertInv
<1> QED
  BY <1>1, <1>2, <1>3, LocalStep

\* The copy has one more entry, which nobody sees yet.
LEMMA CopyInv ==
  ASSUME RegistryInv, CellFacts, CellFacts', BetweenCalls, BetweenCalls',
         NEW t \in Thread, Moves(t), NEW a \in Addr, Copy(t, a)
  PROVE  RegistryInv'
<1> USE DEF Copy, New, Goto, registryVars
<1>0. pc[t] = "new" /\ pc'[t] = "compare_exchange" /\ InsertInv(t) /\ RegistryType
  BY DEF RegistryInv, BetweenCalls
<1>a. allocated_slice[t] \in Ref
  BY <1>0 DEF RegistryType, InsertInv, Held, Ready
<1>b. VtablesList(t) \in Seq(Ref)
  BY <1>0, ListType, SlotAssumption DEF VtablesList, BetweenCalls, Place
<1>t. List(Vtables(t)) = VtablesList(t) /\ VtablesList(t) \in Seq(Ref) /\ allocated_slice[t] \in Ref
  BY <1>a, <1>b DEF Vtables, VtablesList
<1>1. RegistryType'
  BY <1>0, <1>t DEF RegistryType
<1>2. \A u \in Thread \ {t} : SameFor(u)
  BY DEF SameFor, BetweenCalls, Place
<1>3. ASSUME Current' = Current PROVE InsertInv(t)'
  <2>1. VtablesList(t)' = VtablesList(t) /\ arc'[<<t, "vtables">>] = arc[<<t, "vtables">>]
    BY SlotListStays, SlotAssumption DEF VtablesList, BetweenCalls, Place
  <2>2. arc'[<<t, "vec">>] = a /\ a # Null
    BY SlotAssumption, NullAssumption DEF BetweenCalls, Place
  <2>3. VecList(t)' = Append(VtablesList(t), allocated_slice[t])
    BY <1>0, <1>t, <2>2 DEF VecList, List, RegistryType
  <2>4. Held(t)'
    BY <1>0, <2>1, <2>2 DEF InsertInv, Held, Ready, Done
  <2>5. Lists(t)'
    BY <1>0, <2>1, <2>3, <1>3 DEF InsertInv, Lists, Begins
  <2>6. Searched(t)'
    BY <1>0, <2>1 DEF InsertInv, Searched, Unlike, Ready, Done
  <2>7. OwnSlice(t)'
    BY <1>0, <1>3 DEF InsertInv, OwnSlice, Entry
  <2> QED
    BY <2>4, <2>5, <2>6, <2>7 DEF InsertInv
<1> QED
  BY <1>1, <1>2, <1>3, LocalStep

\* The slice that an insert allocates, if it has none yet, is nobody else's.
LEMMA AllocateInv ==
  ASSUME RegistryInv, CellFacts, CellFacts', BetweenCalls, BetweenCalls',
         NEW t \in Thread, Moves(t), NEW r \in Ref, Allocate(t, r)
  PROVE  RegistryInv'
<1> USE DEF Allocate, NeedSlice, Goto, cellVars
<1>0. pc[t] = "search" /\ pc'[t] = "is" /\ InsertInv(t) /\ RegistryType /\ r # Null /\ vtable[t] # Null
  BY ContentAssumption DEF RegistryInv, InsertInv, Held, BetweenCalls
<1>1. /\ allocated_slice'[t] = r /\ slices'[r] = vtable[t] /\ ~Entry(r)
      /\ \A u \in Thread \ {t} : allocated_slice'[u] = allocated_slice[u] /\ allocated_slice[u] # r
      /\ \A q \in Ref \ {r} : slices'[q] = slices[q]
      /\ allocated_slice[t] # Null => allocated_slice[t] = r
      /\ slices[r] # Null => slices'[r] = slices[r]
  <2>1. CASE allocated_slice[t] = Null
    <3>1. slices[r] = Null /\ slices' = [slices EXCEPT ![r] = vtable[t]]
          /\ allocated_slice' = [allocated_slice EXCEPT ![t] = r]
      BY <2>1
    <3>2. ~Entry(r)
      BY <3>1 DEF Entry, RegistryInv, EntriesInv
    <3>3. \A u \in Thread : allocated_slice[u] # r
      BY <1>0, <3>1, ContentAssumption DEF RegistryInv, InsertInv, OwnSlice, Held, RegistryType
    <3> QED
      BY <1>0, <2>1, <3>1, <3>2, <3>3 DEF RegistryType
  <2>2. CASE allocated_slice[t] # Null
    BY <1>0, <2>2 DEF InsertInv, OwnSlice, RegistryInv, SlicesInv
  <2> QED
    BY <2>1, <2>2
<1>2. RegistryType'
  BY <1>0 DEF RegistryType
<1>3. Current' = Current /\ Current \in Seq(Ref)
  BY CurrentStays, ListType DEF RegistryInv, BetweenCalls, Current
<1>4. ASSUME NEW q PROVE Entry(q)' <=> Entry(q)
  BY <1>3 DEF Entry
<1>5. \A i \in 1 .. Len(Current) : slices'[Current[i]] = slices[Current[i]]
  BY <1>1, <1>3 DEF Entry
<1>6. EntriesInv'
  BY <1>3, <1>5 DEF RegistryInv, EntriesInv
<1>7. SlicesInv'
  <2>1. ASSUME NEW u \in Thread, NEW v \in Thread,
               allocated_slice'[u] = allocated_slice'[v], u # v
        PROVE  allocated_slice'[u] = Null
    BY <1>1, <2>1 DEF RegistryInv, SlicesInv
  <2>2. ASSUME NEW q \in Ref, slices'[q] # Null
        PROVE  Entry(q)' \/ \E u \in Thread : allocated_slice'[u] = q
    <3>1. CASE q = r
      BY <1>1, <3>1
    <3>2. CASE q # r
      <4>1. slices[q] # Null
        BY <1>1, <2>2, <3>2
      <4>2. ASSUME NEW u \in Thread, allocated_slice[u] = q PROVE allocated_slice'[u] = q
        BY <1>0, <1>1, <3>2, <4>2, ContentAssumption
      <4> QED
        BY <1>4, <4>1, <4>2 DEF RegistryInv, SlicesInv
    <3> QED
      BY <3>1, <3>2
  <2> QED
    BY <2>1, <2>2 DEF SlicesInv
<1>8. ReturnedInv'
  <2>1. ASSUME NEW p \in returned PROVE slices'[p[2]] = p[1] /\ Entry(p[2])'
    <3>1. slices[p[2]] = p[1] /\ Entry(p[2]) /\ p[2] \in Ref
      BY <1>0 DEF RegistryInv, ReturnedInv, RegistryType
    <3> QED
      BY <1>1, <1>4, <3>1
  <2> QED
    BY <2>1 DEF ReturnedInv
<1>9. ASSUME NEW u \in Thread \ {t} PROVE InsertInv(u)'
  <2>1. SameFor(u)
    BY <1>0, <1>1 DEF SameFor, BetweenCalls
  <2>2. Begins(Current, Current')
    BY <1>3 DEF Begins
  <2>3. allocated_slice[u] # Null => slices'[allocated_slice[u]] = slices[allocated_slice[u]]
                                     /\ ~Entry(allocated_slice[u])'
    BY <1>0, <1>1, <1>4 DEF RegistryInv, InsertInv, OwnSlice, RegistryType
  <2> QED
    BY <1>5, <2>1, <2>2, <2>3, OtherInsert
<1>10. InsertInv(t)'
  <2>0. VtablesList(t)' = VtablesList(t) /\ VtablesList(t) \in Seq(Ref)
    BY <1>0, SlotListStays, SlotAssumption, ListType DEF VtablesList, BetweenCalls, Place
  <2>1. Held(t)'
    BY <1>0, <1>1 DEF InsertInv, Held, Ready, Done
  <2>2. Lists(t)'
    BY <1>0, <1>3, <2>0 DEF InsertInv, Lists, Begins
  <2>3. \A i \in 1 .. Len(VtablesList(t)) : slices'[VtablesList(t)[i]] # vtable'[t]
    <3>1. Unlike(t, VtablesList(t), Len(VtablesList(t))) /\ Begins(VtablesList(t), Current)
      BY <1>0, MatchesAreEntries DEF InsertInv, Lists
    <3> QED
      BY <1>3, <1>5, <2>0, <3>1 DEF Unlike, Begins
  <2>4. search_start'[t] \in Nat /\ search_start'[t] <= Len(VtablesList(t))
    BY <1>0 DEF RegistryType, InsertInv, Searched, Done
  <2>5. Searched(t)'
    BY <1>0, <2>0, <2>3, <2>4 DEF Searched, Unlike, Ready, Done
  <2>6. OwnSlice(t)'
    BY <1>0, <1>1, <1>4 DEF InsertInv, OwnSlice, Held, Done
  <2> QED
    BY <2>1, <2>2, <2>5, <2>6 DEF InsertInv
<1> QED
  BY <1>2, <1>6, <1>7, <1>8, <1>9, <1>10 DEF RegistryInv

\* A swap that fails has the next search skip what it knows.
LEMMA SwapFailsInv ==
  ASSUME RegistryInv, CellFacts, CellFacts', BetweenCalls, BetweenCalls',
         NEW t \in Thread, Moves(t), Swap(t), cell # Vtables(t)
  PROVE  RegistryInv'
<1> USE DEF Swap, CompareExchange, Vtables, Goto, registryVars
<1>0. /\ pc[t] = "compare_exchange" /\ pc'[t] = "increment" /\ InsertInv(t) /\ RegistryType
      /\ arc' = [arc EXCEPT ![<<t, "vec">>] = Null]
      /\ search_start' = [search_start EXCEPT ![t] = Len(List(Vtables(t)))]
      /\ UNCHANGED <<cell, vtable, allocated_slice, result, slices, returned, entries>>
  BY DEF RegistryInv, BetweenCalls
<1>a. VtablesList(t) \in Seq(Ref) /\ Len(VtablesList(t)) \in Nat
      /\ search_start' = [search_start EXCEPT ![t] = Len(VtablesList(t))]
  <2>1. arc[<<t, "vtables">>] \in Pointer
    BY SlotAssumption DEF BetweenCalls, Place
  <2> QED
    BY <1>0, <2>1, ListType DEF VtablesList
<1>1. RegistryType'
  BY <1>0, <1>a DEF RegistryType
<1>2. \A u \in Thread \ {t} : SameFor(u)
  BY <1>0, <1>a DEF SameFor, BetweenCalls, RegistryType, Place
<1>3. ASSUME Current' = Current PROVE InsertInv(t)'
  <2>0. arc'[<<t, "vtables">>] = arc[<<t, "vtables">>] /\ arc'[<<t, "vec">>] = Null
        /\ search_start'[t] = Len(VtablesList(t))
    BY <1>0, <1>a, SlotAssumption DEF BetweenCalls, Place, RegistryType
  <2>1. VtablesList(t)' = VtablesList(t)
    BY <2>0, SlotListStays, SlotAssumption DEF VtablesList
  <2>2. Held(t)'
    BY <1>0, <2>0 DEF InsertInv, Held, Ready, Done
  <2>3. Lists(t)'
    BY <1>0, <2>1, <1>3 DEF InsertInv, Lists, Begins
  <2>4. Searched(t)'
    BY <1>0, <1>a, <2>0, <2>1 DEF InsertInv, Searched, Unlike, Ready, Done
  <2>5. OwnSlice(t)'
    BY <1>0, <1>3 DEF InsertInv, OwnSlice, Entry
  <2> QED
    BY <2>2, <2>3, <2>4, <2>5 DEF InsertInv
<1> QED
  BY <1>0, <1>1, <1>2, <1>3, LocalStep

\* What a swap that succeeds does to the lists and the slices.
LEMMA SwapGrows ==
  ASSUME RegistryInv, CellFacts, BetweenCalls, NEW t \in Thread, Swap(t), cell = Vtables(t)
  PROVE  /\ Current' = Append(Current, allocated_slice[t]) /\ Current \in Seq(Ref)
         /\ allocated_slice[t] \in Ref /\ ~Entry(allocated_slice[t])
         /\ slices[allocated_slice[t]] = vtable[t] /\ vtable[t] \in Content
         /\ \A i \in 1 .. Len(Current) : slices[Current[i]] # vtable[t]
         /\ Current = VtablesList(t)
         /\ cell' = arc[<<t, "vec">>] /\ arc' = [arc EXCEPT ![<<t, "vec">>] = cell]
<1> USE DEF Swap, CompareExchange, Exchange, Vtables, Goto
<1>0. pc[t] = "compare_exchange" /\ InsertInv(t) /\ RegistryType
  BY DEF RegistryInv
<1>1. Current = VtablesList(t) /\ Current \in Seq(Ref)
  BY <1>0, ListType DEF Current, VtablesList, BetweenCalls
<1>2. allocated_slice[t] \in Ref /\ ~Entry(allocated_slice[t]) /\ slices[allocated_slice[t]] = vtable[t]
  BY <1>0 DEF RegistryType, InsertInv, Held, OwnSlice, Ready
<1>3. vtable[t] \in Content
  BY <1>0 DEF RegistryType, InsertInv, Held
<1>4. cell' = arc[<<t, "vec">>] /\ entries' = entries
      /\ arc' = [arc EXCEPT ![<<t, "vec">>] = cell]
  OBVIOUS
<1>5. Current' = VecList(t)
  BY <1>4 DEF Current, VecList, List
<1>6. VecList(t) = Append(VtablesList(t), allocated_slice[t])
  BY <1>0 DEF InsertInv, Lists
<1>7. \A i \in 1 .. Len(Current) : slices[Current[i]] # vtable[t]
  BY <1>0, <1>1 DEF InsertInv, Searched, Ready, Unlike
<1> QED
  BY <1>1, <1>2, <1>3, <1>4, <1>5, <1>6, <1>7

\* A swap that succeeds makes the slice of the insert an entry.
LEMMA SwapWinsInv ==
  ASSUME RegistryInv, CellFacts, CellFacts', BetweenCalls, BetweenCalls',
         NEW t \in Thread, Moves(t), Swap(t), cell = Vtables(t)
  PROVE  RegistryInv'
<1> DEFINE r == allocated_slice[t]
<1> USE DEF Swap, CompareExchange, Exchange, Vtables, Goto
<1>0. /\ pc[t] = "compare_exchange" /\ InsertInv(t) /\ RegistryType
      /\ pc'[t] = (IF cell = Null THEN "return" ELSE "drop_old")
      /\ result' = [result EXCEPT ![t] = r]
      /\ allocated_slice' = [allocated_slice EXCEPT ![t] = Null]
      /\ pc' = [pc EXCEPT ![t] = IF cell = Null THEN "return" ELSE "drop_old"]
      /\ UNCHANGED <<vtable, slices, returned, search_start, entries>>
  BY DEF RegistryInv, BetweenCalls
<1>g. /\ Current' = Append(Current, r) /\ Current \in Seq(Ref) /\ Len(Current) \in Nat
      /\ r \in Ref /\ ~Entry(r) /\ slices[r] = vtable[t] /\ vtable[t] \in Content
      /\ \A i \in 1 .. Len(Current) : slices[Current[i]] # vtable[t]
      /\ Current = VtablesList(t)
      /\ cell' = arc[<<t, "vec">>] /\ arc' = [arc EXCEPT ![<<t, "vec">>] = cell]
      /\ r # Null /\ vtable[t] # Null
  BY SwapGrows, ContentAssumption
<1> HIDE DEF Swap, CompareExchange, Exchange, Vtables, Goto
<1>1. RegistryType'
  BY <1>0, <1>g DEF RegistryType
<1>2. /\ Len(Current') = Len(Current) + 1 /\ Current'[Len(Current) + 1] = r
      /\ \A i \in 1 .. Len(Current) : Current'[i] = Current[i]
  BY <1>g
<1>3. Begins(Current, Current')
  BY <1>2, <1>g DEF Begins
<1>4. ASSUME NEW q PROVE Entry(q)' <=> Entry(q) \/ q = r
  <2>1. Entry(q)' <=> \E i \in 1 .. Len(Current) + 1 : Current'[i] = q
    BY <1>2 DEF Entry
  <2>2. Entry(q) => Entry(q)'
    BY <2>1, <1>2, <1>g DEF Entry
  <2>3. q = r => Entry(q)'
    BY <2>1, <1>2, <1>g
  <2>4. ASSUME Entry(q)', q # r PROVE Entry(q)
    <3>1. PICK i \in 1 .. Len(Current) + 1 : Current'[i] = q
      BY <2>1, <2>4
    <3>2. i \in 1 .. Len(Current)
      BY <3>1, <2>4, <1>2, <1>g
    <3> QED
      BY <3>1, <3>2, <1>2 DEF Entry
  <2> QED
    BY <2>2, <2>3, <2>4
<1>5. EntriesInv'
  <2>1. ASSUME NEW i \in 1 .. Len(Current) + 1
        PROVE  /\ slices[Current'[i]] # Null
               /\ slices[Current'[i]] = vtable[t] <=> i = Len(Current) + 1
    <3>1. CASE i \in 1 .. Len(Current)
      BY <3>1, <1>2, <1>g DEF RegistryInv, EntriesInv
    <3>2. CASE i = Len(Current) + 1
      BY <3>2, <1>2, <1>g
    <3> QED
      BY <3>1, <3>2, <1>g
  <2>2. ASSUME NEW i \in 1 .. Len(Current) + 1, NEW j \in 1 .. Len(Current) + 1,
               slices[Current'[i]] = slices[Current'[j]]
        PROVE  i = j
    <3>1. CASE i = Len(Current) + 1 \/ j = Len(Current) + 1
      BY <2>1, <2>2, <3>1
    <3>2. CASE i \in 1 .. Len(Current) /\ j \in 1 .. Len(Current)
      BY <2>2, <3>2, <1>2 DEF RegistryInv, EntriesInv
    <3> QED
      BY <3>1, <3>2, <1>g
  <2> QED
    BY <1>0, <1>2, <2>1, <2>2 DEF EntriesInv
<1>6. SlicesInv'
  <2>1. \A u \in Thread : allocated_slice'[u] = IF u = t THEN Null ELSE allocated_slice[u]
    BY <1>0 DEF RegistryType
  <2>2. ASSUME NEW q \in Ref, slices[q] # Null
        PROVE  Entry(q)' \/ \E u \in Thread : allocated_slice'[u] = q
    BY <1>4, <2>1, <2>2 DEF RegistryInv, SlicesInv
  <2> QED
    BY <1>0, <2>1, <2>2 DEF RegistryInv, SlicesInv
<1>7. ReturnedInv'
  BY <1>0, <1>4 DEF RegistryInv, ReturnedInv
<1>8. ASSUME NEW u \in Thread \ {t} PROVE InsertInv(u)'
  <2>1. SameFor(u)
    BY <1>0, <1>g DEF SameFor, BetweenCalls, Place, RegistryType
  <2>2. ASSUME allocated_slice[u] # Null PROVE ~Entry(allocated_slice[u])'
    <3>1. allocated_slice[u] # r
      BY <1>g, <2>2 DEF RegistryInv, SlicesInv
    <3>2. ~Entry(allocated_slice[u])
      BY <2>2 DEF RegistryInv, InsertInv, OwnSlice
    <3>3. allocated_slice'[u] = allocated_slice[u]
      BY <2>1 DEF SameFor
    <3> HIDE DEF r
    <3> QED
      BY <1>4, <3>1, <3>2, <3>3
  <2> QED
    BY <1>0, <1>3, <2>1, <2>2, OtherInsert
<1>9. InsertInv(t)'
  <2>0. /\ arc'[<<t, "vtables">>] = arc[<<t, "vtables">>] /\ arc'[<<t, "vec">>] = cell
        /\ arc[<<t, "vtables">>] = cell
        /\ result'[t] = r /\ allocated_slice'[t] = Null
    BY <1>0, <1>g, SlotAssumption DEF BetweenCalls, Place, RegistryType, Vtables
  <2>1. VtablesList(t)' = Current
    BY <1>0, <1>g, <2>0 DEF VtablesList, List
  <2>2. Held(t)'
    BY <1>0, <1>g, <2>0 DEF InsertInv, Held, Ready, Done
  <2>3. Lists(t)'
    BY <1>0, <1>3, <2>1 DEF Lists
  <2>4. Searched(t)'
    BY <1>0 DEF Searched, Ready, Done
  <2>5. OwnSlice(t)'
    BY <1>0, <1>4, <1>g, <2>0 DEF OwnSlice
  <2> QED
    BY <2>2, <2>3, <2>4, <2>5 DEF InsertInv
<1> QED
  BY <1>1, <1>5, <1>6, <1>7, <1>8, <1>9 DEF RegistryInv

\* A return frees a slice only if it is no entry.
LEMMA ReturnInv ==
  ASSUME RegistryInv, CellFacts, CellFacts', BetweenCalls, BetweenCalls',
         NEW t \in Thread, Moves(t), Return(t)
  PROVE  RegistryInv'
<1> USE DEF Return, ReturnInsert, Goto, cellVars
<1>0. /\ pc[t] = "return" /\ pc'[t] = "idle" /\ InsertInv(t) /\ RegistryType
      /\ vtable'[t] = Null /\ allocated_slice'[t] = Null /\ result'[t] = Null /\ search_start'[t] = 0
      /\ vtable[t] \in Content /\ result[t] \in Ref
      /\ slices[result[t]] = vtable[t] /\ Entry(result[t])
      /\ allocated_slice[t] # Null => ~Entry(allocated_slice[t])
  BY DEF RegistryInv, BetweenCalls, RegistryType, InsertInv, Held, OwnSlice, Done
<1>1. RegistryType'
  BY <1>0 DEF RegistryType
<1>2. Current' = Current /\ Current \in Seq(Ref)
  BY CurrentStays, ListType DEF RegistryInv, BetweenCalls, Current
<1>3. ASSUME NEW q PROVE Entry(q)' <=> Entry(q)
  BY <1>2 DEF Entry
<1>4. ASSUME NEW q, Entry(q) PROVE slices'[q] = slices[q] /\ q \in Ref
  <2>1. q \in Ref /\ q # Null
    BY <1>2, <1>4, ContentAssumption DEF Entry
  <2> QED
    BY <1>0, <1>4, <2>1
<1>5. \A i \in 1 .. Len(Current) : Entry(Current[i])
  BY DEF Entry
<1>6. EntriesInv'
  <2>1. \A i \in 1 .. Len(Current) : slices'[Current[i]] = slices[Current[i]]
    BY <1>4, <1>5
  <2>2. EntriesInv
    BY DEF RegistryInv
  <2> HIDE DEF Return, ReturnInsert
  <2> QED
    BY <1>2, <2>1, <2>2 DEF EntriesInv
<1>7. SlicesInv'
  <2>1. \A u \in Thread : allocated_slice'[u] = IF u = t THEN Null ELSE allocated_slice[u]
    BY <1>0 DEF RegistryType
  <2>2. ASSUME NEW q \in Ref, slices'[q] # Null
        PROVE  Entry(q)' \/ \E u \in Thread : allocated_slice'[u] = q
    <3>1. q # allocated_slice[t] /\ slices[q] # Null
      BY <2>2
    <3> QED
      BY <1>3, <2>1, <3>1 DEF RegistryInv, SlicesInv
  <2> QED
    BY <2>1, <2>2 DEF RegistryInv, SlicesInv
<1>8. ReturnedInv'
  <2>1. ASSUME NEW p \in returned' PROVE slices'[p[2]] = p[1] /\ Entry(p[2])'
    <3>1. slices[p[2]] = p[1] /\ Entry(p[2])
      BY <1>0 DEF RegistryInv, ReturnedInv
    <3> QED
      BY <1>3, <1>4, <3>1
  <2> QED
    BY <2>1 DEF ReturnedInv
<1>9. ASSUME NEW u \in Thread \ {t} PROVE InsertInv(u)'
  <2>1. SameFor(u)
    BY <1>0 DEF SameFor, BetweenCalls, RegistryType
  <2>2. Begins(Current, Current')
    BY <1>2 DEF Begins
  <2>3. allocated_slice[u] # Null => slices'[allocated_slice[u]] = slices[allocated_slice[u]]
                                     /\ ~Entry(allocated_slice[u])'
    BY <1>0, <1>3 DEF RegistryInv, InsertInv, OwnSlice, SlicesInv, RegistryType
  <2> QED
    BY <1>4, <1>5, <2>1, <2>2, <2>3, OtherInsert
<1>10. InsertInv(t)'
  <2>0. VtablesList(t)' = VtablesList(t) /\ VtablesList(t) = << >>
    BY <1>0, SlotListStays, SlotAssumption DEF VtablesList, InsertInv, Held, List
  <2>1. Held(t)'
    BY <1>0 DEF InsertInv, Held, Ready, Done
  <2>2. Lists(t)'
    BY <1>0, <1>2, <2>0 DEF InsertInv, Lists, Begins
  <2>3. Searched(t)'
    BY <1>0, <2>0 DEF Searched, Unlike, Ready, Done
  <2>4. OwnSlice(t)'
    BY <1>0 DEF OwnSlice
  <2> QED
    BY <2>1, <2>2, <2>3, <2>4 DEF InsertInv
<1> QED
  BY <1>1, <1>6, <1>7, <1>8, <1>9, <1>10 DEF RegistryInv

\* A call has nothing to show yet.
LEMMA CallInv ==
  ASSUME RegistryInv, CellFacts, CellFacts', BetweenCalls, BetweenCalls',
         NEW t \in Thread, Moves(t), NEW c \in Content, Insert(t, c)
  PROVE  RegistryInv'
<1> USE DEF Insert, CallInsert, Goto, cellVars
<1>0. pc[t] = "idle" /\ pc'[t] = "load" /\ InsertInv(t) /\ RegistryType /\ vtable'[t] = c /\ c # Null
  BY ContentAssumption DEF RegistryInv, RegistryType, BetweenCalls
<1>1. RegistryType'
  BY <1>0 DEF RegistryType
<1>2. \A u \in Thread \ {t} : SameFor(u)
  BY <1>0 DEF SameFor, BetweenCalls, RegistryType
<1>3. ASSUME Current' = Current PROVE InsertInv(t)'
  <2>1. VtablesList(t)' = VtablesList(t) /\ VtablesList(t) = << >>
    BY <1>0, SlotListStays, SlotAssumption DEF VtablesList, InsertInv, Held, List
  <2>2. Held(t)'
    BY <1>0 DEF InsertInv, Held, Ready, Done
  <2>3. Lists(t)'
    BY <1>0, <2>1, <1>3 DEF InsertInv, Lists, Begins
  <2>4. Searched(t)'
    BY <1>0, <2>1 DEF InsertInv, Held, Searched, Unlike, Ready, Done
  <2>5. OwnSlice(t)'
    BY <1>0 DEF InsertInv, Held, OwnSlice, Done
  <2> QED
    BY <2>2, <2>3, <2>4, <2>5 DEF InsertInv
<1> QED
  BY <1>1, <1>2, <1>3, LocalStep

\* Nothing else changes the registry.
LEMMA StutterInv == RegistryInv /\ UNCHANGED vars => RegistryInv'
<1> SUFFICES ASSUME RegistryInv, UNCHANGED vars PROVE RegistryInv'
  OBVIOUS
<1> USE DEF vars, cellVars, registryVars
<1>1. Current' = Current /\ \A r : Entry(r)' <=> Entry(r)
  BY DEF Current, List, Entry
<1>2. RegistryType' /\ EntriesInv' /\ SlicesInv' /\ ReturnedInv'
  BY <1>1 DEF RegistryInv, RegistryType, EntriesInv, SlicesInv, ReturnedInv
<1>3. ASSUME NEW t \in Thread PROVE InsertInv(t)'
  <2>1. VtablesList(t)' = VtablesList(t) /\ UpdatedList(t)' = UpdatedList(t) /\ VecList(t)' = VecList(t)
    BY DEF VtablesList, UpdatedList, VecList, List
  <2>2. InsertInv(t)
    BY DEF RegistryInv
  <2> QED
    BY <1>1, <2>1, <2>2 DEF InsertInv, Held, Lists, Begins, Searched, Unlike, OwnSlice
<1> QED
  BY <1>2, <1>3 DEF RegistryInv

\* RegistryInv is inductive on top of what AtomicArc guarantees.
LEMMA NextInv ==
  ASSUME RegistryInv, CellFacts, CellFacts', BetweenCalls, BetweenCalls', [Next]_vars
  PROVE  RegistryInv'
<1>1. CASE UNCHANGED vars
  BY <1>1, StutterInv
<1>2. ASSUME NEW t \in Thread, NEW c \in Content, Insert(t, c) PROVE RegistryInv'
  BY <1>2, CallInv DEF Moves
<1>3. ASSUME NEW t \in Thread, Step(t) PROVE RegistryInv'
  <2> USE DEF Moves
  <2>1. CASE Load(t)
    BY <1>3, <2>1, LoadInv
  <2>2. CASE Acquire(t)
    BY <1>3, <2>2, AcquireInv
  <2>3. CASE Update(t)
    BY <1>3, <2>3, UpdateInv
  <2>4. ASSUME NEW r \in Ref, Found(t, r) PROVE RegistryInv'
    BY <1>3, <2>4, FoundInv
  <2>5. ASSUME NEW r \in Ref, Allocate(t, r) PROVE RegistryInv'
    BY <1>3, <2>5, AllocateInv
  <2>6. CASE StillCurrent(t)
    BY <1>3, <2>6, StillCurrentInv
  <2>7. ASSUME NEW a \in Addr, Copy(t, a) PROVE RegistryInv'
    BY <1>3, <2>7, CopyInv
  <2>8. CASE Swap(t)
    BY <1>3, <2>8, SwapWinsInv, SwapFailsInv
  <2>9. CASE DropOld(t)
    BY <1>3, <2>9, DropOldInv
  <2>10. CASE DropVtables(t)
    BY <1>3, <2>10, DropVtablesInv
  <2>11. CASE Return(t)
    BY <1>3, <2>11, ReturnInv
  <2> QED
    BY <1>3, <2>1, <2>2, <2>3, <2>4, <2>5, <2>6, <2>7, <2>8, <2>9, <2>10, <2>11 DEF Step
<1> QED
  BY <1>1, <1>2, <1>3 DEF Next

\* What AtomicArc guarantees of the Arcs of the inserts when loads are whole.
LEMMA CellFactsHold ==
  ASSUME ~Overlap
  PROVE  Spec => []CellFacts
<1>1. Cell!IsFiniteSet(Thread) /\ Cell!IsFiniteSet(Slot)
  BY PlaceAssumption DEF IsFiniteSet, Cell!IsFiniteSet
<1>2. Cell!Spec => []Cell!CellInv
  BY <1>1, Cell!CellTheorem, NullAssumption, OverlapAssumption
<1>3. Cell!CellInv => CellFacts
  BY DEF CellFacts, OwnedArcsAreLive, Place, Cell!CellInv, Cell!CellTypeOK,
         Cell!OwnedArcsAreLive, Cell!SeenIsCurrent, Cell!Place
<1> QED
  BY <1>2, <1>3, RegistryUsesAtomicArc, SameProgram, PTL DEF ImplementsAtomicArc

\* However the inserts interleave, if no load is interrupted between its two
\* steps: an entry is added at most once for a content, what an insert has searched is a part of the list in the registry, and its
\* slice is its own until it is swapped in.
THEOREM RegistryInvariant ==
  ASSUME ~Overlap
  PROVE  Spec => [](RegistryInv /\ BetweenCalls)
<1>1. Init => RegistryInv /\ BetweenCalls
  BY InitInv, InitBetween
<1>2. CellFacts /\ CellFacts' /\ RegistryInv /\ BetweenCalls /\ [Next]_vars => RegistryInv' /\ BetweenCalls'
  BY NextInv, NextBetween
<1>3. Spec => []CellFacts
  BY CellFactsHold
<1> QED
  BY <1>1, <1>2, <1>3, PTL DEF Spec

\* "&'a Vt" for any 'a: no pointer that VtVec::insert returned is ever freed or
\* overwritten, so the reference it is turned into may live forever.
THEOREM ReturnedPointersStayValidTheorem ==
  ASSUME ~Overlap
  PROVE  Spec => []ReturnedPointersStayValid
<1>1. RegistryInv => ReturnedPointersStayValid
  BY DEF RegistryInv, ReturnedInv, ReturnedPointersStayValid
<1> QED
  BY <1>1, RegistryInvariant, PTL

\* The set of the entries is the range of the list.
LEMMA EntriesAreRegistered ==
  ASSUME RegistryInv, BetweenCalls
  PROVE  \A r : r \in ToSet(Current) <=> Entry(r)
<1>1. Current \in Seq(Ref)
  BY ListType DEF RegistryInv, BetweenCalls, Current
<1>2. DOMAIN Current = 1 .. Len(Current)
  BY <1>1
<1> QED
  BY <1>2 DEF ToSet, Entry

\* A boxed slice that VtVec::insert allocates is forgotten exactly when it becomes
\* an entry: it is neither freed by a return as well nor leaked.
THEOREM SlicesHaveOneOwnerTheorem ==
  ASSUME ~Overlap
  PROVE  Spec => []SlicesHaveOneOwner
<1>1. RegistryInv /\ BetweenCalls => SlicesHaveOneOwner
  <2> SUFFICES ASSUME RegistryInv, BetweenCalls, NEW r \in Ref, slices[r] # Null
               PROVE  IF r \in ToSet(Current)
                        THEN \A t \in Thread : allocated_slice[t] # r
                        ELSE \E t \in Thread :
                               allocated_slice[t] = r /\ \A u \in Thread \ {t} : allocated_slice[u] # r
    BY DEF SlicesHaveOneOwner, OwnedOnce
  <2>1. r \in ToSet(Current) <=> Entry(r)
    BY EntriesAreRegistered
  <2>2. CASE Entry(r)
    BY <2>1, <2>2, ContentAssumption DEF RegistryInv, InsertInv, OwnSlice
  <2>3. CASE ~Entry(r)
    <3>1. PICK t \in Thread : allocated_slice[t] = r
      BY <2>3 DEF RegistryInv, SlicesInv
    <3> QED
      BY <2>1, <2>3, <3>1, ContentAssumption DEF RegistryInv, SlicesInv
  <2> QED
    BY <2>2, <2>3
<1> QED
  BY <1>1, RegistryInvariant, PTL

\* The variables of VtVec::insert keep their types.
THEOREM TypeOKTheorem ==
  ASSUME ~Overlap
  PROVE  Spec => []TypeOK
<1>1. Cell!IsFiniteSet(Thread) /\ Cell!IsFiniteSet(Slot)
  BY PlaceAssumption DEF IsFiniteSet, Cell!IsFiniteSet
<1>2. Cell!Spec => []Cell!CellInv
  BY <1>1, Cell!CellTheorem, NullAssumption, OverlapAssumption
<1>3. Cell!CellInv => CellTypeOK
  BY DEF CellTypeOK, Place, Pointer, Cell!CellInv, Cell!CellTypeOK, Cell!Place, Cell!Pointer
<1>4. CellTypeOK /\ RegistryInv /\ BetweenCalls => TypeOK
  BY DEF TypeOK, RegistryTypeOK, RegistryInv, RegistryType, BetweenCalls, Label
<1> QED
  BY <1>2, <1>3, <1>4, RegistryInvariant, RegistryUsesAtomicArc, SameProgram, PTL DEF ImplementsAtomicArc

\* The table of the abstract interner.
Table == TableOf(ToSet(Current))

\* The table has exactly the entries, each at its content.
LEMMA TableHasTheEntries ==
  ASSUME RegistryInv, BetweenCalls, NEW c \in Content
  PROVE  /\ \A r : Entry(r) /\ slices[r] = c => Table[c] = r
         /\ Table[c] # Null => Entry(Table[c]) /\ slices[Table[c]] = c
<1>1. \A r : r \in ToSet(Current) <=> Entry(r)
  BY EntriesAreRegistered
<1>2. Table[c] = IF \E r \in ToSet(Current) : slices[r] = c
                   THEN CHOOSE r \in ToSet(Current) : slices[r] = c
                   ELSE Null
  BY DEF Table, TableOf
<1>3. CASE \E r \in ToSet(Current) : slices[r] = c
  <2>1. Table[c] = CHOOSE r \in ToSet(Current) : slices[r] = c
    BY <1>2, <1>3
  <2>2. Table[c] \in ToSet(Current) /\ slices[Table[c]] = c
    BY <2>1, <1>3
  <2>3. ASSUME NEW r, NEW q, Entry(r), Entry(q), slices[r] = c, slices[q] = c PROVE r = q
    BY <2>3 DEF Entry, RegistryInv, EntriesInv
  <2> QED
    BY <1>1, <2>2, <2>3
<1>4. CASE ~ \E r \in ToSet(Current) : slices[r] = c
  BY <1>1, <1>2, <1>4
<1> QED
  BY <1>3, <1>4

\* A step that leaves the entries and what they hold alone.
LEMMA TableStays ==
  ASSUME RegistryInv, RegistryInv', BetweenCalls, BetweenCalls', CellFacts, CellFacts',
         NEW t \in Thread, Moves(t), cell' = cell, \A r : Entry(r) => slices'[r] = slices[r]
  PROVE  Table' = Table
<1>1. ToSet(Current)' = ToSet(Current) /\ \A r : r \in ToSet(Current) <=> Entry(r)
  BY CurrentStays, EntriesAreRegistered
<1>2. \A r \in ToSet(Current) : slices'[r] = slices[r]
  BY <1>1
<1>3. ASSUME NEW c \in Content
      PROVE  /\ (\E r \in ToSet(Current) : slices'[r] = c) <=> (\E r \in ToSet(Current) : slices[r] = c)
             /\ (CHOOSE r \in ToSet(Current) : slices'[r] = c) = (CHOOSE r \in ToSet(Current) : slices[r] = c)
  BY <1>2
<1> QED
  BY <1>1, <1>3 DEF Table, TableOf

\* A list with one more entry, for a content that has none yet.
LEMMA TableGrows ==
  ASSUME Current \in Seq(Ref), NEW r \in Ref, NEW c \in Content,
         Current' = Append(Current, r), slices' = slices,
         slices[r] = c, \A i \in 1 .. Len(Current) : slices[Current[i]] # c
  PROVE  Table' = [Table EXCEPT ![c] = r]
<1> DEFINE E == ToSet(Current)
<1> DEFINE F == ToSet(Append(Current, r))
<1> DEFINE At(S, d) == IF \E q \in S : slices[q] = d THEN CHOOSE q \in S : slices[q] = d ELSE Null
<1>1. F = E \cup {r}
  <2>1. Len(Current) \in Nat /\ DOMAIN Current = 1 .. Len(Current)
        /\ DOMAIN Append(Current, r) = 1 .. Len(Current) + 1
        /\ Append(Current, r)[Len(Current) + 1] = r
        /\ \A i \in 1 .. Len(Current) : Append(Current, r)[i] = Current[i]
    OBVIOUS
  <2>2. \A i : i \in 1 .. Len(Current) + 1 <=> i \in 1 .. Len(Current) \/ i = Len(Current) + 1
    BY <2>1
  <2> QED
    BY <2>1, <2>2 DEF ToSet
<1>2. \A q \in E : slices[q] # c
  BY DEF ToSet
<1>3. Table = [d \in Content |-> At(E, d)] /\ Table' = [d \in Content |-> At(F, d)]
  BY DEF Table, TableOf
<1> HIDE DEF E, F
<1>4. At(F, c) = r
  <2>1. \A q \in F : slices[q] = c <=> q = r
    BY <1>1, <1>2
  <2> QED
    BY <1>1, <2>1
<1>5. ASSUME NEW d \in Content \ {c} PROVE At(F, d) = At(E, d)
  <2>1. \A q : q \in F /\ slices[q] = d <=> q \in E /\ slices[q] = d
    BY <1>1
  <2> QED
    BY <2>1
<1> HIDE DEF At
<1> QED
  BY <1>3, <1>4, <1>5

\* The calls that return a pointer, and the ones that take effect, are the only
\* steps that the interner sees.
LEMMA StepImplements ==
  ASSUME RegistryInv, RegistryInv', BetweenCalls, BetweenCalls', CellFacts, CellFacts', [Next]_vars
  PROVE  [Set!Next]_(Set!vars)
<1> DEFINE Stutter == UNCHANGED <<Table, vtable, result>>
<1>s. Stutter => [Set!Next]_(Set!vars)
  BY DEF Set!vars, Table
<1>1. CASE UNCHANGED vars
  BY <1>1, <1>s DEF vars, cellVars, registryVars, Table, TableOf, Current, List
<1>2. ASSUME NEW t \in Thread, NEW c \in Content, Insert(t, c) PROVE Set!Next
  <2>1. Table' = Table
    BY <1>2, TableStays DEF Moves, Insert, CallInsert, cellVars
  <2>2. vtable[t] = Null
    BY <1>2 DEF Insert, CallInsert, RegistryInv, InsertInv, Held
  <2> QED
    BY <1>2, <2>1, <2>2 DEF Insert, CallInsert, Set!Next, Set!Ask, Table
<1>3. ASSUME NEW t \in Thread, Step(t) PROVE [Set!Next]_(Set!vars)
  <2>m. Moves(t) /\ InsertInv(t)
    BY <1>3 DEF Moves, RegistryInv
  <2>1. CASE Load(t) \/ Acquire(t) \/ Update(t) \/ StillCurrent(t) \/ DropOld(t) \/ DropVtables(t)
             \/ \E a \in Addr : Copy(t, a)
    <3>1. UNCHANGED <<cell, vtable, result, slices>>
      BY <2>1 DEF Load, ReadCell, Acquire, Increment, Update, Assign, StillCurrent, Is, DropOld,
                  DropVtables, Release, Copy, New, registryVars, cellVars
    <3> QED
      BY <2>m, <3>1, TableStays, <1>s
  <2>2. ASSUME NEW r \in Ref, Found(t, r) PROVE Set!Next
    <3>1. Table' = Table
      BY <2>m, <2>2, TableStays DEF Found, cellVars
    <3>2. pc[t] = "search" /\ vtable[t] # Null /\ vtable[t] \in Content /\ result[t] = Null
      BY <2>m, <2>2 DEF Found, InsertInv, Held, Done, RegistryInv, RegistryType
    <3>3. Entry(r) /\ slices[r] = vtable[t]
      BY <2>2, MatchesAreEntries DEF Found
    <3>4. Table[vtable[t]] = r /\ r # Null
      BY <3>2, <3>3, TableHasTheEntries, ContentAssumption
    <3> QED
      BY <2>2, <3>1, <3>2, <3>4 DEF Found, Set!Next, Set!Find, Table
  <2>3. ASSUME NEW r \in Ref, Allocate(t, r) PROVE Stutter
    <3>1. ASSUME NEW q, Entry(q) PROVE slices'[q] = slices[q]
      <4>1. q \in Ref /\ slices[q] # Null
        <5>1. PICK i \in 1 .. Len(Current) : Current[i] = q
          BY <3>1 DEF Entry
        <5>2. Current[i] \in Ref
          BY ListType DEF RegistryInv, BetweenCalls, Current
        <5> QED
          BY <5>1, <5>2 DEF RegistryInv, EntriesInv
      <4>2. CASE allocated_slice[t] = Null
        BY <2>3, <4>1, <4>2 DEF Allocate, NeedSlice, RegistryInv, RegistryType
      <4>3. CASE allocated_slice[t] # Null
        BY <2>3, <4>3 DEF Allocate, NeedSlice
      <4> QED
        BY <4>2, <4>3
    <3> QED
      BY <2>m, <2>3, <3>1, TableStays DEF Allocate, cellVars
  <2>4. CASE Swap(t) /\ cell # Vtables(t)
    <3>1. UNCHANGED <<cell, vtable, result, slices>>
      BY <2>4 DEF Swap, CompareExchange, Vtables
    <3> QED
      BY <2>m, <3>1, TableStays, <1>s
  <2>5. CASE Swap(t) /\ cell = Vtables(t)
    <3> DEFINE r == allocated_slice[t]
    <3> DEFINE c == vtable[t]
    <3>1. /\ Current' = Append(Current, r) /\ Current \in Seq(Ref)
          /\ r \in Ref /\ ~Entry(r) /\ slices[r] = c /\ c \in Content /\ c # Null /\ r # Null
          /\ \A i \in 1 .. Len(Current) : slices[Current[i]] # c
      BY <2>5, SwapGrows, ContentAssumption
    <3>2. /\ result[t] = Null /\ result' = [result EXCEPT ![t] = r]
          /\ UNCHANGED <<vtable, slices>>
      BY <2>m, <2>5 DEF Swap, InsertInv, Held, Done
    <3>3. Table[c] = Null /\ \A d \in Content : Table[d] # r
      BY <3>1, TableHasTheEntries DEF Entry
    <3>4. Table' = [Table EXCEPT ![c] = r]
      BY <3>1, <3>2, TableGrows
    <3> QED
      BY <3>1, <3>2, <3>3, <3>4 DEF Set!Next, Set!Intern, Table
  <2>6. CASE Return(t)
    <3>1. ASSUME NEW q, Entry(q) PROVE slices'[q] = slices[q]
      <4>1. q \in Ref /\ q # allocated_slice[t]
        BY <2>m, <3>1, ListType, ContentAssumption
           DEF InsertInv, OwnSlice, Entry, RegistryInv, BetweenCalls, Current
      <4> QED
        BY <2>6, <4>1 DEF Return, ReturnInsert
    <3>2. Table' = Table
      BY <2>m, <2>6, <3>1, TableStays DEF Return, cellVars
    <3>3. result[t] # Null
      BY <2>m, <2>6 DEF Return, ReturnInsert, InsertInv, Held, Done
    <3> QED
      BY <2>6, <3>2, <3>3 DEF Return, ReturnInsert, Set!Next, Set!Return, Table
  <2> QED
    BY <1>3, <1>s, <2>1, <2>2, <2>3, <2>4, <2>5, <2>6 DEF Step
<1> QED
  BY <1>1, <1>2, <1>3 DEF Next

\* VtVec::insert is an interner: a content gets one pointer, the same for all
\* threads and for good, and each insert takes effect at one instant between its
\* call and its return, the search that finds it or the swap that adds it.
THEOREM VtVecImplementsInterner ==
  ASSUME ~Overlap
  PROVE  Spec => ImplementsInterner
<1>1. Init => Set!Init
  <2> SUFFICES ASSUME Init PROVE Set!Init
    OBVIOUS
  <2>1. ToSet(Current) = {}
    BY DEF Init, RegistryInit, CellInit, Current, List, ToSet
  <2> QED
    BY <2>1 DEF Init, RegistryInit, Set!Init, TableOf
<1>2. /\ CellFacts /\ CellFacts' /\ RegistryInv /\ RegistryInv' /\ BetweenCalls /\ BetweenCalls' /\ [Next]_vars
      => [Set!Next]_(Set!vars)
  BY StepImplements
<1> QED
  BY <1>1, <1>2, CellFactsHold, RegistryInvariant, PTL DEF Spec, ImplementsInterner, Set!Spec
-----------------------------------------------------------------------------
(* What leaks *)

\* What ArcCellProofs shows of the counts, of the registry's AtomicArc.
LEMMA CellInvHolds ==
  ASSUME ~Overlap
  PROVE  Spec => []Cell!CellInv
<1>1. Cell!IsFiniteSet(Thread) /\ Cell!IsFiniteSet(Slot)
  BY PlaceAssumption DEF IsFiniteSet, Cell!IsFiniteSet
<1>2. Cell!Spec => []Cell!CellInv
  BY <1>1, Cell!CellTheorem, NullAssumption, OverlapAssumption
<1> QED
  BY <1>2, RegistryUsesAtomicArc, SameProgram, PTL DEF ImplementsAtomicArc

LEMMA CellAssumptions ==
  /\ Cell!IsFiniteSet(Thread) /\ Cell!IsFiniteSet(Slot)
  /\ Null \notin Addr /\ Overlap \in BOOLEAN
BY PlaceAssumption, NullAssumption, OverlapAssumption DEF IsFiniteSet, Cell!IsFiniteSet

\* The inserts whose next compare_exchange fails: somebody added an entry since
\* they last asked whether the list is still the one they read.
Pending == {u \in Thread : pc[u] \in {"new", "compare_exchange"} /\ cell # Vtables(u)}

\* A list that is about to be swapped in belongs to its insert alone.
NewLists == \A t \in Thread : pc[t] = "compare_exchange" => Cell!Single(<<t, "vec">>)

\* Every other count is exact, and what leaked or will leak has been paid for by an
\* entry: each one made at most all the other inserts lose their race.
LeakInv ==
  /\ Cell!Exact
  /\ NewLists
  /\ IsFiniteSet(Cell!Leaked)
  /\ Cardinality(Cell!Leaked) + Cardinality(Pending) <= (Cardinality(Thread) - 1) * Len(Current)

LEMMA PendingFinite ==
  /\ IsFiniteSet(Thread) /\ Cardinality(Thread) \in Nat
  /\ IsFiniteSet(Pending) /\ Cardinality(Pending) \in Nat
BY PlaceAssumption, FS_Subset, FS_CardinalityType DEF Pending

\* A step that leaks nothing and leaves the registry alone.
LEMMA NothingLeaks ==
  ASSUME LeakInv, Current' = Current, Cell!Leaked' \subseteq Cell!Leaked, Pending' \subseteq Pending
  PROVE  /\ IsFiniteSet(Cell!Leaked)'
         /\ Cardinality(Cell!Leaked)' + Cardinality(Pending)' <= (Cardinality(Thread) - 1) * Len(Current)'
<1> DEFINE K == (Cardinality(Thread) - 1) * Len(Current)
<1>1. /\ IsFiniteSet(Cell!Leaked') /\ Cardinality(Cell!Leaked') \in Nat
      /\ Cardinality(Cell!Leaked) \in Nat /\ Cardinality(Cell!Leaked') <= Cardinality(Cell!Leaked)
  BY FS_Subset, FS_CardinalityType DEF LeakInv
<1>2. /\ Cardinality(Pending') \in Nat /\ Cardinality(Pending) \in Nat
      /\ Cardinality(Pending') <= Cardinality(Pending)
  BY PendingFinite, FS_Subset, FS_CardinalityType
<1>3. Cardinality(Cell!Leaked) + Cardinality(Pending) <= K
  BY DEF LeakInv
<1>4. K \in Int /\ K' = K
  BY PendingFinite
<1> HIDE DEF K
<1>5. Cardinality(Cell!Leaked') + Cardinality(Pending') <= K
  BY <1>1, <1>2, <1>3, <1>4
<1> QED
  BY <1>1, <1>4, <1>5 DEF K

\* All that is known of an insert.
Safe == RegistryInv /\ BetweenCalls /\ CellFacts /\ Cell!CellInv

\* A step of one insert that leaves the registry alone and leaks nothing: it may
\* only go on to a compare_exchange if the list it read is still the current one.
LEMMA LocalLeaks ==
  ASSUME LeakInv, Safe, Safe', NEW t \in Thread, Moves(t), NEW l, Goto(t, l), cell' = cell,
         Cell!Exact', Cell!Leaked' \subseteq Cell!Leaked,
         \A u \in Thread \ {t} : /\ Cell!Single(<<u, "vec">>) => Cell!Single(<<u, "vec">>)'
                                 /\ Vtables(u)' = Vtables(u),
         l = "new" => cell = Vtables(t)',
         l = "compare_exchange" => /\ pc[t] = "new" /\ Vtables(t)' = Vtables(t)
                                   /\ Cell!Single(<<t, "vec">>)'
  PROVE  LeakInv'
<1>1. pc'[t] = l /\ \A u \in Thread \ {t} : pc'[u] = pc[u]
  BY DEF Safe, BetweenCalls, Goto
<1>2. Current' = Current
  BY CurrentStays DEF Safe
<1>3. Pending' \subseteq Pending
  BY <1>1 DEF Pending
<1>4. NewLists'
  BY <1>1 DEF LeakInv, NewLists
<1> QED
  BY <1>2, <1>3, <1>4, NothingLeaks DEF LeakInv

\* A step that takes no Arc and gives none up.
LEMMA QuietLeaks ==
  ASSUME LeakInv, Safe, Safe', NEW t \in Thread, Moves(t), NEW l, Goto(t, l),
         UNCHANGED <<cell, arc, strong, memory>>,
         l # "compare_exchange", l = "new" => cell = Vtables(t)
  PROVE  LeakInv'
<1>1. Cell!Exact' /\ Cell!Leaked' = Cell!Leaked
  BY DEF LeakInv, Cell!Exact, Cell!Leaked, Cell!Leaks, Cell!Owners, Cell!Holders
<1>2. \A u \in Thread : /\ Cell!Single(<<u, "vec">>) => Cell!Single(<<u, "vec">>)'
                        /\ Vtables(u)' = Vtables(u)
  BY DEF Cell!Single, Vtables
<1> QED
  BY <1>1, <1>2, LocalLeaks

\* What a call of one insert on its Arcs leaves alone.
Calls(t) ==
  \/ \E s \in Slot, a \in Addr : Cell!New(t, s, a)
  \/ \E s \in Slot : Cell!Release(t, s)
  \/ \E old, new \in Slot : Cell!Assign(t, old, new)
  \/ \E s \in Slot : Cell!Increment(t, s)
  \/ \E s \in Slot : Cell!Exchange(t, s)

LEMMA OthersKeep ==
  ASSUME ~Overlap, Cell!CellInv, NEW t \in Thread, Calls(t), NEW u \in Thread \ {t}
  PROVE  /\ Cell!Single(<<u, "vec">>) => Cell!Single(<<u, "vec">>)'
         /\ Vtables(u)' = Vtables(u)
<1>0. "vec" \in Slot /\ "vtables" \in Slot
  BY SlotAssumption
<1>1. <<u, "vec">> \in Cell!Place /\ <<u, "vec">>[1] # t
  BY <1>0 DEF Cell!Place
<1>2. ASSUME Cell!Single(<<u, "vec">>) PROVE Cell!Single(<<u, "vec">>)'
  BY <1>1, <1>2, CellAssumptions, Cell!SingleStays DEF Calls
<1>3. Vtables(u)' = Vtables(u)
  BY <1>0 DEF Calls, Cell!New, Cell!Release, Cell!Assign, Cell!Increment, Cell!Exchange, Vtables,
              Cell!CellInv, Cell!CellTypeOK, Cell!Place
<1> QED
  BY <1>2, <1>3

LEMMA AcquireLeaks ==
  ASSUME ~Overlap, LeakInv, Safe, Safe', NEW t \in Thread, Moves(t), Acquire(t)
  PROVE  LeakInv'
<1>0. Cell!Increment(t, "updated") /\ "updated" \in Slot /\ Goto(t, "assign")
  BY SlotAssumption DEF Acquire, Increment, Cell!Increment
<1>1. Cell!Exact' /\ Cell!Leaked' \subseteq Cell!Leaked
  BY <1>0, CellAssumptions, Cell!IncrementExact DEF Safe, LeakInv
<1>2. Calls(t) /\ cell' = cell
  BY <1>0 DEF Calls, Cell!Increment
<1> QED
  BY <1>0, <1>1, <1>2, OthersKeep, LocalLeaks DEF Safe

LEMMA UpdateLeaks ==
  ASSUME ~Overlap, LeakInv, Safe, Safe', NEW t \in Thread, Moves(t), Update(t)
  PROVE  LeakInv'
<1>0. /\ Cell!Assign(t, "vtables", "updated") /\ Goto(t, "search")
      /\ "updated" \in Slot /\ "vtables" \in Slot
  BY SlotAssumption DEF Update, Assign, Cell!Assign
<1>1. Cell!Exact' /\ Cell!Leaked' \subseteq Cell!Leaked
  BY <1>0, CellAssumptions, Cell!AssignExact DEF Safe, LeakInv
<1>2. Calls(t) /\ cell' = cell
  BY <1>0 DEF Calls, Cell!Assign
<1> QED
  BY <1>0, <1>1, <1>2, OthersKeep, LocalLeaks DEF Safe

LEMMA DropLeaks ==
  ASSUME ~Overlap, LeakInv, Safe, Safe', NEW t \in Thread, Moves(t),
         DropOld(t) \/ DropVtables(t)
  PROVE  LeakInv'
<1>0. PICK s \in Slot, l \in {"drop_vtables", "return"} : Cell!Release(t, s) /\ Goto(t, l)
  BY SlotAssumption DEF DropOld, DropVtables, Release, Cell!Release
<1>1. Cell!Exact' /\ Cell!Leaked' \subseteq Cell!Leaked
  BY <1>0, CellAssumptions, Cell!ReleaseExact DEF Safe, LeakInv
<1>2. Calls(t) /\ cell' = cell
  BY <1>0 DEF Calls, Cell!Release
<1> QED
  BY <1>0, <1>1, <1>2, OthersKeep, LocalLeaks DEF Safe

\* A new list has one owner.
LEMMA CopyLeaks ==
  ASSUME ~Overlap, LeakInv, Safe, Safe', NEW t \in Thread, Moves(t), NEW a \in Addr, Copy(t, a)
  PROVE  LeakInv'
<1>0. /\ Cell!New(t, "vec", a) /\ Goto(t, "compare_exchange") /\ pc[t] = "new"
      /\ "vec" \in Slot /\ "vtables" \in Slot
  BY SlotAssumption DEF Copy, New, Cell!New
<1>1. Cell!Exact' /\ Cell!Leaked' \subseteq Cell!Leaked
  BY <1>0, CellAssumptions, Cell!NewExact DEF Safe, LeakInv
<1>2. Calls(t) /\ cell' = cell
  BY <1>0 DEF Calls, Cell!New
<1>3. Vtables(t)' = Vtables(t) /\ Cell!Single(<<t, "vec">>)'
  BY <1>0, CellAssumptions
     DEF Cell!New, Vtables, Cell!Single, Safe, Cell!CellInv, Cell!CellTypeOK, Cell!Place
<1> QED
  BY <1>0, <1>1, <1>2, <1>3, OthersKeep, LocalLeaks DEF Safe

\* The list that compare_exchange does not swap in is the one list that leaks, as
\* was to be expected since somebody else's was.
LEMMA SwapFailsLeaks ==
  ASSUME ~Overlap, LeakInv, Safe, Safe', NEW t \in Thread, Moves(t), Swap(t), cell # Vtables(t)
  PROVE  LeakInv'
<1> DEFINE K == (Cardinality(Thread) - 1) * Len(Current)
<1> DEFINE x == arc[<<t, "vec">>]
<1>0. <<t, "vec">> \in Cell!Place
  BY SlotAssumption DEF Cell!Place
<1>n. /\ pc[t] = "compare_exchange" /\ Goto(t, "increment")
      /\ arc' = [arc EXCEPT ![<<t, "vec">>] = Null] /\ UNCHANGED <<cell, strong, memory>>
  BY DEF Swap, CompareExchange, Vtables
<1>1. Cell!Exact' /\ Cell!Leaked' \subseteq Cell!Leaked \cup {x}
  <2>1. Cell!Single(<<t, "vec">>)
    BY <1>n DEF LeakInv, NewLists
  <2> QED
    BY <1>0, <1>n, <2>1, CellAssumptions, Cell!ForgetExact DEF Safe, LeakInv
<1>2. \A u \in Thread : /\ u # t => pc'[u] = pc[u] /\ arc'[<<u, "vec">>] = arc[<<u, "vec">>]
                        /\ Vtables(u)' = Vtables(u)
  BY <1>n, SlotAssumption DEF Safe, BetweenCalls, Goto, Vtables, Place
<1>3. pc'[t] = "increment"
  BY <1>n DEF Safe, BetweenCalls, Goto
<1>4. NewLists'
  BY <1>n, <1>2, <1>3 DEF LeakInv, NewLists, Cell!Single
<1>5. Current' = Current
  BY <1>n, CurrentStays DEF Safe
<1>6. Pending' \subseteq Pending \ {t} /\ t \in Pending
  BY <1>n, <1>2, <1>3 DEF Pending
<1> HIDE DEF x
<1>7. /\ IsFiniteSet(Cell!Leaked') /\ Cardinality(Cell!Leaked') \in Nat
      /\ Cardinality(Cell!Leaked) \in Nat /\ Cardinality(Cell!Leaked') <= Cardinality(Cell!Leaked) + 1
  <2>1. /\ IsFiniteSet(Cell!Leaked) /\ Cardinality(Cell!Leaked) \in Nat
        /\ IsFiniteSet(Cell!Leaked \cup {x})
        /\ Cardinality(Cell!Leaked \cup {x}) \in Nat
        /\ Cardinality(Cell!Leaked \cup {x}) <= Cardinality(Cell!Leaked) + 1
    <3>1. IsFiniteSet(Cell!Leaked)
      BY DEF LeakInv
    <3>2. Cardinality(Cell!Leaked) \in Nat
      BY <3>1, FS_CardinalityType
    <3>3. /\ IsFiniteSet(Cell!Leaked \cup {x})
          /\ Cardinality(Cell!Leaked \cup {x}) = IF x \in Cell!Leaked THEN Cardinality(Cell!Leaked)
                                                 ELSE Cardinality(Cell!Leaked) + 1
      BY <3>1, FS_AddElement
    <3> QED
      BY <3>1, <3>2, <3>3
  <2>2. /\ IsFiniteSet(Cell!Leaked') /\ Cardinality(Cell!Leaked') \in Nat
        /\ Cardinality(Cell!Leaked') <= Cardinality(Cell!Leaked \cup {x})
    BY <1>1, <2>1, FS_Subset, FS_CardinalityType
  <2> QED
    BY <2>1, <2>2
<1>8. /\ Cardinality(Pending') \in Nat /\ Cardinality(Pending) \in Nat
      /\ Cardinality(Pending') <= Cardinality(Pending) - 1
  <2>1. /\ IsFiniteSet(Pending) /\ Cardinality(Pending) \in Nat
        /\ IsFiniteSet(Pending \ {t}) /\ Cardinality(Pending \ {t}) = Cardinality(Pending) - 1
    BY <1>6, PendingFinite, FS_RemoveElement
  <2> QED
    BY <1>6, <2>1, FS_Subset, FS_CardinalityType
<1>9. K \in Int /\ K' = K
  BY <1>5, PendingFinite, ListType DEF Safe, RegistryInv, BetweenCalls, Current
<1>10. Cardinality(Cell!Leaked) + Cardinality(Pending) <= K
  BY DEF LeakInv
<1> HIDE DEF K
<1>11. Cardinality(Cell!Leaked') + Cardinality(Pending') <= K
  BY <1>7, <1>8, <1>9, <1>10
<1> QED
  BY <1>1, <1>4, <1>7, <1>9, <1>11 DEF LeakInv, K

\* The list that is swapped in has one more entry, which pays for every other
\* insert that will fail for it.
LEMMA SwapWinsLeaks ==
  ASSUME ~Overlap, LeakInv, Safe, Safe', NEW t \in Thread, Moves(t), Swap(t), cell = Vtables(t)
  PROVE  LeakInv'
<1> DEFINE k == Cardinality(Thread) - 1
<1> DEFINE n == Len(Current)
<1>n. /\ Cell!Exchange(t, "vec") /\ "vec" \in Slot
      /\ pc'[t] \in {"return", "drop_old"} /\ \A u \in Thread \ {t} : pc'[u] = pc[u]
  BY SlotAssumption DEF Swap, CompareExchange, Vtables, Exchange, Cell!Exchange, Goto, Safe, BetweenCalls
<1>1. Cell!Exact' /\ Cell!Leaked' \subseteq Cell!Leaked
  BY <1>n, CellAssumptions, Cell!ExchangeExact DEF Safe, LeakInv
<1>2. Calls(t)
  BY <1>n DEF Calls
<1>3. NewLists'
  BY <1>n, <1>2, OthersKeep DEF LeakInv, NewLists, Safe
<1>4. n \in Nat /\ Len(Current)' = n + 1
  <2>1. /\ Current' = Append(Current, allocated_slice[t]) /\ Current \in Seq(Ref)
        /\ allocated_slice[t] \in Ref
    BY SwapGrows DEF Safe
  <2> QED
    BY <2>1
<1>5. k \in Nat /\ Cardinality(Pending') \in Nat /\ Cardinality(Pending') <= k
  <2>1. Pending' \subseteq Thread \ {t}
    BY <1>n DEF Pending
  <2>2. /\ IsFiniteSet(Thread \ {t}) /\ Cardinality(Thread \ {t}) = k
        /\ Cardinality(Thread \ {t}) \in Nat
    BY PendingFinite, FS_RemoveElement, FS_CardinalityType
  <2> QED
    BY <2>1, <2>2, FS_Subset, FS_CardinalityType
<1>6. /\ IsFiniteSet(Cell!Leaked') /\ Cardinality(Cell!Leaked') \in Nat
      /\ Cardinality(Cell!Leaked) \in Nat /\ Cardinality(Cell!Leaked') <= Cardinality(Cell!Leaked)
  BY <1>1, FS_Subset, FS_CardinalityType DEF LeakInv
<1>7. Cardinality(Cell!Leaked) + Cardinality(Pending) <= k * n /\ Cardinality(Pending) \in Nat
  BY PendingFinite DEF LeakInv
<1>8. k' = k
  OBVIOUS
<1> HIDE DEF k, n
<1>9. k * (n + 1) = k * n + k /\ k * n \in Nat
  BY <1>4, <1>5
<1>10. Cardinality(Cell!Leaked') + Cardinality(Pending') <= k * (n + 1)
  BY <1>5, <1>6, <1>7, <1>9
<1> QED
  BY <1>1, <1>3, <1>4, <1>6, <1>10 DEF LeakInv, k

LEMMA NextLeaks ==
  ASSUME ~Overlap, LeakInv, Safe, Safe', [Next]_vars
  PROVE  LeakInv'
<1>1. CASE UNCHANGED vars
  BY <1>1 DEF vars, cellVars, LeakInv, NewLists, Pending, Vtables, Current, List, Cell!Single,
              Cell!Exact, Cell!Leaked, Cell!Leaks, Cell!Owners, Cell!Holders
<1>2. ASSUME NEW t \in Thread, NEW c \in Content, Insert(t, c) PROVE LeakInv'
  BY <1>2, QuietLeaks DEF Insert, CallInsert, cellVars, Moves
<1>3. ASSUME NEW t \in Thread, Step(t) PROVE LeakInv'
  <2> USE DEF Moves
  <2>1. CASE Load(t)
    BY <1>3, <2>1, QuietLeaks DEF Load, ReadCell
  <2>2. CASE Acquire(t)
    BY <1>3, <2>2, AcquireLeaks
  <2>3. CASE Update(t)
    BY <1>3, <2>3, UpdateLeaks
  <2>4. ASSUME NEW r \in Ref, Found(t, r) \/ Allocate(t, r) PROVE LeakInv'
    BY <1>3, <2>4, QuietLeaks DEF Found, Allocate, cellVars
  <2>5. CASE StillCurrent(t)
    BY <1>3, <2>5, QuietLeaks DEF StillCurrent, Is, ReadCell, cellVars
  <2>6. ASSUME NEW a \in Addr, Copy(t, a) PROVE LeakInv'
    BY <1>3, <2>6, CopyLeaks
  <2>7. CASE Swap(t)
    BY <1>3, <2>7, SwapWinsLeaks, SwapFailsLeaks
  <2>8. CASE DropOld(t) \/ DropVtables(t)
    BY <1>3, <2>8, DropLeaks
  <2>9. CASE Return(t)
    BY <1>3, <2>9, QuietLeaks DEF Return, ReturnInsert, cellVars
  <2> QED
    BY <1>3, <2>1, <2>2, <2>3, <2>4, <2>5, <2>6, <2>7, <2>8, <2>9 DEF Step
<1> QED
  BY <1>1, <1>2, <1>3 DEF Next

LEMMA InitLeaks == Init => LeakInv
<1> SUFFICES ASSUME Init PROVE LeakInv
  OBVIOUS
<1>1. Cell!Leaked = {} /\ Cell!Exact /\ NewLists /\ Pending = {}
  BY DEF Init, RegistryInit, CellInit, Cell!Leaked, Cell!Leaks, Cell!Exact, NewLists, Pending
<1>2. Len(Current) = 0
  BY DEF Init, RegistryInit, CellInit, Current, List
<1>3. IsFiniteSet({}) /\ Cardinality({}) = 0
  BY FS_EmptySet
<1>4. (Cardinality(Thread) - 1) * 0 = 0
  BY PendingFinite
<1> QED
  BY <1>1, <1>2, <1>3, <1>4 DEF LeakInv

\* However many inserts race, and however often, the registry leaks at most one
\* list for each other thread and each entry that was added: compare_exchange is
\* the only call of VtVec::insert that forgets an Arc, and only when it fails.
THEOREM LeaksAreLostRacesTheorem ==
  ASSUME ~Overlap
  PROVE  Spec => []LeaksAreLostRaces
<1>1. Safe /\ Safe' /\ LeakInv /\ [Next]_vars => LeakInv'
  BY NextLeaks
<1>2. Spec => []Safe
  BY CellInvHolds, CellFactsHold, RegistryInvariant, PTL DEF Safe
<1>3. LeakInv => LeaksAreLostRaces
  <2> SUFFICES ASSUME LeakInv PROVE LeaksAreLostRaces
    OBVIOUS
  <2>1. Cell!Leaked = {a \in Addr : memory[a] = "live" /\ Owners(a) = 0}
    BY DEF Cell!Leaked, Cell!Leaks, Cell!Owners, Owners, Cell!Holders, Holders,
           Cell!Cardinality, Cardinality, Cell!Place, Place
  <2>2. Cardinality(Cell!Leaked) \in Nat /\ Cardinality(Pending) \in Nat
    BY PendingFinite, FS_CardinalityType DEF LeakInv
  <2>3. (Cardinality(Thread) - 1) * Len(Current) \in Int
    BY PendingFinite
  <2>4. Cardinality(Cell!Leaked) <= (Cardinality(Thread) - 1) * Len(Current)
    BY <2>2, <2>3 DEF LeakInv
  <2> QED
    BY <2>1, <2>4 DEF LeaksAreLostRaces
<1> QED
  BY <1>1, <1>2, <1>3, InitLeaks, PTL DEF Spec
=============================================================================
