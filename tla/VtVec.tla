------------------------------- MODULE VtVec -------------------------------
(***************************************************************************)
(* The registry of v-tables as a vector (VtVec::insert in                  *)
(* stabby-abi/src/vtable/mod.rs): an AtomicArc of an immutable list that   *)
(* every insert copies, extends by one entry and tries to swap in.  An     *)
(* insert takes its steps on the cell with the operations of ArcCell.      *)
(***************************************************************************)
EXTENDS VTableRegistry, SequencesExt

ASSUME SlotAssumption == Slot = {"vtables", "updated", "vec"}

VARIABLES
  search_start,   \* the entries each thread need not search again
  entries         \* entries[a]: the list in allocation a

vars == <<cellVars, pc, registryVars, search_start, entries>>

Vtables(t) == arc[<<t, "vtables">>]
List(p) == IF p = Null THEN << >> ELSE entries[p]

\* A list goes with its allocation.
DropLists == entries' = [a \in Addr |-> IF memory'[a] = "free" THEN << >> ELSE entries[a]]

Init ==
  /\ RegistryInit
  /\ search_start = [t \in Thread |-> 0]
  /\ entries = [a \in Addr |-> << >>]

\* insert is called; search_start is 0.
Insert(t, c) == CallInsert(t, c) /\ UNCHANGED <<cellVars, search_start, entries>>

\* self.load, first half.
Load(t) ==
  /\ pc[t] = "load"
  /\ ReadCell(t)
  /\ Goto(t, IF cell = Null THEN "search" ELSE "increment")
  /\ UNCHANGED <<registryVars, search_start, entries>>

\* The second half of load, is or compare_exchange.
Acquire(t) ==
  /\ pc[t] = "increment"
  /\ Increment(t, "updated")
  /\ Goto(t, "assign")
  /\ UNCHANGED <<registryVars, search_start, entries>>

\* vtables = updated, which drops the list that was there.
UpdateKeepsOld(t) == \* mutant: the list that was read anew is dropped instead
  /\ pc[t] = "assign"
  /\ IF Vtables(t) = Null THEN Assign(t, "vtables", "updated") ELSE Release(t, "updated")
  /\ Goto(t, "search")
  /\ DropLists
  /\ UNCHANGED <<registryVars, search_start>>

Update(t) ==
  /\ pc[t] = "assign"
  /\ Assign(t, "vtables", "updated")
  /\ Goto(t, "search")
  /\ DropLists
  /\ UNCHANGED <<registryVars, search_start>>

\* The entries that the search looks at and that hold the content.
Matches(t) ==
  LET list == List(Vtables(t)) IN
  {r \in ToSet(SubSeq(list, search_start[t] + 1, Len(list))) : slices[r] = vtable[t]}

\* The search finds the content: insert returns that entry, dropping vtables and
\* then the slice that an earlier round allocated.
Found(t, r) ==
  /\ pc[t] = "search"
  /\ r \in Matches(t)
  /\ result' = [result EXCEPT ![t] = r]
  /\ Goto(t, "drop_vtables")
  /\ UNCHANGED <<cellVars, vtable, allocated_slice, slices, returned, search_start, entries>>

\* The search fails: the v-table is copied into a slice, in the first round only.
Allocate(t, r) ==
  /\ pc[t] = "search"
  /\ Matches(t) = {}
  /\ NeedSlice(t, r)
  /\ Goto(t, "is")
  /\ UNCHANGED <<cellVars, vtable, result, returned, search_start, entries>>

\* self.is(vtables), before the list is copied and before it is swapped in.
StillCurrent(t) ==
  /\ pc[t] \in {"is", "is_again"}
  /\ Is(t, "vtables")
  /\ Goto(t, IF cell # Vtables(t) THEN "increment"
             ELSE IF pc[t] = "is" THEN "is_again" ELSE "new")
  /\ UNCHANGED <<registryVars, search_start, entries>>

\* The copy of the list with one more entry, in a new Arc.
CopyInPlace(t, a) == \* mutant: pushes to the shared list
  /\ pc[t] = "new"
  /\ IF Vtables(t) = Null
       THEN New(t, "vec", a)
       ELSE a = Vtables(t) /\ arc' = [arc EXCEPT ![<<t, "vec">>] = a]
              /\ UNCHANGED <<cell, seen, strong, memory>>
  /\ entries' = [entries EXCEPT ![a] = Append(List(Vtables(t)), allocated_slice[t])]
  /\ Goto(t, "compare_exchange")
  /\ UNCHANGED <<registryVars, search_start>>

Copy(t, a) ==
  /\ pc[t] = "new"
  /\ New(t, "vec", a)
  /\ entries' = [entries EXCEPT ![a] = Append(List(Vtables(t)), allocated_slice[t])]
  /\ Goto(t, "compare_exchange")
  /\ UNCHANGED <<registryVars, search_start>>

\* The list is swapped in and the slice belongs to it, or another insert came
\* first and what it added is searched next.
SwapKeepsSlice(t) == \* mutant: the slice is not forgotten, so it is freed
  /\ pc[t] = "compare_exchange"
  /\ CompareExchange(t, "vtables", "vec")
  /\ IF cell = Vtables(t)
       THEN /\ result' = [result EXCEPT ![t] = allocated_slice[t]]
            /\ Goto(t, IF cell = Null THEN "return" ELSE "drop_old")
            /\ UNCHANGED <<search_start, allocated_slice>>
       ELSE /\ search_start' = [search_start EXCEPT ![t] = Len(List(Vtables(t)))]
            /\ Goto(t, "increment")
            /\ UNCHANGED <<result, allocated_slice>>
  /\ UNCHANGED <<vtable, slices, returned, entries>>

SwapBlindly(t) == \* mutant: a plain swap instead of a compare_exchange
  /\ pc[t] = "compare_exchange"
  /\ Exchange(t, "vec")
  /\ result' = [result EXCEPT ![t] = allocated_slice[t]]
  /\ allocated_slice' = [allocated_slice EXCEPT ![t] = Null]
  /\ Goto(t, IF cell = Null THEN "return" ELSE "drop_old")
  /\ UNCHANGED <<vtable, slices, returned, search_start, entries>>

Swap(t) ==
  /\ pc[t] = "compare_exchange"
  /\ CompareExchange(t, "vtables", "vec")
  /\ IF cell = Vtables(t)
       THEN /\ result' = [result EXCEPT ![t] = allocated_slice[t]]
            /\ allocated_slice' = [allocated_slice EXCEPT ![t] = Null]
            /\ Goto(t, IF cell = Null THEN "return" ELSE "drop_old")
            /\ UNCHANGED search_start
       ELSE /\ search_start' = [search_start EXCEPT ![t] = Len(List(Vtables(t)))]
            /\ Goto(t, "increment")
            /\ UNCHANGED <<result, allocated_slice>>
  /\ UNCHANGED <<vtable, slices, returned, entries>>

\* The list that compare_exchange returned is dropped, then vtables.
DropOldForgets(t) == \* mutant: the list that compare_exchange returned is forgotten
  /\ pc[t] = "drop_old"
  /\ arc' = [arc EXCEPT ![<<t, "vec">>] = Null]
  /\ Goto(t, "drop_vtables")
  /\ UNCHANGED <<cell, seen, strong, memory, registryVars, search_start, entries>>

DropOld(t) ==
  /\ pc[t] = "drop_old"
  /\ Release(t, "vec")
  /\ Goto(t, "drop_vtables")
  /\ DropLists
  /\ UNCHANGED <<registryVars, search_start>>

DropVtables(t) ==
  /\ pc[t] = "drop_vtables"
  /\ Release(t, "vtables")
  /\ Goto(t, "return")
  /\ DropLists
  /\ UNCHANGED <<registryVars, search_start>>

\* insert returns, and search_start goes with it.
Return(t) ==
  /\ ReturnInsert(t)
  /\ search_start' = [search_start EXCEPT ![t] = 0]
  /\ UNCHANGED <<cellVars, entries>>

-----------------------------------------------------------------------------

\* The steps of an insert that was called.
Step(t) ==
  /\ Quiet(t)
  /\ \/ Load(t) \/ Acquire(t) \/ Update(t)
     \/ \E r \in Ref : Found(t, r) \/ Allocate(t, r)
     \/ StillCurrent(t)
     \/ \E a \in Addr : Copy(t, a)
     \/ Swap(t) \/ DropOld(t) \/ DropVtables(t) \/ Return(t)

Next == \E t \in Thread : Step(t) \/ \E c \in Content : Insert(t, c)

\* Every thread is scheduled again and again, also between the loads of the
\* others that Quiet keeps whole; a program need not insert anything.
Spec == Init /\ [][Next]_vars /\ \A t \in Thread : SF_vars(Step(t))

-----------------------------------------------------------------------------
(* Properties *)

\* The list that inserts find in the registry.
Current == List(cell)

TypeOK ==
  /\ RegistryTypeOK
  /\ pc \in [Thread -> {"idle", "load", "increment", "assign", "search", "is", "is_again",
                        "new", "compare_exchange", "drop_old", "drop_vtables", "return"}]
  /\ search_start \in [Thread -> Nat]
  /\ entries \in [Addr -> Seq(Ref)]

\* A boxed slice is an entry of the current list or belongs to one insert that
\* may still free it, never both and never neither.
SlicesHaveOneOwner == OwnedOnce(ToSet(Current))

\* compare_exchange forgets the list it could not swap in.  The registry leaks no
\* other list: at most one for each thread that lost a race to an entry.
LeaksAreLostRaces ==
  Cardinality({a \in Addr : memory[a] = "live" /\ Owners(a) = 0})
    <= (Cardinality(Thread) - 1) * Len(Current)

Set == INSTANCE Interner WITH
  None <- Null, table <- TableOf(ToSet(Current)), asked <- vtable, answer <- result

\* Concurrent inserts appear to take effect one at a time, each at one instant
\* between its call and its return.
ImplementsInterner == Set!Spec

\* Every step of an insert is one that AtomicArc allows any program to take, so
\* what AtomicArc.tla shows of every program holds of the registry.
Client == INSTANCE AtomicArc
ImplementsAtomicArc == Client!Spec
=============================================================================
