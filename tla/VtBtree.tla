------------------------------ MODULE VtBtree ------------------------------
(***************************************************************************)
(* The registry of v-tables as a tree (VtBtree::insert in                  *)
(* stabby-abi/src/vtable/mod.rs, on AtomicArcBTreeSet::edit and get in     *)
(* stabby-abi/src/alloc/collections/arc_btree.rs).                         *)
(*                                                                         *)
(* The atomic pointer owns the root node.  A tree is the set of its        *)
(* entries at the address of its root: an insert into a tree that is       *)
(* shared copies the root, and the copy shares the nodes it leaves alone.  *)
(* Unlike VtVec, edit compares the pointer with one it holds no Arc of, so *)
(* the allocator may meanwhile hand its address out again.                 *)
(***************************************************************************)
EXTENDS VTableRegistry

CONSTANT Reuse   \* whether an address may be handed out to a new root while an
                 \* edit still compares the pointer with it

ASSUME ReuseAssumption == Reuse \in BOOLEAN
ASSUME SlotAssumption == Slot = {"tree", "new"}

VARIABLES
  current,   \* the root each edit read last, Null between edits
  entries    \* entries[a]: the entries of the tree with root a

vars == <<cellVars, pc, registryVars, current, entries>>

Tree(p) == IF p = Null THEN {} ELSE entries[p]
Copied(t) == arc[<<t, "tree">>]

\* A tree goes with its root.
DropTrees == entries' = [a \in Addr |-> IF memory'[a] = "free" THEN {} ELSE entries[a]]

Init ==
  /\ RegistryInit
  /\ current = [t \in Thread |-> Null]
  /\ entries = [a \in Addr |-> {}]

\* insert is called.
Insert(t, c) == CallInsert(t, c) /\ UNCHANGED <<cellVars, current, entries>>

-----------------------------------------------------------------------------
(* self.edit(f) *)

\* The load of the root.
Load(t) ==
  /\ pc[t] = "load"
  /\ ReadCell(t)
  /\ current' = [current EXCEPT ![t] = cell]
  /\ Goto(t, IF cell = Null THEN "edit" ELSE "copy")
  /\ UNCHANGED <<registryVars, entries>>

\* ArcBTreeSet::copy_from_ptr(current): a clone of the root behind the pointer.
CopyFromPtr(t) ==
  /\ pc[t] = "copy"
  /\ Increment(t, "tree")
  /\ Goto(t, "edit")
  /\ UNCHANGED <<registryVars, current, entries>>

Matches(t) == {r \in Tree(Copied(t)) : slices[r] = vtable[t]}

\* f finds the content and returns the tree it got, so edit returns.
Found(t, r) ==
  /\ pc[t] = "edit"
  /\ r \in Matches(t)
  /\ result' = [result EXCEPT ![t] = r]
  /\ current' = [current EXCEPT ![t] = Null]
  /\ Goto(t, "drop_tree")
  /\ UNCHANGED <<cellVars, vtable, allocated_slice, slices, returned, entries>>

\* f does not find it: it inserts its slice into a copy of the tree.
AddUnsearched(t, r, a) == \* mutant: f inserts without searching first
  /\ pc[t] = "edit"
  /\ NeedSlice(t, r)
  /\ New(t, "new", a)
  /\ Reuse \/ \A u \in Thread : current[u] # a
  /\ entries' = [entries EXCEPT ![a] = Tree(Copied(t)) \cup {r}]
  /\ Goto(t, IF Copied(t) = Null THEN "compare_exchange" ELSE "drop_copy")
  /\ UNCHANGED <<vtable, result, returned, current>>

Add(t, r, a) ==
  /\ pc[t] = "edit"
  /\ Matches(t) = {}
  /\ NeedSlice(t, r)
  /\ New(t, "new", a)
  /\ Reuse \/ \A u \in Thread : current[u] # a
  /\ entries' = [entries EXCEPT ![a] = Tree(Copied(t)) \cup {r}]
  /\ Goto(t, IF Copied(t) = Null THEN "compare_exchange" ELSE "drop_copy")
  /\ UNCHANGED <<vtable, result, returned, current>>

\* The tree that f was given is dropped when f returns: nothing keeps the root
\* alive that edit compares the pointer with.  The tree that get found the entry
\* in is dropped likewise.
DropCopy(t) ==
  /\ pc[t] \in {"drop_copy", "drop_tree", "unwind"}
  /\ Release(t, "tree")
  /\ Goto(t, CASE pc[t] = "drop_copy" -> "compare_exchange"
               [] pc[t] = "drop_tree" -> "return"
               [] pc[t] = "unwind" -> "panicked")
  /\ DropTrees
  /\ UNCHANGED <<registryVars, current>>

\* compare_exchange of current for the new root.
SwapBlindly(t) == \* mutant: a plain swap instead of a compare_exchange
  /\ pc[t] = "compare_exchange"
  /\ Exchange(t, "new")
  /\ current' = [current EXCEPT ![t] = Null]
  /\ Goto(t, IF cell = Null THEN "get" ELSE "drop_old")
  /\ UNCHANGED <<registryVars, entries>>

SwapRetriesStale(t) == \* mutant: a failure starts over from the same root
  /\ pc[t] = "compare_exchange"
  /\ IF cell = current[t]
       THEN /\ Exchange(t, "new")
            /\ current' = [current EXCEPT ![t] = Null]
            /\ Goto(t, IF cell = Null THEN "get" ELSE "drop_old")
       ELSE /\ seen' = [seen EXCEPT ![t] = current[t]]
            /\ Goto(t, "drop_new")
            /\ UNCHANGED <<cell, arc, strong, memory, current>>
  /\ UNCHANGED <<registryVars, entries>>

Swap(t) ==
  /\ pc[t] = "compare_exchange"
  /\ IF cell = current[t]
       THEN /\ Exchange(t, "new")
            /\ current' = [current EXCEPT ![t] = Null]
            /\ Goto(t, IF cell = Null THEN "get" ELSE "drop_old")
       ELSE /\ ReadCell(t)
            /\ current' = [current EXCEPT ![t] = cell]
            /\ Goto(t, "drop_new")
  /\ UNCHANGED <<registryVars, entries>>

\* The root that was replaced, or the one that was not swapped in, is dropped.
DropNewForgets(t) == \* mutant: whatever is in new is forgotten
  /\ pc[t] \in {"drop_old", "drop_new"}
  /\ arc' = [arc EXCEPT ![<<t, "new">>] = Null]
  /\ Goto(t, IF pc[t] = "drop_old" THEN "get" ELSE "copy")
  /\ UNCHANGED <<cell, seen, strong, memory, registryVars, current, entries>>

DropNew(t) ==
  /\ pc[t] \in {"drop_old", "drop_new"}
  /\ Release(t, "new")
  /\ Goto(t, IF pc[t] = "drop_old" THEN "get" ELSE "copy")
  /\ DropTrees
  /\ UNCHANGED <<registryVars, current>>

-----------------------------------------------------------------------------
(* self.get(vtable, f), once edit inserted the v-table *)

Get(t) ==
  /\ pc[t] = "get"
  /\ ReadCell(t)
  /\ Goto(t, IF cell = Null THEN "look_up" ELSE "get_copy")
  /\ UNCHANGED <<registryVars, current, entries>>

GetCopy(t) ==
  /\ pc[t] = "get_copy"
  /\ Increment(t, "tree")
  /\ Goto(t, "look_up")
  /\ UNCHANGED <<registryVars, current, entries>>

\* f takes the entry it finds, and forgets the slice if it is that entry.
Take(t, r) ==
  /\ result' = [result EXCEPT ![t] = r]
  /\ allocated_slice' = [allocated_slice EXCEPT ![t] = IF @ = r THEN Null ELSE @]
  /\ Goto(t, "drop_tree")
  /\ UNCHANGED slices

\* "VTable should've been inserted by now": the panic unwinds through get and
\* insert, dropping the slice and then the tree.
Panic(t) ==
  /\ slices' = [r \in Ref |-> IF r = allocated_slice[t] THEN Null ELSE slices[r]]
  /\ allocated_slice' = [allocated_slice EXCEPT ![t] = Null]
  /\ Goto(t, IF Copied(t) = Null THEN "panicked" ELSE "unwind")
  /\ UNCHANGED result

LookUp(t) ==
  /\ pc[t] = "look_up"
  /\ IF Matches(t) = {} THEN Panic(t) ELSE \E r \in Matches(t) : Take(t, r)
  /\ UNCHANGED <<cellVars, vtable, returned, current, entries>>

\* insert returns.
Return(t) == ReturnInsert(t) /\ UNCHANGED <<cellVars, current, entries>>

-----------------------------------------------------------------------------

\* The steps of an insert that was called.
Step(t) ==
  /\ Quiet(t)
  /\ \/ Load(t) \/ CopyFromPtr(t) \/ DropCopy(t) \/ Swap(t) \/ DropNew(t)
     \/ \E r \in Ref : Found(t, r) \/ \E a \in Addr : Add(t, r, a)
     \/ Get(t) \/ GetCopy(t) \/ LookUp(t) \/ Return(t)

Next == \E t \in Thread : Step(t) \/ \E c \in Content : Insert(t, c)

\* Every thread is scheduled again and again, also between the loads of the
\* others that Quiet keeps whole; a program need not insert anything.
Spec == Init /\ [][Next]_vars /\ \A t \in Thread : SF_vars(Step(t))

-----------------------------------------------------------------------------
(* Properties *)

\* The entries that inserts find in the registry.
Current == Tree(cell)

TypeOK ==
  /\ RegistryTypeOK
  /\ pc \in [Thread -> {"idle", "load", "copy", "edit", "drop_copy", "compare_exchange",
                        "drop_old", "drop_new", "get", "get_copy", "look_up", "drop_tree",
                        "unwind", "panicked", "return"}]
  /\ current \in [Thread -> Pointer]
  /\ entries \in [Addr -> SUBSET Ref]

\* get finds what edit inserted: "VTable should've been inserted by now".
NeverPanics == \A t \in Thread : pc[t] = "look_up" => Matches(t) # {}

\* A boxed slice is an entry of the current tree or belongs to one insert that
\* may still free it; the insert that just swapped it in holds it until get.
SlicesHaveOneOwner ==
  /\ \A r \in Ref : slices[r] # Null =>
       r \in Current \/ \E t \in Thread : allocated_slice[t] = r
  /\ \A t, u \in Thread :
       allocated_slice[t] = allocated_slice[u] /\ t # u => allocated_slice[t] = Null
  /\ \A t \in Thread : pc[t] = "return" => allocated_slice[t] \notin Current

\* Every root that is not in the registry belongs to an edit in progress: the
\* trees that edits replaced or could not swap in are all freed.
RootsAreOwned == \A a \in Addr : memory[a] = "live" => strong[a] = Owners(a) /\ Owners(a) # 0

Swapped == {"drop_old", "get", "get_copy", "look_up"}
Set == INSTANCE Interner WITH
  None <- Null, table <- TableOf(Current), asked <- vtable,
  answer <- [t \in Thread |-> IF pc[t] \in Swapped THEN allocated_slice[t] ELSE result[t]]

\* Concurrent inserts appear to take effect one at a time, each at one instant
\* between its call and its return.
ImplementsInterner == Set!Spec
=============================================================================
