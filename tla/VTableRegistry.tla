--------------------------- MODULE VTableRegistry ---------------------------
(***************************************************************************)
(* What the two registries of v-tables have in common (trait               *)
(* VTableRegistry in stabby-abi/src/vtable/mod.rs).  A v-table is copied   *)
(* into a boxed slice of its own, at an address (Ref) that the registry    *)
(* keeps forever once an entry for it is in: insert returns it as a        *)
(* reference that never expires.  VtVec.tla and VtBtree.tla model the      *)
(* implementations, in which the cell of ArcCell holds the entries.        *)
(***************************************************************************)
EXTENDS ArcCell

CONSTANTS
  Content,   \* the contents of the v-tables of the program
  Ref        \* the addresses the allocator hands out to boxed slices

ASSUME ContentAssumption == Null \notin Content /\ Null \notin Ref

VARIABLES
  pc,             \* where the insert of each thread stands
  vtable,         \* the content it inserts, Null if none
  allocated_slice,\* its boxed slice, Null if it has none
  result,         \* the pointer it returns, Null if undecided
  slices,         \* slices[r]: the content of the slice at r, Null if free
  returned        \* the pointers that callers got so far, with the content asked

registryVars == <<vtable, allocated_slice, result, slices, returned>>

Goto(t, l) == pc' = [pc EXCEPT ![t] = l]

RegistryInit ==
  /\ CellInit
  /\ pc = [t \in Thread |-> "idle"]
  /\ vtable = [t \in Thread |-> Null]
  /\ allocated_slice = [t \in Thread |-> Null]
  /\ result = [t \in Thread |-> Null]
  /\ slices = [r \in Ref |-> Null]
  /\ returned = {}

\* insert is called, for the v-table of a type and a set of traits.
CallInsert(t, c) ==
  /\ pc[t] = "idle"
  /\ Goto(t, "load")
  /\ vtable' = [vtable EXCEPT ![t] = c]
  /\ UNCHANGED <<allocated_slice, result, slices, returned>>

\* BoxedSlice::from(vtable), unless an earlier round made one already.
NeedSliceAgain(t, r) == \* mutant: every round allocates, forgetting the last slice
  /\ slices[r] = Null
  /\ slices' = [slices EXCEPT ![r] = vtable[t]]
  /\ allocated_slice' = [allocated_slice EXCEPT ![t] = r]

NeedSlice(t, r) ==
  IF allocated_slice[t] = Null
    THEN /\ slices[r] = Null
         /\ slices' = [slices EXCEPT ![r] = vtable[t]]
         /\ allocated_slice' = [allocated_slice EXCEPT ![t] = r]
    ELSE r = allocated_slice[t] /\ UNCHANGED <<slices, allocated_slice>>

\* insert returns; the slice that did not become an entry is freed.
ReturnInsert(t) ==
  /\ pc[t] = "return"
  /\ slices' = [r \in Ref |-> IF r = allocated_slice[t] THEN Null ELSE slices[r]]
  /\ returned' = returned \cup {<<vtable[t], result[t]>>}
  /\ allocated_slice' = [allocated_slice EXCEPT ![t] = Null]
  /\ result' = [result EXCEPT ![t] = Null]
  /\ vtable' = [vtable EXCEPT ![t] = Null]
  /\ Goto(t, "idle")

-----------------------------------------------------------------------------

RegistryTypeOK ==
  /\ CellTypeOK
  /\ vtable \in [Thread -> Content \cup {Null}]
  /\ allocated_slice \in [Thread -> Ref \cup {Null}]
  /\ result \in [Thread -> Ref \cup {Null}]
  /\ slices \in [Ref -> Content \cup {Null}]
  /\ returned \subseteq Content \X Ref

\* "&'a Vt" for any 'a: a pointer insert returned is never freed, and holds the
\* v-table it was asked for.
ReturnedPointersStayValid == \A p \in returned : slices[p[2]] = p[1]

\* A boxed slice belongs to the registry, whose entries are given, or to one
\* insert that may still free it.
OwnedOnce(registered) ==
  \A r \in Ref : slices[r] # Null =>
    IF r \in registered
      THEN \A t \in Thread : allocated_slice[t] # r
      ELSE \E t \in Thread :
             allocated_slice[t] = r /\ \A u \in Thread \ {t} : allocated_slice[u] # r

\* Every insert returns: it starts over only because another one succeeded, and
\* the registry holds each content once.
InsertReturns == \A t \in Thread : (pc[t] # "idle") ~> (pc[t] = "idle")

\* The table of the abstract interner, from the entries of the registry.
TableOf(registered) ==
  [c \in Content |->
     IF \E r \in registered : slices[r] = c
       THEN CHOOSE r \in registered : slices[r] = c
       ELSE Null]
=============================================================================
