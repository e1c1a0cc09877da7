----------------------------- MODULE AtomicArc -----------------------------
(***************************************************************************)
(* Any program that shares an AtomicArc (stabby-abi/src/alloc/sync.rs):    *)
(* each thread makes Arcs, drops them, and calls load, is, store and       *)
(* compare_exchange with the Arcs in its slots.                            *)
(***************************************************************************)
EXTENDS ArcCell

Init == CellInit

\* The second half of the call that read the pointer.
Resume(t) == \E s \in Slot : Increment(t, s)

\* A call needs a free slot for the Arc it may return; the Arc that
\* compare_exchange borrows and the one it takes are two different Arcs.
Call(t) ==
  /\ seen[t] = Null
  /\ \/ \E s \in Slot : arc[<<t, s>>] = Null /\ ReadCell(t)
     \/ \E s, current \in Slot : arc[<<t, s>>] = Null /\ s # current /\ Is(t, current)
     \/ \E s \in Slot : Store(t, s)
     \/ \E current, s \in Slot : current # s /\ CompareExchange(t, current, s)
     \/ \E s \in Slot, a \in Addr : New(t, s, a)
     \/ \E s \in Slot : Release(t, s)
     \/ \E old, new \in Slot : Assign(t, old, new)

Next ==
  \/ \E t \in Thread : Quiet(t) /\ (Resume(t) \/ Call(t))
  \/ DropCell

Spec == Init /\ [][Next]_cellVars

-----------------------------------------------------------------------------

\* While a thread is between reading the pointer and counting itself, nobody else
\* swaps the pointer by compare_exchange; store, drops, clones and new Arcs may
\* come in between.
SwapsSpareLoads ==
  (\E t \in Thread : seen[t] # Null) =>
    cell' = cell \/ \E t \in Thread, s \in Slot : Store(t, s)
=============================================================================
