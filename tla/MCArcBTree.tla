----------------------------- MODULE MCArcBTree -----------------------------
(***************************************************************************)
(* ArcBTree for TLC.  One tree grows by ascending keys to the edge of the  *)
(* split of its root; it is cloned from there on, and clones grow by a few *)
(* keys that fall anywhere in them.                                        *)
(***************************************************************************)
EXTENDS ArcBTree, TLC

CONSTANTS
  First,   \* the keys the first tree starts with, in ascending order
  Old,     \* the value keys are inserted with at first
  Later,   \* the keys inserted into trees that hold those
  Replaced \* the keys inserted into them with another value

\* The entries of the nodes under p.
Under(p) ==
  LET under[q \in Pointer] ==
        IF q = Null THEN {}
        ELSE ToSet(entries[q]) \cup UNION {under[kids[q][i]] : i \in 1 .. Len(kids[q])}
  IN under[p]

Missing(t) == First \ {e[1] : e \in Under(root[t])}
NextEntry(t) == IF Missing(t) = {} THEN Later \X {Old} \cup Replaced \X (Value \ {Old}) ELSE {<<Min(Missing(t)), Old>>}

\* The inserts, clones and drops that a run looks at.
Ordered == \A t \in Thread :
  /\ pc[t] = "idle" /\ pc'[t] = "make_mut" => entry'[t] \in NextEntry(t)
  /\ root[t] = Null /\ root'[t] # Null =>
       \/ \A u \in Thread : root[u] = Null /\ entries'[root'[t]][1] \in NextEntry(t)
       \/ \E u \in Thread : root[u] = root'[t] /\ Missing(u) = {}
  /\ root[t] # Null /\ root'[t] = Null => Missing(t) = {}

Symmetry == Permutations(Thread)

\* A state up to the names of its addresses: the nodes in the order in which
\* they are found from the roots, each named after where it is found first.
Shape ==
  LET list[q \in Pointer] ==
        IF q = Null THEN <<Null>> ELSE <<q>> \o FlattenSeq([i \in 1 .. Len(kids[q]) |-> list[kids[q][i]]])
      threads == SetToSeq(Thread)
      found == FlattenSeq([n \in 1 .. Len(threads) |->
                 list[root[threads[n]]] \o list[right[threads[n]]] \o list[copy[threads[n]]]
                 \o FlattenSeq([i \in 1 .. Len(dropping[threads[n]]) |-> list[dropping[threads[n]][i]]])])
      Name(i) == Min({j \in 1 .. i : found[j] = found[i]})
  IN <<replace, pc, entry, [t \in Thread |-> Len(dropping[t])], [t \in Thread |-> [i \in 1 .. Len(path[t]) |-> path[t][i][2]]],
       [i \in 1 .. Len(found) |->
          IF found[i] = Null THEN << >> ELSE <<Name(i), entries[found[i]], strong[found[i]]>>]>>
=============================================================================
