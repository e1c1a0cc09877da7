----------------------------- MODULE MCVtBtree -----------------------------
EXTENDS VtBtree, TLC

MCSlot == {"tree", "new"}

\* As in MCVtVec: the allocator hands out its lowest free address, or the
\* lowest it may when an address that is still compared with is not reused.
FirstFit ==
  /\ \A a \in Addr : memory[a] = "free" /\ memory'[a] = "live" =>
       \A b \in Addr : b < a =>
         memory[b] = "live" \/ (~Reuse /\ \E t \in Thread : current[t] = b)
  /\ \A r \in Ref : slices[r] = Null /\ slices'[r] # Null =>
       \A q \in Ref : q < r => slices[q] # Null

FitNext == Next /\ FirstFit

FitSpec ==
  Init /\ [][FitNext]_vars /\ \A t \in Thread : SF_vars(Step(t) /\ FirstFit)

Symmetry == Permutations(Thread) \cup Permutations(Content)
=============================================================================
