------------------------------ MODULE MCVtVec ------------------------------
EXTENDS VtVec

MCSlot == {"vtables", "updated", "vec"}

\* The allocator hands out its lowest free address, Addr and Ref being numbers:
\* what was freed last is soon used again, and no state differs from another
\* by the names of its addresses alone.
FirstFit ==
  /\ \A a \in Addr : memory[a] = "free" /\ memory'[a] = "live" =>
       \A b \in Addr : b < a => memory[b] = "live"
  /\ \A r \in Ref : slices[r] = Null /\ slices'[r] # Null =>
       \A q \in Ref : q < r => slices[q] # Null

FitNext == Next /\ FirstFit

FitSpec ==
  Init /\ [][FitNext]_vars /\ \A t \in Thread : SF_vars(Step(t) /\ FirstFit)

Symmetry == Permutations(Thread) \cup Permutations(Content)
=============================================================================
