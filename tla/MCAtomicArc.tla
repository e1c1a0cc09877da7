---------------------------- MODULE MCAtomicArc ----------------------------
EXTENDS AtomicArc, TLC

CONSTANT MaxStrong   \* bound on a strong count: forgotten Arcs stay counted

Symmetry == Permutations(Thread) \cup Permutations(Slot) \cup Permutations(Addr)

BoundedNext == Next /\ \A a \in Addr : strong'[a] <= MaxStrong

BoundedSpec == Init /\ [][BoundedNext]_cellVars

\* The same, of programs that do not swap while others load.
SparingSpec == Init /\ [][BoundedNext /\ SwapsSpareLoads]_cellVars
=============================================================================
