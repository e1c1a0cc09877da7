----------------------------- MODULE MCBuffers -----------------------------
EXTENDS Buffers, TLC

Symmetry == Permutations(Item)

\* Bytes, and 16 of them in a register, in blocks as malloc and the global
\* allocator place them: at multiples of 16 that need not be multiples of 32.
Elements == {Layout(1, 1), Layout(16, 16)}
Bases == {4096 + 16, 8192}

-----------------------------------------------------------------------------
(* What is left out, and why: the alignment of elements is not asked for.    *)

Wide == Layout(32, 32)
Wider == Layout(64, 64)

\* The elements are aligned by moving them up, but nothing is added to the size
\* for that; a cast that keeps the address finds the prefix where it was.
ASSUME WideElementsSpill ==
  \E of \in {"LibcAlloc", "RustAlloc"}, b \in Bases :
    LET p == Initialised(of, Wide, b, Requested(of, BufferLayout(Wide, 1))) IN ~Holds(of, Wide, p, 1)

\* Where that happens, a realloc passes another address than it was given.
ASSUME WideElementsMove ==
  \E b \in Bases : LET p == Initialised("LibcAlloc", Wide, b, BufferLayout(Wide, 1)) IN PrefixPtr(p) # p.origin

\* RustAlloc asked for more alignment than its prefix is long, and for a size that
\* is no multiple of it, which no container does: the prefix counts as 32 bytes,
\* and the address moves by the alignment.
ASSUME AlignmentSpills ==
  LET layout == Layout(32, 64)
      asked == Requested("RustAlloc", layout)
  IN Shift("RustAlloc", asked) + layout.size > asked.size

\* skip_to and init put an element at the same place, if the block is aligned.
ASSUME SkipTo == \A e \in Elements \cup {Wide, Wider} :
  LET p == Initialised("LibcAlloc", e, e.align * 16, BufferLayout(e, 1)) IN
  p.ptr = p.origin + NextMatching(AllocPrefix.size, e.align) /\ Holds("LibcAlloc", e, p, 1)
=============================================================================
