------------------------------ MODULE Buffers ------------------------------
(***************************************************************************)
(* The containers of SingleOrVec over the allocations of Allocators: the   *)
(* buffer of a container is in one block, which is allocated, grown and    *)
(* freed with it.                                                          *)
(***************************************************************************)
EXTENDS SingleOrVec, Allocators

BuffersInit == Init /\ AllocatorsInit

\* A buffer that grows is the one there is, and its capacity is what the container
\* says.  Where RustAlloc gets no memory, nothing panics: it goes on.
BuffersNext ==
  /\ Next
  /\ allocator = "RustAlloc" => \A x, y \in Item : ~PushPanics({x, y})
  /\ CASE blocks' > blocks -> AllocArray(Len(memory'))
       [] blocks' < blocks -> Free
       [] blocks' = 1 /\ blocks = 1 /\ Len(memory') # Len(memory) -> Realloc(capacity, Len(memory'))
       [] OTHER -> UNCHANGED allocation

BuffersSpec == BuffersInit /\ [][BuffersNext]_<<vars, allocation>>

\* The slots of a container are elements inside of the block that was granted to
\* it, in place and aligned, also after it moved; and blocks go back to where they
\* came from, with the size they were granted with.
SlotsAreGranted ==
  /\ asGranted
  /\ block # NoBlock => Holds(allocator, element, block, Len(memory)) /\ block.first = block.ptr
=============================================================================
