----------------------------- MODULE Allocators -----------------------------
(***************************************************************************)
(* The allocation behind a container (stabby-abi/src/alloc/mod.rs): an     *)
(* AllocPtr leads to its elements, a prefix comes right before them, and   *)
(* the address that the allocator gave out is kept in the prefix.  The     *)
(* allocator is LibcAlloc, which passes sizes on to the system, or         *)
(* RustAlloc, which puts a prefix of its own in front of all that          *)
(* (alloc/allocators/).  Addresses and sizes are in bytes.                 *)
(*                                                                         *)
(* RustAlloc writes its prefix before it looks whether it got any memory:  *)
(* what happens then has no next state here.                               *)
(***************************************************************************)
EXTENDS Integers

CONSTANTS
  Element,  \* the sizes and alignments of the elements there may be
  Base,     \* where the system places a block: anywhere, as its alignment allows
  NoBlock   \* what is in place of one

ASSUME ElementAssumption ==
  \A e \in Element : e.size \in Nat /\ e.align \in Nat \ {0}

\* Nothing needs more than Base guarantees, as only its own alignment is asked for.
ASSUME BaseAssumption ==
  \A e \in Element, b \in Base : b \in Nat \ {0} /\ b % 8 = 0 /\ b % e.align = 0

VARIABLES
  allocator,  \* "LibcAlloc" or "RustAlloc"
  element,    \* the elements of the program's container
  block,      \* the allocation
  asGranted   \* whether all that was given back was what had been granted

allocation == <<allocator, element, block, asGranted>>

-----------------------------------------------------------------------------
(* Layout *)

Layout(size, align) == [size |-> size, align |-> align]
NextMatching(address, align) == address + ((align - (address % align)) % align)
Array(e, n) == Layout(e.size * n, e.align)
Concat(first, second) ==
  LET align == IF first.align < second.align THEN second.align ELSE first.align
  IN Layout(NextMatching(first.size + second.size, align), align)

\* strong, weak, capacity and origin; the allocators have no size.
AllocPrefix == Layout(4 * 8, 8)

\* A layout, and two functions.
RustAllocPrefix == Layout(4 * 8, 8)

-----------------------------------------------------------------------------
(* IAlloc *)

\* What the system is asked for, and how far in is what a caller gets.
RequestedBare(of, layout) == \* mutant: the prefix remembers what was asked of it
  IF of = "RustAlloc" THEN [Concat(RustAllocPrefix, layout) EXCEPT !.size = layout.size] ELSE layout

Requested(of, layout) ==
  IF of = "RustAlloc" THEN Concat(RustAllocPrefix, layout) ELSE layout

Shift(of, layout) ==
  IF of # "RustAlloc" THEN 0
  ELSE IF layout.align > RustAllocPrefix.size THEN layout.align ELSE RustAllocPrefix.size

-----------------------------------------------------------------------------
(* AllocPtr *)

BufferLayout(e, n) == [Concat(AllocPrefix, Array(e, n)) EXCEPT !.align = AllocPrefix.align]

\* AllocPtr::init, in a block that was granted at start.
Initialised(of, e, start, layout) ==
  LET origin == start + Shift(of, layout)
  IN [start |-> start, layout |-> layout, origin |-> origin,
      ptr |-> NextMatching(origin + AllocPrefix.size, e.align)]
PrefixPtr(b) == b.ptr - AllocPrefix.size

\* The first element is where ptr is; a realloc may put it elsewhere.
With(b, first) == [start |-> b.start, layout |-> b.layout, origin |-> b.origin, ptr |-> b.ptr, first |-> first]

AllocArray(n) ==
  /\ block = NoBlock
  /\ LET layout == Requested(allocator, BufferLayout(element, n)) IN
     \E start \in Base :
       /\ start % layout.align = 0
       /\ LET b == Initialised(allocator, element, start, layout) IN block' = With(b, b.ptr)
  /\ UNCHANGED <<allocator, element, asGranted>>

\* The start and the layout that go back to the system.
GiveBack(start, layout) ==
  asGranted' = (asGranted /\ start = block.start /\ layout = block.layout)

\* The allocator gets the address of the prefix and the layout of the old buffer;
\* RustAlloc has a layout of its own.  What was there moves along with its start,
\* by the system or, if that fails, by a copy.
Realloc(prev, n) ==
  LET from == PrefixPtr(block) - Shift(allocator, block.layout)
      old == IF allocator = "RustAlloc" THEN block.layout ELSE BufferLayout(element, prev)
      new == Requested(allocator, [BufferLayout(element, n) EXCEPT !.align = old.align])
  IN /\ \E start \in Base :
          /\ start % new.align = 0
          /\ block' = With(Initialised(allocator, element, start, new), start + (block.first - from))
     /\ GiveBack(from, old)
     /\ UNCHANGED <<allocator, element>>

Free ==
  /\ GiveBack(block.origin - Shift(allocator, block.layout), block.layout)
  /\ block' = NoBlock
  /\ UNCHANGED <<allocator, element>>

AllocatorsInit ==
  /\ allocator \in {"LibcAlloc", "RustAlloc"} /\ element \in Element
  /\ block = NoBlock /\ asGranted = TRUE

-----------------------------------------------------------------------------

\* An element is where ptr is, aligned, and as many as there are slots are inside
\* of what was granted, behind both prefixes.
Holds(of, e, b, n) ==
  /\ b.ptr % e.align = 0
  /\ b.start + (IF of = "RustAlloc" THEN RustAllocPrefix.size ELSE 0) <= b.origin
  /\ b.origin <= PrefixPtr(b)
  /\ b.ptr + n * e.size <= b.start + b.layout.size
=============================================================================
