---------------------------- MODULE StableTypes ----------------------------
(***************************************************************************)
(* The layouts of the types that stabby knows from the start, and of what  *)
(* is built from them: structs, unions, arrays and enums with an explicit  *)
(* tag (stabby-abi/src/istable.rs and stable_impls/mod.rs, and the code    *)
(* that stabby-macros generates for a #[stabby] type).                     *)
(***************************************************************************)
EXTENDS Layouts

Type(size, align, ub, fv, niche, vals) ==
  [size |-> size, align |-> align, ub |-> ub, fv |-> fv, niche |-> niche, vals |-> vals]

-----------------------------------------------------------------------------
(* Types that come with Rust *)

\* (), PhantomData, PhantomPinned and c_void.
Unit == Type(0, 1, <<>>, Nothing, 0, {Plain(0, <<>>)})

\* u8 to u128, usize, the signed ones and the floats; `values` are some of
\* their bytes.
Integer(n, values) == Type(n, n, <<>>, Nothing, 0, {Plain(n, v) : v \in values})

\* The NonZero integers.
NonZero(n, values) ==
  Type(n, n, <<>>, <<{<<i, {0}>> : i \in 0 .. n - 1}>>, 1, {Plain(n, v) : v \in values})

\* The NonMax integers: a number is stored as its complement (NonX are alike).
NonMax(n, values) == NonZero(n, {[i \in 1 .. n |-> 255 - v[i]] : v \in values})

\* What is laid out as an integer: atomics, raw pointers, file descriptors; and
\* as a NonZeroUsize: references, NonNull and Pin, and function pointers.
Atomic(n, values) == Integer(n, values)
Pointer(values) == Integer(8, values)
FileDescriptor(values) == Integer(4, values)
Reference(values) == NonZero(8, values)
FnPointer(values) == NonZero(8, values)

\* Types of the crate abi_stable: n pointers, none of them 0 where it is the
\* first of a vector, a box or a map, and slices.
AbiStableOwner(n, values) ==
  Type(8 * n, 8, <<>>, Reference({}).fv, 1, {Plain(8 * n, v) : v \in values})
AbiStableSlice(values) == Type(16, 8, <<>>, Nothing, 0, {Plain(16, v) : v \in values})

\* ManuallyDrop and UnsafeCell are laid out as what they hold, and so is
\* MaybeUninit, which may also hold nothing.
MaybeUninit(T) == [T EXCEPT !.vals = @ \cup {Undefined(BitsOfBytes(0, T.size))}]

\* bool and AtomicBool, and core::cmp::Ordering, which also has -1.
Bool == Type(1, 1, <<>>, <<{<<0, 2 .. 255>>}>>, 2, {Plain(1, <<v>>) : v \in {0, 1}})
Ordering == Type(1, 1, <<>>, <<{<<0, 2 .. 254>>}>>, 0, {Plain(1, <<v>>) : v \in {0, 1, 255}})

\* Rust's own Option of a type in which it sees one niche, and Result of one
\* and an empty type: the value that the type forbids is None.
CoreOption(T) ==
  [T EXCEPT !.fv = Nothing, !.ub = <<>>, !.niche = 0,
            !.vals = @ \cup {[one |-> {}, undef |-> {}, choices |-> {},
                              care |-> BitsOfBytes(0, T.size)]}]

-----------------------------------------------------------------------------
(* Fields *)

\* What comes `start` bytes after the start of a type.
AlignedAfterAt(T, start, at) ==
  Type(T.size + at, T.align, PaddingBits(start, at - start) \o ShiftMask(T.ub, at),
       ShiftValues(T.fv, at), T.niche,
       {Join(Undefined(BitsOfBytes(start, at - start)), ShiftValue(v, at)) : v \in T.vals})

AlignedAfter(T, start) == AlignedAfterAt(T, start, NextMultiple(start, T.align))

FieldPair(A, B) ==
  LET C == AlignedAfter(B, A.size)
  IN Type(C.size, Larger(A.align, B.align), A.ub \o C.ub, A.fv \o C.fv,
          IF C.size = A.size + B.size THEN SaturatingAdd(A.niche, B.niche) ELSE 2,
          {Join(v, w) : v \in A.vals, w \in C.vals})

\* A struct ends in padding up to its alignment, which repr(align) may raise;
\* what is added for the raised one is not declared unused.
PaddedTo(T, size, align) ==
  Type(size, align, T.ub \o PaddingBits(T.size, NextMultiple(T.size, T.align) - T.size), T.fv,
       IF size = T.size THEN T.niche ELSE 2,
       {Join(v, Undefined(BitsOfBytes(T.size, size - T.size))) : v \in T.vals})

Struct(T) == PaddedTo(T, NextMultiple(T.size, T.align), T.align)
AlignedStruct(T, align) ==
  PaddedTo(T, NextMultiple(T.size, Larger(align, T.align)), Larger(align, T.align))

\* What #[stabby] makes of the fields of a struct: StructOf and its tuples.
Fields(Ts) == FoldLeft(FieldPair, Ts[1], Tail(Ts))
StructOf(Ts) == IF Ts = <<>> THEN Unit ELSE Struct(Fields(Ts))

-----------------------------------------------------------------------------
(* Unions, arrays and tagged enums *)

Fill(T, size) == {Join(v, Undefined(BitsOfBytes(T.size, size - T.size))) : v \in T.vals}

Union(A, B) ==
  LET align == Larger(A.align, B.align)
      size == NextMultiple(Larger(A.size, B.size), align)
  IN Type(size, align, <<>>, Nothing, 0, Fill(A, size) \cup Fill(B, size))

UnionOf(Ts) == FoldLeft(Union, Unit, Ts)

Elements(T, n) == FoldLeft(LAMBDA A, i : IF i = 1 THEN T ELSE FieldPair(A, T), Unit, [i \in 1 .. n |-> i])
ArrayOf(T, n) ==
  Type(n * T.size, T.align, IF n = 1 THEN T.ub ELSE <<>>, IF n = 1 THEN T.fv ELSE Nothing,
       CASE n = 0 -> 0 [] n = 1 -> T.niche [] OTHER -> 2, Elements(T, n).vals)

\* A variant of a tagged enum: its tag, and its field at a place of its own.
Variant(tag, T, size, i, at) ==
  LET set == Plain(tag.size, [j \in 1 .. tag.size |-> IF j = 1 THEN i - 1 ELSE 0])
      rest == Undefined(BitsOfBytes(tag.size, size - tag.size) \ BitsOfBytes(at, T.size))
  IN {Join(Join(set, rest), ShiftValue(v, at)) : v \in T.vals}

\* An enum with #[repr(C, u8)] is laid out as its tag and the union of its
\* variants.
TaggedOf(tag, Ts) ==
  LET T == StructOf(<<tag, UnionOf(Ts)>>)
      at == NextMultiple(tag.size, UnionOf(Ts).align)
  IN [T EXCEPT !.niche = 0,
               !.vals = UNION {Variant(tag, Ts[i], T.size, i, at) : i \in DOMAIN Ts}]

\* With #[repr(u8)] alone the layout is computed in the same way, but Rust
\* puts the field of a variant as close to the tag as its own alignment allows.
InlineTaggedOf(tag, Ts) ==
  LET T == TaggedOf(tag, Ts)
      At(i) == NextMultiple(tag.size, Ts[i].align)
  IN [T EXCEPT !.vals = UNION {Variant(tag, Ts[i], T.size, i, At(i)) : i \in DOMAIN Ts}]
=============================================================================
