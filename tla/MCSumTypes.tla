----------------------------- MODULE MCSumTypes -----------------------------
EXTENDS SumTypes, TypeNumTests, EncodingTests

Word(first) == [i \in 1 .. 8 |-> IF i = 1 THEN first ELSE 0]
U8 == Integer(1, {<<0>>, <<255>>})
U16 == Integer(2, {<<0, 0>>, <<255, 1>>})
U32 == Integer(4, {<<0, 0, 0, 0>>, <<1, 0, 0, 255>>})
NonZeroU8 == NonZero(1, {<<1>>, <<255>>})
NonZeroU16 == NonZero(2, {<<0, 1>>, <<255, 0>>})
NonZeroU32 == NonZero(4, {<<0, 0, 0, 1>>, <<1, 0, 0, 0>>})
NoBits == <<{}>>

Tuple(Ts) == StructOf(Ts)
Padded == Tuple(<<U8, U16>>)
FieldsC == TaggedOf(U8, <<NonZeroU32, Unit>>)
MultiFieldsC == TaggedOf(U8, <<NonZeroU16, Unit, Padded, U8, Unit>>)

\* A type is the layout of a leaf, an Option of a type, or an enum or a struct
\* of types.
Enum(Ts) == [variants |-> Ts]
Option(T) == [some |-> T]

RECURSIVE Layout(_)
Layout(T) ==
  CASE "variants" \in DOMAIN T -> EnumOf([i \in DOMAIN T.variants |-> Layout(T.variants[i])])
    [] "some" \in DOMAIN T -> OptionOf(Layout(T.some))
    [] "fields" \in DOMAIN T -> StructOf([i \in DOMAIN T.fields |-> Layout(T.fields[i])])
    [] OTHER -> T

\* Every Result of two of these, and of a Result of a few of them and another.
Leaves ==
  {Unit, U8, Bool, NonZeroU8, NonZeroU16, Padded, Tuple(<<U8, NonZeroU8>>), Tuple(<<U16, U8>>),
   AlignedStruct(Bool, 2), Tuple(<<U8, Bool, NonZeroU16>>)}
Few == {Unit, U8, Bool, NonZeroU16, Padded}
Inner == {Enum(<<A, B>>) : A \in Few, B \in Few}

Pairs == {Enum(<<A, B>>) : A \in Leaves, B \in Leaves}
Triples ==
  {Enum(<<A, B>>) : A \in Few, B \in Inner} \cup {Enum(<<A, B>>) : A \in Inner, B \in Few}

Nested == Enum(<<Enum(<<U8, U8>>), Enum(<<U8, U8>>)>>)
MultiFields == Enum(<<NonZeroU16, Unit, Padded, U32, Unit>>)
MaybeResolved(T, F) == Enum(<<T, Unit, F>>)

Others == {
  [fields |-> <<U8, Option(NonZeroU8)>>], Option(Option(U32)), Enum(<<Padded, Option(U32)>>),
  Enum(<<Tuple(<<U8, NonZeroU8, U16>>), Padded>>), Nested, MultiFields,
  Enum(<<Padded, Padded, Padded, Padded>>), Enum(<<U8, Bool, NonZeroU8>>),
  Option(ArrayOf(NonZeroU8, 1)), Enum(<<ArrayOf(U8, 3), Bool>>),
  Enum(<<UnionOf(<<U8, U16>>), Ordering>>), CoreOption(NonZeroU8), Option(NonMax(2, {<<0, 0>>, <<255, 254>>})),
  Option(CoreOption(NonZeroU8)),
  FieldsC, Option(MultiFieldsC),
  MaybeResolved(Tuple(<<NonZeroU8, U8>>), Unit), MaybeResolved(Padded, U8), MaybeResolved(U8, U8),
  Option(Reference({Word(8)})), Enum(<<FnPointer({Word(16)}), Pointer({Word(0), Word(8)})>>),
  Enum(<<AbiStableOwner(2, {Word(8) \o Word(0)}), FileDescriptor({<<255, 255, 255, 255>>})>>),
  Option(AbiStableSlice({Word(8) \o Word(0)})), Option(Atomic(2, {<<1, 0>>})),
  MaybeUninit(U8), Option(MaybeUninit(U8))
  }

RECURSIVE PartsOf(_)
PartsOf(T) == {T} \cup IF IsSum(T) THEN PartsOf(T.ok) \cup PartsOf(T.err) ELSE {}

RECURSIVE DepthOf(_)
DepthOf(T) == IF IsSum(T) THEN 1 + Larger(DepthOf(T.ok), DepthOf(T.err)) ELSE 0

Rounded(T) == \A U \in PartsOf(T) : IsSum(U) => U.size % U.align = 0
MCTypes == {T \in {Layout(U) : U \in Pairs \cup Triples \cup Others} : Rounded(T)}
MCDepth == [T \in UNION {PartsOf(U) : U \in MCTypes} |-> DepthOf(T)]

-----------------------------------------------------------------------------
(* What the tests of the repository expect of these layouts.               *)

U64 == Integer(8, {<<0, 0, 0, 0, 0, 0, 0, 0>>})
U128 == Integer(16, {[i \in 1 .. 16 |-> 0]})
Bytes(n) == [i \in 1 .. n |-> Integer(1, {})]
All(bytes) == [i \in DOMAIN bytes |-> <<bytes[i], AllBits>>]

\* stabby/src/tests/enums.rs:60-87
ASSUME SizesOfResults ==
  \A e \in {<<U8, U8, 2>>, <<ResultOf(U8, U8), ResultOf(U8, U8), 2>>,
            <<Padded, Tuple(<<U16, U16>>), 6>>,
            <<Padded, Tuple(<<U8, NonZeroU8>>), 4>>, <<Tuple(<<U8, NonZeroU8>>), Padded, 4>>,
            <<Tuple(<<U8, NonZeroU8, U16>>), Padded, 4>>, <<Padded, Padded, 4>>,
            <<U16, Padded, 4>>, <<U8, NonZeroU16, 4>>, <<NonZeroU16, Unit, 2>>, <<U8, Unit, 2>>,
            <<Bool, Unit, 1>>} :
    ResultOf(e[1], e[2]).size = e[3]

\* stabby/src/tests/layouts.rs:138-142 and 228-244, 252
ASSUME UnusedBits ==
  \A e \in {<<Tuple(<<U32, U8>>), All(<<5, 6, 7>>)>>, <<Tuple(<<U8, U32>>), All(<<1, 2, 3>>)>>,
            <<Tuple(<<U8, Tuple(<<U8, U32>>)>>), All(<<1, 2, 3, 5, 6, 7>>)>>,
            <<Union(U8, U64), <<>>>>, <<ResultOf(Unit, Unit), <<<<0, 1 .. 7>>>>>>,
            <<ResultOf(U32, Unit), <<<<0, 1 .. 7>>>> \o All(<<1, 2, 3>>)>>,
            <<ResultOf(Padded, ResultOf(U32, Unit)), <<<<1, 1 .. 7>>>>>>,
            <<ResultOf(NonZeroU16, Unit), <<>>>>,
            <<FieldsC, All(<<1, 2, 3>>)>>, <<MultiFieldsC, All(<<1>>)>>, <<EnumOf(<<NonZeroU32, Unit>>), <<>>>>} :
    e[1].ub = e[2]

ASSUME FirstUnusedBits == Head(Layout(MultiFields).ub) = <<1, 2 .. 7>>

ASSUME Niches ==
  \A e \in {<<Tuple(<<U64, NonZero(8, {})>>), 1>>, <<Tuple(<<U64, U8>>), 2>>,
            <<Tuple(<<U32, U32, U32>>), 0>>, <<Tuple(<<U8, U32>>), 2>>} : e[1].niche = e[2]

\* Only 8 positions are tried (layouts.rs:258-288).
ASSUME ExternalTag ==
  LET last == AlignedStruct(U128, 16)
      many == Tuple(<<Tuple(<<NonZero(1, {})>> \o Bytes(7)), Tuple(Bytes(8))>>)
  IN /\ Tuple(<<U64, last>>).size = 32 /\ many.size = 16
     /\ ResultOf(Tuple(<<U64, last>>), many).size = 48

-----------------------------------------------------------------------------
(* Where the layouts and the code that uses them disagree: types that are   *)
(* not among MCTypes, or for which a property makes an exception.            *)

\* The size of a Result is not a multiple of its alignment, and the storage of
\* as many integers as fit in it is shorter than that.
ASSUME StorageIsShort ==
  LET T == ResultOf(Tuple(<<U8, U8, U8>>), U16)
  IN T.size % T.align # 0 /\ StorageSize(T) < T.size

\* With #[repr(u8)] alone, Rust puts small fields where the layout has padding.
ASSUME PaddingIsUsed ==
  LET T == InlineTaggedOf(U8, <<U8, U32>>)
  IN \E v \in T.vals : Positions(T.ub) \cap v.care # {}

\* The determinant of the outer Result is a bit of the byte of an inner tag.
ASSUME TagIsOverlaid == 
  LET T == Layout(Nested) IN T.det.kind = "bit" /\ T.ok.det.kind = "tag" /\ T.det.byte = 0

\* A MaybeUninit has the niches of what it may not hold: Option<MaybeUninit<bool>>
\* keeps its determinant in a byte that any value leaves undefined.
ASSUME UninitUsesNiches ==
  LET T == OptionOf(MaybeUninit(Bool)) IN
  /\ T.size = 1
  /\ \E v \in MaybeUninit(Bool).vals : v.undef = BitsOfByte(0)
=============================================================================
