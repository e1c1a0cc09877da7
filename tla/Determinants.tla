---------------------------- MODULE Determinants ----------------------------
(***************************************************************************)
(* How stabby tells in which variant a Result is (stabby-abi/src/enums/).  *)
(* The determinant is a value that one variant never takes, a bit that     *)
(* neither uses, or a tag of its own in front of both.  It is chosen from  *)
(* what the layouts of both variants declare.                              *)
(*                                                                         *)
(* A determinant is a record: its kind, whether it is negated (`not`), the *)
(* byte values that together mean Err (kind "value"), or the byte and the  *)
(* bit that means Err when it is set (kind "bit").  A "tag" is a byte of   *)
(* which the lowest bit means Err.                                         *)
(*                                                                         *)
(* The type Result (stabby-abi/src/result.rs) follows from it: where its   *)
(* variants are, and what that leaves for the types around it.             *)
(***************************************************************************)
EXTENDS StableTypes

ValueIsErr(bytes) == [kind |-> "value", not |-> FALSE, bytes |-> bytes]
BitIsErr(place) == [kind |-> "bit", not |-> FALSE, byte |-> place[1], bit |-> place[2]]
BitDeterminant == [kind |-> "tag", not |-> FALSE]

Negated(det) == [det EXCEPT !.not = ~@]
IsNicheTrick(det) == det.kind # "tag"

\* Only the tag takes space, and declares all but one of its bits unused.
DetSize(det) == IF det.kind = "tag" THEN 1 ELSE 0
DetBits(det) == IF det.kind = "tag" THEN <<<<0, AllBits \ {0}>>>> ELSE <<>>

-----------------------------------------------------------------------------
(* Setting and reading a determinant.  Memory is the set of the bits that  *)
(* are one and the set of those that are undefined; `at` is where the      *)
(* Result starts.                                                          *)

SetBits(mem, bits, one) ==
  [one |-> (mem.one \ bits) \cup one, undef |-> mem.undef \ bits]

BytesAt(det, at) == UNION {BitsOfByte(at + e[1]) : e \in det.bytes}
OnesAt(det, at) == UNION {{8 * (at + e[1]) + b : b \in BitsOf(e[2])} : e \in det.bytes}
BitAt(det, at) == 8 * (at + det.byte) + det.bit

\* With the lowest bit of a byte comes the whole byte: the bits above it may
\* be undefined.
TouchedAt(det, at) == IF det.bit = 0 THEN BitsOfByte(at + det.byte) ELSE {BitAt(det, at)}

MarkErr(det, err, mem, at) ==
  CASE det.kind = "value" -> IF err THEN SetBits(mem, BytesAt(det, at), OnesAt(det, at)) ELSE mem
    [] det.kind = "bit"   -> SetBits(mem, TouchedAt(det, at), IF err THEN {BitAt(det, at)} ELSE {})
    [] det.kind = "tag"   -> SetBits(mem, BitsOfByte(at), IF err THEN {8 * at} ELSE {})

\* Determinant::ok and Determinant::err.
MarkAs(det, ok, mem, at) == MarkErr(det, ok = det.not, mem, at)

\* The bits that reading looks at.
LooksAt(det, masks, at) ==
  CASE det.kind = "value" -> BytesAt(det, at)
    [] det.kind = "bit"   -> {BitAt(det, at)}
    [] det.kind = "tag"   -> IF masks THEN {8 * at} ELSE BitsOfByte(at)

\* Whether these are the ones among the bits, for some or for all values of
\* those that are undefined.
MayBe(mem, bits, one) == \A b \in bits \ mem.undef : b \in mem.one <=> b \in one
MustBe(mem, bits, one) == bits \cap mem.undef = {} /\ MayBe(mem, bits, one)

\* is_det_ok: FALSE, TRUE, or both when it depends on undefined bits.  The tag
\* is an enum of 0 and 1, of which the code then takes the lowest bit; a build
\* that relies on the former (not `masks`) tests whether the byte is 0.
ReadsErr(det, masks, mem, at) ==
  LET bits == LooksAt(det, masks, at)
  IN IF det.kind = "value"
     THEN {err \in BOOLEAN : IF err THEN MayBe(mem, bits, OnesAt(det, at))
                                    ELSE ~MustBe(mem, bits, OnesAt(det, at))}
     ELSE {err \in BOOLEAN : IF err THEN ~MustBe(mem, bits, {}) ELSE MayBe(mem, bits, {})}

ReadsAs(det, masks, mem, at) == {ok \in BOOLEAN : (ok = det.not) \in ReadsErr(det, masks, mem, at)}

-----------------------------------------------------------------------------
(* The choice of a determinant *)

\* Without other layouts to share with: a forbidden value, an unused bit, or
\* the tag.  `shift` is where Err goes, and `ub` the unused bits that are left.
Provided(shift, det, ub) == [shift |-> shift, det |-> det, ub |-> ub]

WithUnit(value, ub) ==
  CASE value # NoValue -> Provided(0, ValueIsErr(value), ub)
    [] value = NoValue /\ ub # <<>> -> Provided(0, BitIsErr(ExtractedBit(ub)), ExtractBit(ub))
    [] OTHER -> Provided(0, BitDeterminant, <<>>)

UnionSize(Ok, Err) ==
  NextMultiple(Larger(Ok.size, Err.size), Larger(Ok.align, Err.align))

\* The bits that a variant leaves unused in the union of both.
UnusedAt(T, size, at) ==
  PaddingBits(0, at) \o ShiftMask(T.ub, at) \o PaddingBits(at + T.size, size - (at + T.size))

\* What an Err that is not empty can share with an Ok that is no smaller, when
\* it is shifted by `at`: its forbidden values may lie in the unused bits of
\* Ok, those of Ok in its unused bits, or both may have an unused bit in common.
Common(Ok, Err, at) ==
  LET okBits == UnusedAt(Ok, UnionSize(Ok, Err), 0)
      errBits == UnusedAt(Err, UnionSize(Ok, Err), at)
  IN [at |-> at,
      err |-> SelectFrom(ShiftValues(Err.fv, at), okBits),
      ok |-> SelectFrom(Ok.fv, errBits),
      bits |-> BitAnd(okBits, errBits)]

Sharing(common) ==
  CASE common.err # NoValue ->
         {Provided(common.at, Negated(ValueIsErr(common.err)), common.bits)}
    [] common.err = NoValue /\ common.ok # NoValue ->
         {Provided(common.at, ValueIsErr(common.ok), common.bits)}
    [] common.err = NoValue /\ common.ok = NoValue /\ common.bits # <<>> ->
         {Provided(common.at, BitIsErr(ExtractedBit(common.bits)), ExtractBit(common.bits))}
    [] OTHER -> {}

\* Err is shifted by its alignment as long as it fits, seven times at most.
Budget == 8
Shifts(Ok, Err) ==
  {at \in {i * Err.align : i \in 0 .. Budget - 1} : at = 0 \/ Err.size + at <= UnionSize(Ok, Err)}

SmallerErr(Ok, Err) ==
  LET offers == UNION {Sharing(c) : c \in {Common(Ok, Err, at) : at \in Shifts(Ok, Err)}}
  IN CASE Err.size = 0 -> WithUnit(SelectOne(Ok.fv), Ok.ub)
       [] Err.size # 0 /\ offers # {} -> CHOOSE o \in offers : \A p \in offers : o.shift <= p.shift
       [] OTHER -> WithUnit(NoValue, <<>>)

\* The smaller of both is the one that is shifted, and the determinant of a
\* larger Err is that of the Result the other way round, negated.
Provider(Ok, Err) ==
  IF Ok.size >= Err.size
  THEN SmallerErr(Ok, Err)
  ELSE [SmallerErr(Err, Ok) EXCEPT !.det = Negated(@)]

-----------------------------------------------------------------------------
(* The type Result<Ok, Err> *)

Write(mem, v, at, size) ==
  [one |-> (mem.one \ BitsOfBytes(at, size)) \cup ShiftBits(v.one, at),
   undef |-> (mem.undef \ BitsOfBytes(at, size)) \cup ShiftBits(v.undef, at)]

\* A determinant, where it is, and what it is set to.
Choice(det, at, ok) == [det |-> det, at |-> at, ok |-> ok]

\* What the constructors make of a value: it is written to zeroed storage, and
\* the determinant is set.
Zeroed == [one |-> {}, undef |-> {}]
Made(c, v, at, size) ==
  LET mem == MarkAs(c.det, c.ok, Write(Zeroed, v, at, size), c.at)
  IN [one |-> mem.one, undef |-> mem.undef, care |-> ShiftValue(v, at).care,
      choices |-> ShiftValue(v, at).choices \cup {c}]

ResultOf(Ok, Err) ==
  LET provider == Provider(Ok, Err)
      align == Larger(Ok.align, Err.align)
      det == provider.det
      front == NextMultiple(DetSize(det), align)
      okAt == front + IF Ok.size >= Err.size THEN 0 ELSE provider.shift
      errAt == front + IF Ok.size >= Err.size THEN provider.shift ELSE 0
      bits == DetBits(det) \o PaddingBits(DetSize(det), front - DetSize(det))
  IN [size |-> front + Larger(Ok.size, Err.size), align |-> align, niche |-> 0,
      fv |-> Nothing, ub |-> bits \o ShiftMask(provider.ub, front),
      det |-> det, ok |-> Ok, err |-> Err, okAt |-> okAt, errAt |-> errAt,
      vals |-> {Made(c, v, okAt, Ok.size) : c \in {Choice(det, 0, TRUE)}, v \in Ok.vals}
               \cup {Made(c, v, errAt, Err.size) : c \in {Choice(det, 0, FALSE)}, v \in Err.vals}]

\* Option, whose operations are those of the Result in it.
OptionOf(T) == ResultOf(T, Unit)

IsSum(T) == "det" \in DOMAIN T

\* The storage is an array of integers of the alignment of the type, as many
\* as its size divided by it.
StorageSize(T) == T.align * (T.size \div T.align)

-----------------------------------------------------------------------------
(* What the choice of a determinant relies on *)

IsMask(mask, size) ==
  /\ mask \in Seq((0 .. size - 1) \X ((SUBSET AllBits) \ {{}}))
  /\ \A i \in DOMAIN mask : 0 \in mask[i][2] => mask[i][2] = AllBits
  /\ \A i, j \in DOMAIN mask : mask[i][1] = mask[j][1] => i = j

\* Each byte is named once, and none of them is unused.
IsForbidden(leaf, size, ub) ==
  /\ \A e \in leaf : /\ e \in (0 .. size - 1) \X ((SUBSET Byte) \ {{}})
                     /\ BitsOfByte(e[1]) \cap Positions(ub) = {}
  /\ \A e, f \in leaf : e[1] = f[1] => e = f

\* Some byte is defined, and has none of the values.
Avoids(v, leaf) ==
  \E e \in leaf :
    /\ BitsOfByte(e[1]) \subseteq v.care
    /\ \A value \in e[2] : v.one \cap BitsOfByte(e[1]) # {8 * e[1] + b : b \in BitsOf(value)}

IsDeterminant(det) ==
  /\ det.kind \in {"value", "bit", "tag"} /\ det.not \in BOOLEAN
  /\ det.kind = "value" => /\ det = [kind |-> "value", not |-> det.not, bytes |-> det.bytes]
                           /\ det.bytes \subseteq Nat \X Byte
                           /\ \A e, f \in det.bytes : e[1] = f[1] => e = f
  /\ det.kind = "bit" => /\ det = [kind |-> "bit", not |-> det.not, byte |-> det.byte, bit |-> det.bit]
                         /\ det.byte \in Nat /\ det.bit \in AllBits
  /\ det.kind = "tag" => det = [kind |-> "tag", not |-> det.not]

IsRead(v, c) == \A masks \in BOOLEAN :
  \/ ReadsAs(c.det, masks, v, c.at) = {c.ok}
  \/ c.det.kind = "tag" /\ ~masks /\ \E d \in v.choices : d.det.kind = "bit" /\ d.at + d.det.byte = c.at

IsChoice(c, v, size, ub) ==
  /\ c = Choice(c.det, c.at, c.ok) /\ c.at \in Nat /\ c.ok \in BOOLEAN
  /\ IsDeterminant(c.det)
  /\ LooksAt(c.det, TRUE, c.at) \subseteq BitsOfBytes(0, size) \ Positions(ub)
  /\ IsRead(v, c)

IsValue(v, T) ==
  /\ v.one \cup v.undef \cup v.care \subseteq BitsOfBytes(0, T.size)
  /\ v.care \cap (v.undef \cup Positions(T.ub)) = {}
  /\ \A i \in DOMAIN T.fv : T.fv[i] # NoValue => Avoids(v, T.fv[i])
  /\ \A c \in v.choices : IsChoice(c, v, T.size, T.ub)

\* Two values that choose differently do so for a determinant of both.
ToldApart(v, w) ==
  v.choices = w.choices
  \/ \E c \in v.choices, d \in w.choices : c.det = d.det /\ c.at = d.at /\ c.ok # d.ok

Honest(T) ==
  /\ T.size \in Nat /\ T.align \in Nat \ {0} /\ IsMask(T.ub, T.size)
  /\ T.fv # <<>> /\ T.fv \in Seq(SUBSET (Nat \X (SUBSET Byte)))
  /\ \A i \in DOMAIN T.fv : IsForbidden(T.fv[i], T.size, T.ub)
  /\ \A v \in T.vals : IsValue(v, T)
  /\ \A v, w \in T.vals : ToldApart(v, w)
=============================================================================
