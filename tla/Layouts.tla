------------------------------ MODULE Layouts ------------------------------
(***************************************************************************)
(* What stabby computes of a type that crosses libraries (IStable in       *)
(* stabby-abi/src/istable.rs): its size, its alignment, the bits that none *)
(* of its values uses and the values that none of them takes.  The code    *)
(* computes it with Rust's trait solver; here a type is a record:          *)
(*                                                                         *)
(*   size, align   in bytes                                                *)
(*   ub            its unused bits: a sequence of <<byte, bits>>           *)
(*   fv            its forbidden values: a sequence of sets of             *)
(*                 <<byte, values>>; a set forbids that all its bytes have *)
(*                 one of their values, and the empty one forbids nothing  *)
(*   niche         how many niches Rust itself sees: 0, 1, or 2 for more   *)
(*   vals          some of its values                                      *)
(*                                                                         *)
(* A value is what is written to memory for it, the bits that are one and  *)
(* those left undefined, with what is to be read back: the bits of its     *)
(* care, and the choices that the determinants within it stand for.        *)
(***************************************************************************)
EXTENDS Integers, SequencesExt, FiniteSetsExt

Byte == 0 .. 255
AllBits == 0 .. 7
BitsOf(value) == {b \in AllBits : (value \div 2^b) % 2 = 1}

BitsOfByte(o) == 8 * o .. 8 * o + 7
BitsOfBytes(o, n) == 8 * o .. 8 * (o + n) - 1
NextMultiple(n, align) == align * ((n + align - 1) \div align)
Larger(a, b) == IF a > b THEN a ELSE b

-----------------------------------------------------------------------------
(* Masks of unused bits (IBitMask) *)

ByteAt(mask, o) ==
  LET i == SelectInSeq(mask, LAMBDA e : e[1] = o) IN IF i = 0 THEN {} ELSE mask[i][2]

ShiftMask(mask, by) == [i \in DOMAIN mask |-> <<mask[i][1] + by, mask[i][2]>>]

BitAnd(mask, other) ==
  LET shared(i) == mask[i][2] \cap ByteAt(other, mask[i][1])
      upTo[n \in 0 .. Len(mask)] ==
        IF n = 0 THEN <<>>
        ELSE upTo[n - 1] \o IF shared(n) = {} THEN <<>> ELSE <<<<mask[n][1], shared(n)>>>>
  IN upTo[Len(mask)]

HasFreeByteAt(mask, o) == \E i \in DOMAIN mask : mask[i] = <<o, AllBits>>

\* The next bit to use as a determinant, and the mask without it.
ExtractedBit(mask) == <<mask[1][1], Min(mask[1][2])>>

ExtractBit(mask) ==
  LET rest == mask[1][2] \ {Min(mask[1][2])} IN
  IF rest = {} THEN Tail(mask) ELSE <<<<mask[1][1], rest>>>> \o Tail(mask)

\* The same bits, by their position from the start of the type.
Positions(mask) ==
  UNION {{8 * mask[i][1] + b : b \in mask[i][2]} : i \in DOMAIN mask}

PaddingBits(start, n) == [i \in 1 .. n |-> <<start + i - 1, AllBits>>]

-----------------------------------------------------------------------------
(* Forbidden values (IForbiddenValues) *)

NoValue == {}
Nothing == <<NoValue>>

ShiftValues(fv, by) == [i \in DOMAIN fv |-> {<<e[1] + by, e[2]>> : e \in fv[i]}]

\* One byte sequence of a set of them.
Single(leaf) == {<<e[1], Min(e[2])>> : e \in leaf}
SelectOne(fv) == Single(fv[1])

SelectFrom(fv, mask) ==
  LET i == SelectInSeq(fv, LAMBDA leaf :
             leaf # NoValue /\ \A e \in leaf : HasFreeByteAt(mask, e[1]))
  IN IF i = 0 THEN NoValue ELSE Single(fv[i])

-----------------------------------------------------------------------------
(* Values *)

ShiftBits(bits, by) == {b + 8 * by : b \in bits}

ShiftValue(v, by) ==
  [one |-> ShiftBits(v.one, by), undef |-> ShiftBits(v.undef, by),
   care |-> ShiftBits(v.care, by),
   choices |-> {[c EXCEPT !.at = @ + by] : c \in v.choices}]

Join(v, w) ==
  [one |-> v.one \cup w.one, undef |-> v.undef \cup w.undef,
   care |-> v.care \cup w.care, choices |-> v.choices \cup w.choices]

Undefined(bits) == [one |-> {}, undef |-> bits, care |-> {}, choices |-> {}]

\* A value of `n` bytes, all of which matter.
Plain(n, bytes) ==
  [one |-> UNION {{8 * (i - 1) + b : b \in BitsOf(bytes[i])} : i \in 1 .. n},
   undef |-> {}, care |-> BitsOfBytes(0, n), choices |-> {}]

SaturatingAdd(a, b) == Min({a + b, 2})
=============================================================================
