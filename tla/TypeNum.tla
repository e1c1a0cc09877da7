------------------------------ MODULE TypeNum ------------------------------
(***************************************************************************)
(* The numbers of stabby-abi/src/typenum2/unsigned.rs.  Layouts are        *)
(* computed by Rust's trait solver, on numbers that are types: UTerm is 0  *)
(* and UInt<Msb, Bit> is 2 * Msb + Bit.  Here a number is the sequence of  *)
(* its bits (B0 is FALSE and B1 is TRUE), the least significant one first, *)
(* and UTerm is <<>>.  Leading zeros are possible, since not every         *)
(* operation simplifies its result: two types that spell the same number   *)
(* differently are not the same type.                                      *)
(***************************************************************************)
EXTENDS Integers, Sequences

UTerm == <<>>
Bit(a) == a # UTerm /\ Head(a)
Msb(a) == IF a = UTerm THEN UTerm ELSE Tail(a)
UInt(msb, bit) == <<bit>> \o msb
U1 == <<TRUE>>

RECURSIVE U128(_)
U128(a) == IF a = UTerm THEN 0 ELSE 2 * U128(Msb(a)) + (IF Bit(a) THEN 1 ELSE 0)

\* The names that the build script generates: U0, U1, U2, ...
RECURSIVE U(_)
U(i) == IF i = 0 THEN UTerm ELSE UInt(U(i \div 2), i % 2 = 1)

IsUTerm(a) == \A i \in DOMAIN a : ~a[i]

RECURSIVE Simplified(_)
Simplified(a) == IF IsUTerm(a) THEN UTerm ELSE UInt(Simplified(Msb(a)), Bit(a))

-----------------------------------------------------------------------------
(* Comparisons *)

RECURSIVE Equals(_, _), GreaterHint(_, _, _)
Equals(a, b) ==
  IF a = UTerm THEN IsUTerm(b) ELSE Bit(a) = Bit(b) /\ Equals(Msb(a), Msb(b))

\* The hint is whether a is the greater one by the bits seen so far.
GreaterHint(a, b, hint) ==
  IF a = UTerm
    THEN hint /\ IsUTerm(b)
    ELSE GreaterHint(Msb(a), Msb(b),
                     IF Bit(b) THEN hint /\ Bit(a) ELSE hint \/ Bit(a))

Greater(a, b) == GreaterHint(a, b, FALSE)
GreaterOrEq(a, b) == Greater(a, b) \/ Equals(a, b)
Smaller(a, b) == ~GreaterOrEq(a, b)
SmallerOrEq(a, b) == ~Greater(a, b)
Least(a, b) == IF Greater(a, b) THEN b ELSE a
Greatest(a, b) == IF Greater(a, b) THEN a ELSE b
Cmp(a, b) ==
  IF Equals(a, b) THEN "Equal" ELSE IF Greater(a, b) THEN "Greater" ELSE "Lesser"

-----------------------------------------------------------------------------
(* Bits *)

RECURSIVE And(_, _), Or(_, _)
And(a, b) ==
  IF a = UTerm THEN UTerm
  ELSE UInt(And(Msb(a), Msb(b)), Bit(a) /\ Bit(b))

Or(a, b) ==
  IF a = UTerm THEN b
  ELSE UInt(Or(Msb(a), Msb(b)), Bit(a) \/ Bit(b))

BitAnd(a, b) == Simplified(And(a, b))
BitOr(a, b) == Simplified(Or(a, b))

-----------------------------------------------------------------------------
(* Sums, differences and products *)

Xor(x, y) == (x /\ ~y) \/ (y /\ ~x)
AdderSum(x, y, carry) == Xor(Xor(x, y), carry)
AdderCarry(x, y, carry) == (y /\ carry) \/ (x /\ Xor(y, carry))
SuberCarry(x, y, carry) == (~x /\ (y \/ carry)) \/ (x /\ y /\ carry)

RECURSIVE Increment(_), AddCarry(_, _, _), SubCarry(_, _, _), Mul(_, _), SatDecrement(_)
AddCarry(a, b, carry) ==
  IF a # UTerm
    THEN UInt(AddCarry(Msb(a), Msb(b), AdderCarry(Bit(a), Bit(b), carry)),
              AdderSum(Bit(a), Bit(b), carry))
    ELSE IF ~carry THEN b
    ELSE Increment(b)

Add(a, b) == AddCarry(a, b, FALSE)
Increment(a) == IF a = UTerm THEN U1 ELSE AddCarry(a, UTerm, TRUE)

SubCarry(a, b, carry) ==
  IF a = UTerm THEN UTerm
  ELSE UInt(SubCarry(Msb(a), Msb(b), SuberCarry(Bit(a), Bit(b), carry)),
            AdderSum(Bit(a), Bit(b), carry))

AbsSub(a, b) == Simplified(IF Greater(a, b) THEN SubCarry(a, b, FALSE) ELSE SubCarry(b, a, FALSE))

SatDecrement(a) ==
  IF a = UTerm THEN UTerm
  ELSE Simplified(IF Bit(a) THEN UInt(Msb(a), FALSE) ELSE UInt(SatDecrement(Msb(a)), TRUE))

Mul(a, b) ==
  IF a = UTerm THEN UTerm
  ELSE Add(IF Bit(a) THEN b ELSE UTerm, Simplified(UInt(Mul(Msb(a), b), FALSE)))

-----------------------------------------------------------------------------
(* Lowest and highest bits *)

RECURSIVE TruncateTo(_, _), NextPow2(_), TruncateAtRightmostOne(_)
TruncateTo(a, bits) ==
  IF a = UTerm \/ IsUTerm(bits) THEN UTerm
  ELSE UInt(TruncateTo(Msb(a), AbsSub(bits, U1)), Bit(a))

Truncate(a, bits) == Simplified(TruncateTo(a, bits))

NextPow2(a) ==
  IF a = UTerm THEN UTerm
  ELSE Add(NextPow2(Msb(a)), IF IsUTerm(a) THEN UTerm ELSE U1)

\* Of a number that is not zero.
TruncateAtRightmostOne(a) ==
  IF Bit(a) THEN U1 ELSE UInt(TruncateAtRightmostOne(Msb(a)), FALSE)

-----------------------------------------------------------------------------
(* Powers of two: U1 is one, and so is UInt<Msb, B0> if Msb is one *)

RECURSIVE IsPowerOf2(_), Log2(_), Modulate(_, _), Divide(_, _)
IsPowerOf2(p) ==
  p # UTerm /\ (IF Bit(p) THEN IsUTerm(Msb(p)) ELSE IsPowerOf2(Msb(p)))

Log2(p) == IF Bit(p) THEN UTerm ELSE Increment(Log2(Msb(p)))

Modulate(p, a) ==
  IF Bit(p) THEN UTerm ELSE Simplified(UInt(Modulate(Msb(p), Msb(a)), Bit(a)))

Divide(p, a) == IF Bit(p) THEN a ELSE Divide(Msb(p), Msb(a))

NextMultipleOf(a, p) ==
  IF Equals(Modulate(p, a), UTerm) THEN a
  ELSE Add(a, AbsSub(p, Modulate(p, a)))

-----------------------------------------------------------------------------
(* What numbers are turned into: a padding of as many bytes, the mask that *)
(* marks all of them unused, and an array of as many elements.  A padding  *)
(* and an array are given by their size.                                   *)

RECURSIVE PaddingSize(_), PaddingBitMask(_), AddToArray(_, _, _)
PaddingSize(a) ==
  IF a = UTerm THEN UTerm
  ELSE Add(Mul(U(2), PaddingSize(Msb(a))), IF Bit(a) THEN U1 ELSE UTerm)

PaddingBitMask(a) ==
  IF a = UTerm THEN <<>>
  ELSE LET rest == PaddingBitMask(SatDecrement(a)) IN
       <<UTerm>> \o [i \in DOMAIN rest |-> Increment(rest[i])]

\* The stack doubles with each bit; the ones that are set are collected.
AddToArray(a, lsbs, stack) ==
  IF a = UTerm THEN lsbs
  ELSE AddToArray(Msb(a),
                  IF ~Bit(a) THEN lsbs
                  ELSE IF IsUTerm(lsbs) THEN stack ELSE Add(stack, lsbs),
                  Add(stack, stack))

ArraySize(a, size) == AddToArray(a, UTerm, size)

-----------------------------------------------------------------------------
(* The alignments that have an integer, or an array of bytes, of their size *)

Alignments == {U(2^i) : i \in 0 .. 16}
=============================================================================
