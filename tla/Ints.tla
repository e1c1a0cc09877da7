-------------------------------- MODULE Ints --------------------------------
(***************************************************************************)
(* The restricted integers of stabby-abi/src/num.rs.  NonMax and NonX store *)
(* something else than their number, so that the number they exclude is     *)
(* stored as 0, the niche that Rust knows of.  u1 .. u127 and i1 .. i127    *)
(* store theirs in the smallest integer that can hold it.  A machine        *)
(* integer has the M numbers from lo on; an Option is a set of at most one  *)
(* element.                                                                 *)
(***************************************************************************)
EXTENDS Integers, FiniteSetsExt

None == {}
Some(x) == {x}
NonZeroOf(n) == IF n = 0 THEN None ELSE Some(n)

\* wrapping_add and wrapping_sub, of a sum or a difference of two integers.
Wrapped(n, lo, M) ==
  IF n < lo THEN n + M ELSE IF n >= lo + M THEN n - M ELSE n

\* The bits of an integer of w bits, signed or not, and the number they are.
Bits(v, w) == {k \in 0 .. w - 1 : (v \div 2^k) % 2 = 1}
Number(bits) == MapThenSumSet(LAMBDA k : 2^k, bits)
SignedNumber(bits, w) == Number(bits) - (IF w - 1 \in bits THEN 2^w ELSE 0)

-----------------------------------------------------------------------------
(* NonMax: n is stored as !n.  NonX: n is stored as n - FORBIDDEN.          *)

Not(n, M) == M - 1 - n
NonMaxNew(n, M) == NonZeroOf(Not(n, M))
NonMaxGet(inner, M) == Not(inner, M)
\* Ord is the order of the numbers, which is not the one of what is stored.
NonMaxBefore(a, b, M) == NonMaxGet(a, M) < NonMaxGet(b, M)

NonXNew(n, forbidden, lo, M) == NonZeroOf(Wrapped(n - forbidden, lo, M))
NonXGet(inner, forbidden, lo, M) == Wrapped(inner + forbidden, lo, M)
NonXBefore(a, b, forbidden, lo, M) ==
  NonXGet(a, forbidden, lo, M) < NonXGet(b, forbidden, lo, M)

-----------------------------------------------------------------------------
(* Unsigned integers of b bits in one of w bits                             *)

UMask(b, w) == (2^w - 1) \div 2^(w - b)
UNew(v, b, w) == IF v <= UMask(b, w) THEN Some(v) ELSE None
UGet(raw, b, w) == raw % (UMask(b, w) + 1)

\* Debug, Display, Eq, Ord and Hash look at all that is stored.
UShown(raw) == raw

UBitAnd(raw, rhs, w) == Number(Bits(raw, w) \cap Bits(rhs, w))
UBitOr(raw, rhs, w) == Number(Bits(raw, w) \cup Bits(rhs, w))
\* With an integer of the base type, the result is one too.
UBitOrBase(raw, rhs, b, w) == UBitOr(UGet(raw, b, w), rhs, w)

\* A sum is one of the base type.  A difference is not checked in a release
\* build, where it wraps; in a debug build it panics.
UAdd(x, y, b, w) == UGet(x, b, w) + UGet(y, b, w)
USub(x, v, b, w) == Wrapped(UGet(x, b, w) - v, 0, 2^w)
USubPanics(x, v, b, w) == UGet(x, b, w) < v

-----------------------------------------------------------------------------
(* Signed integers of b bits in one of w bits                               *)

\* The bits of the stored integer as a number without a sign: & MASK.
IMasked(raw, b) == raw % 2^b

IMin(b) == 2^(b - 1)
IMax(b, w) == (2^(w - 1) - 1) \div 2^b

\* The sign is shifted to the top of the integer and, with copies of itself,
\* back to the bits from b on.
SignExtend(v, b) == IF v >= IMin(b) THEN v - 2^b ELSE v
IGet(raw, b) == SignExtend(IMasked(raw, b), b)

INew(v, b, w) ==
  IF v <= IGet(IMax(b, w), b) /\ v >= IGet(IMin(b), b) THEN Some(v) ELSE None

IShown(raw) == raw
IBitAnd(raw, rhs, w) == SignedNumber(Bits(raw, w) \cap Bits(rhs, w), w)
IBitOr(raw, rhs, w) == SignedNumber(Bits(raw, w) \cup Bits(rhs, w), w)
=============================================================================
