---------------------------- MODULE EncodingTests ----------------------------
(***************************************************************************)
(* Restricted integers of 8 bits and packed durations with 9 bits of       *)
(* seconds, each against what its docs say, for every value.  TLC evaluates *)
(* the assumptions of this module in every run of a module that extends it. *)
(***************************************************************************)
EXTENDS Integers, FiniteSets
LOCAL I == INSTANCE Ints
LOCAL D == INSTANCE Durations WITH SecRange <- 256

Unsigned == 0 .. 255
Signed == -128 .. 127

\* makeutest! and makeitest! (num.rs:196-243), and the order of the numbers.
ASSUME NumbersAreReadBack ==
  /\ I!NonMaxNew(255, 256) = I!None
  /\ \A n \in Unsigned \ {255} : \E s \in I!NonMaxNew(n, 256) :
       s # 0 /\ s \in Unsigned /\ I!NonMaxGet(s, 256) = n
  /\ \A f \in {0, 72, 255} : I!NonXNew(f, f, 0, 256) = I!None
       /\ \A n \in Unsigned \ {f} : \E s \in I!NonXNew(n, f, 0, 256) :
            s # 0 /\ s \in Unsigned /\ I!NonXGet(s, f, 0, 256) = n
  /\ \A f \in {-128, 0, 72} : I!NonXNew(f, f, -128, 256) = I!None
       /\ \A n \in Signed \ {f} : \E s \in I!NonXNew(n, f, -128, 256) :
            s # 0 /\ s \in Signed /\ I!NonXGet(s, f, -128, 256) = n
  /\ \A n, m \in {0, 1, 71, 73, 254} : \A s \in I!NonMaxNew(n, 256), t \in I!NonMaxNew(m, 256) :
       I!NonMaxBefore(s, t, 256) <=> n < m
  /\ \A n, m \in {-128, -1, 0, 71, 127} :
       \A s \in I!NonXNew(n, 72, -128, 256), t \in I!NonXNew(m, 72, -128, 256) :
         I!NonXBefore(s, t, 72, -128, 256) <=> n < m

\* Of an unsigned integer of b bits, exactly the numbers below 2^b.  Their sums
\* fit in the base, as the unchecked addition has it.
ASSUME MasksAreExact ==
  \A b \in 1 .. 7 :
    /\ {n \in Unsigned : I!UNew(n, b, 8) # I!None} = 0 .. 2^b - 1
    /\ \A x, y \in 0 .. 2^b - 1 :
         /\ I!UGet(x, b, 8) = x /\ I!UAdd(x, y, b, 8) = x + y /\ x + y \in Unsigned
         /\ I!UBitAnd(x, y, 8) < 2^b /\ I!UBitOr(x, y, 8) < 2^b
         /\ I!UBitOrBase(x, 255 - x, b, 8) = 255
         /\ ~I!USubPanics(x, y, b, 8) => I!USub(x, y, b, 8) = x - y

\* A difference that wraps is stored with bits outside of the mask: it compares,
\* hashes and prints as another number than the one get returns.
ASSUME WrappedDifference ==
  LET raw == I!USub(2, 3, 3, 8) IN I!UShown(raw) = 255 /\ I!UGet(raw, 3, 8) = 7

\* The bits of signed integers, with a sign that reaches to the top.
ASSUME SignsCarryOver ==
  \A x, y \in -4 .. 3 :
    /\ I!IGet(I!IBitAnd(x, y, 8), 3) = I!IShown(I!IBitAnd(x, y, 8))
    /\ I!IGet(I!IBitOr(x, y, 8), 3) = I!IShown(I!IBitOr(x, y, 8))
    /\ I!IBitAnd(x, y, 8) + I!IBitOr(x, y, 8) = x + y

\* "Construct a new value if it can fit" (num.rs:404): the numbers that new
\* accepts are read back, and only with half as many bits as the base has are
\* they all that fit, because MAX (num.rs:399-400) shifts by the wrong amount.
ASSUME SignedMaximum ==
  \A b \in 1 .. 7 :
    LET accepted == {n \in Signed : I!INew(n, b, 8) # I!None}
        fitting == -(2^(b - 1)) .. 2^(b - 1) - 1
    IN /\ \A n \in fitting : I!IGet(n, b) = n
       /\ accepted \subseteq fitting
       /\ accepted = fitting <=> b = 4
       /\ 0 \notin accepted <=> b < 4

-----------------------------------------------------------------------------
Secs == {0, 1, 2, 127, 255}
Nanos == {0, 1, 999, 1000, 1001, 500000000, 999999000, 999999999}
Durations == {D!Duration(s, n) : s \in Secs, n \in Nanos}
Floor(d) == D!Duration(d.secs, d.nanos - (d.nanos % 1000))

\* A duration below 2^43 seconds is read back to the microsecond, and its sign
\* unless nothing is left of it.
ASSUME DurationsAreReadBack ==
  \A d \in Durations : \A sign \in {"Positive", "Negative"} :
    D!I64ToDuration(D!DurationToI64(d, sign)) =
      [duration |-> Floor(d),
       sign |-> IF Floor(d) = D!Duration(0, 0) THEN "Positive" ELSE sign]

ASSUME InstantsAreReadBack ==
  /\ \A d \in Durations : D!LoadedInstant(D!StoredInstant(d)) = Floor(d)
  /\ \A n \in Nanos : /\ D!SinceEpoch(2, n) = D!Duration(2, n)
                      /\ D!SinceEpoch(-1, n) = D!Duration(0, 0)

\* Of sums and conversions, within the 32 bits that TLC computes with.
ASSUME DurationsAddUp ==
  /\ \A d \in {D!Duration(s, n) : s \in {0, 1}, n \in Nanos} :
       \A e \in {D!Duration(0, n) : n \in {0, 1, 1000}} :
         /\ D!AsNanos(D!Sum(d, e)) = D!AsNanos(d) + D!AsNanos(e)
         /\ D!Sum(d, e) \in [secs : 0 .. 2, nanos : 0 .. 999999999]
  /\ \A m \in {0, 1, 999, 1000, 1999} :
       /\ D!AsNanos(D!FromMillis(m)) = m * 1000000
       /\ D!SubsecMillis(D!FromMillis(m)) = m % 1000
       /\ D!AsNanos(D!FromMicros(m * 1000)) = D!AsNanos(D!FromMillis(m))
  /\ D!Resolution = D!Duration(0, 1000)

\* "# Panics if t exceeds the maximum representable duration" (time.rs:145-146):
\* the shift loses the bits instead, and the duration is read as another one.
\* MAX has more than a second of microseconds.
ASSUME LongDurationsWrap ==
  /\ D!I64ToDuration(D!DurationToI64(D!Duration(512, 0), "Positive")).duration.secs = 0
  /\ D!I64ToDuration(D!DurationToI64(D!Duration(511, 0), "Positive")) =
       [duration |-> D!Duration(1, 0), sign |-> "Negative"]
  /\ D!Largest.secs = 255 /\ D!Largest.nanos > 1000000000
=============================================================================
