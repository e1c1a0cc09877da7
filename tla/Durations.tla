------------------------------ MODULE Durations ------------------------------
(***************************************************************************)
(* Durations and instants of stabby/src/time.rs.  A Duration has seconds   *)
(* and nanoseconds; an AtomicDuration packs one and a sign in an i64, with *)
(* the microseconds in its 20 low bits.                                    *)
(***************************************************************************)
EXTENDS Integers

CONSTANT SecRange  \* 2^43: what remains of an i64 beside the sign and SHIFT

MicroRange == 1048576  \* 2^SHIFT; MASK is one less
NanosPerSec == 1000000000

Seconds == 0 .. 2 * SecRange * MicroRange - 1
Normalised == [secs : Seconds, nanos : 0 .. NanosPerSec - 1]
Duration(secs, nanos) == [secs |-> secs, nanos |-> nanos]

FromMillis(millis) == Duration(millis \div 1000, (millis % 1000) * 1000000)
FromMicros(micros) == Duration(micros \div 1000000, (micros % 1000000) * 1000)
AsNanos(d) == d.secs * NanosPerSec + d.nanos
SubsecMicros(d) == d.nanos \div 1000
SubsecMillis(d) == d.nanos \div 1000000

\* AddAssign; the sum of the seconds panics when it overflows.
Sum(d, e) ==
  LET nanos == d.nanos + e.nanos IN
  Duration(d.secs + e.secs + nanos \div NanosPerSec, nanos % NanosPerSec)

\* A SystemTime is the time since the epoch: none, if it is before it.
SinceEpoch(secs, nanos) == IF secs < 0 THEN Duration(0, 0) ELSE Duration(secs, nanos)

-----------------------------------------------------------------------------
(* AtomicDuration *)

\* The seconds, shifted: the bits that leave the i64 at the top are lost.
Shifted(secs) ==
  LET low == secs % (2 * SecRange) IN
  (IF low < SecRange THEN low ELSE low - 2 * SecRange) * MicroRange

DurationToI64(d, sign) ==
  LET t == Shifted(d.secs) + SubsecMicros(d) IN IF sign = "Positive" THEN t ELSE -t

\* Not defined for the least i64, which cannot be negated.
I64ToDuration(i) ==
  LET t == IF i < 0 THEN -i ELSE i IN
  [duration |-> Duration(t \div MicroRange, (t % MicroRange) * 1000),
   sign |-> IF i < 0 THEN "Negative" ELSE "Positive"]

Largest == I64ToDuration(SecRange * MicroRange - 1).duration
Resolution == I64ToDuration(1).duration

\* AtomicInstant is always positive, and drops the sign it reads.
StoredInstant(d) == DurationToI64(d, "Positive")
LoadedInstant(i) == I64ToDuration(i).duration
=============================================================================
