--------------------------- MODULE EncodingProofs ---------------------------
(***************************************************************************)
(* What is written is read back: restricted integers of any width,         *)
(* durations with any number of bits for the seconds, and the variants of  *)
(* a Result of any two types, whatever they leave unused.                  *)
(***************************************************************************)
EXTENDS SumTypes, Ints, Durations, SequenceTheorems, WellFoundedInduction, TLAPS

(* A NonMax refuses the number whose bits are all ones and reads back every *)
(* other one; what it stores is never 0, which is what the layouts of sum   *)
(* types rely on (NonMaxU8::new and get in num.rs).                         *)
THEOREM NonMaxReadsBack ==
  ASSUME NEW M \in Nat, NEW n \in 0 .. M - 1
  PROVE  /\ NonMaxNew(n, M) = None <=> n = M - 1
         /\ \A s \in NonMaxNew(n, M) : s \in 1 .. M - 1 /\ NonMaxGet(s, M) = n
  BY DEF NonMaxNew, NonMaxGet, Not, NonZeroOf, None, Some

(* So does a NonX with its FORBIDDEN number, in unsigned and in signed      *)
(* integers, whose least number is lo: both subtractions may wrap, and what *)
(* is stored may then be any number of the type but 0.                      *)
THEOREM NonXReadsBack ==
  ASSUME NEW M \in Nat, NEW lo \in Int, lo <= 0, 0 < lo + M,
         NEW forbidden \in lo .. lo + M - 1, NEW n \in lo .. lo + M - 1
  PROVE  /\ NonXNew(n, forbidden, lo, M) = None <=> n = forbidden
         /\ \A s \in NonXNew(n, forbidden, lo, M) :
              /\ s \in (lo .. lo + M - 1) \ {0}
              /\ NonXGet(s, forbidden, lo, M) = n
  BY DEF NonXNew, NonXGet, Wrapped, NonZeroOf, None, Some

(* Two NonX compare as their numbers do, although what they store does not: *)
(* Ord goes through get.                                                    *)
THEOREM NonXKeepsOrder ==
  ASSUME NEW M \in Nat, NEW lo \in Int, lo <= 0, 0 < lo + M,
         NEW forbidden \in lo .. lo + M - 1,
         NEW n \in lo .. lo + M - 1, NEW m \in lo .. lo + M - 1,
         NEW s \in NonXNew(n, forbidden, lo, M), NEW t \in NonXNew(m, forbidden, lo, M)
  PROVE  NonXBefore(s, t, forbidden, lo, M) <=> n < m
  BY NonXReadsBack DEF NonXBefore

-----------------------------------------------------------------------------
(* Durations *)

LEMMA Ranges ==
  /\ MicroRange \in Nat \ {0} /\ 1000000 <= MicroRange
  /\ NanosPerSec \in Nat \ {0}
  BY SMT DEF MicroRange, NanosPerSec

LEMMA SecondsAndNanos ==
  ASSUME SecRange \in Nat, NEW d \in Normalised
  PROVE  /\ d.secs \in Nat /\ d.nanos \in Nat
         /\ d.nanos < NanosPerSec /\ d.nanos < 1000000000
<1>1. d.secs \in Nat /\ d.nanos \in 0 .. NanosPerSec - 1
  BY Ranges, SMT DEF Normalised, Seconds
<1>2. d.nanos \in Nat /\ d.nanos < NanosPerSec
  BY <1>1, Ranges, SMT
<1>3. d.nanos < 1000000000
  BY <1>2, SMT DEF NanosPerSec
<1> QED
  BY <1>1, <1>2, <1>3, SMT

LEMMA SecondsStay ==
  ASSUME SecRange \in Nat, NEW secs \in Nat, secs < SecRange
  PROVE  Shifted(secs) = secs * MicroRange
<1>1. secs % (2 * SecRange) = secs
  BY SMT
<1> QED
  BY <1>1, Ranges, SMT DEF Shifted

(* A packed number and its parts. *)
LEMMA Unpacks ==
  ASSUME NEW range \in Nat \ {0}, NEW secs \in Nat, NEW micros \in 0 .. range - 1
  PROVE  /\ secs * range + micros \in Nat
         /\ (secs * range + micros) \div range = secs
         /\ (secs * range + micros) % range = micros
<1>1. /\ secs * range + micros \in Nat
      /\ (secs * range + micros) \div range = secs
  BY SMT
<1>2. (secs * range + micros) % range = micros
  BY SMT
<1> QED
  BY <1>1, <1>2

(* A duration whose seconds fit, stored in an AtomicDuration, is loaded     *)
(* again to the microsecond below it, with its sign unless nothing of it is *)
(* left (AtomicDuration::store and load in time.rs).                        *)
THEOREM DurationReadsBack ==
  ASSUME SecRange \in Nat, NEW d \in Normalised, d.secs < SecRange,
         NEW sign \in {"Positive", "Negative"}
  PROVE  LET read == I64ToDuration(DurationToI64(d, sign)) IN
         /\ read.duration = Duration(d.secs, SubsecMicros(d) * 1000)
         /\ read.sign = IF d.secs = 0 /\ SubsecMicros(d) = 0 THEN "Positive" ELSE sign
<1> DEFINE micros == SubsecMicros(d)
<1>1. d.secs \in Nat /\ d.nanos \in Nat /\ d.nanos < 1000000000
  BY SecondsAndNanos, SMT
<1>2. micros \in 0 .. MicroRange - 1
  BY <1>1, Ranges, SMT DEF SubsecMicros
<1> DEFINE t == d.secs * MicroRange + micros
<1>3. /\ t \in Nat /\ t \div MicroRange = d.secs /\ t % MicroRange = micros
      /\ t = 0 <=> d.secs = 0 /\ micros = 0
  <2>1. MicroRange \in Nat \ {0} /\ d.secs \in Nat
    BY <1>1, Ranges, SMT
  <2> HIDE DEF micros
  <2>2. t \in Nat /\ t \div MicroRange = d.secs
    BY <1>2, <2>1, Unpacks
  <2>3. (t % MicroRange) = micros
    BY <1>2, <2>1, Unpacks
  <2>4. t = 0 <=> (d.secs = 0 /\ micros = 0)
    BY <1>2, <2>1, SMT
  <2> QED
    BY <2>2, <2>3, <2>4
<1>4. DurationToI64(d, sign) = IF sign = "Positive" THEN t ELSE -t
  BY <1>1, SecondsStay, SMT DEF DurationToI64
<1> HIDE DEF micros
<1>5. CASE sign = "Positive"
  <2>1. DurationToI64(d, sign) = t /\ ~(t < 0)
    BY <1>3, <1>4, <1>5, SMT
  <2> HIDE DEF t
  <2> QED
    BY <1>3, <1>5, <2>1, SMT DEF I64ToDuration, micros
<1>6. CASE sign = "Negative"
  <2>1. DurationToI64(d, sign) = -t /\ -(-t) = t /\ (-t < 0 <=> t # 0) /\ (t = 0 => -t = t)
    BY <1>3, <1>4, <1>6, SMT
  <2> HIDE DEF t
  <2> QED
    BY <1>3, <1>6, <2>1, SMT DEF I64ToDuration, micros
<1> QED
  BY <1>5, <1>6, SMT

LEMMA Carries ==
  ASSUME NEW range \in Nat \ {0}, NEW n \in Nat
  PROVE  /\ n \div range \in Nat /\ n % range \in 0 .. range - 1
         /\ n = (n \div range) * range + (n % range)
  BY SMT

LEMMA Distributes ==
  ASSUME NEW range \in Nat, NEW a \in Nat, NEW b \in Nat, NEW c \in Nat
  PROVE  (a + b + c) * range = a * range + b * range + c * range
  BY SMT

(* The sum of two durations is normalised and exact (AddAssign in time.rs). *)
THEOREM SumIsExact ==
  ASSUME SecRange \in Nat, NEW d \in Normalised, NEW e \in Normalised
  PROVE  /\ AsNanos(Sum(d, e)) = AsNanos(d) + AsNanos(e)
         /\ Sum(d, e).nanos \in 0 .. NanosPerSec - 1
<1> DEFINE nanos == d.nanos + e.nanos
<1>1. /\ d.secs \in Nat /\ d.nanos \in Nat /\ d.nanos < NanosPerSec
      /\ e.secs \in Nat /\ e.nanos \in Nat /\ e.nanos < NanosPerSec
  BY SecondsAndNanos, SMT
<1> DEFINE carry == nanos \div NanosPerSec
           rest == nanos % NanosPerSec
<1>2. NanosPerSec \in Nat \ {0} /\ nanos \in Nat
  BY <1>1, Ranges, SMT
<1> HIDE DEF nanos
<1>3. /\ carry \in Nat /\ rest \in 0 .. NanosPerSec - 1
      /\ nanos = carry * NanosPerSec + rest
  BY <1>2, Carries
<1>4. Sum(d, e) = [secs |-> d.secs + e.secs + carry, nanos |-> rest]
  BY DEF Sum, Duration, nanos
<1> HIDE DEF carry, rest
<1>5. (d.secs + e.secs + carry) * NanosPerSec
        = d.secs * NanosPerSec + e.secs * NanosPerSec + carry * NanosPerSec
  BY <1>1, <1>2, <1>3, Distributes
<1>6. d.nanos + e.nanos = carry * NanosPerSec + rest
  BY <1>3 DEF nanos
<1> DEFINE x == d.secs * NanosPerSec
           y == e.secs * NanosPerSec
           z == carry * NanosPerSec
<1>7. x \in Nat /\ y \in Nat /\ z \in Nat /\ rest \in Nat
  BY <1>1, <1>2, <1>3, SMT
<1>8. AsNanos(Sum(d, e)) = x + y + z + rest
  BY <1>4, <1>5 DEF AsNanos
<1>9. AsNanos(d) = x + d.nanos /\ AsNanos(e) = y + e.nanos /\ d.nanos + e.nanos = z + rest
  BY <1>6 DEF AsNanos
<1> HIDE DEF x, y, z
<1>10. AsNanos(Sum(d, e)) = AsNanos(d) + AsNanos(e)
  BY <1>1, <1>7, <1>8, <1>9
<1> QED
  BY <1>3, <1>4, <1>10

-----------------------------------------------------------------------------
(* The least of a set of numbers *)

LEMMA LeastOf ==
  ASSUME NEW S \in SUBSET Nat, S # {}
  PROVE  \E m \in S : \A n \in S : m <= n
<1> DEFINE R == {ss \in Nat \X Nat : ss[1] < ss[2]}
<1>1. IsWellFoundedOn(R, Nat)
  BY NatLessThanWellFounded DEF OpToRel
<1>2. PICK m \in S : \A n \in S : ~(<<n, m>> \in R)
  <2> HIDE DEF R
  <2>1. S \subseteq Nat
    OBVIOUS
  <2> QED
    BY <1>1, <2>1, WFMin
<1>3. \A n \in S : ~(n < m)
  BY <1>2
<1> QED
  BY <1>3

LEMMA MinIsLeast ==
  ASSUME NEW S \in SUBSET Nat, S # {}
  PROVE  Min(S) \in S /\ \A n \in S : Min(S) <= n
BY LeastOf DEF Min

-----------------------------------------------------------------------------
(* Masks of unused bits *)

Entry == Nat \X ((SUBSET AllBits) \ {{}})
BytesOf(mask) == {mask[i][1] : i \in DOMAIN mask}

LEMMA PlacesOfBits ==
  ASSUME NEW o \in Int, NEW p \in Int, NEW x \in AllBits, NEW y \in AllBits
  PROVE  /\ 8 * o + x = 8 * p + y <=> o = p /\ x = y
         /\ 8 * o + x \in BitsOfByte(p) <=> o = p
         /\ 8 * o + x \in Int
  BY DEF AllBits, BitsOfByte

LEMMA BitsHavePlaces ==
  ASSUME NEW o \in Int, NEW b \in BitsOfByte(o)
  PROVE  b - 8 * o \in AllBits /\ b = 8 * o + (b - 8 * o) /\ b \in Int
  BY DEF AllBits, BitsOfByte

LEMMA MaskParts ==
  ASSUME NEW mask, NEW size, IsMask(mask, size), size \in Nat
  PROVE  /\ mask \in Seq(Entry) /\ Len(mask) \in Nat /\ DOMAIN mask = 1 .. Len(mask)
         /\ \A i \in DOMAIN mask : /\ mask[i] = <<mask[i][1], mask[i][2]>>
                                   /\ mask[i][1] \in 0 .. size - 1 /\ mask[i][1] \in Nat
                                   /\ mask[i][2] \in SUBSET AllBits /\ mask[i][2] # {}
                                   /\ 0 \in mask[i][2] => mask[i][2] = AllBits
         /\ \A i, j \in DOMAIN mask : mask[i][1] = mask[j][1] => i = j
<1>1. mask \in Seq((0 .. size - 1) \X ((SUBSET AllBits) \ {{}}))
  BY DEF IsMask
<1>2. \A i \in DOMAIN mask : mask[i] \in (0 .. size - 1) \X ((SUBSET AllBits) \ {{}})
  BY <1>1
<1>3. Len(mask) \in Nat /\ DOMAIN mask = 1 .. Len(mask)
  BY <1>1
<1>4. \A i \in 1 .. Len(mask) : mask[i] \in Entry
  BY <1>2, <1>3 DEF Entry
<1>5. mask \in Seq(Entry)
  BY <1>1, <1>3, <1>4
<1> QED
  BY <1>2, <1>3, <1>5 DEF IsMask

LEMMA PositionsAre ==
  ASSUME NEW mask, NEW b
  PROVE  b \in Positions(mask) <=> \E i \in DOMAIN mask : \E x \in mask[i][2] : b = 8 * mask[i][1] + x
  BY DEF Positions

\* An entry of its own in the mask, for each byte.
LEMMA PositionsOfByte ==
  ASSUME NEW mask, NEW size \in Nat, IsMask(mask, size), NEW i \in DOMAIN mask, NEW x \in AllBits
  PROVE  8 * mask[i][1] + x \in Positions(mask) <=> x \in mask[i][2]
<1>1. /\ \A j \in DOMAIN mask : mask[j][1] \in Nat /\ mask[j][2] \in SUBSET AllBits
      /\ \A j \in DOMAIN mask : mask[i][1] = mask[j][1] => i = j
  BY MaskParts
<1>2. ASSUME 8 * mask[i][1] + x \in Positions(mask)
      PROVE  x \in mask[i][2]
  <2>1. PICK j \in DOMAIN mask : \E y \in mask[j][2] : 8 * mask[i][1] + x = 8 * mask[j][1] + y
    BY <1>2, PositionsAre
  <2>2. PICK y \in mask[j][2] : 8 * mask[i][1] + x = 8 * mask[j][1] + y
    BY <2>1
  <2>3. mask[i][1] \in Int /\ mask[j][1] \in Int /\ y \in AllBits
    BY <1>1, <2>2
  <2>4. mask[i][1] = mask[j][1] /\ x = y
    BY <2>2, <2>3, PlacesOfBits
  <2> QED
    BY <1>1, <2>2, <2>4
<1> QED
  BY <1>2, PositionsAre

LEMMA PositionsInside ==
  ASSUME NEW mask, NEW size \in Nat, IsMask(mask, size), NEW b \in Positions(mask)
  PROVE  /\ b \in Nat /\ b < 8 * size
         /\ \E i \in DOMAIN mask : \E x \in AllBits : x \in mask[i][2] /\ b = 8 * mask[i][1] + x
<1>1. \A j \in DOMAIN mask : mask[j][1] \in 0 .. size - 1 /\ mask[j][2] \in SUBSET AllBits
  BY MaskParts
<1>2. PICK i \in DOMAIN mask : \E x \in mask[i][2] : b = 8 * mask[i][1] + x
  BY PositionsAre
<1>3. PICK x \in mask[i][2] : b = 8 * mask[i][1] + x
  BY <1>2
<1>4. x \in AllBits /\ mask[i][1] \in 0 .. size - 1
  BY <1>1
<1>5. b \in Nat /\ b < 8 * size
  BY <1>3, <1>4 DEF AllBits
<1> QED
  BY <1>3, <1>4, <1>5

\* What is unused of a byte.
LEMMA ByteAtIs ==
  ASSUME NEW mask, NEW size \in Nat, IsMask(mask, size), NEW o \in Nat
  PROVE  /\ ByteAt(mask, o) \in SUBSET AllBits
         /\ \A x \in AllBits : x \in ByteAt(mask, o) <=> 8 * o + x \in Positions(mask)
         /\ 0 \in ByteAt(mask, o) => ByteAt(mask, o) = AllBits
<1> DEFINE I == {i \in 1 .. Len(mask) : mask[i][1] = o}
<1>1. /\ Len(mask) \in Nat /\ DOMAIN mask = 1 .. Len(mask)
      /\ \A i \in DOMAIN mask : /\ mask[i][1] \in Nat /\ mask[i][2] \in SUBSET AllBits
                                /\ 0 \in mask[i][2] => mask[i][2] = AllBits
  BY MaskParts
<1>2. ByteAt(mask, o) = LET i == IF I # {} THEN Min(I) ELSE 0 IN IF i = 0 THEN {} ELSE mask[i][2]
  BY DEF ByteAt, SelectInSeq
<1>3. I \in SUBSET Nat /\ 0 \notin I
  BY <1>1
<1>4. CASE I = {}
  <2>1. ByteAt(mask, o) = {}
    BY <1>2, <1>4
  <2>2. ASSUME NEW x \in AllBits, 8 * o + x \in Positions(mask)
        PROVE  FALSE
    <3>1. PICK i \in DOMAIN mask : \E y \in AllBits : 8 * o + x = 8 * mask[i][1] + y
      BY <2>2, PositionsInside
    <3>2. PICK y \in AllBits : 8 * o + x = 8 * mask[i][1] + y
      BY <3>1
    <3>3. o \in Int /\ mask[i][1] \in Int
      BY <1>1
    <3>4. o = mask[i][1]
      BY <3>2, <3>3, PlacesOfBits
    <3> QED
      BY <1>1, <1>4, <3>4
  <2> QED
    BY <2>1, <2>2
<1>5. CASE I # {}
  <2>1. PICK i \in I : ByteAt(mask, o) = mask[i][2]
    <3>1. Min(I) \in I /\ Min(I) # 0
      <4> HIDE DEF I
      <4> QED
        BY <1>3, <1>5, MinIsLeast
    <3> QED
      BY <1>2, <1>5, <3>1
  <2>2. i \in DOMAIN mask /\ mask[i][1] = o
    BY <1>1
  <2> QED
    BY <1>1, <2>1, <2>2, PositionsOfByte
<1> QED
  BY <1>4, <1>5

LEMMA FreeByte ==
  ASSUME NEW mask, NEW size \in Nat, IsMask(mask, size), NEW o \in Nat, HasFreeByteAt(mask, o)
  PROVE  BitsOfByte(o) \subseteq Positions(mask)
<1>1. PICK i \in DOMAIN mask : mask[i] = <<o, AllBits>>
  BY DEF HasFreeByteAt
<1>2. mask[i][1] = o /\ mask[i][2] = AllBits
  BY <1>1
<1>3. SUFFICES ASSUME NEW b \in BitsOfByte(o) PROVE b \in Positions(mask)
  OBVIOUS
<1>4. b - 8 * o \in AllBits /\ b = 8 * o + (b - 8 * o)
  BY BitsHavePlaces
<1> QED
  BY <1>2, <1>4, PositionsAre

LEMMA MaskOf ==
  ASSUME NEW mask \in Seq(Entry), NEW size \in Nat,
         \A i \in DOMAIN mask : mask[i][1] < size /\ (0 \in mask[i][2] => mask[i][2] = AllBits),
         \A i, j \in DOMAIN mask : mask[i][1] = mask[j][1] => i = j
  PROVE  IsMask(mask, size)
<1> DEFINE S == (0 .. size - 1) \X ((SUBSET AllBits) \ {{}})
<1>1. \A i \in DOMAIN mask : mask[i] \in Nat \X ((SUBSET AllBits) \ {{}})
  BY DEF Entry
<1>2. \A i \in DOMAIN mask : mask[i] \in S
  BY <1>1
<1>3. Len(mask) \in Nat /\ DOMAIN mask = 1 .. Len(mask)
  BY LenProperties
<1>4. mask \in Seq(S)
  <2> HIDE DEF S
  <2> QED
    BY <1>2, <1>3
<1> QED
  BY <1>4 DEF IsMask

LEMMA EmptyMask ==
  ASSUME NEW size \in Nat
  PROVE  IsMask(<<>>, size) /\ Positions(<<>>) = {} /\ BytesOf(<<>>) = {}
<1>1. IsMask(<<>>, size)
  BY DEF IsMask
<1> QED
  BY <1>1 DEF Positions, BytesOf

LEMMA OneByteMask ==
  ASSUME NEW size \in Nat, NEW o \in 0 .. size - 1, NEW bits \in SUBSET AllBits, bits # {},
         0 \in bits => bits = AllBits
  PROVE  /\ IsMask(<<<<o, bits>>>>, size) /\ BytesOf(<<<<o, bits>>>>) = {o}
         /\ Positions(<<<<o, bits>>>>) = {8 * o + x : x \in bits}
<1> DEFINE mask == <<<<o, bits>>>>
<1>1. <<o, bits>> \in Entry
  BY DEF Entry
<1>2. mask \in Seq(Entry) /\ DOMAIN mask = {1}
  BY <1>1
<1>3. mask[1][1] = o /\ mask[1][2] = bits
  OBVIOUS
<1> HIDE DEF mask
<1>4. IsMask(mask, size)
  BY <1>2, <1>3, MaskOf
<1>5. BytesOf(mask) = {o}
  BY <1>2, <1>3 DEF BytesOf
<1>6. Positions(mask) = {8 * o + x : x \in bits}
  BY <1>2, <1>3 DEF Positions
<1> QED
  BY <1>4, <1>5, <1>6 DEF mask

LEMMA MasksJoin ==
  ASSUME NEW size \in Nat, NEW m1, NEW m2, IsMask(m1, size), IsMask(m2, size),
         BytesOf(m1) \cap BytesOf(m2) = {}
  PROVE  /\ IsMask(m1 \o m2, size) /\ BytesOf(m1 \o m2) = BytesOf(m1) \cup BytesOf(m2)
         /\ Positions(m1 \o m2) = Positions(m1) \cup Positions(m2)
<1> DEFINE m == m1 \o m2
           a == Len(m1)
           n == Len(m1) + Len(m2)
<1>1. /\ m1 \in Seq(Entry) /\ a \in Nat /\ DOMAIN m1 = 1 .. a
      /\ m2 \in Seq(Entry) /\ Len(m2) \in Nat /\ DOMAIN m2 = 1 .. Len(m2)
  BY MaskParts
<1>2. /\ m \in Seq(Entry) /\ Len(m) = n /\ n \in Nat /\ DOMAIN m = 1 .. n
      /\ \A i \in 1 .. n : m[i] = IF i <= a THEN m1[i] ELSE m2[i - a]
  <2>1. m \in Seq(Entry) /\ Len(m) = n /\ \A i \in 1 .. n : m[i] = IF i <= a THEN m1[i] ELSE m2[i - a]
    BY <1>1, ConcatProperties
  <2> QED
    BY <1>1, <2>1
<1> HIDE DEF m
<1>4. \A i \in 1 .. n : i <= a => i \in DOMAIN m1 /\ m[i] = m1[i]
  BY <1>1, <1>2
<1>5. \A i \in 1 .. n : ~(i <= a) => i - a \in DOMAIN m2 /\ m[i] = m2[i - a]
  BY <1>1, <1>2
<1>6. \A i \in DOMAIN m1 : i \in 1 .. n /\ m[i] = m1[i]
  BY <1>1, <1>2
<1>7. \A i \in DOMAIN m2 : i + a \in 1 .. n /\ m[i + a] = m2[i]
  BY <1>1, <1>2
<1>8. \A i \in 1 .. n : m[i][1] < size /\ (0 \in m[i][2] => m[i][2] = AllBits)
  BY <1>4, <1>5, MaskParts
<1>9. ASSUME NEW i \in 1 .. n, NEW j \in 1 .. n, m[i][1] = m[j][1]
      PROVE  i = j
  <2>1. CASE i <= a /\ j <= a
    BY <1>4, <1>9, <2>1, MaskParts
  <2>2. CASE ~(i <= a) /\ ~(j <= a)
    <3>1. /\ i - a \in DOMAIN m2 /\ m[i] = m2[i - a]
          /\ j - a \in DOMAIN m2 /\ m[j] = m2[j - a]
      BY <1>5, <2>2
    <3>2. i - a = j - a
      BY <1>9, <3>1, MaskParts
    <3> QED
      BY <1>1, <3>2
  <2>3. \A p \in DOMAIN m1 : \A q \in DOMAIN m2 : m1[p][1] # m2[q][1]
    BY DEF BytesOf
  <2>4. CASE i <= a /\ ~(j <= a)
    <3>1. i \in DOMAIN m1 /\ m[i] = m1[i] /\ j - a \in DOMAIN m2 /\ m[j] = m2[j - a]
      BY <1>4, <1>5, <2>4
    <3> QED
      BY <1>9, <2>3, <3>1
  <2>5. CASE ~(i <= a) /\ j <= a
    <3>1. j \in DOMAIN m1 /\ m[j] = m1[j] /\ i - a \in DOMAIN m2 /\ m[i] = m2[i - a]
      BY <1>4, <1>5, <2>5
    <3> QED
      BY <1>9, <2>3, <3>1
  <2> QED
    BY <2>1, <2>2, <2>4, <2>5
<1>10. IsMask(m, size)
  <2> HIDE DEF n
  <2> QED
    BY <1>2, <1>8, <1>9, MaskOf
<1>11. BytesOf(m) = BytesOf(m1) \cup BytesOf(m2)
  <2>1. \A i \in DOMAIN m : m[i][1] \in BytesOf(m1) \cup BytesOf(m2)
    BY <1>2, <1>4, <1>5 DEF BytesOf
  <2>2. \A i \in DOMAIN m1 : m1[i][1] \in BytesOf(m)
    BY <1>2, <1>6 DEF BytesOf
  <2>3. \A i \in DOMAIN m2 : m2[i][1] \in BytesOf(m)
    BY <1>2, <1>7 DEF BytesOf
  <2> QED
    BY <2>1, <2>2, <2>3 DEF BytesOf
<1>12. Positions(m) = Positions(m1) \cup Positions(m2)
  <2>1. ASSUME NEW b \in Positions(m) PROVE b \in Positions(m1) \cup Positions(m2)
    <3>1. PICK i \in DOMAIN m : \E x \in m[i][2] : b = 8 * m[i][1] + x
      BY PositionsAre
    <3> QED
      BY <1>2, <1>4, <1>5, <3>1, PositionsAre
  <2>2. ASSUME NEW b \in Positions(m1) PROVE b \in Positions(m)
    <3>1. PICK i \in DOMAIN m1 : \E x \in m1[i][2] : b = 8 * m1[i][1] + x
      BY PositionsAre
    <3> QED
      BY <1>2, <1>6, <3>1, PositionsAre
  <2>3. ASSUME NEW b \in Positions(m2) PROVE b \in Positions(m)
    <3>1. PICK i \in DOMAIN m2 : \E x \in m2[i][2] : b = 8 * m2[i][1] + x
      BY PositionsAre
    <3> QED
      BY <1>2, <1>7, <3>1, PositionsAre
  <2> QED
    BY <2>1, <2>2, <2>3
<1> QED
  BY <1>10, <1>11, <1>12 DEF m

LEMMA WiderMask ==
  ASSUME NEW size \in Nat, NEW wider \in Nat, size <= wider, NEW mask, IsMask(mask, size)
  PROVE  IsMask(mask, wider)
<1>1. /\ mask \in Seq(Entry)
      /\ \A i \in DOMAIN mask : mask[i][1] \in 0 .. size - 1 /\ (0 \in mask[i][2] => mask[i][2] = AllBits)
      /\ \A i, j \in DOMAIN mask : mask[i][1] = mask[j][1] => i = j
  BY MaskParts
<1>2. \A i \in DOMAIN mask : mask[i][1] < wider
  BY <1>1
<1> QED
  BY <1>1, <1>2, MaskOf

LEMMA ShiftedMask ==
  ASSUME NEW size \in Nat, NEW by \in Nat, NEW mask, IsMask(mask, size)
  PROVE  /\ IsMask(ShiftMask(mask, by), size + by)
         /\ BytesOf(ShiftMask(mask, by)) \subseteq by .. by + size - 1
         /\ Positions(ShiftMask(mask, by)) = ShiftBits(Positions(mask), by)
<1> DEFINE m == ShiftMask(mask, by)
<1>1. /\ Len(mask) \in Nat /\ DOMAIN mask = 1 .. Len(mask)
      /\ \A i \in DOMAIN mask : /\ mask[i][1] \in 0 .. size - 1 /\ mask[i][1] \in Nat
                                /\ mask[i][2] \in SUBSET AllBits /\ mask[i][2] # {}
                                /\ 0 \in mask[i][2] => mask[i][2] = AllBits
      /\ \A i, j \in DOMAIN mask : mask[i][1] = mask[j][1] => i = j
  BY MaskParts
<1>2. /\ DOMAIN m = DOMAIN mask
      /\ \A i \in DOMAIN mask : m[i] = <<mask[i][1] + by, mask[i][2]>>
  BY DEF ShiftMask
<1>3. \A i \in DOMAIN mask : m[i] \in Entry
  <2>1. \A i \in DOMAIN mask : mask[i][1] + by \in Nat /\ mask[i][2] \in (SUBSET AllBits) \ {{}}
    BY <1>1
  <2>2. \A i \in DOMAIN mask : <<mask[i][1] + by, mask[i][2]>> \in Entry
    BY <2>1 DEF Entry
  <2> HIDE DEF m
  <2> QED
    BY <1>2, <2>2
<1>4. m \in Seq(Entry)
  <2>1. m = [i \in DOMAIN mask |-> m[i]]
    BY DEF ShiftMask
  <2>2. m \in [1 .. Len(mask) -> Entry]
    <3> HIDE DEF m
    <3> QED
      BY <1>1, <1>3, <2>1
  <2> HIDE DEF m
  <2> QED
    BY <1>1, <2>2
<1> HIDE DEF m
<1>7. \A i \in DOMAIN mask : m[i][1] = mask[i][1] + by /\ m[i][2] = mask[i][2]
  BY <1>2
<1>8. IsMask(m, size + by)
  <2>1. \A i \in DOMAIN mask : m[i][1] < size + by /\ (0 \in m[i][2] => m[i][2] = AllBits)
    BY <1>1, <1>7
  <2>2. \A i, j \in DOMAIN mask : m[i][1] = m[j][1] => i = j
    BY <1>1, <1>7
  <2>3. size + by \in Nat
    OBVIOUS
  <2> QED
    BY <1>2, <1>4, <2>3, <2>1, <2>2, MaskOf
<1>5. BytesOf(m) \subseteq by .. by + size - 1
  BY <1>1, <1>2, <1>7 DEF BytesOf
<1>6. Positions(m) = ShiftBits(Positions(mask), by)
  <2>1. ASSUME NEW i \in DOMAIN mask, NEW x \in mask[i][2]
        PROVE  8 * (mask[i][1] + by) + x = (8 * mask[i][1] + x) + 8 * by
    <3>1. x \in 0 .. 7 /\ mask[i][1] \in Int
      BY <1>1 DEF AllBits
    <3> QED
      BY <3>1
  <2>2. ASSUME NEW b \in Positions(m) PROVE b \in ShiftBits(Positions(mask), by)
    <3>1. PICK i \in DOMAIN m : \E x \in m[i][2] : b = 8 * m[i][1] + x
      BY PositionsAre
    <3>2. i \in DOMAIN mask
      BY <1>1, <1>2
    <3>3. PICK x \in mask[i][2] : b = (8 * mask[i][1] + x) + 8 * by
      BY <1>1, <1>7, <2>1, <3>1, <3>2
    <3>4. 8 * mask[i][1] + x \in Positions(mask)
      BY <3>2, PositionsAre
    <3> QED
      BY <3>3, <3>4 DEF ShiftBits
  <2>3. ASSUME NEW b \in Positions(mask) PROVE b + 8 * by \in Positions(m)
    <3>1. PICK i \in DOMAIN mask : \E x \in mask[i][2] : b = 8 * mask[i][1] + x
      BY PositionsAre
    <3>2. PICK x \in mask[i][2] : b + 8 * by = 8 * (mask[i][1] + by) + x
      BY <2>1, <3>1
    <3> QED
      BY <1>2, <1>7, <3>2, PositionsAre
  <2> QED
    BY <2>2, <2>3 DEF ShiftBits
<1> QED
  BY <1>5, <1>6, <1>8 DEF m

LEMMA PaddingMask ==
  ASSUME NEW start \in Nat, NEW n \in Nat
  PROVE  /\ IsMask(PaddingBits(start, n), start + n)
         /\ BytesOf(PaddingBits(start, n)) = start .. start + n - 1
         /\ Positions(PaddingBits(start, n)) = BitsOfBytes(start, n)
<1> DEFINE m == PaddingBits(start, n)
<1>1. DOMAIN m = 1 .. n /\ \A i \in 1 .. n : m[i] = <<start + i - 1, AllBits>>
  BY DEF PaddingBits
<1>2. \A i \in 1 .. n : <<start + i - 1, AllBits>> \in Entry
  <2>1. AllBits \in (SUBSET AllBits) \ {{}}
    BY DEF AllBits
  <2>2. \A i \in 1 .. n : start + i - 1 \in Nat
    OBVIOUS
  <2> QED
    BY <2>1, <2>2 DEF Entry
<1>3. m \in Seq(Entry)
  <2>1. m \in [1 .. n -> Entry]
    BY <1>2 DEF PaddingBits
  <2> HIDE DEF m
  <2> QED
    BY <2>1
<1> HIDE DEF m
<1>4. \A i \in 1 .. n : m[i][1] = start + i - 1 /\ m[i][2] = AllBits
  BY <1>1
<1>5. DOMAIN m = 1 .. n /\ \A i \in 1 .. n : m[i][1] = start + i - 1 /\ m[i][2] = AllBits
  BY <1>1, <1>4
<1>6. IsMask(m, start + n)
  <2>1. \A i \in DOMAIN m : m[i][1] < start + n /\ (0 \in m[i][2] => m[i][2] = AllBits)
    BY <1>5
  <2>2. \A i, j \in DOMAIN m : m[i][1] = m[j][1] => i = j
    BY <1>5
  <2>3. start + n \in Nat
    OBVIOUS
  <2> QED
    BY <1>3, <2>1, <2>2, <2>3, MaskOf
<1>7. BytesOf(m) = start .. start + n - 1
  <2>1. \A o \in start .. start + n - 1 : o - start + 1 \in 1 .. n /\ start + (o - start + 1) - 1 = o
    OBVIOUS
  <2>2. \A o \in start .. start + n - 1 : o \in BytesOf(m)
    BY <1>5, <2>1 DEF BytesOf
  <2>3. \A i \in 1 .. n : m[i][1] \in start .. start + n - 1
    BY <1>5
  <2> QED
    BY <1>5, <2>2, <2>3 DEF BytesOf
<1>8. Positions(m) = BitsOfBytes(start, n)
  <2>1. ASSUME NEW b \in Positions(m) PROVE b \in BitsOfBytes(start, n)
    <3>1. PICK i \in DOMAIN m : \E x \in m[i][2] : b = 8 * m[i][1] + x
      BY PositionsAre
    <3>2. PICK x \in AllBits : b = 8 * (start + i - 1) + x
      BY <1>5, <3>1
    <3> QED
      BY <1>5, <3>2 DEF AllBits, BitsOfBytes
  <2>2. ASSUME NEW b \in BitsOfBytes(start, n) PROVE b \in Positions(m)
    <3> DEFINE o == b \div 8
               x == b % 8
    <3>1. b \in Int /\ 8 * start <= b /\ b <= 8 * (start + n) - 1
      BY DEF BitsOfBytes
    <3>2. o \in Int /\ x \in AllBits /\ b = 8 * o + x
      BY <3>1 DEF AllBits
    <3>3. o \in start .. start + n - 1
      BY <3>1, <3>2 DEF AllBits
    <3>4. o - start + 1 \in 1 .. n /\ start + (o - start + 1) - 1 = o
      BY <3>3
    <3> DEFINE i == o - start + 1
    <3>5. i \in DOMAIN m /\ x \in m[i][2] /\ b = 8 * m[i][1] + x
      BY <1>5, <3>2, <3>4
    <3> HIDE DEF o, x, i
    <3>6. \E j \in DOMAIN m : \E y \in m[j][2] : b = 8 * m[j][1] + y
      BY <3>5
    <3> HIDE DEF m
    <3> QED
      BY <3>6, PositionsAre
  <2> QED
    BY <2>1, <2>2
<1> QED
  BY <1>6, <1>7, <1>8 DEF m

\* The entries that two build share, up to the n-th of the first.
Shared(mask, other, i) == mask[i][2] \cap ByteAt(other, mask[i][1])
Piece(mask, other, n) ==
  IF Shared(mask, other, n) = {} THEN <<>> ELSE <<<<mask[n][1], Shared(mask, other, n)>>>>
SharedUpTo(mask, other, m, f) ==
  f = [n \in 0 .. m |-> IF n = 0 THEN <<>> ELSE f[n - 1] \o Piece(mask, other, n)]

LEMMA SharedExists ==
  ASSUME NEW mask, NEW other, NEW len \in Nat
  PROVE  \E f : SharedUpTo(mask, other, len, f)
<1> DEFINE Missing == {m \in Nat : ~\E f : SharedUpTo(mask, other, m, f)}
<1>1. SUFFICES ASSUME Missing # {} PROVE FALSE
  OBVIOUS
<1>2. PICK m \in Missing : \A n \in Missing : m <= n
  <2>1. Missing \in SUBSET Nat
    OBVIOUS
  <2> HIDE DEF Missing
  <2> QED
    BY <1>1, <2>1, LeastOf
<1>3. m \in Nat /\ ~\E f : SharedUpTo(mask, other, m, f)
  OBVIOUS
<1>4. m # 0
  <2> DEFINE g == [n \in 0 .. 0 |-> <<>>]
  <2>1. g = [n \in 0 .. 0 |-> IF n = 0 THEN <<>> ELSE g[n - 1] \o Piece(mask, other, n)]
    <3> HIDE DEF Piece
    <3> QED
      OBVIOUS
  <2>2. SharedUpTo(mask, other, 0, g)
    BY <2>1 DEF SharedUpTo
  <2> HIDE DEF g
  <2> QED
    BY <1>3, <2>2
<1>5. m - 1 \in Nat /\ ~(m <= m - 1)
  BY <1>3, <1>4
<1>6. PICK f : SharedUpTo(mask, other, m - 1, f)
  BY <1>2, <1>5
<1>7. /\ DOMAIN f = 0 .. m - 1
      /\ \A n \in 0 .. m - 1 : f[n] = IF n = 0 THEN <<>> ELSE f[n - 1] \o Piece(mask, other, n)
  BY <1>6 DEF SharedUpTo
<1> DEFINE g == [n \in 0 .. m |-> IF n = m THEN f[m - 1] \o Piece(mask, other, m) ELSE f[n]]
<1>8. \A n \in 0 .. m : g[n] = IF n = 0 THEN <<>> ELSE g[n - 1] \o Piece(mask, other, n)
  <2>1. ASSUME NEW n \in 0 .. m PROVE g[n] = IF n = 0 THEN <<>> ELSE g[n - 1] \o Piece(mask, other, n)
    <3>1. CASE n = m
      <4>1. m - 1 \in 0 .. m /\ m - 1 # m /\ m \in 0 .. m
        BY <1>5
      <4>2. g[m - 1] = f[m - 1] /\ g[m] = f[m - 1] \o Piece(mask, other, m)
        BY <4>1
      <4> QED
        BY <1>4, <3>1, <4>2
    <3>2. CASE n # m /\ n # 0
      <4>1. n \in 0 .. m - 1 /\ n - 1 \in 0 .. m /\ n - 1 # m
        BY <1>3, <3>2
      <4>2. g[n] = f[n] /\ g[n - 1] = f[n - 1]
        BY <3>2, <4>1
      <4> QED
        BY <1>7, <3>2, <4>1, <4>2
    <3>3. CASE n = 0
      <4>1. 0 \in 0 .. m - 1 /\ n # m
        BY <1>4, <1>5, <3>3
      <4>2. g[n] = f[n]
        BY <4>1
      <4> QED
        BY <1>7, <3>3, <4>1, <4>2
    <3> QED
      BY <3>1, <3>2, <3>3
  <2> QED
    BY <2>1
<1>9. SharedUpTo(mask, other, m, g)
  <2>1. g = [n \in 0 .. m |-> g[n]]
    OBVIOUS
  <2> HIDE DEF g
  <2>2. g = [n \in 0 .. m |-> IF n = 0 THEN <<>> ELSE g[n - 1] \o Piece(mask, other, n)]
    BY <1>8, <2>1
  <2> QED
    BY <2>2 DEF SharedUpTo
<1> HIDE DEF g
<1> QED
  BY <1>3, <1>9

LEMMA BitAndIs ==
  ASSUME NEW mask, NEW other, NEW size \in Nat, IsMask(mask, size)
  PROVE  \E f : SharedUpTo(mask, other, Len(mask), f) /\ BitAnd(mask, other) = f[Len(mask)]
<1>1. Len(mask) \in Nat
  BY MaskParts
<1>2. PICK f : SharedUpTo(mask, other, Len(mask), f)
  BY <1>1, SharedExists
<1> DEFINE h == CHOOSE g : SharedUpTo(mask, other, Len(mask), g)
<1>3. SharedUpTo(mask, other, Len(mask), h)
  BY <1>2
<1>4. BitAnd(mask, other) = h[Len(mask)]
  BY DEF BitAnd, SharedUpTo, Piece, Shared
<1> HIDE DEF h
<1> QED
  BY <1>3, <1>4

\* The unused bits that two build share.
LEMMA MasksMeet ==
  ASSUME NEW size \in Nat, NEW mask, IsMask(mask, size),
         NEW wide \in Nat, NEW other, IsMask(other, wide)
  PROVE  /\ IsMask(BitAnd(mask, other), size)
         /\ Positions(BitAnd(mask, other)) = Positions(mask) \cap Positions(other)
<1> DEFINE len == Len(mask)
<1>1. PICK f : SharedUpTo(mask, other, len, f) /\ BitAnd(mask, other) = f[len]
  BY BitAndIs
<1>2. /\ len \in Nat /\ DOMAIN mask = 1 .. len
      /\ \A i \in DOMAIN mask : /\ mask[i][1] \in 0 .. size - 1 /\ mask[i][1] \in Nat
                                /\ mask[i][2] \in SUBSET AllBits
                                /\ 0 \in mask[i][2] => mask[i][2] = AllBits
      /\ \A i, j \in DOMAIN mask : mask[i][1] = mask[j][1] => i = j
  BY MaskParts
<1>3. f[0] = <<>> /\ \A n \in 1 .. len : f[n] = f[n - 1] \o Piece(mask, other, n)
  <2>1. \A n \in 0 .. len : f[n] = IF n = 0 THEN <<>> ELSE f[n - 1] \o Piece(mask, other, n)
    BY <1>1 DEF SharedUpTo
  <2>2. 0 \in 0 .. len /\ \A n \in 1 .. len : n \in 0 .. len /\ n # 0
    BY <1>2
  <2> HIDE DEF len
  <2> QED
    BY <2>1, <2>2
<1> DEFINE Share(i) == Shared(mask, other, i)
<1>4. ASSUME NEW i \in DOMAIN mask
      PROVE  /\ Share(i) \in SUBSET AllBits
             /\ 0 \in Share(i) => Share(i) = AllBits
             /\ \A x \in AllBits : x \in Share(i) <=>
                  8 * mask[i][1] + x \in Positions(mask) \cap Positions(other)
  <2>1. mask[i][1] \in Nat
    BY <1>2
  <2>2. /\ ByteAt(other, mask[i][1]) \in SUBSET AllBits
        /\ \A x \in AllBits : x \in ByteAt(other, mask[i][1]) <=> 8 * mask[i][1] + x \in Positions(other)
        /\ 0 \in ByteAt(other, mask[i][1]) => ByteAt(other, mask[i][1]) = AllBits
    BY <2>1, ByteAtIs
  <2>3. \A x \in AllBits : 8 * mask[i][1] + x \in Positions(mask) <=> x \in mask[i][2]
    BY PositionsOfByte
  <2> QED
    BY <1>2, <2>2, <2>3 DEF Shared
<1> DEFINE Upto(n) ==
             /\ IsMask(f[n], size)
             /\ \A o \in BytesOf(f[n]) : \E i \in 1 .. n : o = mask[i][1]
             /\ \A b : b \in Positions(f[n]) <=> \E i \in 1 .. n : \E x \in Share(i) : b = 8 * mask[i][1] + x
<1>5. Upto(0)
  <2>1. IsMask(<<>>, size) /\ Positions(<<>>) = {} /\ BytesOf(<<>>) = {}
    BY EmptyMask
  <2> QED
    BY <1>3, <2>1
<1>6. ASSUME NEW n \in 1 .. len, Upto(n - 1)
      PROVE  Upto(n)
  <2>1. n \in DOMAIN mask /\ n \in 1 .. n /\ (1 .. n) = (1 .. n - 1) \cup {n} /\ n \notin 1 .. n - 1
        /\ 1 .. n \subseteq DOMAIN mask
    BY <1>2
  <2> DEFINE piece == Piece(mask, other, n)
  <2>2. /\ IsMask(piece, size) /\ BytesOf(piece) \subseteq {mask[n][1]}
        /\ Positions(piece) = {8 * mask[n][1] + x : x \in Share(n)}
    <3>1. CASE Share(n) = {}
      <4>1. piece = <<>>
        BY <3>1 DEF Piece
      <4>2. IsMask(<<>>, size) /\ Positions(<<>>) = {} /\ BytesOf(<<>>) = {}
        BY EmptyMask
      <4> QED
        BY <3>1, <4>1, <4>2
    <3>2. CASE Share(n) # {}
      <4>1. piece = <<<<mask[n][1], Share(n)>>>>
        BY <3>2 DEF Piece
      <4>2. mask[n][1] \in 0 .. size - 1 /\ Share(n) \in SUBSET AllBits /\ (0 \in Share(n) => Share(n) = AllBits)
        BY <1>2, <1>4, <2>1
      <4> HIDE DEF Share, piece
      <4> QED
        BY <3>2, <4>1, <4>2, OneByteMask
    <3> QED
      BY <3>1, <3>2
  <2>3. f[n] = f[n - 1] \o piece
    BY <1>3
  <2> HIDE DEF piece
  <2>4. BytesOf(f[n - 1]) \cap BytesOf(piece) = {}
    <3>1. SUFFICES ASSUME mask[n][1] \in BytesOf(f[n - 1]) PROVE FALSE
      BY <2>2
    <3>2. PICK i \in 1 .. n - 1 : mask[n][1] = mask[i][1]
      BY <1>6, <3>1
    <3>3. i \in DOMAIN mask /\ i # n
      BY <2>1, <3>2
    <3> QED
      BY <1>2, <2>1, <3>2, <3>3
  <2>5. /\ IsMask(f[n], size) /\ BytesOf(f[n]) = BytesOf(f[n - 1]) \cup BytesOf(piece)
        /\ Positions(f[n]) = Positions(f[n - 1]) \cup Positions(piece)
    BY <1>6, <2>2, <2>3, <2>4, MasksJoin
  <2>6. \A o \in BytesOf(f[n]) : \E i \in 1 .. n : o = mask[i][1]
    BY <1>6, <2>1, <2>2, <2>5
  <2>7. ASSUME NEW b
        PROVE  b \in Positions(f[n]) <=> \E i \in 1 .. n : \E x \in Share(i) : b = 8 * mask[i][1] + x
    <3> HIDE DEF Share
    <3> QED
      BY <1>6, <2>1, <2>2, <2>5
  <2> QED
    BY <2>5, <2>6, <2>7
<1>7. Upto(len)
  <2> DEFINE Wrong == {n \in 0 .. len : ~Upto(n)}
  <2>1. SUFFICES ASSUME Wrong # {} PROVE FALSE
    <3> HIDE DEF Upto
    <3> QED
      BY <1>2
  <2>2. PICK n \in Wrong : \A m \in Wrong : n <= m
    <3>1. Wrong \in SUBSET Nat
      OBVIOUS
    <3> HIDE DEF Wrong
    <3> QED
      BY <2>1, <3>1, LeastOf
  <2> HIDE DEF Upto
  <2>3. n \in 0 .. len /\ ~Upto(n)
    BY <2>2
  <2>4. n # 0
    BY <1>5, <2>3
  <2>5. n - 1 \in 0 .. len /\ n \in 1 .. len /\ ~(n <= n - 1)
    BY <1>2, <2>3, <2>4
  <2>6. Upto(n - 1)
    BY <2>2, <2>5
  <2> QED
    BY <1>6, <2>3, <2>5, <2>6
<1>8. ASSUME NEW b
      PROVE  b \in Positions(f[len]) <=> b \in Positions(mask) \cap Positions(other)
  <2>1. ASSUME b \in Positions(f[len]) PROVE b \in Positions(mask) \cap Positions(other)
    <3>1. PICK i \in 1 .. len : \E x \in Share(i) : b = 8 * mask[i][1] + x
      BY <1>7, <2>1
    <3>2. i \in DOMAIN mask
      BY <1>2
    <3>3. PICK x \in Share(i) : b = 8 * mask[i][1] + x
      BY <3>1
    <3> HIDE DEF Share
    <3> QED
      BY <1>4, <3>2, <3>3
  <2>2. ASSUME b \in Positions(mask) \cap Positions(other) PROVE b \in Positions(f[len])
    <3>1. PICK i \in DOMAIN mask : \E x \in AllBits : x \in mask[i][2] /\ b = 8 * mask[i][1] + x
      BY <2>2, PositionsInside
    <3>2. PICK x \in AllBits : b = 8 * mask[i][1] + x
      BY <3>1
    <3> HIDE DEF Share
    <3>3. x \in Share(i) /\ i \in 1 .. len
      BY <1>2, <1>4, <2>2, <3>2
    <3> QED
      BY <1>7, <3>2, <3>3
  <2> QED
    BY <2>1, <2>2
<1> QED
  BY <1>1, <1>7, <1>8

\* The bit that is taken as a determinant is unused, and what is left is without it.
LEMMA BitIsExtracted ==
  ASSUME NEW size \in Nat, NEW mask, IsMask(mask, size), mask # <<>>,
         NEW place, place = ExtractedBit(mask)
  PROVE  /\ place = <<place[1], place[2]>>
         /\ place[1] \in Nat /\ place[1] < size /\ place[2] \in AllBits
         /\ 8 * place[1] + place[2] \in Positions(mask)
         /\ place[2] = 0 => BitsOfByte(place[1]) \subseteq Positions(mask)
         /\ IsMask(ExtractBit(mask), size)
         /\ Positions(ExtractBit(mask)) = Positions(mask) \ {8 * place[1] + place[2]}
<1>1. /\ mask \in Seq(Entry) /\ Len(mask) \in Nat /\ DOMAIN mask = 1 .. Len(mask)
      /\ \A i \in DOMAIN mask : /\ mask[i][1] \in 0 .. size - 1 /\ mask[i][1] \in Nat
                                /\ mask[i][2] \in SUBSET AllBits /\ mask[i][2] # {}
                                /\ 0 \in mask[i][2] => mask[i][2] = AllBits
      /\ \A i, j \in DOMAIN mask : mask[i][1] = mask[j][1] => i = j
  BY MaskParts
<1>2. Len(mask) # 0 /\ 1 \in DOMAIN mask
  BY <1>1, EmptySeq
<1> DEFINE o == mask[1][1]
           bits == mask[1][2]
           least == Min(bits)
           rest == bits \ {least}
           tail == Tail(mask)
<1>3. o \in 0 .. size - 1 /\ o \in Nat /\ bits \in SUBSET AllBits /\ bits # {}
      /\ (0 \in bits => bits = AllBits)
  BY <1>1, <1>2
<1>4. least \in bits /\ \A x \in bits : least <= x
  <2>1. bits \in SUBSET Nat
    BY <1>3 DEF AllBits
  <2> HIDE DEF bits
  <2> QED
    BY <1>3, <2>1, MinIsLeast
<1>5. place = <<o, least>> /\ place[1] = o /\ place[2] = least
  BY DEF ExtractedBit
<1>6. ExtractBit(mask) = IF rest = {} THEN tail ELSE <<<<o, rest>>>> \o tail
  BY DEF ExtractBit
<1>7. /\ tail \in Seq(Entry) /\ Len(tail) = Len(mask) - 1 /\ DOMAIN tail = 1 .. Len(mask) - 1
      /\ \A i \in 1 .. Len(mask) - 1 : tail[i] = mask[i + 1]
  <2>1. mask # <<>>
    OBVIOUS
  <2>2. tail \in Seq(Entry) /\ Len(tail) = Len(mask) - 1
        /\ \A i \in 1 .. Len(mask) - 1 : tail[i] = mask[i + 1]
    BY <1>1, <2>1, HeadTailProperties
  <2>3. DOMAIN tail = 1 .. Len(tail)
    BY <2>2
  <2> QED
    BY <2>2, <2>3
<1> HIDE DEF tail
<1>8. \A i \in DOMAIN tail : i + 1 \in DOMAIN mask /\ i + 1 # 1 /\ tail[i] = mask[i + 1]
  BY <1>1, <1>7
<1>9. \A j \in DOMAIN mask : j # 1 => j - 1 \in DOMAIN tail /\ tail[j - 1] = mask[j]
  <2>1. \A j \in DOMAIN mask : j # 1 => j - 1 \in 1 .. Len(mask) - 1 /\ (j - 1) + 1 = j
    BY <1>1
  <2> QED
    BY <1>7, <2>1
<1>10. /\ IsMask(tail, size) /\ o \notin BytesOf(tail)
       /\ \A b : b \in Positions(tail) <=> \E j \in DOMAIN mask : j # 1 /\ \E x \in mask[j][2] : b = 8 * mask[j][1] + x
  <2>1. \A i \in DOMAIN tail : tail[i][1] < size /\ (0 \in tail[i][2] => tail[i][2] = AllBits)
    BY <1>1, <1>8
  <2>2. ASSUME NEW i \in DOMAIN tail, NEW j \in DOMAIN tail, tail[i][1] = tail[j][1]
        PROVE  i = j
    <3>1. i + 1 = j + 1
      BY <1>1, <1>8, <2>2
    <3> QED
      BY <1>7, <3>1
  <2>3. o \notin BytesOf(tail)
    <3>1. SUFFICES ASSUME NEW i \in DOMAIN tail, tail[i][1] = o PROVE FALSE
      BY DEF BytesOf
    <3>2. i + 1 \in DOMAIN mask /\ i + 1 # 1 /\ mask[i + 1][1] = mask[1][1]
      BY <1>8, <3>1
    <3> QED
      BY <1>1, <1>2, <3>2
  <2>4. ASSUME NEW b
        PROVE  b \in Positions(tail) <=> \E j \in DOMAIN mask : j # 1 /\ \E x \in mask[j][2] : b = 8 * mask[j][1] + x
    <3>1. b \in Positions(tail) <=> \E i \in DOMAIN tail : \E x \in tail[i][2] : b = 8 * tail[i][1] + x
      BY PositionsAre
    <3>2. ASSUME b \in Positions(tail)
          PROVE  \E j \in DOMAIN mask : j # 1 /\ \E x \in mask[j][2] : b = 8 * mask[j][1] + x
      <4>1. PICK i \in DOMAIN tail : \E x \in tail[i][2] : b = 8 * tail[i][1] + x
        BY <3>1, <3>2
      <4> QED
        BY <1>8, <4>1
    <3>3. ASSUME NEW j \in DOMAIN mask, j # 1, \E x \in mask[j][2] : b = 8 * mask[j][1] + x
          PROVE  b \in Positions(tail)
      BY <1>9, <3>1, <3>3
    <3> QED
      BY <3>2, <3>3
  <2> QED
    <3>1. IsMask(tail, size)
      BY <1>7, <2>1, <2>2, MaskOf
    <3> QED
      BY <2>3, <2>4, <3>1
<1>11. \A b : b \in Positions(mask) <=> b \in Positions(tail) \/ \E x \in bits : b = 8 * o + x
  BY <1>2, <1>10, PositionsAre
<1>12. \A x \in bits : 8 * o + x \notin Positions(tail)
  <2>1. SUFFICES ASSUME NEW x \in bits, 8 * o + x \in Positions(tail) PROVE FALSE
    OBVIOUS
  <2>2. PICK i \in DOMAIN tail : \E y \in AllBits : y \in tail[i][2] /\ 8 * o + x = 8 * tail[i][1] + y
    <3> DEFINE b == 8 * o + x
    <3>1. b \in Positions(tail)
      BY <2>1
    <3>2. IsMask(tail, size)
      BY <1>10
    <3> HIDE DEF b, tail
    <3>3. \E i \in DOMAIN tail : \E y \in AllBits : y \in tail[i][2] /\ b = 8 * tail[i][1] + y
      BY <3>1, <3>2, PositionsInside
    <3> QED
      BY <3>3 DEF b
  <2>3. PICK y \in AllBits : 8 * o + x = 8 * tail[i][1] + y
    BY <2>2
  <2>4. o \in Int /\ tail[i][1] \in Int /\ x \in AllBits
    BY <1>1, <1>3, <1>8
  <2>5. \A p \in Int : 8 * o + x = 8 * p + y => o = p
    <3> HIDE DEF o
    <3>1. x \in 0 .. 7 /\ y \in 0 .. 7
      BY <2>4 DEF AllBits
    <3> QED
      BY <2>4, <3>1
  <2>6. o = tail[i][1]
    BY <2>3, <2>4, <2>5
  <2> QED
    BY <1>10, <2>6 DEF BytesOf
<1>13. \A x, y \in bits : 8 * o + x = 8 * o + y => x = y
  BY <1>3, PlacesOfBits
<1>14. IsMask(ExtractBit(mask), size) /\ \A b : b \in Positions(ExtractBit(mask)) <=> b \in Positions(tail) \/ \E x \in rest : b = 8 * o + x
  <2>1. CASE rest = {}
    BY <1>6, <1>10, <2>1
  <2>2. CASE rest # {}
    <3>1. rest \in SUBSET AllBits /\ 0 \notin rest
      <4>1. 0 \in bits => 0 \in bits /\ least <= 0 /\ least \in 0 .. 7
        BY <1>3, <1>4 DEF AllBits
      <4>2. 0 \in bits => least = 0
        BY <4>1
      <4> QED
        BY <1>3, <4>2
    <3> DEFINE one == <<<<o, rest>>>>
    <3>2. IsMask(one, size) /\ BytesOf(one) = {o} /\ Positions(one) = {8 * o + x : x \in rest}
      <4> HIDE DEF o, rest
      <4> QED
        BY <1>3, <2>2, <3>1, OneByteMask
    <3>3. ExtractBit(mask) = one \o tail
      BY <1>6, <2>2
    <3>4. BytesOf(one) \cap BytesOf(tail) = {}
      BY <1>10, <3>2
    <3> HIDE DEF one, o, rest
    <3> QED
      BY <1>10, <3>2, <3>3, <3>4, MasksJoin
  <2> QED
    BY <2>1, <2>2
<1>15. Positions(ExtractBit(mask)) = Positions(mask) \ {8 * o + least}
  <2>1. \A x \in bits : x \in rest <=> 8 * o + x # 8 * o + least
    BY <1>4, <1>13
  <2> HIDE DEF o, bits, least
  <2> QED
    BY <1>4, <1>11, <1>12, <1>14, <2>1
<1>16. least = 0 => BitsOfByte(o) \subseteq Positions(mask)
  <2>1. SUFFICES ASSUME least = 0, NEW b \in BitsOfByte(o) PROVE b \in Positions(mask)
    OBVIOUS
  <2>2. bits = AllBits
    BY <1>3, <1>4, <2>1
  <2>3. b - 8 * o \in AllBits /\ b = 8 * o + (b - 8 * o)
    BY <1>3, BitsHavePlaces
  <2> QED
    BY <1>11, <2>2, <2>3
<1>17. least \in AllBits /\ o < size /\ 8 * o + least \in Positions(mask)
  BY <1>3, <1>4, <1>11
<1> QED
  BY <1>3, <1>5, <1>14, <1>15, <1>16, <1>17

-----------------------------------------------------------------------------
(* What a variant leaves unused in a union of `size` bytes, where it starts *)
(* with byte `at` *)

Free(T, at, size) ==
  {b \in BitsOfBytes(0, size) : b - 8 * at \in BitsOfBytes(0, T.size) => b - 8 * at \in Positions(T.ub)}

LEMMA UnusedIsFree ==
  ASSUME NEW T, T.size \in Nat, IsMask(T.ub, T.size),
         NEW at \in Nat, NEW size \in Nat, at + T.size <= size
  PROVE  IsMask(UnusedAt(T, size, at), size) /\ Positions(UnusedAt(T, size, at)) = Free(T, at, size)
<1> DEFINE before == PaddingBits(0, at)
           within == ShiftMask(T.ub, at)
           behind == PaddingBits(at + T.size, size - (at + T.size))
<1>1. /\ IsMask(before, size) /\ BytesOf(before) = 0 .. at - 1 /\ Positions(before) = BitsOfBytes(0, at)
  <2>1. 0 + at = at /\ at <= size /\ 0 + at - 1 = at - 1 /\ 0 \in Nat
    OBVIOUS
  <2>2. /\ IsMask(before, 0 + at) /\ BytesOf(before) = 0 .. 0 + at - 1
        /\ Positions(before) = BitsOfBytes(0, at)
    BY <2>1, PaddingMask
  <2> HIDE DEF before
  <2> QED
    BY <2>1, <2>2, WiderMask
<1>2. /\ IsMask(within, size) /\ BytesOf(within) \subseteq at .. at + T.size - 1
      /\ Positions(within) = ShiftBits(Positions(T.ub), at)
  <2>1. T.size + at <= size /\ T.size + at \in Nat
    OBVIOUS
  <2>2. /\ IsMask(within, T.size + at) /\ BytesOf(within) \subseteq at .. at + T.size - 1
        /\ Positions(within) = ShiftBits(Positions(T.ub), at)
    BY ShiftedMask
  <2> HIDE DEF within
  <2> QED
    BY <2>1, <2>2, WiderMask
<1>3. /\ IsMask(behind, size) /\ BytesOf(behind) = at + T.size .. size - 1
      /\ Positions(behind) = {b \in BitsOfBytes(0, size) : 8 * (at + T.size) <= b}
  <2> DEFINE start == at + T.size
             n == size - start
  <2>1. start \in Nat /\ n \in Nat /\ start + n = size
    OBVIOUS
  <2>2. /\ IsMask(behind, start + n) /\ BytesOf(behind) = start .. start + n - 1
        /\ Positions(behind) = BitsOfBytes(start, n)
    <3>1. behind = PaddingBits(start, n)
      OBVIOUS
    <3> HIDE DEF start, n, behind
    <3>2. /\ IsMask(PaddingBits(start, n), start + n)
          /\ BytesOf(PaddingBits(start, n)) = start .. start + n - 1
          /\ Positions(PaddingBits(start, n)) = BitsOfBytes(start, n)
      BY <2>1, PaddingMask
    <3> QED
      BY <3>1, <3>2
  <2>3. BitsOfBytes(start, n) = {b \in BitsOfBytes(0, size) : 8 * start <= b}
    <3>1. 8 * (start + n) = 8 * size /\ 8 * 0 = 0 /\ 0 + size = size
      BY <2>1
    <3> HIDE DEF start, n
    <3>2. BitsOfBytes(start, n) = 8 * start .. 8 * size - 1 /\ BitsOfBytes(0, size) = 0 .. 8 * size - 1
      BY <3>1 DEF BitsOfBytes
    <3>3. 8 * start \in Nat /\ 8 * size - 1 \in Int
      BY <2>1
    <3> QED
      BY <3>2, <3>3
  <2>4. start .. start + n - 1 = start .. size - 1
    <3>1. start + n - 1 = size - 1
      BY <2>1
    <3> HIDE DEF start, n
    <3> QED
      BY <3>1
  <2>5. IsMask(behind, size)
    <3> HIDE DEF behind, n, start
    <3> QED
      BY <2>1, <2>2
  <2> HIDE DEF behind
  <2> QED
    BY <2>2, <2>3, <2>4, <2>5
<1> HIDE DEF before, within, behind
<1>4. /\ IsMask(before \o within, size)
      /\ BytesOf(before \o within) = BytesOf(before) \cup BytesOf(within)
      /\ Positions(before \o within) = Positions(before) \cup Positions(within)
  <2>1. BytesOf(before) \cap BytesOf(within) = {}
    BY <1>1, <1>2
  <2> QED
    BY <1>1, <1>2, <2>1, MasksJoin
<1>5. /\ IsMask((before \o within) \o behind, size)
      /\ Positions((before \o within) \o behind)
           = Positions(before) \cup Positions(within) \cup Positions(behind)
  <2>1. BytesOf(before \o within) \cap BytesOf(behind) = {}
    BY <1>1, <1>2, <1>3, <1>4
  <2> QED
    BY <1>3, <1>4, <2>1, MasksJoin
<1>6. UnusedAt(T, size, at) = (before \o within) \o behind
  BY DEF UnusedAt, before, within, behind
<1>7. \A b \in Positions(T.ub) : b \in BitsOfBytes(0, T.size)
  BY PositionsInside DEF BitsOfBytes
<1>8. ASSUME NEW b
      PROVE  b \in Positions(before) \cup Positions(within) \cup Positions(behind) <=> b \in Free(T, at, size)
  <2>1. ASSUME b \in Free(T, at, size)
        PROVE  b \in Positions(before) \cup Positions(within) \cup Positions(behind)
    <3>1. b \in 0 .. 8 * size - 1
      BY <2>1 DEF Free, BitsOfBytes
    <3>2. CASE b < 8 * at
      BY <1>1, <3>1, <3>2 DEF BitsOfBytes
    <3>3. CASE 8 * (at + T.size) <= b
      BY <1>3, <3>1, <3>3 DEF BitsOfBytes
    <3>4. CASE 8 * at <= b /\ b < 8 * (at + T.size)
      <4>1. b - 8 * at \in BitsOfBytes(0, T.size) /\ (b - 8 * at) + 8 * at = b
        BY <3>1, <3>4 DEF BitsOfBytes
      <4>2. b - 8 * at \in Positions(T.ub)
        BY <2>1, <4>1 DEF Free
      <4> QED
        BY <1>2, <4>1, <4>2 DEF ShiftBits
    <3> QED
      BY <3>1, <3>2, <3>3, <3>4
  <2>2. ASSUME b \in Positions(before) PROVE b \in Free(T, at, size)
    BY <1>1, <2>2 DEF Free, BitsOfBytes
  <2>3. ASSUME b \in Positions(within) PROVE b \in Free(T, at, size)
    <3>1. PICK c \in Positions(T.ub) : b = c + 8 * at
      BY <1>2, <2>3 DEF ShiftBits
    <3>2. c \in 0 .. 8 * T.size - 1
      BY <1>7 DEF BitsOfBytes
    <3>3. b \in BitsOfBytes(0, size) /\ b - 8 * at = c
      BY <3>1, <3>2 DEF BitsOfBytes
    <3> QED
      BY <3>1, <3>3 DEF Free
  <2>4. ASSUME b \in Positions(behind) PROVE b \in Free(T, at, size)
    BY <1>3, <2>4 DEF Free, BitsOfBytes
  <2> QED
    BY <2>1, <2>2, <2>3, <2>4
<1> QED
  BY <1>5, <1>6, <1>8

-----------------------------------------------------------------------------
(* Setting and reading a determinant *)

Touched(det, at) ==
  CASE det.kind = "value" -> BytesAt(det, at)
    [] det.kind = "bit"   -> TouchedAt(det, at)
    [] det.kind = "tag"   -> BitsOfByte(at)

Same(m, n, b) == (b \in m.one <=> b \in n.one) /\ (b \in m.undef <=> b \in n.undef)

LEMMA ValueParts ==
  ASSUME NEW det, IsDeterminant(det), det.kind = "value"
  PROVE  /\ \A e \in det.bytes : e[1] \in Nat /\ e[2] \in Byte
         /\ \A e, f \in det.bytes : e[1] = f[1] => e = f
BY DEF IsDeterminant

LEMMA OnesAreInBytes ==
  ASSUME NEW det, IsDeterminant(det), det.kind = "value", NEW at \in Nat
  PROVE  /\ OnesAt(det, at) \subseteq BytesAt(det, at)
         /\ \A e \in det.bytes : \A x \in AllBits :
              8 * (at + e[1]) + x \in OnesAt(det, at) <=> x \in BitsOf(e[2])
<1>1. /\ \A e \in det.bytes : e[1] \in Nat
      /\ \A e, f \in det.bytes : e[1] = f[1] => e = f
  BY ValueParts
<1>2. \A v : BitsOf(v) \subseteq AllBits
  BY DEF BitsOf
<1>3. ASSUME NEW b \in OnesAt(det, at) PROVE b \in BytesAt(det, at)
  <2>1. PICK e \in det.bytes : b \in {8 * (at + e[1]) + x : x \in BitsOf(e[2])}
    BY <1>3 DEF OnesAt
  <2>2. PICK x \in AllBits : b = 8 * (at + e[1]) + x
    BY <1>2, <2>1
  <2>3. b \in BitsOfByte(at + e[1])
    <3>1. at + e[1] \in Int
      BY <1>1
    <3> QED
      BY <2>2, <3>1, PlacesOfBits
  <2> QED
    BY <2>3 DEF BytesAt
<1>4. ASSUME NEW e \in det.bytes, NEW x \in AllBits, 8 * (at + e[1]) + x \in OnesAt(det, at)
      PROVE  x \in BitsOf(e[2])
  <2>1. PICK f \in det.bytes : 8 * (at + e[1]) + x \in {8 * (at + f[1]) + y : y \in BitsOf(f[2])}
    BY <1>4 DEF OnesAt
  <2>2. PICK y \in BitsOf(f[2]) : 8 * (at + e[1]) + x = 8 * (at + f[1]) + y
    BY <2>1
  <2>3. at + e[1] = at + f[1] /\ x = y
    <3>1. at + e[1] \in Int /\ at + f[1] \in Int /\ y \in AllBits
      BY <1>1, <1>2
    <3> QED
      BY <2>2, <3>1, PlacesOfBits
  <2>4. e = f
    BY <1>1, <2>3
  <2> QED
    BY <2>2, <2>3, <2>4
<1> QED
  BY <1>3, <1>4 DEF OnesAt

LEMMA BitParts ==
  ASSUME NEW det, IsDeterminant(det), det.kind = "bit", NEW at \in Nat
  PROVE  /\ det.byte \in Nat /\ det.bit \in AllBits /\ BitAt(det, at) \in Nat
         /\ BitAt(det, at) \in BitsOfByte(at + det.byte)
         /\ BitAt(det, at) \in TouchedAt(det, at)
<1>1. det.byte \in Nat /\ det.bit \in AllBits
  BY DEF IsDeterminant
<1>2. BitAt(det, at) \in Nat /\ BitAt(det, at) \in BitsOfByte(at + det.byte)
  BY <1>1 DEF BitAt, BitsOfByte, AllBits
<1> QED
  BY <1>1, <1>2 DEF TouchedAt

\* What a determinant leaves alone, and what it makes of the rest.
LEMMA MarkKeeps ==
  ASSUME NEW det, IsDeterminant(det), NEW at \in Nat, NEW err \in BOOLEAN, NEW old,
         NEW new, new = MarkErr(det, err, old, at)
  PROVE  /\ \A b : b \notin Touched(det, at) => Same(old, new, b)
         /\ new.one \subseteq old.one \cup Touched(det, at) /\ new.undef \subseteq old.undef
         /\ det.kind = "value" /\ ~err => new = old
<1>1. det.kind \in {"value", "bit", "tag"}
  BY DEF IsDeterminant
<1>2. CASE det.kind = "value"
  <2>1. OnesAt(det, at) \subseteq BytesAt(det, at) /\ Touched(det, at) = BytesAt(det, at)
    BY <1>2, OnesAreInBytes DEF Touched
  <2>2. new = IF err THEN SetBits(old, BytesAt(det, at), OnesAt(det, at)) ELSE old
    BY <1>2 DEF MarkErr
  <2> QED
    BY <2>1, <2>2 DEF SetBits, Same
<1>3. CASE det.kind = "bit"
  <2>1. BitAt(det, at) \in TouchedAt(det, at) /\ Touched(det, at) = TouchedAt(det, at)
    BY <1>3, BitParts DEF Touched
  <2>2. new = SetBits(old, TouchedAt(det, at), IF err THEN {BitAt(det, at)} ELSE {})
    BY <1>3 DEF MarkErr
  <2> QED
    BY <1>3, <2>1, <2>2 DEF SetBits, Same
<1>4. CASE det.kind = "tag"
  <2>1. 8 * at \in BitsOfByte(at) /\ Touched(det, at) = BitsOfByte(at)
    BY <1>4 DEF Touched, BitsOfByte
  <2>2. new = SetBits(old, BitsOfByte(at), IF err THEN {8 * at} ELSE {})
    BY <1>4 DEF MarkErr
  <2> QED
    BY <1>4, <2>1, <2>2 DEF SetBits, Same
<1> QED
  BY <1>1, <1>2, <1>3, <1>4

\* What was set is read, by any build.
LEMMA MarkIsRead ==
  ASSUME NEW det, IsDeterminant(det), NEW at \in Nat, NEW err \in BOOLEAN, NEW old,
         NEW build \in BOOLEAN, ~(det.kind = "value" /\ ~err)
  PROVE  ReadsErr(det, build, MarkErr(det, err, old, at), at) = {err}
<1> DEFINE new == MarkErr(det, err, old, at)
           bits == LooksAt(det, build, at)
<1>1. det.kind \in {"value", "bit", "tag"}
  BY DEF IsDeterminant
<1>2. CASE det.kind = "value"
  <2>1. err = TRUE /\ bits = BytesAt(det, at) /\ OnesAt(det, at) \subseteq BytesAt(det, at)
    BY <1>2, OnesAreInBytes DEF LooksAt
  <2>2. new = SetBits(old, BytesAt(det, at), OnesAt(det, at))
    BY <1>2, <2>1 DEF MarkErr
  <2>3. MayBe(new, bits, OnesAt(det, at)) /\ MustBe(new, bits, OnesAt(det, at))
    BY <2>1, <2>2 DEF SetBits, MayBe, MustBe
  <2> QED
    BY <1>2, <2>1, <2>3 DEF ReadsErr
<1>3. ASSUME bits \cap new.undef = {}, \A b \in bits : b \in new.one => err,
             err => bits \cap new.one # {}, det.kind # "value"
      PROVE  ReadsErr(det, build, new, at) = {err}
  <2>1. MayBe(new, bits, {}) <=> ~err
    BY <1>3 DEF MayBe
  <2>2. MustBe(new, bits, {}) <=> ~err
    BY <1>3, <2>1 DEF MustBe
  <2> QED
    BY <1>3, <2>1, <2>2 DEF ReadsErr
<1>4. CASE det.kind = "bit"
  <2>1. bits = {BitAt(det, at)} /\ BitAt(det, at) \in TouchedAt(det, at)
    <3>1. BitAt(det, at) \in TouchedAt(det, at)
      BY <1>4, BitParts
    <3> QED
      BY <1>4, <3>1 DEF LooksAt
  <2>2. new = SetBits(old, TouchedAt(det, at), IF err THEN {BitAt(det, at)} ELSE {})
    BY <1>4 DEF MarkErr
  <2> QED
    <3>1. /\ new.one = (old.one \ TouchedAt(det, at)) \cup IF err THEN {BitAt(det, at)} ELSE {}
          /\ new.undef = old.undef \ TouchedAt(det, at)
      BY <2>2 DEF SetBits
    <3>2. /\ bits \cap new.undef = {} /\ \A b \in bits : b \in new.one => err
          /\ err => bits \cap new.one # {}
      BY <2>1, <3>1
    <3> QED
      BY <1>3, <1>4, <3>2
<1>5. CASE det.kind = "tag"
  <2>1. 8 * at \in bits /\ bits \subseteq BitsOfByte(at)
    BY <1>5 DEF LooksAt, BitsOfByte
  <2>2. new = SetBits(old, BitsOfByte(at), IF err THEN {8 * at} ELSE {})
    BY <1>5 DEF MarkErr
  <2>3. bits \cap new.undef = {} /\ (\A b \in bits : b \in new.one => err) /\ (err => 8 * at \in new.one)
    <3> HIDE DEF bits, new
    <3> QED
      BY <2>1, <2>2 DEF SetBits
  <2>4. det.kind # "value" /\ (err => bits \cap new.one # {})
    BY <1>5, <2>1, <2>3
  <2> HIDE DEF bits, new
  <2>5. ReadsErr(det, build, new, at) = {err}
    BY <1>3, <2>3, <2>4
  <2> QED
    BY <2>5 DEF new
<1> QED
  BY <1>1, <1>2, <1>4, <1>5

-----------------------------------------------------------------------------
(* Determinants of what lies within a type *)

LEMMA LooksShift ==
  ASSUME NEW det, IsDeterminant(det), NEW build \in BOOLEAN, NEW at \in Nat, NEW by \in Nat
  PROVE  /\ LooksAt(det, build, at) \subseteq Int
         /\ LooksAt(det, build, at + by) = ShiftBits(LooksAt(det, build, at), by)
<1>1. det.kind \in {"value", "bit", "tag"}
  BY DEF IsDeterminant
<1>2. ASSUME NEW o \in Nat
      PROVE  BitsOfByte(o) \subseteq Int /\ BitsOfByte(o + by) = ShiftBits(BitsOfByte(o), by)
  <2>1. \A b \in BitsOfByte(o + by) : b - 8 * by \in BitsOfByte(o) /\ b = (b - 8 * by) + 8 * by
    BY DEF BitsOfByte
  <2>2. \A b \in BitsOfByte(o) : b + 8 * by \in BitsOfByte(o + by)
    BY DEF BitsOfByte
  <2> QED
    BY <2>1, <2>2 DEF ShiftBits, BitsOfByte
<1>3. CASE det.kind = "value"
  <2>1. \A m \in BOOLEAN, a \in Nat : LooksAt(det, m, a) = BytesAt(det, a)
    BY <1>3 DEF LooksAt
  <2>2. \A e \in det.bytes : e[1] \in Nat
    BY <1>3, ValueParts
  <2>3. \A e \in det.bytes : /\ BitsOfByte(at + e[1]) \subseteq Int
                             /\ BitsOfByte((at + by) + e[1]) = ShiftBits(BitsOfByte(at + e[1]), by)
    <3>1. \A e \in det.bytes : at + e[1] \in Nat /\ (at + by) + e[1] = (at + e[1]) + by
      BY <2>2
    <3> QED
      BY <1>2, <3>1
  <2>4. BytesAt(det, at + by) = ShiftBits(BytesAt(det, at), by)
    <3>1. ASSUME NEW b \in BytesAt(det, at + by) PROVE b \in ShiftBits(BytesAt(det, at), by)
      <4>1. PICK e \in det.bytes : b \in BitsOfByte((at + by) + e[1])
        BY <3>1 DEF BytesAt
      <4>2. PICK c \in BitsOfByte(at + e[1]) : b = c + 8 * by
        BY <2>3, <4>1 DEF ShiftBits
      <4> QED
        BY <4>2 DEF BytesAt, ShiftBits
    <3>2. ASSUME NEW c \in BytesAt(det, at) PROVE c + 8 * by \in BytesAt(det, at + by)
      <4>1. PICK e \in det.bytes : c \in BitsOfByte(at + e[1])
        BY <3>2 DEF BytesAt
      <4>2. c + 8 * by \in BitsOfByte((at + by) + e[1])
        BY <2>3, <4>1 DEF ShiftBits
      <4> QED
        BY <4>2 DEF BytesAt
    <3> QED
      BY <3>1, <3>2 DEF ShiftBits
  <2>5. BytesAt(det, at) \subseteq Int
    BY <2>3 DEF BytesAt
  <2>6. at + by \in Nat
    OBVIOUS
  <2> QED
    BY <2>1, <2>4, <2>5, <2>6
<1>4. CASE det.kind = "bit"
  <2>1. \A a : LooksAt(det, build, a) = {BitAt(det, a)}
    BY <1>4 DEF LooksAt
  <2>2. det.byte \in Nat /\ det.bit \in AllBits
    BY <1>4, BitParts
  <2>3. BitAt(det, at) \in Int /\ BitAt(det, at + by) = BitAt(det, at) + 8 * by
    BY <2>2 DEF BitAt, AllBits
  <2> QED
    BY <2>1, <2>3 DEF ShiftBits
<1>5. CASE det.kind = "tag"
  <2>1. \A a : LooksAt(det, build, a) = IF build THEN {8 * a} ELSE BitsOfByte(a)
    BY <1>5 DEF LooksAt
  <2>2. {8 * (at + by)} = ShiftBits({8 * at}, by) /\ {8 * at} \subseteq Int
    BY DEF ShiftBits
  <2> QED
    BY <1>2, <2>1, <2>2
<1> QED
  BY <1>1, <1>3, <1>4, <1>5

LEMMA OnesShift ==
  ASSUME NEW det, IsDeterminant(det), det.kind = "value", NEW at \in Nat, NEW by \in Nat,
         NEW b \in BytesAt(det, at)
  PROVE  b + 8 * by \in OnesAt(det, at + by) <=> b \in OnesAt(det, at)
<1>1. \A e \in det.bytes : e[1] \in Nat
  BY ValueParts
<1>2. PICK e \in det.bytes : b \in BitsOfByte(at + e[1])
  BY DEF BytesAt
<1> DEFINE x == b - 8 * (at + e[1])
<1>3. x \in AllBits /\ b = 8 * (at + e[1]) + x /\ b \in Int
  BY <1>1, <1>2, BitsHavePlaces
<1>4. b + 8 * by = 8 * ((at + by) + e[1]) + x
  BY <1>1, <1>3
<1> HIDE DEF x
<1>5. at + by \in Nat
  OBVIOUS
<1>6. b \in OnesAt(det, at) <=> x \in BitsOf(e[2])
  BY <1>2, <1>3, OnesAreInBytes
<1>7. b + 8 * by \in OnesAt(det, at + by) <=> x \in BitsOf(e[2])
  BY <1>2, <1>3, <1>4, <1>5, OnesAreInBytes
<1> QED
  BY <1>6, <1>7

\* Reading depends on the bits that it looks at, wherever they are.
LEMMA ReadsDepend ==
  ASSUME NEW det, IsDeterminant(det), NEW build \in BOOLEAN, NEW at \in Nat, NEW by \in Nat,
         NEW m, NEW n,
         \A b \in LooksAt(det, build, at) : /\ b + 8 * by \in n.one <=> b \in m.one
                                            /\ b + 8 * by \in n.undef <=> b \in m.undef
  PROVE  ReadsAs(det, build, n, at + by) = ReadsAs(det, build, m, at)
<1> DEFINE bits == LooksAt(det, build, at)
           far == LooksAt(det, build, at + by)
<1>1. bits \subseteq Int /\ far = ShiftBits(bits, by)
  BY LooksShift
<1>2. ASSUME NEW one, NEW other, \A b \in bits : b + 8 * by \in other <=> b \in one
      PROVE  /\ MayBe(n, far, other) <=> MayBe(m, bits, one)
             /\ MustBe(n, far, other) <=> MustBe(m, bits, one)
  <2> HIDE DEF bits, far
  <2>1. MayBe(n, far, other) <=> \A b \in bits : b + 8 * by \notin n.undef => (b + 8 * by \in n.one <=> b + 8 * by \in other)
    BY <1>1 DEF MayBe, ShiftBits
  <2>2. MayBe(m, bits, one) <=> \A b \in bits : b \notin m.undef => (b \in m.one <=> b \in one)
    BY DEF MayBe
  <2>3. MayBe(n, far, other) <=> MayBe(m, bits, one)
    BY <1>2, <2>1, <2>2 DEF bits
  <2>4. far \cap n.undef = {} <=> bits \cap m.undef = {}
    BY <1>1 DEF ShiftBits, bits
  <2> QED
    BY <2>3, <2>4 DEF MustBe
<1> HIDE DEF far
<1>3. CASE det.kind = "value"
  <2>1. bits = BytesAt(det, at)
    BY <1>3 DEF LooksAt
  <2>2. \A b \in bits : b + 8 * by \in OnesAt(det, at + by) <=> b \in OnesAt(det, at)
    BY <1>3, <2>1, OnesShift
  <2> HIDE DEF bits
  <2>3. /\ MayBe(n, far, OnesAt(det, at + by)) <=> MayBe(m, bits, OnesAt(det, at))
        /\ MustBe(n, far, OnesAt(det, at + by)) <=> MustBe(m, bits, OnesAt(det, at))
    BY <1>2, <2>2
  <2>4. ReadsErr(det, build, n, at + by) = ReadsErr(det, build, m, at)
    BY <1>3, <2>3 DEF ReadsErr, bits, far
  <2> QED
    BY <2>4 DEF ReadsAs
<1>4. CASE det.kind # "value"
  <2> HIDE DEF bits
  <2>1. MayBe(n, far, {}) <=> MayBe(m, bits, {})
    BY <1>2
  <2>2. MustBe(n, far, {}) <=> MustBe(m, bits, {})
    BY <1>2
  <2>4. ReadsErr(det, build, n, at + by) = ReadsErr(det, build, m, at)
    BY <1>4, <2>1, <2>2 DEF ReadsErr, bits, far
  <2> QED
    BY <2>4 DEF ReadsAs
<1> QED
  BY <1>3, <1>4

-----------------------------------------------------------------------------
(* A variant under its determinant *)

\* The determinant may be set in unused bits of this variant, or else no value
\* of it has the determinant's.
Differs(v, at, e) ==
  /\ \A b \in BitsOfByte(e[1]) : b - 8 * at \in v.care
  /\ \E x \in AllBits : ~((8 * e[1] + x) - 8 * at \in v.one <=> x \in BitsOf(e[2]))

Suits(det, T, at, err, size) ==
  IF det.kind = "value"
  THEN IF err THEN BytesAt(det, 0) \subseteq Free(T, at, size)
       ELSE \A v \in T.vals : \E e \in det.bytes : Differs(v, at, e)
  ELSE det.kind = "bit" => TouchedAt(det, 0) \subseteq Free(T, at, size)

\* Where a variant and its determinant are in a type.
Placed(det, T, at, err, front, R) ==
  /\ T.size \in Nat /\ IsMask(T.ub, T.size) /\ at \in Nat /\ front \in Nat /\ err \in BOOLEAN
  /\ \A v \in T.vals : IsValue(v, T)
  /\ IsDeterminant(det) /\ IF det.kind = "tag" THEN front # 0 ELSE front = 0
  /\ R.size \in Nat /\ front + at + T.size <= R.size /\ R.fv = Nothing
  /\ Suits(det, T, at, err, R.size)
  /\ \A x \in BitsOfBytes(0, T.size) : x + 8 * (front + at) \in Positions(R.ub) => x \in Positions(T.ub)
  /\ LooksAt(det, TRUE, 0) \subseteq BitsOfBytes(0, R.size) \ Positions(R.ub)
  /\ Touched(det, 0) \subseteq BitsOfBytes(0, R.size)

\* What is written when the determinant is set.
Written(det, err) == IF det.kind = "value" /\ ~err THEN {} ELSE Touched(det, 0)

LEMMA WrittenIsFree ==
  ASSUME NEW det, NEW T, NEW at, NEW err, NEW front, NEW R, Placed(det, T, at, err, front, R),
         NEW x \in BitsOfBytes(0, T.size), x + 8 * (front + at) \in Written(det, err)
  PROVE  x \in Positions(T.ub) /\ det.kind # "tag"
<1>1. /\ det.kind \in {"value", "bit", "tag"} /\ T.size \in Nat /\ at \in Nat /\ front \in Nat
      /\ R.size \in Nat /\ x \in Int /\ 0 <= x /\ x < 8 * T.size
  BY DEF Placed, IsDeterminant, BitsOfBytes
<1>2. det.kind # "tag"
  <2>1. SUFFICES ASSUME det.kind = "tag" PROVE FALSE
    OBVIOUS
  <2>2. front # 0 /\ x + 8 * (front + at) \in BitsOfByte(0)
    BY <2>1 DEF Placed, Written, Touched
  <2> QED
    BY <1>1, <2>2 DEF BitsOfByte
<1>3. front = 0 /\ x + 8 * (front + at) = x + 8 * at
  BY <1>1, <1>2 DEF Placed
<1>4. x + 8 * at \in Free(T, at, R.size)
  <2>1. CASE det.kind = "value"
    BY <1>3, <2>1 DEF Placed, Suits, Written, Touched
  <2>2. CASE det.kind = "bit"
    BY <1>3, <2>2 DEF Placed, Suits, Written, Touched
  <2> QED
    BY <1>1, <1>2, <2>1, <2>2
<1>5. (x + 8 * at) - 8 * at = x
  BY <1>1
<1> QED
  BY <1>2, <1>4, <1>5 DEF Free

\* The value is in memory as it was, but for its unused bits.
IsStored(det, T, to, err, R, v, ok, w) ==
  /\ \A x \in BitsOfBytes(0, T.size) : x + 8 * to \notin Written(det, err) =>
       /\ x + 8 * to \in w.one <=> x \in v.one
       /\ x + 8 * to \in w.undef <=> x \in v.undef
  /\ w.one \cup w.undef \subseteq BitsOfBytes(0, R.size)
  /\ \A build \in BOOLEAN : ReadsAs(det, build, w, 0) = {ok}

LEMMA ValueStays ==
  ASSUME NEW det, NEW T, NEW at, NEW err, NEW front, NEW R, Placed(det, T, at, err, front, R),
         NEW v \in T.vals, NEW ok \in BOOLEAN, err <=> ok = det.not,
         NEW w, w = Made(Choice(det, 0, ok), v, front + at, T.size)
  PROVE  IsStored(det, T, front + at, err, R, v, ok, w)
<1> DEFINE to == front + at
           old == Write(Zeroed, v, to, T.size)
           new == MarkErr(det, err, old, 0)
<1>1. /\ T.size \in Nat /\ at \in Nat /\ front \in Nat /\ R.size \in Nat /\ front + at + T.size <= R.size
      /\ IsDeterminant(det) /\ err \in BOOLEAN
      /\ v.one \cup v.undef \cup v.care \subseteq BitsOfBytes(0, T.size)
  BY DEF Placed, IsValue
<1>2. old.one = ShiftBits(v.one, to) /\ old.undef = ShiftBits(v.undef, to)
  BY DEF Write, Zeroed
<1>3. w.one = new.one /\ w.undef = new.undef
  BY DEF Made, Choice, MarkAs
<1>4. /\ \A b : b \notin Touched(det, 0) => Same(old, new, b)
      /\ new.one \subseteq old.one \cup Touched(det, 0) /\ new.undef \subseteq old.undef
      /\ det.kind = "value" /\ ~err => new = old
  <2>1. new = MarkErr(det, err, old, 0) /\ 0 \in Nat
    OBVIOUS
  <2> HIDE DEF old, new
  <2> QED
    BY <1>1, <2>1, MarkKeeps
<1> HIDE DEF old, new
<1>5. ASSUME NEW x \in BitsOfBytes(0, T.size), NEW S \in SUBSET BitsOfBytes(0, T.size)
      PROVE  x + 8 * to \in ShiftBits(S, to) <=> x \in S
  <2>1. \A y \in S : y \in Int
    BY DEF BitsOfBytes
  <2>2. x \in Int /\ to \in Int
    BY <1>1 DEF BitsOfBytes
  <2> HIDE DEF to
  <2>3. \A y \in S : x + 8 * to = y + 8 * to => x = y
    BY <2>1, <2>2
  <2> QED
    BY <2>3 DEF ShiftBits
<1>6. \A x \in BitsOfBytes(0, T.size) : x + 8 * to \notin Written(det, err) =>
        /\ x + 8 * to \in w.one <=> x \in v.one
        /\ x + 8 * to \in w.undef <=> x \in v.undef
  <2>1. SUFFICES ASSUME NEW x \in BitsOfBytes(0, T.size), x + 8 * to \notin Written(det, err)
                 PROVE  /\ x + 8 * to \in w.one <=> x \in v.one
                        /\ x + 8 * to \in w.undef <=> x \in v.undef
    OBVIOUS
  <2>2. /\ x + 8 * to \in old.one <=> x \in v.one
        /\ x + 8 * to \in old.undef <=> x \in v.undef
    BY <1>1, <1>2, <1>5
  <2>3. Same(old, new, x + 8 * to)
    BY <1>4, <2>1 DEF Written, Same
  <2> QED
    BY <1>3, <2>2, <2>3 DEF Same
<1>7. w.one \cup w.undef \subseteq BitsOfBytes(0, R.size)
  <2>1. Touched(det, 0) \subseteq BitsOfBytes(0, R.size)
    BY DEF Placed
  <2>2. ASSUME NEW S \in SUBSET BitsOfBytes(0, T.size)
        PROVE  ShiftBits(S, to) \subseteq BitsOfBytes(0, R.size)
    <3>1. \A x \in BitsOfBytes(0, T.size) : x + 8 * to \in BitsOfBytes(0, R.size)
      BY <1>1 DEF BitsOfBytes
    <3> QED
      BY <3>1 DEF ShiftBits
  <2>3. old.one \cup old.undef \subseteq BitsOfBytes(0, R.size)
    BY <1>1, <1>2, <2>2
  <2> QED
    BY <1>3, <1>4, <2>1, <2>3
<1>8. ASSUME NEW build \in BOOLEAN
      PROVE  ReadsAs(det, build, w, 0) = {ok}
  <2>1. ReadsErr(det, build, w, 0) = {err}
    <3>1. ReadsErr(det, build, w, 0) = ReadsErr(det, build, new, 0)
      BY <1>3 DEF ReadsErr, MayBe, MustBe
    <3>2. CASE ~(det.kind = "value" /\ ~err)
      <4>1. ReadsErr(det, build, new, 0) = {err}
        <5>1. ReadsErr(det, build, MarkErr(det, err, old, 0), 0) = {err}
          <6>1. 0 \in Nat
            OBVIOUS
          <6> QED
            BY <1>1, <3>2, <6>1, MarkIsRead
        <5> QED
          BY <5>1 DEF new
      <4> QED
        BY <3>1, <4>1
    <3>3. CASE det.kind = "value" /\ ~err
      <4>1. PICK e \in det.bytes : Differs(v, at, e)
        BY <3>3 DEF Placed, Suits
      <4>2. PICK x \in AllBits : ~((8 * e[1] + x) - 8 * at \in v.one <=> x \in BitsOf(e[2]))
        BY <4>1 DEF Differs
      <4> DEFINE b == 8 * e[1] + x
      <4>13. ~(b - 8 * at \in v.one <=> x \in BitsOf(e[2]))
        BY <4>2
      <4>3. front = 0 /\ e[1] \in Nat /\ x \in 0 .. 7
        BY <3>3, ValueParts DEF Placed, AllBits
      <4>4. b \in BitsOfByte(e[1]) /\ b \in BytesAt(det, 0) /\ b \in Int
        <5>1. 0 + e[1] = e[1] /\ b \in BitsOfByte(e[1]) /\ b \in Int
          BY <4>3 DEF BitsOfByte
        <5> QED
          BY <5>1 DEF BytesAt
      <4>5. b - 8 * at \in v.care /\ (b - 8 * at) + 8 * to = b
        BY <1>1, <4>1, <4>3, <4>4 DEF Differs
      <4>6. b - 8 * at \in BitsOfBytes(0, T.size) /\ b - 8 * at \notin v.undef
        BY <1>1, <4>5 DEF Placed, IsValue
      <4>7. b \notin Written(det, err)
        BY <3>3 DEF Written
      <4>8. (b \in w.one <=> b - 8 * at \in v.one) /\ b \notin w.undef
        <5> HIDE DEF b, to
        <5> QED
          BY <1>6, <4>5, <4>6, <4>7
      <4>9. b \in OnesAt(det, 0) <=> x \in BitsOf(e[2])
        <5>1. 8 * (0 + e[1]) + x = b
          BY <4>3
        <5>2. 8 * (0 + e[1]) + x \in OnesAt(det, 0) <=> x \in BitsOf(e[2])
          BY <1>1, <3>3, OnesAreInBytes
        <5> QED
          BY <5>1, <5>2
      <4> HIDE DEF b
      <4>10. ~(b \in w.one <=> b \in OnesAt(det, 0))
        BY <4>8, <4>9, <4>13
      <4>11. ~MayBe(w, BytesAt(det, 0), OnesAt(det, 0))
        BY <4>4, <4>8, <4>10 DEF MayBe
      <4>12. LooksAt(det, build, 0) = BytesAt(det, 0)
        BY <3>3 DEF LooksAt
      <4> QED
        BY <3>3, <4>11, <4>12 DEF ReadsErr, MustBe
    <3> QED
      BY <3>2, <3>3
  <2>2. det.not \in BOOLEAN
    BY <1>1 DEF IsDeterminant
  <2>3. \A o \in BOOLEAN : (o = det.not) = (ok = det.not) <=> o = ok
    BY <2>2
  <2>4. ReadsAs(det, build, w, 0) = {o \in BOOLEAN : (o = det.not) = err}
    BY <2>1 DEF ReadsAs
  <2> QED
    BY <2>3, <2>4
<1> QED
  BY <1>6, <1>7, <1>8 DEF IsStored

\* The choices within the value are still read, but for a tag of which a build
\* looks at the bits that were left to this determinant.
LEMMA ChoicesStay ==
  ASSUME NEW det, NEW T, NEW at, NEW err, NEW front, NEW R, Placed(det, T, at, err, front, R),
         NEW v \in T.vals, NEW ok \in BOOLEAN, err <=> ok = det.not,
         NEW w, w = Made(Choice(det, 0, ok), v, front + at, T.size),
         NEW c \in v.choices
  PROVE  IsChoice([c EXCEPT !.at = @ + (front + at)], w, R.size, R.ub)
<1> DEFINE to == front + at
           d == [c EXCEPT !.at = @ + to]
<1>1. /\ T.size \in Nat /\ IsMask(T.ub, T.size) /\ at \in Nat /\ front \in Nat /\ R.size \in Nat
      /\ front + at + T.size <= R.size
      /\ IsDeterminant(det) /\ err \in BOOLEAN /\ IsChoice(c, v, T.size, T.ub)
      /\ \A x \in BitsOfBytes(0, T.size) : x + 8 * to \in Positions(R.ub) => x \in Positions(T.ub)
  BY DEF Placed, IsValue
<1>2. /\ c = Choice(c.det, c.at, c.ok) /\ c.at \in Nat /\ c.ok \in BOOLEAN /\ IsDeterminant(c.det)
      /\ LooksAt(c.det, TRUE, c.at) \subseteq BitsOfBytes(0, T.size) \ Positions(T.ub)
      /\ IsRead(v, c)
  BY <1>1 DEF IsChoice
<1>3. d = Choice(c.det, c.at + to, c.ok)
  <2>1. c = [det |-> c.det, at |-> c.at, ok |-> c.ok]
    BY <1>2 DEF Choice
  <2>2. [[det |-> c.det, at |-> c.at, ok |-> c.ok] EXCEPT !.at = @ + to]
           = [det |-> c.det, at |-> c.at + to, ok |-> c.ok]
    OBVIOUS
  <2> QED
    BY <2>1, <2>2 DEF Choice
<1>4. d.det = c.det /\ d.at = c.at + to /\ d.ok = c.ok /\ d = Choice(d.det, d.at, d.ok)
  BY <1>3 DEF Choice
<1>5. w.choices = {[e EXCEPT !.at = @ + to] : e \in v.choices} \cup {Choice(det, 0, ok)}
  BY DEF Made, ShiftValue
<1> HIDE DEF d
<1>6. d.at \in Nat /\ to \in Nat
  BY <1>1, <1>2, <1>4
<1>7. LooksAt(d.det, TRUE, d.at) = ShiftBits(LooksAt(c.det, TRUE, c.at), to)
  <2> HIDE DEF to
  <2>1. LooksAt(c.det, TRUE, c.at + to) = ShiftBits(LooksAt(c.det, TRUE, c.at), to)
    <3> DEFINE build == TRUE
    <3>1. build \in BOOLEAN
      OBVIOUS
    <3> HIDE DEF build
    <3>2. LooksAt(c.det, build, c.at + to) = ShiftBits(LooksAt(c.det, build, c.at), to)
      BY <1>2, <1>6, <3>1, LooksShift
    <3> QED
      BY <3>2 DEF build
  <2> QED
    BY <1>4, <2>1
<1>8. LooksAt(d.det, TRUE, d.at) \subseteq BitsOfBytes(0, R.size) \ Positions(R.ub)
  <2>1. ASSUME NEW x \in LooksAt(c.det, TRUE, c.at)
        PROVE  x + 8 * to \in BitsOfBytes(0, R.size) \ Positions(R.ub)
    <3>1. x \in BitsOfBytes(0, T.size) /\ x \notin Positions(T.ub)
      BY <1>2
    <3>2. x + 8 * to \in BitsOfBytes(0, R.size)
      BY <1>1, <3>1 DEF BitsOfBytes
    <3> HIDE DEF to
    <3> QED
      BY <1>1, <3>1, <3>2
  <2> QED
    BY <1>7, <2>1 DEF ShiftBits
<1>9. \A x \in BitsOfBytes(0, T.size) : x + 8 * to \notin Written(det, err) =>
        /\ x + 8 * to \in w.one <=> x \in v.one
        /\ x + 8 * to \in w.undef <=> x \in v.undef
  <2>1. IsStored(det, T, to, err, R, v, ok, w)
    BY ValueStays
  <2> QED
    BY <2>1 DEF IsStored
<1>10. ASSUME NEW x \in LooksAt(c.det, TRUE, c.at) PROVE x + 8 * to \notin Written(det, err)
  BY <1>2, WrittenIsFree
<1>11. ASSUME NEW build \in BOOLEAN,
              \A x \in LooksAt(c.det, build, c.at) :
                x \in BitsOfBytes(0, T.size) /\ x + 8 * to \notin Written(det, err)
       PROVE  ReadsAs(d.det, build, w, d.at) = ReadsAs(c.det, build, v, c.at)
  <2>1. \A x \in LooksAt(c.det, build, c.at) : /\ x + 8 * to \in w.one <=> x \in v.one
                                               /\ x + 8 * to \in w.undef <=> x \in v.undef
    BY <1>9, <1>11
  <2> HIDE DEF to
  <2> QED
    <3>1. ReadsAs(c.det, build, w, c.at + to) = ReadsAs(c.det, build, v, c.at)
      BY <1>2, <1>6, <2>1, ReadsDepend
    <3> QED
      BY <1>4, <3>1
<1> DEFINE Hidden(u, e, build) ==
      e.det.kind = "tag" /\ ~build /\ \E o \in u.choices : o.det.kind = "bit" /\ o.at + o.det.byte = e.at
<1>12. ASSUME NEW build \in BOOLEAN
       PROVE  ReadsAs(d.det, build, w, d.at) = {d.ok} \/ Hidden(w, d, build)
  <2>1. ReadsAs(c.det, build, v, c.at) = {c.ok} \/ Hidden(v, c, build)
    BY <1>2 DEF IsRead
  <2>2. ASSUME Hidden(v, c, build) PROVE Hidden(w, d, build)
    <3>1. PICK o \in v.choices : o.det.kind = "bit" /\ o.at + o.det.byte = c.at
      BY <2>2
    <3>2. o = Choice(o.det, o.at, o.ok) /\ IsDeterminant(o.det) /\ o.at \in Nat
      BY DEF Placed, IsValue, IsChoice
    <3> DEFINE p == [o EXCEPT !.at = @ + to]
    <3>3. p = [o EXCEPT !.at = o.at + to]
      OBVIOUS
    <3>4. p.det = o.det /\ p.at = o.at + to
      <4>1. o = [det |-> o.det, at |-> o.at, ok |-> o.ok]
        BY <3>2 DEF Choice
      <4>2. [[det |-> o.det, at |-> o.at, ok |-> o.ok] EXCEPT !.at = @ + to]
               = [det |-> o.det, at |-> o.at + to, ok |-> o.ok]
        OBVIOUS
      <4>3. p = [det |-> o.det, at |-> o.at + to, ok |-> o.ok]
        BY <4>1, <4>2
      <4> HIDE DEF p
      <4> QED
        BY <4>3
    <3>5. p \in w.choices
      BY <1>5
    <3>6. o.det.byte \in Nat
      BY <3>1, <3>2 DEF IsDeterminant
    <3> HIDE DEF p
    <3>7. p.det.kind = "bit" /\ p.at + p.det.byte = d.at
      BY <1>2, <1>4, <1>6, <3>1, <3>2, <3>4, <3>6
    <3> QED
      BY <1>4, <2>2, <3>5, <3>7
  <2>3. CASE build \/ c.det.kind # "tag"
    <3>1. LooksAt(c.det, build, c.at) = LooksAt(c.det, TRUE, c.at)
      <4>1. c.det.kind \in {"value", "bit", "tag"}
        BY <1>2 DEF IsDeterminant
      <4> QED
        BY <2>3, <4>1 DEF LooksAt
    <3>2. ReadsAs(d.det, build, w, d.at) = ReadsAs(c.det, build, v, c.at)
      BY <1>2, <1>10, <1>11, <3>1
    <3> QED
      BY <1>4, <2>1, <2>3, <3>2
  <2>4. CASE ~build /\ c.det.kind = "tag" /\ ~Hidden(v, c, build)
    <3>1. LooksAt(c.det, build, c.at) = BitsOfByte(c.at) /\ LooksAt(c.det, TRUE, c.at) = {8 * c.at}
      BY <2>4 DEF LooksAt
    <3>2. 8 * c.at \in BitsOfBytes(0, T.size) /\ 8 * c.at \notin Positions(T.ub)
      BY <1>2, <3>1
    <3>3. \A x \in BitsOfByte(c.at) : x \in BitsOfBytes(0, T.size)
      BY <1>1, <1>2, <3>2 DEF BitsOfByte, BitsOfBytes
    <3>4. CASE \A x \in BitsOfByte(c.at) : x + 8 * to \notin Written(det, err)
      <4>1. ReadsAs(d.det, build, w, d.at) = ReadsAs(c.det, build, v, c.at)
        BY <1>11, <3>1, <3>3, <3>4
      <4> QED
        BY <1>4, <2>1, <2>4, <4>1
    <3>5. ASSUME NEW x \in BitsOfByte(c.at), x + 8 * to \in Written(det, err)
          PROVE  Hidden(w, d, build)
      <4>1. x \in BitsOfBytes(0, T.size) /\ x \in Positions(T.ub) /\ det.kind # "tag"
        BY <3>3, <3>5, WrittenIsFree
      <4>2. front = 0 /\ to = at
        BY <1>1, <4>1 DEF Placed
      <4>3. 8 * c.at + 8 * to \notin Written(det, err)
        BY <3>2, WrittenIsFree
      <4>4. \A o \in Int : x + 8 * to \in BitsOfByte(o) =>
              o = c.at + to /\ 8 * c.at + 8 * to \in BitsOfByte(o)
        BY <1>2, <1>6 DEF BitsOfByte
      <4>5. CASE det.kind = "value"
        <5>1. Written(det, err) = BytesAt(det, 0)
          BY <3>5, <4>5 DEF Written, Touched
        <5>2. PICK e \in det.bytes : x + 8 * to \in BitsOfByte(0 + e[1])
          BY <3>5, <5>1 DEF BytesAt
        <5>3. 0 + e[1] \in Int
          BY <1>1, <4>5, ValueParts
        <5>4. 8 * c.at + 8 * to \in BitsOfByte(0 + e[1])
          BY <4>4, <5>2, <5>3
        <5> QED
          BY <4>3, <5>1, <5>4 DEF BytesAt
      <4>6. CASE det.kind = "bit"
        <5>1. Written(det, err) = TouchedAt(det, 0) /\ det.byte \in Nat /\ 0 + det.byte = det.byte
          BY <1>1, <4>6, BitParts DEF Written, Touched
        <5>2. BitAt(det, 0) \in BitsOfByte(det.byte)
          BY <1>1, <4>6, <5>1, BitParts
        <5>3. x + 8 * to \in BitsOfByte(det.byte)
          BY <3>5, <5>1, <5>2 DEF TouchedAt
        <5>4. det.byte = c.at + to
          BY <4>4, <5>1, <5>3
        <5>5. Choice(det, 0, ok).det = det /\ Choice(det, 0, ok).at + det.byte = d.at
          BY <1>4, <5>1, <5>4 DEF Choice
        <5> QED
          BY <1>4, <1>5, <2>4, <4>6, <5>5
      <4> QED
        BY <1>1, <4>1, <4>5, <4>6 DEF IsDeterminant
    <3> QED
      BY <3>4, <3>5
  <2> QED
    BY <2>1, <2>2, <2>3, <2>4
<1>13. IsRead(w, d)
  BY <1>12 DEF IsRead
<1> QED
  BY <1>2, <1>4, <1>6, <1>8, <1>13 DEF IsChoice, d

\* So what is made of a value by setting the determinant is a value of the whole.
LEMMA MadeIsValue ==
  ASSUME NEW det, NEW T, NEW at, NEW err, NEW front, NEW R, Placed(det, T, at, err, front, R),
         NEW v \in T.vals, NEW ok \in BOOLEAN, err <=> ok = det.not,
         NEW w, w = Made(Choice(det, 0, ok), v, front + at, T.size)
  PROVE  /\ IsValue(w, R)
         /\ \A build \in BOOLEAN : ReadsAs(det, build, w, 0) = {ok}
         /\ \A x \in v.care : /\ x + 8 * (front + at) \in w.one <=> x \in v.one
                              /\ x + 8 * (front + at) \in w.care
<1> DEFINE to == front + at
<1>1. /\ T.size \in Nat /\ IsMask(T.ub, T.size) /\ at \in Nat /\ front \in Nat /\ R.size \in Nat
      /\ front + at + T.size <= R.size
      /\ IsDeterminant(det) /\ err \in BOOLEAN /\ IsValue(v, T) /\ R.fv = Nothing
      /\ \A x \in BitsOfBytes(0, T.size) : x + 8 * to \in Positions(R.ub) => x \in Positions(T.ub)
      /\ LooksAt(det, TRUE, 0) \subseteq BitsOfBytes(0, R.size) \ Positions(R.ub)
  BY DEF Placed
<1>2. /\ v.care \subseteq BitsOfBytes(0, T.size) /\ v.care \cap (v.undef \cup Positions(T.ub)) = {}
  BY <1>1 DEF IsValue
<1>3. /\ \A x \in BitsOfBytes(0, T.size) : x + 8 * to \notin Written(det, err) =>
           /\ x + 8 * to \in w.one <=> x \in v.one
           /\ x + 8 * to \in w.undef <=> x \in v.undef
      /\ w.one \cup w.undef \subseteq BitsOfBytes(0, R.size)
      /\ \A build \in BOOLEAN : ReadsAs(det, build, w, 0) = {ok}
  <2>1. IsStored(det, T, to, err, R, v, ok, w)
    BY ValueStays
  <2> QED
    BY <2>1 DEF IsStored
<1>4. w.care = ShiftBits(v.care, to)
  BY DEF Made, ShiftValue
<1>5. w.choices = {[e EXCEPT !.at = @ + to] : e \in v.choices} \cup {Choice(det, 0, ok)}
  BY DEF Made, ShiftValue
<1>6. ASSUME NEW x \in v.care
      PROVE  /\ x + 8 * to \in w.one <=> x \in v.one
             /\ x + 8 * to \in w.care /\ x + 8 * to \notin w.undef
             /\ x + 8 * to \notin Positions(R.ub) /\ x + 8 * to \in BitsOfBytes(0, R.size)
  <2>1. x \in BitsOfBytes(0, T.size) /\ x \notin v.undef /\ x \notin Positions(T.ub)
    BY <1>2
  <2>2. x + 8 * to \notin Written(det, err)
    BY <2>1, WrittenIsFree
  <2>3. x + 8 * to \in BitsOfBytes(0, R.size)
    BY <1>1, <2>1 DEF BitsOfBytes
  <2> HIDE DEF to
  <2> QED
    BY <1>1, <1>3, <1>4, <2>1, <2>2, <2>3 DEF ShiftBits
<1>7. IsChoice(Choice(det, 0, ok), w, R.size, R.ub)
  BY <1>1, <1>3 DEF IsChoice, IsRead, Choice
<1>8. \A c \in w.choices : IsChoice(c, w, R.size, R.ub)
  BY <1>5, <1>7, ChoicesStay
<1>9. w.care \subseteq BitsOfBytes(0, R.size) /\ w.care \cap (w.undef \cup Positions(R.ub)) = {}
  <2> HIDE DEF to
  <2> QED
    BY <1>4, <1>6 DEF ShiftBits
<1>10. \A i \in DOMAIN R.fv : R.fv[i] # NoValue => Avoids(w, R.fv[i])
  BY <1>1 DEF Nothing, NoValue
<1>11. IsValue(w, R)
  BY <1>3, <1>8, <1>9, <1>10 DEF IsValue
<1> QED
  BY <1>3, <1>6, <1>11

-----------------------------------------------------------------------------
(* Forbidden values as determinants *)

\* One byte sequence of those that a type forbids, where the type is shifted.
OneOf(leaf, at) == {<<e[1] + at, Min(e[2])>> : e \in leaf}

LEMMA LeafParts ==
  ASSUME NEW leaf, NEW size \in Nat, NEW ub, IsForbidden(leaf, size, ub), NEW e \in leaf
  PROVE  /\ e = <<e[1], e[2]>> /\ e[1] \in Nat /\ e[1] < size
         /\ e[2] \in SUBSET Byte /\ Min(e[2]) \in e[2] /\ Min(e[2]) \in Byte
         /\ BitsOfByte(e[1]) \cap Positions(ub) = {} /\ BitsOfByte(e[1]) \subseteq BitsOfBytes(0, size)
         /\ \A f \in leaf : e[1] = f[1] => e = f
<1>1. e \in (0 .. size - 1) \X ((SUBSET Byte) \ {{}}) /\ BitsOfByte(e[1]) \cap Positions(ub) = {}
  BY DEF IsForbidden
<1>2. e = <<e[1], e[2]>> /\ e[1] \in 0 .. size - 1 /\ e[2] \in SUBSET Byte /\ e[2] # {}
  BY <1>1
<1>3. Min(e[2]) \in e[2]
  <2>1. e[2] \in SUBSET Nat
    BY <1>2 DEF Byte
  <2> QED
    BY <1>2, <2>1, MinIsLeast
<1>4. BitsOfByte(e[1]) \subseteq BitsOfBytes(0, size)
  BY <1>2 DEF BitsOfByte, BitsOfBytes
<1> QED
  BY <1>1, <1>2, <1>3, <1>4 DEF IsForbidden

LEMMA OneOfIs ==
  ASSUME NEW leaf, NEW size \in Nat, NEW ub, IsForbidden(leaf, size, ub), NEW at \in Nat,
         NEW det, det = ValueIsErr(OneOf(leaf, at)) \/ det = Negated(ValueIsErr(OneOf(leaf, at)))
  PROVE  /\ IsDeterminant(det) /\ det.kind = "value" /\ det.bytes = OneOf(leaf, at)
         /\ \A b : b \in BytesAt(det, 0) <=> \E e \in leaf : b \in BitsOfByte(e[1] + at)
         /\ \A v : Avoids(v, leaf) => \E e \in det.bytes : Differs(v, at, e)
<1>1. det.kind = "value" /\ det.bytes = OneOf(leaf, at) /\ det.not \in BOOLEAN
      /\ det = [kind |-> "value", not |-> det.not, bytes |-> det.bytes]
  <2>1. CASE det = ValueIsErr(OneOf(leaf, at))
    BY <2>1 DEF ValueIsErr
  <2>2. CASE det = Negated(ValueIsErr(OneOf(leaf, at)))
    BY <2>2 DEF ValueIsErr, Negated
  <2> QED
    BY <2>1, <2>2
<1>2. \A e \in leaf : <<e[1] + at, Min(e[2])>> \in Nat \X Byte
  <2>1. SUFFICES ASSUME NEW e \in leaf PROVE <<e[1] + at, Min(e[2])>> \in Nat \X Byte
    OBVIOUS
  <2>2. e[1] \in Nat /\ Min(e[2]) \in Byte
    BY LeafParts
  <2>3. e[1] + at \in Nat
    BY <2>2
  <2> QED
    BY <2>2, <2>3
<1>3. det.bytes \subseteq Nat \X Byte
  BY <1>1, <1>2 DEF OneOf
<1>4. ASSUME NEW p \in det.bytes
      PROVE  \E e \in leaf : p = <<e[1] + at, Min(e[2])>> /\ p[1] = e[1] + at /\ p[2] = Min(e[2])
  BY <1>1 DEF OneOf
<1>5. ASSUME NEW p \in det.bytes, NEW q \in det.bytes, p[1] = q[1] PROVE p = q
  <2>1. PICK e \in leaf : p = <<e[1] + at, Min(e[2])>> /\ p[1] = e[1] + at
    BY <1>4
  <2>2. PICK f \in leaf : q = <<f[1] + at, Min(f[2])>> /\ q[1] = f[1] + at
    BY <1>4
  <2>3. e[1] \in Nat /\ f[1] \in Nat
    BY LeafParts
  <2>4. e[1] = f[1]
    BY <1>5, <2>1, <2>2, <2>3
  <2>5. e = f
    BY <2>4, LeafParts
  <2> QED
    BY <2>1, <2>2, <2>5
<1>6. IsDeterminant(det)
  BY <1>1, <1>3, <1>5 DEF IsDeterminant
<1>7. \A b : b \in BytesAt(det, 0) <=> \E e \in leaf : b \in BitsOfByte(e[1] + at)
  <2>1. ASSUME NEW e \in leaf PROVE 0 + (e[1] + at) = e[1] + at
    <3>1. e[1] \in Nat
      BY LeafParts
    <3> QED
      BY <3>1
  <2>2. BytesAt(det, 0) = UNION {BitsOfByte(0 + p[1]) : p \in OneOf(leaf, at)}
    BY <1>1 DEF BytesAt
  <2>3. \A p \in OneOf(leaf, at) : \E e \in leaf : p[1] = e[1] + at
    BY DEF OneOf
  <2>4. ASSUME NEW e \in leaf PROVE \E p \in OneOf(leaf, at) : p[1] = e[1] + at
    <3>1. <<e[1] + at, Min(e[2])>> \in OneOf(leaf, at)
      BY DEF OneOf
    <3>2. <<e[1] + at, Min(e[2])>>[1] = e[1] + at
      OBVIOUS
    <3> QED
      BY <3>1, <3>2
  <2> QED
    BY <2>1, <2>2, <2>3, <2>4
<1>8. ASSUME NEW v, Avoids(v, leaf) PROVE \E e \in det.bytes : Differs(v, at, e)
  <2>1. PICK f \in leaf : /\ BitsOfByte(f[1]) \subseteq v.care
                          /\ \A value \in f[2] : v.one \cap BitsOfByte(f[1]) # {8 * f[1] + b : b \in BitsOf(value)}
    BY <1>8 DEF Avoids
  <2> DEFINE low == Min(f[2])
             e == <<f[1] + at, low>>
  <2>2. low \in f[2] /\ f[1] \in Nat
    BY LeafParts
  <2>3. e \in det.bytes /\ e[1] = f[1] + at /\ e[2] = low
    BY <1>1 DEF OneOf
  <2> HIDE DEF low, e
  <2>4. \A b \in BitsOfByte(e[1]) : b - 8 * at \in v.care
    <3>1. \A b \in BitsOfByte(e[1]) : b - 8 * at \in BitsOfByte(f[1])
      BY <2>2, <2>3 DEF BitsOfByte
    <3> QED
      BY <2>1, <3>1
  <2>5. \E x \in AllBits : ~(8 * f[1] + x \in v.one <=> x \in BitsOf(low))
    <3>1. SUFFICES ASSUME \A x \in AllBits : 8 * f[1] + x \in v.one <=> x \in BitsOf(low)
                   PROVE  FALSE
      OBVIOUS
    <3>2. BitsOf(low) \subseteq AllBits
      BY DEF BitsOf
    <3>3. \A b \in BitsOfByte(f[1]) : b - 8 * f[1] \in AllBits /\ b = 8 * f[1] + (b - 8 * f[1])
      BY <2>2, BitsHavePlaces
    <3>4. \A x \in AllBits : 8 * f[1] + x \in BitsOfByte(f[1])
      BY <2>2, PlacesOfBits
    <3>5. v.one \cap BitsOfByte(f[1]) = {8 * f[1] + b : b \in BitsOf(low)}
      BY <3>1, <3>2, <3>3, <3>4
    <3> QED
      BY <2>1, <2>2, <3>5
  <2>6. \E x \in AllBits : ~((8 * e[1] + x) - 8 * at \in v.one <=> x \in BitsOf(e[2]))
    <3>1. \A x \in AllBits : (8 * e[1] + x) - 8 * at = 8 * f[1] + x
      BY <2>2, <2>3 DEF AllBits
    <3> QED
      BY <2>3, <2>5, <3>1
  <2>7. Differs(v, at, e)
    BY <2>4, <2>6 DEF Differs
  <2> QED
    BY <2>3, <2>7
<1> QED
  BY <1>1, <1>6, <1>7, <1>8

\* Nothing is forbidden of the bits that are unused.
LEMMA ForbiddenIsUsed ==
  ASSUME NEW T, T.size \in Nat, NEW leaf, IsForbidden(leaf, T.size, T.ub), NEW at \in Nat,
         NEW size \in Nat, at + T.size <= size,
         NEW det, \A b : b \in BytesAt(det, 0) <=> \E e \in leaf : b \in BitsOfByte(e[1] + at)
  PROVE  BytesAt(det, 0) \subseteq BitsOfBytes(0, size) \ Free(T, at, size)
<1>1. SUFFICES ASSUME NEW e \in leaf, NEW b \in BitsOfByte(e[1] + at)
               PROVE  b \in BitsOfBytes(0, size) \ Free(T, at, size)
  OBVIOUS
<1>2. /\ e[1] \in Nat /\ e[1] < T.size /\ BitsOfByte(e[1]) \cap Positions(T.ub) = {}
      /\ BitsOfByte(e[1]) \subseteq BitsOfBytes(0, T.size)
  <2> DEFINE n == T.size
             ub == T.ub
  <2>1. n \in Nat /\ IsForbidden(leaf, n, ub)
    OBVIOUS
  <2> HIDE DEF n, ub
  <2>2. /\ e[1] \in Nat /\ e[1] < n /\ BitsOfByte(e[1]) \cap Positions(ub) = {}
        /\ BitsOfByte(e[1]) \subseteq BitsOfBytes(0, n)
    BY <2>1, LeafParts
  <2> QED
    BY <2>2 DEF n, ub
<1>3. b - 8 * at \in BitsOfByte(e[1]) /\ b \in BitsOfBytes(0, size)
  BY <1>2 DEF BitsOfByte, BitsOfBytes
<1> QED
  BY <1>2, <1>3 DEF Free

\* What a provider promises of the determinant of two types that start at 0 and
\* at its shift, in `size` bytes.
Serves(p, Big, Small, size) ==
  /\ p = Provided(p.shift, p.det, p.ub)
  /\ p.shift \in Nat /\ p.shift + Small.size <= size
  /\ IsDeterminant(p.det) /\ IsMask(p.ub, size)
  /\ Positions(p.ub) \subseteq Free(Big, 0, size) \cap Free(Small, p.shift, size)
  /\ Suits(p.det, Big, 0, p.det.not, size) /\ Suits(p.det, Small, p.shift, ~p.det.not, size)
  /\ IF p.det.kind = "tag" THEN p.ub = <<>>
     ELSE /\ Touched(p.det, 0) \subseteq BitsOfBytes(0, size)
          /\ LooksAt(p.det, TRUE, 0) \subseteq BitsOfBytes(0, size) \ Positions(p.ub)

\* A tag does for any two types.
LEMMA TagServes ==
  ASSUME NEW Big, NEW Small, NEW size \in Nat, Small.size \in Nat, Small.size <= size
  PROVE  Serves(Provided(0, BitDeterminant, <<>>), Big, Small, size)
<1> DEFINE p == Provided(0, BitDeterminant, <<>>)
<1>1. p.shift = 0 /\ p.det = BitDeterminant /\ p.ub = <<>>
  BY DEF Provided
<1>2. p.det.kind = "tag" /\ p.det.not = FALSE /\ p.det = [kind |-> "tag", not |-> p.det.not]
  BY <1>1 DEF BitDeterminant
<1>3. IsDeterminant(p.det)
  BY <1>2 DEF IsDeterminant
<1>4. IsMask(p.ub, size) /\ Positions(p.ub) = {}
  BY <1>1, EmptyMask
<1> HIDE DEF p
<1>5. p.shift \in Nat /\ p.shift + Small.size <= size /\ p = Provided(p.shift, p.det, p.ub)
  BY <1>1 DEF p
<1> QED
  BY <1>1, <1>2, <1>3, <1>4, <1>5 DEF Serves, Suits, p

\* So does a bit that both leave unused.
LEMMA BitServes ==
  ASSUME NEW Big, NEW Small, NEW size \in Nat, Small.size \in Nat,
         NEW shift \in Nat, shift + Small.size <= size,
         NEW mask, IsMask(mask, size), mask # <<>>,
         Positions(mask) \subseteq Free(Big, 0, size) \cap Free(Small, shift, size)
  PROVE  Serves(Provided(shift, BitIsErr(ExtractedBit(mask)), ExtractBit(mask)), Big, Small, size)
<1> DEFINE place == ExtractedBit(mask)
           det == BitIsErr(place)
           p == Provided(shift, det, ExtractBit(mask))
<1>1. p.shift = shift /\ p.det = det /\ p.ub = ExtractBit(mask) /\ p = Provided(p.shift, p.det, p.ub)
  BY DEF Provided
<1>2. /\ place[1] \in Nat /\ place[1] < size /\ place[2] \in AllBits
      /\ 8 * place[1] + place[2] \in Positions(mask)
      /\ place[2] = 0 => BitsOfByte(place[1]) \subseteq Positions(mask)
      /\ IsMask(ExtractBit(mask), size)
      /\ Positions(ExtractBit(mask)) = Positions(mask) \ {8 * place[1] + place[2]}
  <2>1. place = ExtractedBit(mask)
    OBVIOUS
  <2> HIDE DEF place
  <2> QED
    BY <2>1, BitIsExtracted
<1> HIDE DEF place
<1>3. /\ det.kind = "bit" /\ det.not = FALSE /\ det.byte = place[1] /\ det.bit = place[2]
      /\ det = [kind |-> "bit", not |-> det.not, byte |-> det.byte, bit |-> det.bit]
  BY DEF BitIsErr
<1> HIDE DEF p, det
<1>4. IsDeterminant(det)
  BY <1>2, <1>3 DEF IsDeterminant
<1>5. BitAt(det, 0) = 8 * place[1] + place[2] /\ BitsOfByte(0 + det.byte) = BitsOfByte(place[1])
  <2>1. 0 + place[1] = place[1]
    BY <1>2
  <2> QED
    BY <1>3, <2>1 DEF BitAt
<1>6. TouchedAt(det, 0) \subseteq Positions(mask)
  BY <1>2, <1>3, <1>5 DEF TouchedAt
<1>7. Touched(det, 0) = TouchedAt(det, 0) /\ LooksAt(det, TRUE, 0) = {BitAt(det, 0)}
  BY <1>3 DEF Touched, LooksAt
<1>8. Positions(mask) \subseteq BitsOfBytes(0, size)
  BY DEF Free
<1>9. Suits(det, Big, 0, det.not, size) /\ Suits(det, Small, shift, ~det.not, size)
  BY <1>3, <1>6 DEF Suits
<1>10. /\ Positions(p.ub) \subseteq Free(Big, 0, size) \cap Free(Small, p.shift, size)
       /\ p.shift \in Nat /\ p.shift + Small.size <= size
       /\ IsDeterminant(p.det) /\ IsMask(p.ub, size) /\ p = Provided(p.shift, p.det, p.ub)
  BY <1>1, <1>2, <1>4
<1>11. /\ Suits(p.det, Big, 0, p.det.not, size) /\ Suits(p.det, Small, p.shift, ~p.det.not, size)
       /\ p.det.kind = "bit"
  BY <1>1, <1>3, <1>9
<1>12. /\ Touched(p.det, 0) \subseteq BitsOfBytes(0, size)
       /\ LooksAt(p.det, TRUE, 0) \subseteq BitsOfBytes(0, size) \ Positions(p.ub)
  BY <1>1, <1>2, <1>5, <1>6, <1>7, <1>8
<1>13. Serves(p, Big, Small, size)
  BY <1>10, <1>11, <1>12 DEF Serves
<1> QED
  BY <1>13 DEF p, det, place

\* A value that one of them never takes, in bits that the other leaves unused.
Hides(leaf, T, at, U, uat, size) ==
  /\ T.size \in Nat /\ at \in Nat /\ at + T.size <= size
  /\ leaf # NoValue /\ IsForbidden(leaf, T.size, T.ub) /\ \A v \in T.vals : Avoids(v, leaf)
  /\ \A e \in leaf : BitsOfByte(e[1] + at) \subseteq Free(U, uat, size)

\* It does as well.
LEMMA ValueSuits ==
  ASSUME NEW leaf, NEW T, NEW at, NEW U, NEW uat, NEW size \in Nat, Hides(leaf, T, at, U, uat, size),
         NEW det, det = ValueIsErr(OneOf(leaf, at)) \/ det = Negated(ValueIsErr(OneOf(leaf, at)))
  PROVE  /\ IsDeterminant(det) /\ det.kind = "value"
         /\ Suits(det, T, at, FALSE, size) /\ Suits(det, U, uat, TRUE, size)
         /\ Touched(det, 0) \subseteq BitsOfBytes(0, size)
         /\ LooksAt(det, TRUE, 0) \subseteq BitsOfBytes(0, size) \ Free(T, at, size)
<1> DEFINE n == T.size
           ub == T.ub
<1>1. /\ n \in Nat /\ at \in Nat /\ at + n <= size /\ IsForbidden(leaf, n, ub)
      /\ \A v \in T.vals : Avoids(v, leaf)
      /\ \A e \in leaf : BitsOfByte(e[1] + at) \subseteq Free(U, uat, size)
  BY DEF Hides
<1> HIDE DEF n, ub
<1>2. /\ IsDeterminant(det) /\ det.kind = "value" /\ det.bytes = OneOf(leaf, at)
      /\ \A b : b \in BytesAt(det, 0) <=> \E e \in leaf : b \in BitsOfByte(e[1] + at)
      /\ \A v : Avoids(v, leaf) => \E e \in det.bytes : Differs(v, at, e)
  BY <1>1, OneOfIs
<1>3. BytesAt(det, 0) \subseteq BitsOfBytes(0, size) \ Free(T, at, size)
  <2>1. T.size \in Nat /\ IsForbidden(leaf, T.size, T.ub) /\ at + T.size <= size
    BY <1>1 DEF n, ub
  <2> QED
    BY <1>1, <1>2, <2>1, ForbiddenIsUsed
<1>4. Suits(det, T, at, FALSE, size)
  BY <1>1, <1>2 DEF Suits
<1>5. Suits(det, U, uat, TRUE, size)
  BY <1>1, <1>2 DEF Suits
<1> QED
  BY <1>2, <1>3, <1>4, <1>5 DEF Touched, LooksAt

LEMMA NextMultipleIs ==
  ASSUME NEW n \in Nat, NEW a \in Nat \ {0}
  PROVE  /\ n % a = 0 => NextMultiple(n, a) = n
         /\ NextMultiple(0, a) = 0 /\ NextMultiple(1, a) = a
<1>1. ASSUME n % a = 0 PROVE NextMultiple(n, a) = n
  <2> DEFINE q == n \div a
  <2>1. n = a * q /\ q \in Nat
    BY <1>1
  <2> HIDE DEF q
  <2>2. n + a - 1 = a * q + (a - 1) /\ a - 1 \in 0 .. a - 1
    <3>1. \A m : n = m /\ m \in Nat => n + a - 1 = m + (a - 1)
      OBVIOUS
    <3>2. a * q \in Nat
      BY <2>1
    <3> QED
      BY <2>1, <3>1, <3>2
  <2>3. (a * q + (a - 1)) \div a = q
    BY <2>1, <2>2
  <2> QED
    BY <2>1, <2>2, <2>3 DEF NextMultiple
<1>2. NextMultiple(0, a) = 0
  <2>1. 0 + a - 1 \in 0 .. a - 1
    OBVIOUS
  <2>2. (0 + a - 1) \div a = 0
    BY <2>1
  <2> QED
    BY <2>2 DEF NextMultiple
<1>3. NextMultiple(1, a) = a
  <2>1. 1 + a - 1 = a /\ a \div a = 1
    OBVIOUS
  <2> QED
    BY <2>1 DEF NextMultiple
<1> QED
  BY <1>1, <1>2, <1>3

-----------------------------------------------------------------------------
(* The choice of a value *)

LEMMA SelectFromIs ==
  ASSUME NEW fv, Len(fv) \in Nat, DOMAIN fv = 1 .. Len(fv), NEW mask,
         SelectFrom(fv, mask) # NoValue
  PROVE  \E i \in DOMAIN fv : /\ fv[i] # NoValue /\ \A e \in fv[i] : HasFreeByteAt(mask, e[1])
                              /\ SelectFrom(fv, mask) = Single(fv[i])
<1> DEFINE I == {i \in 1 .. Len(fv) : fv[i] # NoValue /\ \A e \in fv[i] : HasFreeByteAt(mask, e[1])}
<1>1. SelectFrom(fv, mask) = LET i == IF I # {} THEN Min(I) ELSE 0
                             IN IF i = 0 THEN NoValue ELSE Single(fv[i])
  BY DEF SelectFrom, SelectInSeq
<1>2. I # {}
  BY <1>1
<1>3. Min(I) \in I
  <2>1. I \in SUBSET Nat
    OBVIOUS
  <2> HIDE DEF I
  <2> QED
    BY <1>2, <2>1, MinIsLeast
<1>4. Min(I) # 0
  BY <1>3
<1>5. SelectFrom(fv, mask) = Single(fv[Min(I)])
  <2> HIDE DEF I
  <2> QED
    BY <1>1, <1>2, <1>4
<1> QED
  BY <1>3, <1>5

LEMMA SingleIs ==
  ASSUME NEW leaf, NEW at
  PROVE  /\ Single({<<e[1] + at, e[2]>> : e \in leaf}) = OneOf(leaf, at)
         /\ (\A e \in leaf : e[1] \in Nat) => Single(leaf) = OneOf(leaf, 0)
<1>1. Single({<<e[1] + at, e[2]>> : e \in leaf}) = OneOf(leaf, at)
  <2> DEFINE shifted == {<<e[1] + at, e[2]>> : e \in leaf}
  <2>1. ASSUME NEW p \in OneOf(leaf, at) PROVE p \in Single(shifted)
    <3>1. PICK e \in leaf : p = <<e[1] + at, Min(e[2])>>
      BY <2>1 DEF OneOf
    <3> DEFINE f == <<e[1] + at, e[2]>>
    <3>2. f \in shifted /\ f[1] = e[1] + at /\ f[2] = e[2]
      OBVIOUS
    <3> HIDE DEF f, shifted
    <3>3. p = <<f[1], Min(f[2])>>
      BY <3>1, <3>2
    <3> QED
      BY <3>2, <3>3 DEF Single
  <2>2. ASSUME NEW p \in Single(shifted) PROVE p \in OneOf(leaf, at)
    <3>1. PICK f \in shifted : p = <<f[1], Min(f[2])>>
      <4> HIDE DEF shifted
      <4> QED
        BY <2>2 DEF Single
    <3>2. PICK e \in leaf : f = <<e[1] + at, e[2]>>
      OBVIOUS
    <3>3. f[1] = e[1] + at /\ f[2] = e[2]
      BY <3>2
    <3>4. p = <<e[1] + at, Min(e[2])>>
      BY <3>1, <3>3
    <3> QED
      BY <3>4 DEF OneOf
  <2> QED
    BY <2>1, <2>2
<1>2. ASSUME \A e \in leaf : e[1] \in Nat PROVE Single(leaf) = OneOf(leaf, 0)
  <2>1. \A e \in leaf : e[1] + 0 = e[1]
    BY <1>2
  <2> QED
    BY <2>1 DEF Single, OneOf
<1> QED
  BY <1>1, <1>2

\* What an honest type forbids.
LEMMA Forbidden ==
  ASSUME NEW T, Honest(T)
  PROVE  /\ Len(T.fv) \in Nat /\ DOMAIN T.fv = 1 .. Len(T.fv) /\ 1 \in DOMAIN T.fv
         /\ T.fv \in Seq(SUBSET (Nat \X SUBSET Byte))
         /\ \A i \in DOMAIN T.fv :
              /\ IsForbidden(T.fv[i], T.size, T.ub) /\ \A e \in T.fv[i] : e[1] \in Nat
              /\ T.fv[i] # NoValue => \A v \in T.vals : Avoids(v, T.fv[i])
<1>1. T.fv # <<>> /\ T.fv \in Seq(SUBSET (Nat \X SUBSET Byte))
  BY DEF Honest
<1>2. Len(T.fv) \in Nat /\ DOMAIN T.fv = 1 .. Len(T.fv) /\ Len(T.fv) # 0
  BY <1>1, EmptySeq, LenProperties
<1>3. ASSUME NEW i \in DOMAIN T.fv
      PROVE  /\ IsForbidden(T.fv[i], T.size, T.ub) /\ \A e \in T.fv[i] : e[1] \in Nat
             /\ T.fv[i] # NoValue => \A v \in T.vals : Avoids(v, T.fv[i])
  <2>1. T.fv[i] \in SUBSET (Nat \X SUBSET Byte)
    BY <1>1, <1>2, ElementOfSeq
  <2>2. IsForbidden(T.fv[i], T.size, T.ub)
    BY DEF Honest
  <2>3. T.fv[i] # NoValue => \A v \in T.vals : Avoids(v, T.fv[i])
    BY DEF Honest, IsValue
  <2> QED
    BY <2>1, <2>2, <2>3
<1> QED
  BY <1>1, <1>2, <1>3

LEMMA ShiftedValues ==
  ASSUME NEW fv \in Seq(SUBSET (Nat \X SUBSET Byte)), NEW at \in Nat
  PROVE  /\ Len(ShiftValues(fv, at)) \in Nat
         /\ DOMAIN ShiftValues(fv, at) = 1 .. Len(ShiftValues(fv, at))
         /\ DOMAIN ShiftValues(fv, at) = DOMAIN fv
         /\ \A i \in DOMAIN fv : ShiftValues(fv, at)[i] = {<<e[1] + at, e[2]>> : e \in fv[i]}
<1> DEFINE s == ShiftValues(fv, at)
           S == SUBSET (Nat \X SUBSET Byte)
<1>1. Len(fv) \in Nat /\ DOMAIN fv = 1 .. Len(fv) /\ \A i \in 1 .. Len(fv) : fv[i] \in S
  BY LenProperties, ElementOfSeq
<1>2. DOMAIN s = DOMAIN fv /\ \A i \in DOMAIN fv : s[i] = {<<e[1] + at, e[2]>> : e \in fv[i]}
  BY DEF ShiftValues
<1>3. s = [i \in 1 .. Len(fv) |-> {<<e[1] + at, e[2]>> : e \in fv[i]}]
  BY <1>1 DEF ShiftValues
<1>4. Len(s) = Len(fv)
  <2>1. s = [i \in 1 .. Len(fv) |-> s[i]]
    BY <1>2, <1>3
  <2> HIDE DEF s
  <2> QED
    BY <1>1, <1>2, <1>3
<1> QED
  BY <1>1, <1>2, <1>4

\* What two types have in common in `size` bytes.
InCommon(c, Big, Small, at, size) ==
  LET okBits == UnusedAt(Big, size, 0)
      errBits == UnusedAt(Small, size, at)
  IN /\ c.at = at /\ c.bits = BitAnd(okBits, errBits)
     /\ c.err = SelectFrom(ShiftValues(Small.fv, at), okBits) /\ c.ok = SelectFrom(Big.fv, errBits)

\* What is offered where the smaller type is shifted by `at`.
LEMMA OfferServes ==
  ASSUME NEW Big, NEW Small, Honest(Big), Honest(Small),
         NEW size \in Nat, Big.size <= size, NEW at \in Nat, at + Small.size <= size,
         NEW c, InCommon(c, Big, Small, at, size), NEW o \in Sharing(c)
  PROVE  Serves(o, Big, Small, size) /\ o.shift = at
<1> DEFINE okBits == UnusedAt(Big, size, 0)
           errBits == UnusedAt(Small, size, at)
           err == SelectFrom(ShiftValues(Small.fv, at), okBits)
           ok == SelectFrom(Big.fv, errBits)
           bits == BitAnd(okBits, errBits)
<1>1. c.at = at /\ c.err = err /\ c.ok = ok /\ c.bits = bits
  BY DEF InCommon
<1>2. Big.size \in Nat /\ IsMask(Big.ub, Big.size) /\ Small.size \in Nat /\ IsMask(Small.ub, Small.size)
  BY DEF Honest
<1>3. IsMask(okBits, size) /\ Positions(okBits) = Free(Big, 0, size)
  <2>1. 0 + Big.size <= size /\ 0 \in Nat
    BY <1>2
  <2> QED
    BY <1>2, <2>1, UnusedIsFree
<1>4. IsMask(errBits, size) /\ Positions(errBits) = Free(Small, at, size)
  BY <1>2, UnusedIsFree
<1> HIDE DEF okBits, errBits
<1>5. IsMask(bits, size) /\ Positions(bits) = Free(Big, 0, size) \cap Free(Small, at, size)
  <2>1. IsMask(BitAnd(okBits, errBits), size)
        /\ Positions(BitAnd(okBits, errBits)) = Positions(okBits) \cap Positions(errBits)
    BY <1>3, <1>4, MasksMeet
  <2> QED
    BY <1>3, <1>4, <2>1
<1>6. ASSUME NEW det, IsDeterminant(det), det.kind = "value",
             Suits(det, Big, 0, det.not, size), Suits(det, Small, at, ~det.not, size),
             Touched(det, 0) \subseteq BitsOfBytes(0, size),
             LooksAt(det, TRUE, 0) \cap Positions(bits) = {},
             LooksAt(det, TRUE, 0) \subseteq BitsOfBytes(0, size)
      PROVE  Serves(Provided(at, det, bits), Big, Small, size) /\ Provided(at, det, bits).shift = at
  <2> DEFINE p == Provided(at, det, bits)
  <2>1. p.shift = at /\ p.det = det /\ p.ub = bits /\ p = Provided(p.shift, p.det, p.ub)
    BY DEF Provided
  <2> HIDE DEF p, bits
  <2>2. /\ p.shift \in Nat /\ p.shift + Small.size <= size
        /\ IsDeterminant(p.det) /\ IsMask(p.ub, size) /\ p = Provided(p.shift, p.det, p.ub)
        /\ Positions(p.ub) \subseteq Free(Big, 0, size) \cap Free(Small, p.shift, size)
    BY <1>5, <1>6, <2>1
  <2>3. /\ Suits(p.det, Big, 0, p.det.not, size) /\ Suits(p.det, Small, p.shift, ~p.det.not, size)
        /\ p.det.kind = "value"
    BY <1>6, <2>1
  <2>4. /\ Touched(p.det, 0) \subseteq BitsOfBytes(0, size)
        /\ LooksAt(p.det, TRUE, 0) \subseteq BitsOfBytes(0, size) \ Positions(p.ub)
    BY <1>6, <2>1
  <2>5. Serves(p, Big, Small, size)
    BY <2>2, <2>3, <2>4 DEF Serves
  <2> QED
    BY <2>1, <2>5 DEF p
<1>7. CASE err # NoValue
  <2>1. o = Provided(at, Negated(ValueIsErr(err)), bits)
    <3> HIDE DEF err, ok, bits
    <3> QED
      BY <1>1, <1>7 DEF Sharing
  <2>2. PICK i \in DOMAIN Small.fv :
          LET leaf == Small.fv[i]
              shifted == {<<e[1] + at, e[2]>> : e \in leaf}
          IN shifted # {} /\ (\A f \in shifted : HasFreeByteAt(okBits, f[1])) /\ err = Single(shifted)
    <3> DEFINE fv == ShiftValues(Small.fv, at)
    <3>1. /\ Len(fv) \in Nat /\ DOMAIN fv = 1 .. Len(fv) /\ DOMAIN fv = DOMAIN Small.fv
          /\ \A i \in DOMAIN Small.fv : fv[i] = {<<e[1] + at, e[2]>> : e \in Small.fv[i]}
      BY Forbidden, ShiftedValues
    <3> HIDE DEF fv
    <3>2. SelectFrom(fv, okBits) # NoValue
      BY <1>7 DEF fv
    <3>3. PICK i \in DOMAIN fv : /\ fv[i] # NoValue /\ \A e \in fv[i] : HasFreeByteAt(okBits, e[1])
                                 /\ SelectFrom(fv, okBits) = Single(fv[i])
      BY <3>1, <3>2, SelectFromIs
    <3> QED
      BY <3>1, <3>3 DEF fv, NoValue
  <2> DEFINE leaf == Small.fv[i]
             det == Negated(ValueIsErr(OneOf(leaf, at)))
  <2>3. leaf # NoValue /\ \A e \in leaf : HasFreeByteAt(okBits, e[1] + at)
    <3>1. leaf # {}
      BY <2>2
    <3>2. ASSUME NEW e \in leaf PROVE HasFreeByteAt(okBits, e[1] + at)
      <4> DEFINE f == <<e[1] + at, e[2]>>
      <4>1. f \in {<<d[1] + at, d[2]>> : d \in leaf} /\ f[1] = e[1] + at
        OBVIOUS
      <4> QED
        BY <2>2, <4>1
    <3> QED
      BY <3>1, <3>2 DEF NoValue
  <2>4. err = OneOf(leaf, at)
    BY <2>2, SingleIs
  <2>5. /\ IsForbidden(leaf, Small.size, Small.ub) /\ \A e \in leaf : e[1] \in Nat
        /\ \A v \in Small.vals : Avoids(v, leaf)
    BY <2>3, Forbidden
  <2>6. \A e \in leaf : BitsOfByte(e[1] + at) \subseteq Free(Big, 0, size)
    <3>1. SUFFICES ASSUME NEW e \in leaf PROVE BitsOfByte(e[1] + at) \subseteq Free(Big, 0, size)
      OBVIOUS
    <3>2. e[1] + at \in Nat /\ HasFreeByteAt(okBits, e[1] + at)
      BY <2>3, <2>5
    <3> QED
      BY <1>3, <3>2, FreeByte
  <2>7. Hides(leaf, Small, at, Big, 0, size)
    BY <1>2, <2>3, <2>5, <2>6 DEF Hides
  <2>8. det.not = TRUE
    BY DEF Negated, ValueIsErr
  <2>12. det = ValueIsErr(OneOf(leaf, at)) \/ det = Negated(ValueIsErr(OneOf(leaf, at)))
    OBVIOUS
  <2> HIDE DEF leaf, det
  <2>9. /\ IsDeterminant(det) /\ det.kind = "value"
        /\ Suits(det, Small, at, FALSE, size) /\ Suits(det, Big, 0, TRUE, size)
        /\ Touched(det, 0) \subseteq BitsOfBytes(0, size)
        /\ LooksAt(det, TRUE, 0) \subseteq BitsOfBytes(0, size) \ Free(Small, at, size)
    BY <2>7, <2>12, ValueSuits
  <2>10. Suits(det, Big, 0, det.not, size) /\ Suits(det, Small, at, ~det.not, size)
    BY <2>8, <2>9
  <2>11. Serves(Provided(at, det, bits), Big, Small, size) /\ Provided(at, det, bits).shift = at
    <3>1. LooksAt(det, TRUE, 0) \cap Positions(bits) = {} /\ LooksAt(det, TRUE, 0) \subseteq BitsOfBytes(0, size)
      BY <1>5, <2>9
    <3> HIDE DEF bits
    <3> QED
      BY <1>6, <2>9, <2>10, <3>1
  <2> QED
    BY <2>1, <2>4, <2>11 DEF det
<1>8. CASE err = NoValue /\ ok # NoValue
  <2>1. o = Provided(at, ValueIsErr(ok), bits)
    <3> HIDE DEF err, ok, bits
    <3> QED
      BY <1>1, <1>8 DEF Sharing
  <2>2. PICK i \in DOMAIN Big.fv : /\ Big.fv[i] # NoValue /\ \A e \in Big.fv[i] : HasFreeByteAt(errBits, e[1])
                                   /\ ok = Single(Big.fv[i])
    BY <1>8, Forbidden, SelectFromIs
  <2> DEFINE leaf == Big.fv[i]
             det == ValueIsErr(OneOf(leaf, 0))
  <2>3. leaf # NoValue /\ \A e \in leaf : HasFreeByteAt(errBits, e[1])
    BY <2>2
  <2>5. /\ IsForbidden(leaf, Big.size, Big.ub) /\ \A e \in leaf : e[1] \in Nat
        /\ \A v \in Big.vals : Avoids(v, leaf)
    BY <2>3, Forbidden
  <2>4. ok = OneOf(leaf, 0)
    BY <2>2, <2>5, SingleIs
  <2>6. \A e \in leaf : BitsOfByte(e[1] + 0) \subseteq Free(Small, at, size)
    <3>1. SUFFICES ASSUME NEW e \in leaf PROVE BitsOfByte(e[1] + 0) \subseteq Free(Small, at, size)
      OBVIOUS
    <3>2. e[1] \in Nat /\ e[1] + 0 = e[1] /\ HasFreeByteAt(errBits, e[1])
      BY <2>3, <2>5
    <3> QED
      BY <1>4, <3>2, FreeByte
  <2>7. Hides(leaf, Big, 0, Small, at, size)
    BY <1>2, <2>3, <2>5, <2>6 DEF Hides
  <2>8. det.not = FALSE
    BY DEF ValueIsErr
  <2>12. det = ValueIsErr(OneOf(leaf, 0)) \/ det = Negated(ValueIsErr(OneOf(leaf, 0)))
    OBVIOUS
  <2> HIDE DEF leaf, det
  <2>9. /\ IsDeterminant(det) /\ det.kind = "value"
        /\ Suits(det, Big, 0, FALSE, size) /\ Suits(det, Small, at, TRUE, size)
        /\ Touched(det, 0) \subseteq BitsOfBytes(0, size)
        /\ LooksAt(det, TRUE, 0) \subseteq BitsOfBytes(0, size) \ Free(Big, 0, size)
    BY <2>7, <2>12, ValueSuits
  <2>10. Suits(det, Big, 0, det.not, size) /\ Suits(det, Small, at, ~det.not, size)
    BY <2>8, <2>9
  <2>11. Serves(Provided(at, det, bits), Big, Small, size) /\ Provided(at, det, bits).shift = at
    <3>1. LooksAt(det, TRUE, 0) \cap Positions(bits) = {} /\ LooksAt(det, TRUE, 0) \subseteq BitsOfBytes(0, size)
      BY <1>5, <2>9
    <3> HIDE DEF bits
    <3> QED
      BY <1>6, <2>9, <2>10, <3>1
  <2> QED
    BY <2>1, <2>4, <2>11 DEF det
<1>9. CASE err = NoValue /\ ok = NoValue
  <2>1. bits # <<>> /\ o = Provided(at, BitIsErr(ExtractedBit(bits)), ExtractBit(bits))
    <3> HIDE DEF err, ok, bits
    <3> QED
      BY <1>1, <1>9 DEF Sharing
  <2>2. o.shift = at
    BY <2>1 DEF Provided
  <2> HIDE DEF bits
  <2> QED
    BY <1>2, <1>5, <2>1, <2>2, BitServes
<1> QED
  BY <1>7, <1>8, <1>9

\* With nothing beside it, a type may use all that it leaves free.
LEMMA WithUnitServes ==
  ASSUME NEW Big, NEW Small, Honest(Big), Small.size \in Nat, Small.size <= Big.size,
         Free(Small, 0, Big.size) = BitsOfBytes(0, Big.size)
  PROVE  Serves(WithUnit(SelectOne(Big.fv), Big.ub), Big, Small, Big.size)
<1> DEFINE size == Big.size
           ub == Big.ub
           leaf == Big.fv[1]
           value == OneOf(leaf, 0)
<1>1. size \in Nat /\ IsMask(ub, size) /\ 0 \in Nat /\ 0 + Small.size <= size /\ 0 + size <= size
      /\ Small.size <= size /\ Small.size \in Nat /\ Big.size = size /\ Big.ub = ub
  BY DEF Honest
<1>2. /\ IsForbidden(leaf, size, ub) /\ \A e \in leaf : e[1] \in Nat
      /\ leaf # NoValue => \A v \in Big.vals : Avoids(v, leaf)
  BY Forbidden
<1>3. SelectOne(Big.fv) = value
  BY <1>2, SingleIs DEF SelectOne
<1>4. Positions(ub) \subseteq Free(Big, 0, size)
  <2>1. \A b \in Positions(ub) : b \in Nat /\ b < 8 * size
    BY <1>1, PositionsInside
  <2>2. \A b \in Positions(ub) : b \in BitsOfBytes(0, size) /\ b - 8 * 0 = b
    BY <1>1, <2>1 DEF BitsOfBytes
  <2> QED
    BY <2>2 DEF Free
<1>5. Free(Small, 0, size) = BitsOfBytes(0, size)
  OBVIOUS
<1>6. Positions(ub) \subseteq Free(Big, 0, size) \cap Free(Small, 0, size)
  BY <1>4, <1>5 DEF Free
<1>7. CASE value # NoValue
  <2> DEFINE det == ValueIsErr(value)
             p == Provided(0, det, ub)
  <2>1. leaf # NoValue /\ \A v \in Big.vals : Avoids(v, leaf)
    BY <1>2, <1>7 DEF OneOf, NoValue
  <2>2. \A e \in leaf : BitsOfByte(e[1] + 0) \subseteq Free(Small, 0, size)
    <3>1. SUFFICES ASSUME NEW e \in leaf PROVE BitsOfByte(e[1] + 0) \subseteq BitsOfBytes(0, size)
      BY <1>5
    <3>2. e \in (0 .. size - 1) \X ((SUBSET Byte) \ {{}})
      BY <1>2 DEF IsForbidden
    <3>3. e[1] \in 0 .. size - 1
      BY <3>2
    <3> QED
      BY <1>1, <3>3 DEF BitsOfByte, BitsOfBytes
  <2>3. det = ValueIsErr(OneOf(leaf, 0)) \/ det = Negated(ValueIsErr(OneOf(leaf, 0)))
    OBVIOUS
  <2>4. det.not = FALSE
    BY DEF ValueIsErr
  <2>5. p.shift = 0 /\ p.det = det /\ p.ub = ub /\ p = Provided(p.shift, p.det, p.ub)
    BY DEF Provided
  <2>12. Hides(leaf, Big, 0, Small, 0, size) /\ size \in Nat
    BY <1>1, <1>2, <2>1, <2>2 DEF Hides
  <2> HIDE DEF leaf, size, ub, det, p, value
  <2>6. /\ IsDeterminant(det) /\ det.kind = "value"
        /\ Suits(det, Big, 0, FALSE, size) /\ Suits(det, Small, 0, TRUE, size)
        /\ Touched(det, 0) \subseteq BitsOfBytes(0, size)
        /\ LooksAt(det, TRUE, 0) \subseteq BitsOfBytes(0, size) \ Free(Big, 0, size)
    BY <2>3, <2>12, ValueSuits
  <2>7. /\ p.shift \in Nat /\ p.shift + Small.size <= size
        /\ IsDeterminant(p.det) /\ IsMask(p.ub, size)
        /\ Positions(p.ub) \subseteq Free(Big, 0, size) \cap Free(Small, p.shift, size)
        /\ p = Provided(p.shift, p.det, p.ub)
    BY <1>1, <1>6, <2>5, <2>6
  <2>8. /\ Suits(p.det, Big, 0, p.det.not, size) /\ Suits(p.det, Small, p.shift, ~p.det.not, size)
        /\ p.det.kind = "value"
    BY <2>4, <2>5, <2>6
  <2>9. /\ Touched(p.det, 0) \subseteq BitsOfBytes(0, size)
        /\ LooksAt(p.det, TRUE, 0) \subseteq BitsOfBytes(0, size) \ Positions(p.ub)
    BY <1>4, <2>5, <2>6
  <2>10. Serves(p, Big, Small, size)
    BY <2>7, <2>8, <2>9 DEF Serves
  <2>11. WithUnit(value, ub) = p
    <3> HIDE DEF value
    <3> QED
      BY <1>7 DEF WithUnit, p, det
  <2> QED
    BY <1>3, <2>10, <2>11 DEF size, ub
<1>8. CASE value = NoValue /\ ub # <<>>
  <2>1. WithUnit(value, ub) = Provided(0, BitIsErr(ExtractedBit(ub)), ExtractBit(ub))
    <3> HIDE DEF value, ub
    <3> QED
      BY <1>8 DEF WithUnit
  <2>2. Serves(Provided(0, BitIsErr(ExtractedBit(ub)), ExtractBit(ub)), Big, Small, size)
    <3> HIDE DEF size, ub
    <3> QED
      BY <1>1, <1>6, <1>8, BitServes
  <2> QED
    BY <1>3, <2>1, <2>2
<1>9. CASE value = NoValue /\ ub = <<>>
  <2>1. WithUnit(value, ub) = Provided(0, BitDeterminant, <<>>)
    <3> HIDE DEF value, ub
    <3> QED
      BY <1>9 DEF WithUnit
  <2>2. Serves(Provided(0, BitDeterminant, <<>>), Big, Small, size)
    <3> HIDE DEF size
    <3> QED
      BY <1>1, TagServes
  <2> QED
    BY <1>3, <2>1, <2>2
<1> QED
  BY <1>7, <1>8, <1>9

LEMMA SmallerServes ==
  ASSUME NEW Big, NEW Small, Honest(Big), Honest(Small), Small.size <= Big.size,
         UnionSize(Big, Small) = Big.size
  PROVE  Serves(SmallerErr(Big, Small), Big, Small, Big.size)
<1> DEFINE size == Big.size
           offers == UNION {Sharing(c) : c \in {Common(Big, Small, at) : at \in Shifts(Big, Small)}}
           choice == CHOOSE o \in offers : \A p \in offers : o.shift <= p.shift
<1>1. size \in Nat /\ Small.size \in Nat /\ Small.align \in Nat /\ Small.size <= size
  BY DEF Honest
<1>2. ASSUME NEW at \in Shifts(Big, Small)
      PROVE  at \in Nat /\ at + Small.size <= size
  <2>1. PICK i \in 0 .. Budget - 1 : at = i * Small.align
    BY DEF Shifts
  <2>2. i \in Nat
    BY DEF Budget
  <2>3. at \in Nat
    BY <1>1, <2>1, <2>2
  <2>4. at = 0 \/ Small.size + at <= UnionSize(Big, Small)
    BY DEF Shifts
  <2> QED
    BY <1>1, <2>3, <2>4
<1>3. ASSUME NEW at \in Shifts(Big, Small)
      PROVE  InCommon(Common(Big, Small, at), Big, Small, at, size)
  BY DEF Common, InCommon
<1>4. ASSUME NEW o \in offers
      PROVE  Serves(o, Big, Small, size) /\ o.shift \in Nat
  <2>1. PICK at \in Shifts(Big, Small) : o \in Sharing(Common(Big, Small, at))
    OBVIOUS
  <2> HIDE DEF offers
  <2>2. at \in Nat /\ at + Small.size <= size /\ Big.size <= size
        /\ InCommon(Common(Big, Small, at), Big, Small, at, size)
    BY <1>1, <1>2, <1>3
  <2> HIDE DEF size
  <2> QED
    BY <1>1, <2>1, <2>2, OfferServes
<1>5. CASE Small.size = 0
  <2>1. SmallerErr(Big, Small) = WithUnit(SelectOne(Big.fv), Big.ub)
    BY <1>5 DEF SmallerErr
  <2>2. Free(Small, 0, size) = BitsOfBytes(0, size)
    <3>1. BitsOfBytes(0, Small.size) = {}
      BY <1>5 DEF BitsOfBytes
    <3> QED
      BY <3>1 DEF Free
  <2> QED
    BY <1>1, <2>1, <2>2, WithUnitServes
<1>6. CASE Small.size # 0 /\ offers # {}
  <2>1. SmallerErr(Big, Small) = choice
    BY <1>6 DEF SmallerErr
  <2>2. \E o \in offers : \A p \in offers : o.shift <= p.shift
    <3> DEFINE S == {o.shift : o \in offers}
    <3> HIDE DEF offers
    <3>1. S \in SUBSET Nat /\ S # {}
      BY <1>4, <1>6
    <3>2. PICK m \in S : \A n \in S : m <= n
      <4> HIDE DEF S
      <4> QED
        BY <3>1, LeastOf
    <3>3. PICK o \in offers : m = o.shift
      OBVIOUS
    <3>4. \A p \in offers : p.shift \in S
      OBVIOUS
    <3> QED
      BY <3>2, <3>3, <3>4
  <2>3. choice \in offers
    <3> HIDE DEF offers
    <3> QED
      BY <2>2
  <2> HIDE DEF offers, choice
  <2> QED
    BY <1>4, <2>1, <2>3
<1>7. CASE Small.size # 0 /\ offers = {}
  <2>1. SmallerErr(Big, Small) = Provided(0, BitDeterminant, <<>>)
    BY <1>7 DEF SmallerErr, WithUnit
  <2> HIDE DEF size
  <2>2. Serves(Provided(0, BitDeterminant, <<>>), Big, Small, size)
    BY <1>1, TagServes
  <2> QED
    BY <2>1, <2>2 DEF size
<1> QED
  BY <1>5, <1>6, <1>7

\* The same of both variants of a Result, wherever they are.
Chosen(det, ub, Ok, okAt, Err, errAt, size) ==
  /\ okAt \in Nat /\ okAt + Ok.size <= size /\ errAt \in Nat /\ errAt + Err.size <= size
  /\ IsDeterminant(det) /\ IsMask(ub, size)
  /\ Positions(ub) \subseteq Free(Ok, okAt, size) \cap Free(Err, errAt, size)
  /\ Suits(det, Ok, okAt, det.not, size) /\ Suits(det, Err, errAt, ~det.not, size)
  /\ IF det.kind = "tag" THEN ub = <<>>
     ELSE /\ Touched(det, 0) \subseteq BitsOfBytes(0, size)
          /\ LooksAt(det, TRUE, 0) \subseteq BitsOfBytes(0, size) \ Positions(ub)

\* The negation of a determinant is the same bits, for the other variant.
LEMMA NegatedIs ==
  ASSUME NEW det, IsDeterminant(det)
  PROVE  /\ IsDeterminant(Negated(det)) /\ Negated(det).kind = det.kind /\ Negated(det).not = ~det.not
         /\ Touched(Negated(det), 0) = Touched(det, 0)
         /\ LooksAt(Negated(det), TRUE, 0) = LooksAt(det, TRUE, 0)
         /\ \A T, at, err, size : Suits(det, T, at, err, size) => Suits(Negated(det), T, at, err, size)
<1> DEFINE neg == Negated(det)
<1>1. det.kind \in {"value", "bit", "tag"} /\ det.not \in BOOLEAN
  BY DEF IsDeterminant
<1>2. CASE det.kind = "value"
  <2>1. det = [kind |-> "value", not |-> det.not, bytes |-> det.bytes] /\ det.bytes \subseteq Nat \X Byte
        /\ \A e, f \in det.bytes : e[1] = f[1] => e = f
    BY <1>2 DEF IsDeterminant
  <2>2. neg = [kind |-> "value", not |-> ~det.not, bytes |-> det.bytes]
    BY <2>1 DEF Negated
  <2>3. neg.kind = "value" /\ neg.not = ~det.not /\ neg.bytes = det.bytes /\ neg.not \in BOOLEAN
        /\ neg = [kind |-> "value", not |-> neg.not, bytes |-> neg.bytes]
    BY <2>2
  <2> HIDE DEF neg
  <2>4. IsDeterminant(neg)
    BY <2>1, <2>3 DEF IsDeterminant
  <2>5. \A at : BytesAt(neg, at) = BytesAt(det, at)
    BY <2>3 DEF BytesAt
  <2>6. Touched(neg, 0) = Touched(det, 0) /\ LooksAt(neg, TRUE, 0) = LooksAt(det, TRUE, 0)
    BY <1>2, <2>3, <2>5 DEF Touched, LooksAt
  <2>7. \A T, at, err, size : Suits(det, T, at, err, size) => Suits(neg, T, at, err, size)
    BY <1>2, <2>3, <2>5 DEF Suits
  <2> QED
    BY <1>2, <2>3, <2>4, <2>6, <2>7 DEF neg
<1>3. CASE det.kind = "bit"
  <2>1. det = [kind |-> "bit", not |-> det.not, byte |-> det.byte, bit |-> det.bit]
        /\ det.byte \in Nat /\ det.bit \in AllBits
    BY <1>3 DEF IsDeterminant
  <2>2. neg = [kind |-> "bit", not |-> ~det.not, byte |-> det.byte, bit |-> det.bit]
    BY <2>1 DEF Negated
  <2>3. neg.kind = "bit" /\ neg.not = ~det.not /\ neg.byte = det.byte /\ neg.bit = det.bit /\ neg.not \in BOOLEAN
        /\ neg = [kind |-> "bit", not |-> neg.not, byte |-> neg.byte, bit |-> neg.bit]
    BY <2>2
  <2> HIDE DEF neg
  <2>4. IsDeterminant(neg)
    BY <2>1, <2>3 DEF IsDeterminant
  <2>5. \A at : TouchedAt(neg, at) = TouchedAt(det, at) /\ BitAt(neg, at) = BitAt(det, at)
    BY <2>3 DEF TouchedAt, BitAt
  <2>6. Touched(neg, 0) = Touched(det, 0) /\ LooksAt(neg, TRUE, 0) = LooksAt(det, TRUE, 0)
    BY <1>3, <2>3, <2>5 DEF Touched, LooksAt
  <2>7. \A T, at, err, size : Suits(det, T, at, err, size) => Suits(neg, T, at, err, size)
    BY <1>3, <2>3, <2>5 DEF Suits
  <2> QED
    BY <1>3, <2>3, <2>4, <2>6, <2>7 DEF neg
<1>4. CASE det.kind = "tag"
  <2>1. det = [kind |-> "tag", not |-> det.not]
    BY <1>4 DEF IsDeterminant
  <2>2. neg = [kind |-> "tag", not |-> ~det.not]
    BY <2>1 DEF Negated
  <2>3. neg.kind = "tag" /\ neg.not = ~det.not /\ neg.not \in BOOLEAN /\ neg = [kind |-> "tag", not |-> neg.not]
    BY <2>2
  <2> HIDE DEF neg
  <2>4. IsDeterminant(neg)
    BY <2>3 DEF IsDeterminant
  <2>6. Touched(neg, 0) = Touched(det, 0) /\ LooksAt(neg, TRUE, 0) = LooksAt(det, TRUE, 0)
    BY <1>4, <2>3 DEF Touched, LooksAt
  <2>7. \A T, at, err, size : Suits(det, T, at, err, size) => Suits(neg, T, at, err, size)
    BY <1>4, <2>3 DEF Suits
  <2> QED
    BY <1>4, <2>3, <2>4, <2>6, <2>7 DEF neg
<1> QED
  BY <1>1, <1>2, <1>3, <1>4

LEMMA LargerIs ==
  ASSUME NEW a \in Nat, NEW b \in Nat
  PROVE  /\ Larger(a, b) \in Nat /\ Larger(a, b) = Larger(b, a) /\ a <= Larger(a, b) /\ b <= Larger(a, b)
         /\ a >= b => Larger(a, b) = a
         /\ a # 0 => Larger(a, b) # 0
BY DEF Larger

OkAt(Ok, Err, shift) == IF Ok.size >= Err.size THEN 0 ELSE shift
ErrAt(Ok, Err, shift) == IF Ok.size >= Err.size THEN shift ELSE 0

\* What is provided suits both variants.
LEMMA ProviderSuits ==
  ASSUME NEW Ok, NEW Err, Honest(Ok), Honest(Err), UnionSize(Ok, Err) = Larger(Ok.size, Err.size),
         NEW p, p = Provider(Ok, Err)
  PROVE  Chosen(p.det, p.ub, Ok, OkAt(Ok, Err, p.shift), Err, ErrAt(Ok, Err, p.shift), Larger(Ok.size, Err.size))
<1>1. Ok.size \in Nat /\ Err.size \in Nat /\ Ok.align \in Nat /\ Err.align \in Nat
  BY DEF Honest
<1>2. CASE Ok.size >= Err.size
  <2>1. p = SmallerErr(Ok, Err)
    BY <1>2 DEF Provider
  <2>2. Larger(Ok.size, Err.size) = Ok.size
    BY <1>1, <1>2, LargerIs
  <2>3. Serves(p, Ok, Err, Ok.size)
    BY <1>1, <1>2, <2>1, <2>2, SmallerServes
  <2>4. OkAt(Ok, Err, p.shift) = 0 /\ ErrAt(Ok, Err, p.shift) = p.shift
    BY <1>2 DEF OkAt, ErrAt
  <2>5. 0 + Ok.size <= Ok.size /\ 0 \in Nat
    BY <1>1
  <2>6. Chosen(p.det, p.ub, Ok, 0, Err, p.shift, Ok.size)
    BY <2>3, <2>5 DEF Serves, Chosen
  <2> QED
    BY <2>2, <2>4, <2>6
<1>3. CASE ~(Ok.size >= Err.size)
  <2> DEFINE q == SmallerErr(Err, Ok)
  <2>1. p = [q EXCEPT !.det = Negated(@)]
    BY <1>3 DEF Provider
  <2>2. Larger(Ok.size, Err.size) = Err.size /\ Ok.size <= Err.size
    BY <1>1, <1>3, LargerIs
  <2>3. UnionSize(Err, Ok) = UnionSize(Ok, Err)
    <3>1. Larger(Ok.size, Err.size) = Larger(Err.size, Ok.size) /\ Larger(Ok.align, Err.align) = Larger(Err.align, Ok.align)
      BY <1>1, LargerIs
    <3> QED
      BY <3>1 DEF UnionSize
  <2>4. Serves(q, Err, Ok, Err.size)
    BY <2>2, <2>3, SmallerServes
  <2> HIDE DEF q
  <2>5. OkAt(Ok, Err, p.shift) = p.shift /\ ErrAt(Ok, Err, p.shift) = 0
    BY <1>3 DEF OkAt, ErrAt
  <2>6. /\ q = Provided(q.shift, q.det, q.ub) /\ q.shift \in Nat /\ q.shift + Ok.size <= Err.size
        /\ IsDeterminant(q.det) /\ IsMask(q.ub, Err.size)
        /\ Positions(q.ub) \subseteq Free(Err, 0, Err.size) \cap Free(Ok, q.shift, Err.size)
        /\ Suits(q.det, Err, 0, q.det.not, Err.size) /\ Suits(q.det, Ok, q.shift, ~q.det.not, Err.size)
    BY <2>4 DEF Serves
  <2>7. IF q.det.kind = "tag" THEN q.ub = <<>>
        ELSE /\ Touched(q.det, 0) \subseteq BitsOfBytes(0, Err.size)
             /\ LooksAt(q.det, TRUE, 0) \subseteq BitsOfBytes(0, Err.size) \ Positions(q.ub)
    BY <2>4 DEF Serves
  <2>8. p.shift = q.shift /\ p.ub = q.ub /\ p.det = Negated(q.det)
    BY <2>1, <2>6 DEF Provided
  <2> DEFINE d == q.det
  <2>9. /\ IsDeterminant(p.det) /\ p.det.kind = d.kind /\ p.det.not = ~d.not
        /\ Touched(p.det, 0) = Touched(d, 0) /\ LooksAt(p.det, TRUE, 0) = LooksAt(d, TRUE, 0)
        /\ \A T, at, err, size : Suits(d, T, at, err, size) => Suits(p.det, T, at, err, size)
    <3>1. IsDeterminant(d) /\ p.det = Negated(d)
      BY <2>6, <2>8
    <3> HIDE DEF d
    <3> QED
      BY <3>1, NegatedIs
  <2>10. Suits(p.det, Ok, p.shift, p.det.not, Err.size) /\ Suits(p.det, Err, 0, ~p.det.not, Err.size)
    <3>1. d.not \in BOOLEAN
      BY <2>6 DEF IsDeterminant
    <3>2. (~p.det.not) = d.not
      BY <2>9, <3>1
    <3>3. Suits(p.det, Ok, q.shift, ~d.not, Err.size) /\ Suits(p.det, Err, 0, d.not, Err.size)
      BY <2>6, <2>9
    <3> QED
      BY <2>8, <2>9, <3>2, <3>3
  <2>11. 0 + Err.size <= Err.size /\ 0 \in Nat
    BY <1>1
  <2>12. /\ p.shift \in Nat /\ p.shift + Ok.size <= Err.size /\ IsMask(p.ub, Err.size)
         /\ Positions(p.ub) \subseteq Free(Ok, p.shift, Err.size) \cap Free(Err, 0, Err.size)
    BY <2>6, <2>8
  <2>13. IF p.det.kind = "tag" THEN p.ub = <<>>
         ELSE /\ Touched(p.det, 0) \subseteq BitsOfBytes(0, Err.size)
              /\ LooksAt(p.det, TRUE, 0) \subseteq BitsOfBytes(0, Err.size) \ Positions(p.ub)
    BY <2>7, <2>8, <2>9
  <2>14. Chosen(p.det, p.ub, Ok, p.shift, Err, 0, Err.size)
    BY <2>9, <2>10, <2>11, <2>12, <2>13 DEF Chosen
  <2> QED
    BY <2>2, <2>5, <2>14
<1> QED
  BY <1>2, <1>3

FrontBits(det, front) == DetBits(det) \o PaddingBits(DetSize(det), front - DetSize(det))

\* What is left unused of a Result without a tag is what the provider leaves.
LEMMA LeftWithoutTag ==
  ASSUME NEW det, det.kind # "tag", NEW n \in Nat, NEW ub, IsMask(ub, n)
  PROVE  /\ IsMask(FrontBits(det, 0) \o ShiftMask(ub, 0), n)
         /\ Positions(FrontBits(det, 0) \o ShiftMask(ub, 0)) = Positions(ub)
<1> DEFINE none == PaddingBits(0, 0)
           shifted == ShiftMask(ub, 0)
<1>1. FrontBits(det, 0) = <<>> \o none
  <2>1. DetSize(det) = 0 /\ DetBits(det) = <<>> /\ 0 - 0 = 0
    BY DEF DetSize, DetBits
  <2> QED
    BY <2>1 DEF FrontBits
<1>2. IsMask(none, 0 + 0) /\ BytesOf(none) = 0 .. 0 + 0 - 1 /\ Positions(none) = BitsOfBytes(0, 0)
  <2>1. 0 \in Nat
    OBVIOUS
  <2> QED
    BY <2>1, PaddingMask
<1>3. IsMask(none, n) /\ BytesOf(none) = {} /\ Positions(none) = {}
  <2>1. 0 + 0 = 0 /\ 0 .. 0 + 0 - 1 = {} /\ BitsOfBytes(0, 0) = {}
    BY DEF BitsOfBytes
  <2>2. IsMask(none, 0) /\ 0 \in Nat /\ 0 <= n
    BY <1>2, <2>1
  <2> HIDE DEF none
  <2>3. IsMask(none, n)
    BY <2>2, WiderMask
  <2> QED
    BY <1>2, <2>1, <2>3
<1> HIDE DEF none
<1>5. /\ IsMask(<<>> \o none, n) /\ BytesOf(<<>> \o none) = {} /\ Positions(<<>> \o none) = {}
  <2>1. none \in Seq(Entry)
    BY <1>3, MaskParts
  <2>2. <<>> \o none = none
    BY <2>1, ConcatEmptySeq
  <2> QED
    BY <1>3, <2>2
<1>6. IsMask(shifted, n) /\ Positions(shifted) = Positions(ub)
  <2>1. IsMask(shifted, n + 0) /\ Positions(shifted) = ShiftBits(Positions(ub), 0)
    <3>1. 0 \in Nat
      OBVIOUS
    <3> QED
      BY <3>1, ShiftedMask
  <2>2. \A b \in Positions(ub) : b + 8 * 0 = b
    <3>1. \A b \in Positions(ub) : b \in Nat
      BY PositionsInside
    <3> QED
      BY <3>1
  <2>3. ShiftBits(Positions(ub), 0) = Positions(ub)
    BY <2>2 DEF ShiftBits
  <2>4. n + 0 = n
    OBVIOUS
  <2> HIDE DEF shifted
  <2> QED
    BY <2>1, <2>3, <2>4
<1> HIDE DEF shifted
<1>7. /\ IsMask((<<>> \o none) \o shifted, n)
      /\ Positions((<<>> \o none) \o shifted) = Positions(<<>> \o none) \cup Positions(shifted)
  <2> DEFINE before == <<>> \o none
  <2>1. IsMask(before, n) /\ BytesOf(before) \cap BytesOf(shifted) = {}
    BY <1>5
  <2> HIDE DEF before
  <2>2. IsMask(before \o shifted, n) /\ Positions(before \o shifted) = Positions(before) \cup Positions(shifted)
    BY <1>6, <2>1, MasksJoin
  <2> QED
    BY <2>2 DEF before
<1>8. /\ IsMask(FrontBits(det, 0) \o shifted, n)
      /\ Positions(FrontBits(det, 0) \o shifted) = Positions(<<>> \o none) \cup Positions(shifted)
  BY <1>1, <1>7
<1> QED
  BY <1>5, <1>6, <1>8 DEF shifted

\* With a tag it is all that is in front of the variants but the tag.
LEMMA LeftWithTag ==
  ASSUME NEW det, det.kind = "tag", NEW n \in Nat, NEW a \in Nat, a # 0
  PROVE  /\ IsMask(FrontBits(det, a) \o ShiftMask(<<>>, a), a + n)
         /\ Positions(FrontBits(det, a) \o ShiftMask(<<>>, a)) = BitsOfBytes(0, a) \ {0}
<1> DEFINE tag == <<<<0, AllBits \ {0}>>>>
           padding == PaddingBits(1, a - 1)
           size == a + n
<1>1. size \in Nat /\ 0 \in 0 .. size - 1 /\ 1 \in Nat /\ a - 1 \in Nat /\ 1 + (a - 1) = a /\ a <= size
  OBVIOUS
<1>2. FrontBits(det, a) = tag \o padding /\ ShiftMask(<<>>, a) = <<>>
  BY DEF FrontBits, DetBits, DetSize, ShiftMask
<1>3. IsMask(tag, size) /\ BytesOf(tag) = {0} /\ Positions(tag) = BitsOfByte(0) \ {0}
  <2> DEFINE bits == AllBits \ {0}
  <2>1. bits \in SUBSET AllBits /\ bits # {} /\ (0 \in bits => bits = AllBits)
    BY DEF AllBits
  <2>2. {8 * 0 + x : x \in bits} = BitsOfByte(0) \ {0}
    BY DEF AllBits, BitsOfByte
  <2> HIDE DEF bits, size
  <2>3. /\ IsMask(<<<<0, bits>>>>, size) /\ BytesOf(<<<<0, bits>>>>) = {0}
        /\ Positions(<<<<0, bits>>>>) = {8 * 0 + x : x \in bits}
    BY <1>1, <2>1, OneByteMask
  <2> QED
    BY <2>2, <2>3 DEF bits
<1>4. IsMask(padding, size) /\ BytesOf(padding) = 1 .. a - 1 /\ Positions(padding) = BitsOfBytes(1, a - 1)
  <2> DEFINE m == a - 1
  <2> HIDE DEF m
  <2>1. m \in Nat /\ 1 + m = a /\ 1 .. 1 + m - 1 = 1 .. m
    BY DEF m
  <2>2. /\ IsMask(PaddingBits(1, m), 1 + m) /\ BytesOf(PaddingBits(1, m)) = 1 .. 1 + m - 1
        /\ Positions(PaddingBits(1, m)) = BitsOfBytes(1, m)
    BY <1>1, <2>1, PaddingMask
  <2>3. IsMask(padding, a)
    BY <2>1, <2>2 DEF m
  <2> HIDE DEF padding, size
  <2>4. IsMask(padding, size)
    BY <1>1, <2>3, WiderMask
  <2> QED
    BY <2>1, <2>2, <2>4 DEF padding, m
<1> HIDE DEF tag, padding, size
<1>5. /\ IsMask(tag \o padding, size)
      /\ Positions(tag \o padding) = Positions(tag) \cup Positions(padding)
  <2>1. BytesOf(tag) \cap BytesOf(padding) = {}
    BY <1>3, <1>4
  <2> QED
    BY <1>1, <1>3, <1>4, <2>1, MasksJoin
<1>6. Positions(tag) \cup Positions(padding) = BitsOfBytes(0, a) \ {0}
  BY <1>3, <1>4 DEF BitsOfByte, BitsOfBytes
<1>7. (tag \o padding) \o <<>> = tag \o padding
  <2>1. tag \o padding \in Seq(Entry)
    BY <1>1, <1>5, MaskParts
  <2> QED
    BY <2>1, ConcatEmptySeq
<1> QED
  BY <1>2, <1>5, <1>6, <1>7 DEF size

\* Where a Result has its variants.
Variants(R, Ok, Err, front, okAt, errAt) ==
  /\ front \in Nat /\ R.okAt = front + okAt /\ R.errAt = front + errAt
  /\ Placed(R.det, Ok, okAt, R.det.not, front, R) /\ Placed(R.det, Err, errAt, ~R.det.not, front, R)

\* What a variant needs for that, of `n` bytes that leave the bits of `left` unused.
HasRoom(det, left, T, at, err, front, R, n) ==
  /\ err \in BOOLEAN /\ front \in Nat /\ n \in Nat
  /\ Honest(T) /\ at \in Nat /\ at + T.size <= n
  /\ IsDeterminant(det) /\ Suits(det, T, at, err, n) /\ Positions(left) \subseteq Free(T, at, n)
  /\ R.size = front + n /\ R.fv = Nothing
  /\ IF det.kind = "tag" THEN front # 0 /\ Positions(R.ub) = BitsOfBytes(0, front) \ {0}
     ELSE /\ front = 0 /\ Positions(R.ub) = Positions(left)
          /\ Touched(det, 0) \subseteq BitsOfBytes(0, n)
          /\ LooksAt(det, TRUE, 0) \subseteq BitsOfBytes(0, n) \ Positions(left)

LEMMA VariantIsPlaced ==
  ASSUME NEW det, NEW left, NEW T, NEW at, NEW err, NEW front, NEW R, NEW n,
         HasRoom(det, left, T, at, err, front, R, n)
  PROVE  Placed(det, T, at, err, front, R)
<1>0. /\ err \in BOOLEAN /\ front \in Nat /\ n \in Nat
      /\ Honest(T) /\ at \in Nat /\ at + T.size <= n
      /\ IsDeterminant(det) /\ Suits(det, T, at, err, n) /\ Positions(left) \subseteq Free(T, at, n)
      /\ R.size = front + n /\ R.fv = Nothing
  BY DEF HasRoom
<1>6. IF det.kind = "tag" THEN front # 0 /\ Positions(R.ub) = BitsOfBytes(0, front) \ {0}
      ELSE /\ front = 0 /\ Positions(R.ub) = Positions(left)
           /\ Touched(det, 0) \subseteq BitsOfBytes(0, n)
           /\ LooksAt(det, TRUE, 0) \subseteq BitsOfBytes(0, n) \ Positions(left)
  BY DEF HasRoom
<1> USE <1>0, <1>6
<1>1. /\ T.size \in Nat /\ IsMask(T.ub, T.size) /\ \A v \in T.vals : IsValue(v, T)
  BY DEF Honest
<1>2. R.size \in Nat /\ front + at + T.size <= R.size
  BY <1>1
<1>3. Suits(det, T, at, err, R.size)
  <2>1. CASE det.kind = "tag"
    BY <2>1 DEF Suits
  <2>2. CASE det.kind # "tag"
    <3>1. R.size = n
      BY <2>2
    <3> QED
      BY <3>1
  <2> QED
    BY <2>1, <2>2
<1>4. ASSUME NEW x \in BitsOfBytes(0, T.size), x + 8 * (front + at) \in Positions(R.ub)
      PROVE  x \in Positions(T.ub)
  <2>1. x \in Int /\ 0 <= x
    BY <1>1 DEF BitsOfBytes
  <2>2. CASE det.kind = "tag"
    <3>1. x + 8 * (front + at) \in BitsOfBytes(0, front)
      BY <1>4, <2>2
    <3> QED
      BY <2>1, <3>1 DEF BitsOfBytes
  <2>3. CASE det.kind # "tag"
    <3>1. x + 8 * (front + at) = x + 8 * at /\ (x + 8 * at) - 8 * at = x
      BY <2>1, <2>3
    <3>2. x + 8 * at \in Free(T, at, n)
      BY <1>4, <2>3, <3>1
    <3> QED
      BY <1>4, <3>1, <3>2 DEF Free
  <2> QED
    BY <2>2, <2>3
<1>5. /\ LooksAt(det, TRUE, 0) \subseteq BitsOfBytes(0, R.size) \ Positions(R.ub)
      /\ Touched(det, 0) \subseteq BitsOfBytes(0, R.size)
  <2>1. CASE det.kind = "tag"
    <3>1. LooksAt(det, TRUE, 0) = {8 * 0} /\ Touched(det, 0) = BitsOfByte(0) /\ 8 * 0 = 0
      BY <2>1 DEF LooksAt, Touched
    <3>2. BitsOfByte(0) \subseteq BitsOfBytes(0, R.size) /\ 0 \in BitsOfBytes(0, R.size)
      BY <1>2, <2>1 DEF BitsOfByte, BitsOfBytes
    <3>3. Positions(R.ub) = BitsOfBytes(0, front) \ {0}
      BY <2>1
    <3> QED
      BY <3>1, <3>2, <3>3
  <2>2. CASE det.kind # "tag"
    <3>1. R.size = n
      BY <2>2
    <3> QED
      BY <2>2, <3>1
  <2> QED
    BY <2>1, <2>2
<1> QED
  BY <1>1, <1>2, <1>3, <1>4, <1>5 DEF Placed

\* A Result of types that are as they should, the larger of which is padded to
\* the alignment of both.
IsResult(R, Ok, Err) ==
  /\ Honest(Ok) /\ Honest(Err) /\ R = ResultOf(Ok, Err)
  /\ Larger(Ok.size, Err.size) % Larger(Ok.align, Err.align) = 0

\* The rest of what it consists of.
HasParts(R, Ok, Err) ==
  /\ R.size \in Nat /\ R.align \in Nat \ {0} /\ IsMask(R.ub, R.size) /\ R.fv = Nothing
  /\ R.ok = Ok /\ R.err = Err
  /\ R.vals = {Made(Choice(R.det, 0, TRUE), v, R.okAt, Ok.size) : v \in Ok.vals}
              \cup {Made(Choice(R.det, 0, FALSE), v, R.errAt, Err.size) : v \in Err.vals}

\* A Result has its variants where its determinant tells them apart.
LEMMA ResultParts ==
  ASSUME NEW Ok, NEW Err, NEW R, IsResult(R, Ok, Err)
  PROVE  /\ \E front, okAt, errAt : Variants(R, Ok, Err, front, okAt, errAt)
         /\ HasParts(R, Ok, Err)
<1> DEFINE n == Larger(Ok.size, Err.size)
           a == Larger(Ok.align, Err.align)
           p == Provider(Ok, Err)
           det == p.det
           front == NextMultiple(DetSize(det), a)
           okAt == OkAt(Ok, Err, p.shift)
           errAt == ErrAt(Ok, Err, p.shift)
<1>0. /\ Honest(Ok) /\ Honest(Err) /\ R = ResultOf(Ok, Err)
      /\ Larger(Ok.size, Err.size) % Larger(Ok.align, Err.align) = 0
  BY DEF IsResult
<1> USE <1>0
<1>1. n \in Nat /\ a \in Nat \ {0} /\ n % a = 0
  <2>1. Ok.size \in Nat /\ Err.size \in Nat /\ Ok.align \in Nat /\ Ok.align # 0 /\ Err.align \in Nat
    BY DEF Honest
  <2> QED
    BY <2>1, LargerIs
<1>2. NextMultiple(n, a) = n /\ NextMultiple(0, a) = 0 /\ NextMultiple(1, a) = a
  <2> HIDE DEF n, a
  <2> QED
    BY <1>1, NextMultipleIs
<1>3. Chosen(det, p.ub, Ok, okAt, Err, errAt, n)
  <2>1. UnionSize(Ok, Err) = Larger(Ok.size, Err.size)
    BY <1>2 DEF UnionSize
  <2>2. p = Provider(Ok, Err)
    OBVIOUS
  <2> HIDE DEF p
  <2>3. Chosen(p.det, p.ub, Ok, OkAt(Ok, Err, p.shift), Err, ErrAt(Ok, Err, p.shift), Larger(Ok.size, Err.size))
    BY <2>1, <2>2, ProviderSuits, SMTT(40)
  <2> QED
    BY <2>3
<1>4. /\ R.size = front + n /\ R.align = a /\ R.fv = Nothing /\ R.det = det /\ R.ok = Ok /\ R.err = Err
      /\ R.okAt = front + okAt /\ R.errAt = front + errAt
      /\ R.ub = FrontBits(det, front) \o ShiftMask(p.ub, front)
  BY DEF ResultOf, OkAt, ErrAt, FrontBits
<1>5. R.vals = {Made(Choice(R.det, 0, TRUE), v, R.okAt, Ok.size) : v \in Ok.vals}
               \cup {Made(Choice(R.det, 0, FALSE), v, R.errAt, Err.size) : v \in Err.vals}
  <2>1. R.vals = {Made(c, v, R.okAt, Ok.size) : c \in {Choice(R.det, 0, TRUE)}, v \in Ok.vals}
                 \cup {Made(c, v, R.errAt, Err.size) : c \in {Choice(R.det, 0, FALSE)}, v \in Err.vals}
    BY DEF ResultOf
  <2> QED
    BY <2>1
<1> HIDE DEF n, a, p, okAt, errAt
<1>6. /\ IF det.kind = "tag" THEN front = a ELSE front = 0
      /\ front \in Nat
  <2>1. DetSize(det) = IF det.kind = "tag" THEN 1 ELSE 0
    BY DEF DetSize
  <2> HIDE DEF det
  <2> QED
    BY <1>1, <1>2, <2>1
<1> HIDE DEF det, front
<1>7. /\ okAt \in Nat /\ okAt + Ok.size <= n /\ errAt \in Nat /\ errAt + Err.size <= n
      /\ IsDeterminant(det) /\ IsMask(p.ub, n)
      /\ Positions(p.ub) \subseteq Free(Ok, okAt, n) \cap Free(Err, errAt, n)
      /\ Suits(det, Ok, okAt, det.not, n) /\ Suits(det, Err, errAt, ~det.not, n)
  BY <1>3 DEF Chosen
<1>8. IF det.kind = "tag" THEN p.ub = <<>>
      ELSE /\ Touched(det, 0) \subseteq BitsOfBytes(0, n)
           /\ LooksAt(det, TRUE, 0) \subseteq BitsOfBytes(0, n) \ Positions(p.ub)
  BY <1>3 DEF Chosen
<1>9. /\ IsMask(R.ub, R.size)
      /\ IF det.kind = "tag" THEN front # 0 /\ Positions(R.ub) = BitsOfBytes(0, front) \ {0}
         ELSE front = 0 /\ Positions(R.ub) = Positions(p.ub)
  <2>1. CASE det.kind = "tag"
    <3>1. R.ub = FrontBits(det, a) \o ShiftMask(<<>>, a) /\ R.size = a + n /\ front = a
      BY <1>4, <1>6, <1>8, <2>1
    <3>2. /\ IsMask(FrontBits(det, a) \o ShiftMask(<<>>, a), a + n)
          /\ Positions(FrontBits(det, a) \o ShiftMask(<<>>, a)) = BitsOfBytes(0, a) \ {0}
      BY <1>1, <2>1, LeftWithTag
    <3> QED
      BY <1>1, <2>1, <3>1, <3>2
  <2>2. CASE det.kind # "tag"
    <3>1. R.ub = FrontBits(det, 0) \o ShiftMask(p.ub, 0) /\ R.size = n /\ front = 0
      BY <1>1, <1>4, <1>6, <2>2
    <3>2. /\ IsMask(FrontBits(det, 0) \o ShiftMask(p.ub, 0), n)
          /\ Positions(FrontBits(det, 0) \o ShiftMask(p.ub, 0)) = Positions(p.ub)
      BY <1>1, <1>7, <2>2, LeftWithoutTag
    <3> QED
      BY <2>2, <3>1, <3>2
  <2> QED
    BY <2>1, <2>2
<1>10. det.not \in BOOLEAN /\ (~det.not) \in BOOLEAN
  BY <1>7 DEF IsDeterminant
<1>11. IF det.kind = "tag" THEN front # 0 /\ Positions(R.ub) = BitsOfBytes(0, front) \ {0}
       ELSE /\ front = 0 /\ Positions(R.ub) = Positions(p.ub)
            /\ Touched(det, 0) \subseteq BitsOfBytes(0, n)
            /\ LooksAt(det, TRUE, 0) \subseteq BitsOfBytes(0, n) \ Positions(p.ub)
  BY <1>8, <1>9
<1> DEFINE left == p.ub
           no == det.not
           yes == ~det.not
<1>12. /\ Positions(left) \subseteq Free(Ok, okAt, n) /\ Positions(left) \subseteq Free(Err, errAt, n)
       /\ Suits(det, Ok, okAt, no, n) /\ Suits(det, Err, errAt, yes, n)
       /\ no \in BOOLEAN /\ yes \in BOOLEAN
       /\ IF det.kind = "tag" THEN front # 0 /\ Positions(R.ub) = BitsOfBytes(0, front) \ {0}
          ELSE /\ front = 0 /\ Positions(R.ub) = Positions(left)
               /\ Touched(det, 0) \subseteq BitsOfBytes(0, n)
               /\ LooksAt(det, TRUE, 0) \subseteq BitsOfBytes(0, n) \ Positions(left)
  BY <1>7, <1>10, <1>11
<1> HIDE DEF left, no, yes
<1>13. Placed(det, Ok, okAt, no, front, R)
  <2>1. HasRoom(det, left, Ok, okAt, no, front, R, n)
    BY <1>1, <1>4, <1>6, <1>7, <1>12 DEF HasRoom
  <2> QED
    BY <2>1, VariantIsPlaced
<1>14. Placed(det, Err, errAt, yes, front, R)
  <2>1. HasRoom(det, left, Err, errAt, yes, front, R, n)
    BY <1>1, <1>4, <1>6, <1>7, <1>12 DEF HasRoom
  <2> QED
    BY <2>1, VariantIsPlaced
<1>15. Variants(R, Ok, Err, front, okAt, errAt)
  BY <1>4, <1>6, <1>13, <1>14 DEF Variants, no, yes
<1>16. R.size \in Nat
  BY <1>1, <1>4, <1>6
<1>17. HasParts(R, Ok, Err)
  BY <1>1, <1>4, <1>5, <1>9, <1>16 DEF HasParts
<1> QED
  BY <1>15, <1>17

VariantOf(R, ok) == IF ok THEN R.ok ELSE R.err
VariantAt(R, ok) == IF ok THEN R.okAt ELSE R.errAt

\* What is made of a value of a variant.
MadeOf(R, ok, v) == Made(Choice(R.det, 0, ok), v, VariantAt(R, ok), VariantOf(R, ok).size)

IsAt(R, ok, front, at, err) ==
  /\ Placed(R.det, VariantOf(R, ok), at, err, front, R)
  /\ err <=> ok = R.det.not
  /\ VariantAt(R, ok) = front + at

\* Each variant of a Result has its place in it, and what the Result holds is
\* made of a value of one of them.
Holds(R) ==
  /\ \A ok \in BOOLEAN :
       /\ Honest(VariantOf(R, ok))
       /\ \E front, at, err : IsAt(R, ok, front, at, err)
  /\ \A w : w \in R.vals <=> \E ok \in BOOLEAN : \E v \in VariantOf(R, ok).vals : w = MadeOf(R, ok, v)

LEMMA ResultHolds ==
  ASSUME NEW Ok, NEW Err, NEW R, IsResult(R, Ok, Err)
  PROVE  Holds(R)
<1>0. HasParts(R, Ok, Err)
  BY ResultParts
<1>1. /\ R.ok = Ok /\ R.err = Err
      /\ R.vals = {Made(Choice(R.det, 0, TRUE), v, R.okAt, Ok.size) : v \in Ok.vals}
                  \cup {Made(Choice(R.det, 0, FALSE), v, R.errAt, Err.size) : v \in Err.vals}
  BY <1>0 DEF HasParts
<1>2. PICK front, okAt, errAt : Variants(R, Ok, Err, front, okAt, errAt)
  BY ResultParts
<1>3. R.det.not \in BOOLEAN
  BY <1>2 DEF Variants, Placed, IsDeterminant
<1>4. /\ VariantOf(R, TRUE) = Ok /\ VariantAt(R, TRUE) = R.okAt
      /\ VariantOf(R, FALSE) = Err /\ VariantAt(R, FALSE) = R.errAt
  BY <1>1 DEF VariantOf, VariantAt
<1>7. Honest(Ok) /\ Honest(Err)
  BY DEF IsResult
<1>5. ASSUME NEW ok \in BOOLEAN
      PROVE  /\ Honest(VariantOf(R, ok))
             /\ \E f, at, err : IsAt(R, ok, f, at, err)
  <2>1. CASE ok
    <3>1. Placed(R.det, Ok, okAt, R.det.not, front, R) /\ R.okAt = front + okAt
      BY <1>2 DEF Variants
    <3>2. ok = TRUE /\ (R.det.not <=> ok = R.det.not)
      BY <1>3, <2>1
    <3>3. VariantOf(R, ok) = Ok /\ VariantAt(R, ok) = R.okAt
      BY <1>4, <3>2
    <3>4. IsAt(R, ok, front, okAt, R.det.not)
      BY <3>1, <3>2, <3>3 DEF IsAt
    <3> QED
      BY <1>7, <3>3, <3>4
  <2>2. CASE ~ok
    <3>1. Placed(R.det, Err, errAt, ~R.det.not, front, R) /\ R.errAt = front + errAt
      BY <1>2 DEF Variants
    <3>2. ok = FALSE /\ (~R.det.not <=> ok = R.det.not)
      BY <1>3, <2>2
    <3>3. VariantOf(R, ok) = Err /\ VariantAt(R, ok) = R.errAt
      BY <1>4, <3>2
    <3>4. IsAt(R, ok, front, errAt, ~R.det.not)
      BY <3>1, <3>2, <3>3 DEF IsAt
    <3> QED
      BY <1>7, <3>3, <3>4
  <2> QED
    BY <2>1, <2>2
<1>6. ASSUME NEW w
      PROVE  w \in R.vals <=> \E ok \in BOOLEAN : \E v \in VariantOf(R, ok).vals : w = MadeOf(R, ok, v)
  <2>1. /\ \A v : MadeOf(R, TRUE, v) = Made(Choice(R.det, 0, TRUE), v, R.okAt, Ok.size)
        /\ \A v : MadeOf(R, FALSE, v) = Made(Choice(R.det, 0, FALSE), v, R.errAt, Err.size)
    BY <1>4 DEF MadeOf
  <2>2. w \in R.vals <=> \/ \E v \in Ok.vals : w = MadeOf(R, TRUE, v)
                         \/ \E v \in Err.vals : w = MadeOf(R, FALSE, v)
    BY <1>1, <2>1
  <2>3. (\E ok \in BOOLEAN : \E v \in VariantOf(R, ok).vals : w = MadeOf(R, ok, v))
          <=> \/ \E v \in VariantOf(R, TRUE).vals : w = MadeOf(R, TRUE, v)
              \/ \E v \in VariantOf(R, FALSE).vals : w = MadeOf(R, FALSE, v)
    OBVIOUS
  <2> QED
    BY <1>4, <2>2, <2>3
<1> QED
  BY <1>5, <1>6 DEF Holds

\* Every choice is made once, and the value stays what it was.
LEMMA HeldIsValue ==
  ASSUME NEW R, Holds(R), NEW ok \in BOOLEAN, NEW v \in VariantOf(R, ok).vals,
         NEW w, w = MadeOf(R, ok, v)
  PROVE  /\ IsValue(w, R)
         /\ \A build \in BOOLEAN : ReadsAs(R.det, build, w, 0) = {ok}
         /\ \A x \in v.care : /\ x + 8 * VariantAt(R, ok) \in w.one <=> x \in v.one
                              /\ x + 8 * VariantAt(R, ok) \in w.care
<1> DEFINE T == VariantOf(R, ok)
           det == R.det
           to == VariantAt(R, ok)
<1>1. PICK front, at, err : Placed(det, T, at, err, front, R) /\ (err <=> ok = det.not) /\ to = front + at
  BY DEF Holds, IsAt
<1>2. w = Made(Choice(det, 0, ok), v, front + at, T.size) /\ v \in T.vals
  BY <1>1 DEF MadeOf
<1> HIDE DEF T, det, to
<1>3. /\ IsValue(w, R)
      /\ \A build \in BOOLEAN : ReadsAs(det, build, w, 0) = {ok}
      /\ \A x \in v.care : /\ x + 8 * (front + at) \in w.one <=> x \in v.one
                           /\ x + 8 * (front + at) \in w.care
  BY <1>1, <1>2, MadeIsValue
<1> QED
  BY <1>1, <1>3 DEF T, det, to

\* The choices of two such values are told apart when those of the values are.
LEMMA HeldIsToldApart ==
  ASSUME NEW R, Holds(R), NEW w \in R.vals, NEW z \in R.vals
  PROVE  ToldApart(w, z)
<1>1. PICK ok \in BOOLEAN : \E v \in VariantOf(R, ok).vals : w = MadeOf(R, ok, v)
  BY DEF Holds
<1>2. PICK v \in VariantOf(R, ok).vals : w = MadeOf(R, ok, v)
  BY <1>1
<1>3. PICK other \in BOOLEAN : \E u \in VariantOf(R, other).vals : z = MadeOf(R, other, u)
  BY DEF Holds
<1>4. PICK u \in VariantOf(R, other).vals : z = MadeOf(R, other, u)
  BY <1>3
<1> DEFINE c == Choice(R.det, 0, ok)
           d == Choice(R.det, 0, other)
           to == VariantAt(R, ok)
<1>5. /\ w.choices = {[e EXCEPT !.at = @ + to] : e \in v.choices} \cup {c}
      /\ z.choices = {[e EXCEPT !.at = @ + VariantAt(R, other)] : e \in u.choices} \cup {d}
  BY <1>2, <1>4 DEF MadeOf, Made, ShiftValue
<1>6. c.det = R.det /\ c.at = 0 /\ c.ok = ok /\ d.det = R.det /\ d.at = 0 /\ d.ok = other
  BY DEF Choice
<1>7. CASE ok # other
  <2>1. c \in w.choices /\ d \in z.choices
    BY <1>5
  <2> HIDE DEF c, d
  <2> QED
    BY <1>6, <1>7, <2>1 DEF ToldApart
<1>8. CASE ok = other
  <2>1. ToldApart(v, u)
    BY <1>8 DEF Holds, Honest
  <2>2. CASE v.choices = u.choices
    <3>1. w.choices = z.choices
      BY <1>5, <1>8, <2>2
    <3> QED
      BY <3>1 DEF ToldApart
  <2>3. CASE v.choices # u.choices
    <3>1. PICK e \in v.choices, f \in u.choices : e.det = f.det /\ e.at = f.at /\ e.ok # f.ok
      BY <2>1, <2>3 DEF ToldApart
    <3> DEFINE g == [e EXCEPT !.at = @ + to]
               h == [f EXCEPT !.at = @ + to]
    <3>2. e = Choice(e.det, e.at, e.ok) /\ f = Choice(f.det, f.at, f.ok)
      BY <1>8 DEF Holds, Honest, IsValue, IsChoice
    <3>3. g.det = e.det /\ g.at = e.at + to /\ g.ok = e.ok /\ h.det = f.det /\ h.at = f.at + to /\ h.ok = f.ok
      BY <3>2 DEF Choice
    <3>4. g \in w.choices /\ h \in z.choices
      BY <1>5, <1>8
    <3> HIDE DEF g, h
    <3>5. g.det = h.det /\ g.at = h.at /\ g.ok # h.ok
      BY <3>1, <3>3
    <3> QED
      BY <3>4, <3>5 DEF ToldApart
  <2> QED
    BY <2>2, <2>3
<1> QED
  BY <1>7, <1>8

(* A Result of two types that are as they should be is one as well, as     *)
(* long as the size of the larger one is a multiple of both alignments: no *)
(* two of its determinants, its values and its unused bits ever collide,   *)
(* and every value that a constructor makes is read back as the variant it *)
(* was made of (Result::Ok, Err and is_ok in result.rs, with the choice of *)
(* a determinant in enums/mod.rs, err_non_empty.rs and err_size_0.rs).     *)
THEOREM ResultIsHonest ==
  ASSUME NEW Ok, NEW Err, Honest(Ok), Honest(Err), Larger(Ok.size, Err.size) % Larger(Ok.align, Err.align) = 0
  PROVE  Honest(ResultOf(Ok, Err))
<1> DEFINE R == ResultOf(Ok, Err)
<1>1. R.size \in Nat /\ R.align \in Nat \ {0} /\ IsMask(R.ub, R.size) /\ R.fv = Nothing
  <2>1. IsResult(R, Ok, Err)
    BY DEF IsResult
  <2> HIDE DEF R
  <2>2. HasParts(R, Ok, Err)
    BY <2>1, ResultParts
  <2> QED
    BY <2>2 DEF HasParts
<1>2. Holds(R)
  <2>1. IsResult(R, Ok, Err)
    BY DEF IsResult
  <2> HIDE DEF R
  <2> QED
    BY <2>1, ResultHolds
<1> HIDE DEF R
<1>3. /\ R.fv # <<>> /\ R.fv \in Seq(SUBSET (Nat \X SUBSET Byte))
      /\ DOMAIN R.fv = {1} /\ R.fv[1] = {}
  <2>1. {} \in SUBSET (Nat \X SUBSET Byte)
    OBVIOUS
  <2> QED
    BY <1>1, <2>1 DEF Nothing, NoValue
<1>4. \A i \in DOMAIN R.fv : IsForbidden(R.fv[i], R.size, R.ub)
  BY <1>3 DEF IsForbidden
<1>5. \A w \in R.vals : IsValue(w, R)
  <2>1. SUFFICES ASSUME NEW w \in R.vals PROVE IsValue(w, R)
    OBVIOUS
  <2>2. PICK ok \in BOOLEAN : \E v \in VariantOf(R, ok).vals : w = MadeOf(R, ok, v)
    BY <1>2 DEF Holds
  <2>3. PICK v \in VariantOf(R, ok).vals : w = MadeOf(R, ok, v)
    BY <2>2
  <2> QED
    BY <1>2, <2>3, HeldIsValue
<1>6. \A w, z \in R.vals : ToldApart(w, z)
  BY <1>2, HeldIsToldApart
<1> QED
  BY <1>1, <1>3, <1>4, <1>5, <1>6 DEF Honest, R

-----------------------------------------------------------------------------
(* Memory that shows a value *)

\* A determinant stands in the byte of a tag.
Overlays(v) ==
  \E c, d \in v.choices : c.det.kind = "tag" /\ d.det.kind = "bit" /\ d.at + d.det.byte = c.at

\* No value of the type is like that, or the build masks the tag.
Legible(T, build) == build \/ \A v \in T.vals : ~Overlays(v)

\* What is in memory from byte `at` on is the value v.
Shows(m, v, at, build) ==
  /\ \A x \in v.care : x + 8 * at \notin m.undef /\ (x + 8 * at \in m.one <=> x \in v.one)
  /\ \A c \in v.choices : ReadsAs(c.det, build, m, c.at + at) = {c.ok}

\* What is in memory `m` from byte `at` on is in memory `n` from byte `to` on.
SameBits(m, at, n, to, bits) ==
  \A x \in bits : /\ x + 8 * to \in n.one <=> x + 8 * at \in m.one
                  /\ x + 8 * to \in n.undef <=> x + 8 * at \in m.undef

LEMMA ChoiceMoves ==
  ASSUME NEW c, c = Choice(c.det, c.at, c.ok), NEW to, NEW d, d = [c EXCEPT !.at = @ + to]
  PROVE  d = Choice(c.det, c.at + to, c.ok) /\ d.det = c.det /\ d.at = c.at + to /\ d.ok = c.ok
<1>1. c = [det |-> c.det, at |-> c.at, ok |-> c.ok]
  BY DEF Choice
<1>2. [[det |-> c.det, at |-> c.at, ok |-> c.ok] EXCEPT !.at = @ + to]
        = [det |-> c.det, at |-> c.at + to, ok |-> c.ok]
  OBVIOUS
<1>3. d = [det |-> c.det, at |-> c.at + to, ok |-> c.ok]
  BY <1>1, <1>2
<1> QED
  BY <1>3 DEF Choice

\* A build that does not mask a tag looks at the whole byte of it.
LEMMA LooksInside ==
  ASSUME NEW det, IsDeterminant(det), NEW at \in Nat, NEW size \in Nat, NEW build \in BOOLEAN,
         LooksAt(det, TRUE, at) \subseteq BitsOfBytes(0, size)
  PROVE  LooksAt(det, build, at) \subseteq BitsOfBytes(0, size)
<1>1. det.kind \in {"value", "bit", "tag"}
  BY DEF IsDeterminant
<1>2. CASE build \/ det.kind # "tag"
  <2>1. LooksAt(det, build, at) = LooksAt(det, TRUE, at)
    BY <1>1, <1>2 DEF LooksAt
  <2> QED
    BY <2>1
<1>3. CASE ~build /\ det.kind = "tag"
  <2>1. LooksAt(det, build, at) = BitsOfByte(at) /\ LooksAt(det, TRUE, at) = {8 * at}
    BY <1>3 DEF LooksAt
  <2>2. 8 * at \in BitsOfBytes(0, size)
    BY <2>1
  <2>3. BitsOfByte(at) \subseteq BitsOfBytes(0, size)
    BY <2>2 DEF BitsOfByte, BitsOfBytes
  <2> QED
    BY <2>1, <2>3
<1> QED
  BY <1>2, <1>3

\* Reading the choices of a value needs no bits but its own.
LEMMA ChoicesInside ==
  ASSUME NEW T, T.size \in Nat, NEW v, IsValue(v, T), NEW c \in v.choices, NEW build \in BOOLEAN
  PROVE  /\ c.at \in Nat /\ IsDeterminant(c.det) /\ c = Choice(c.det, c.at, c.ok) /\ c.ok \in BOOLEAN
         /\ LooksAt(c.det, build, c.at) \subseteq BitsOfBytes(0, T.size)
<1>1. /\ c.at \in Nat /\ IsDeterminant(c.det) /\ c = Choice(c.det, c.at, c.ok) /\ c.ok \in BOOLEAN
      /\ LooksAt(c.det, TRUE, c.at) \subseteq BitsOfBytes(0, T.size)
  BY DEF IsValue, IsChoice
<1>2. LooksAt(c.det, build, c.at) \subseteq BitsOfBytes(0, T.size)
  BY <1>1, LooksInside
<1> QED
  BY <1>1, <1>2

\* The choices of a value are read as they are, but for an overlaid tag.
LEMMA ChoicesAreRead ==
  ASSUME NEW T, NEW v, IsValue(v, T), NEW build \in BOOLEAN, build \/ ~Overlays(v), NEW c \in v.choices
  PROVE  ReadsAs(c.det, build, v, c.at) = {c.ok}
<1>1. IsRead(v, c)
  BY DEF IsValue, IsChoice
<1> QED
  BY <1>1 DEF IsRead, Overlays

LEMMA ValueShows ==
  ASSUME NEW T, T.size \in Nat, NEW v, IsValue(v, T), NEW build \in BOOLEAN, build \/ ~Overlays(v),
         NEW at \in Nat, NEW m,
         \A x \in BitsOfBytes(0, T.size) : /\ x + 8 * at \in m.one <=> x \in v.one
                                           /\ x + 8 * at \in m.undef <=> x \in v.undef
  PROVE  Shows(m, v, at, build)
<1>1. v.care \subseteq BitsOfBytes(0, T.size) /\ v.care \cap v.undef = {}
  BY DEF IsValue
<1>2. \A x \in v.care : x + 8 * at \notin m.undef /\ (x + 8 * at \in m.one <=> x \in v.one)
  BY <1>1
<1>3. ASSUME NEW c \in v.choices PROVE ReadsAs(c.det, build, m, c.at + at) = {c.ok}
  <2>1. /\ c.at \in Nat /\ IsDeterminant(c.det)
        /\ LooksAt(c.det, build, c.at) \subseteq BitsOfBytes(0, T.size)
    BY ChoicesInside
  <2>2. \A b \in LooksAt(c.det, build, c.at) : /\ b + 8 * at \in m.one <=> b \in v.one
                                               /\ b + 8 * at \in m.undef <=> b \in v.undef
    BY <2>1
  <2>3. ReadsAs(c.det, build, m, c.at + at) = ReadsAs(c.det, build, v, c.at)
    BY <2>1, <2>2, ReadsDepend
  <2>4. ReadsAs(c.det, build, v, c.at) = {c.ok}
    BY ChoicesAreRead
  <2> QED
    BY <2>3, <2>4
<1> QED
  BY <1>2, <1>3 DEF Shows

\* Two memories with the same bits from byte `at` on show the same there.
LEMMA SameReads ==
  ASSUME NEW det, IsDeterminant(det), NEW build \in BOOLEAN, NEW at \in Nat, NEW m, NEW n,
         \A b \in LooksAt(det, build, at) : (b \in n.one <=> b \in m.one) /\ (b \in n.undef <=> b \in m.undef)
  PROVE  ReadsAs(det, build, n, at) = ReadsAs(det, build, m, at)
<1> DEFINE by == 0
<1>1. by \in Nat /\ at + by = at
  OBVIOUS
<1>2. \A b \in LooksAt(det, build, at) : b + 8 * by = b
  <2>1. LooksAt(det, build, at) \subseteq Int
    BY <1>1, LooksShift
  <2> QED
    BY <2>1
<1>3. \A b \in LooksAt(det, build, at) : /\ b + 8 * by \in n.one <=> b \in m.one
                                         /\ b + 8 * by \in n.undef <=> b \in m.undef
  BY <1>2
<1> HIDE DEF by
<1>4. ReadsAs(det, build, n, at + by) = ReadsAs(det, build, m, at)
  BY <1>1, <1>3, ReadsDepend
<1> QED
  BY <1>1, <1>4

LEMMA ShowsTheSame ==
  ASSUME NEW T, T.size \in Nat, NEW v, IsValue(v, T), NEW build \in BOOLEAN, NEW at \in Nat, NEW m, NEW n,
         SameBits(m, at, n, at, BitsOfBytes(0, T.size)), Shows(m, v, at, build)
  PROVE  Shows(n, v, at, build)
<1>1. v.care \subseteq BitsOfBytes(0, T.size)
  BY DEF IsValue
<1>2. \A x \in v.care : x + 8 * at \notin n.undef /\ (x + 8 * at \in n.one <=> x \in v.one)
  BY <1>1 DEF Shows, SameBits
<1>3. ASSUME NEW c \in v.choices PROVE ReadsAs(c.det, build, n, c.at + at) = {c.ok}
  <2>1. /\ c.at \in Nat /\ IsDeterminant(c.det)
        /\ LooksAt(c.det, build, c.at) \subseteq BitsOfBytes(0, T.size)
    BY ChoicesInside
  <2>2. LooksAt(c.det, build, c.at + at) = ShiftBits(LooksAt(c.det, build, c.at), at)
    BY <2>1, LooksShift
  <2>3. \A b \in LooksAt(c.det, build, c.at + at) :
          (b \in n.one <=> b \in m.one) /\ (b \in n.undef <=> b \in m.undef)
    BY <2>1, <2>2 DEF SameBits, ShiftBits
  <2>4. c.at + at \in Nat
    BY <2>1
  <2>5. ReadsAs(c.det, build, n, c.at + at) = ReadsAs(c.det, build, m, c.at + at)
    BY <2>1, <2>3, <2>4, SameReads
  <2> QED
    BY <2>5 DEF Shows
<1> QED
  BY <1>2, <1>3 DEF Shows

-----------------------------------------------------------------------------
(* A value that is in memory in its place in a Result *)

LEMMA TouchedShift ==
  ASSUME NEW det, IsDeterminant(det), NEW at \in Nat
  PROVE  Touched(det, at) = ShiftBits(Touched(det, 0), at) /\ Touched(det, 0) \subseteq Int
<1>1. det.kind \in {"value", "bit", "tag"}
  BY DEF IsDeterminant
<1> DEFINE zero == 0
           build == FALSE
<1>2. zero \in Nat /\ build \in BOOLEAN /\ zero + at = at
  OBVIOUS
<1>3. LooksAt(det, build, at) = ShiftBits(LooksAt(det, build, zero), at) /\ LooksAt(det, build, zero) \subseteq Int
  <2> HIDE DEF zero, build
  <2>1. LooksAt(det, build, zero + at) = ShiftBits(LooksAt(det, build, zero), at)
    BY <1>2, LooksShift
  <2>2. LooksAt(det, build, zero) \subseteq Int
    BY <1>2, LooksShift
  <2> QED
    BY <1>2, <2>1, <2>2
<1>4. CASE det.kind = "value"
  BY <1>3, <1>4 DEF LooksAt, Touched
<1>5. CASE det.kind = "tag"
  BY <1>3, <1>5 DEF LooksAt, Touched
<1>6. CASE det.kind = "bit"
  <2>1. det.byte \in Nat /\ det.bit \in Nat
    BY <1>6 DEF IsDeterminant, AllBits
  <2>2. Touched(det, at) = TouchedAt(det, at) /\ Touched(det, 0) = TouchedAt(det, 0)
    BY <1>6 DEF Touched
  <2>3. CASE det.bit = 0
    <3>1. TouchedAt(det, at) = BitsOfByte(at + det.byte) /\ TouchedAt(det, 0) = BitsOfByte(det.byte)
      BY <2>1, <2>3 DEF TouchedAt
    <3>2. \A b : b \in BitsOfByte(at + det.byte) => b - 8 * at \in BitsOfByte(det.byte) /\ b = (b - 8 * at) + 8 * at
      BY <2>1 DEF BitsOfByte
    <3>3. \A b \in BitsOfByte(det.byte) : b + 8 * at \in BitsOfByte(at + det.byte) /\ b \in Int
      BY <2>1 DEF BitsOfByte
    <3> QED
      BY <2>2, <3>1, <3>2, <3>3 DEF ShiftBits
  <2>4. CASE det.bit # 0
    <3>1. TouchedAt(det, at) = {BitAt(det, at)} /\ TouchedAt(det, 0) = {BitAt(det, 0)}
      BY <2>4 DEF TouchedAt
    <3>2. BitAt(det, at) = BitAt(det, 0) + 8 * at /\ BitAt(det, 0) \in Int
      BY <2>1 DEF BitAt
    <3> QED
      BY <2>2, <3>1, <3>2 DEF ShiftBits
  <2> QED
    BY <2>3, <2>4
<1> QED
  BY <1>1, <1>4, <1>5, <1>6

\* What is read of a value's choices is not written with the determinant around
\* it, unless that is a bit in the byte of a tag.
LEMMA ChoicesApart ==
  ASSUME NEW det, NEW T, NEW at, NEW err, NEW front, NEW R, Placed(det, T, at, err, front, R),
         NEW v \in T.vals, NEW c \in v.choices, NEW build \in BOOLEAN,
         NEW b \in LooksAt(c.det, build, c.at), b + 8 * (front + at) \in Written(det, err)
  PROVE  ~build /\ c.det.kind = "tag" /\ det.kind = "bit" /\ det.byte = c.at + (front + at)
<1> DEFINE to == front + at
<1>1. /\ T.size \in Nat /\ at \in Nat /\ front \in Nat /\ err \in BOOLEAN
      /\ IsDeterminant(det) /\ IsValue(v, T)
  BY DEF Placed
<1>2. /\ c.at \in Nat /\ IsDeterminant(c.det) /\ LooksAt(c.det, build, c.at) \subseteq BitsOfBytes(0, T.size)
  BY <1>1, ChoicesInside
<1>3. LooksAt(c.det, TRUE, c.at) \subseteq BitsOfBytes(0, T.size) \ Positions(T.ub)
  BY <1>1 DEF IsValue, IsChoice
<1>4. b \in BitsOfBytes(0, T.size) /\ b \in Positions(T.ub) /\ det.kind # "tag"
  BY <1>2, WrittenIsFree
<1>5. ~build /\ c.det.kind = "tag"
  <2>1. SUFFICES ASSUME build \/ c.det.kind # "tag" PROVE FALSE
    OBVIOUS
  <2>2. c.det.kind \in {"value", "bit", "tag"}
    BY <1>2 DEF IsDeterminant
  <2>3. LooksAt(c.det, build, c.at) = LooksAt(c.det, TRUE, c.at)
    BY <2>1, <2>2 DEF LooksAt
  <2> QED
    BY <1>3, <1>4, <2>3
<1>6. b \in BitsOfByte(c.at) /\ 8 * c.at \in BitsOfBytes(0, T.size) /\ 8 * c.at \notin Positions(T.ub)
  BY <1>3, <1>5 DEF LooksAt
<1>7. 8 * c.at + 8 * to \notin Written(det, err)
  BY <1>6, WrittenIsFree
<1>8. \A o \in Int : b + 8 * to \in BitsOfByte(o) => o = c.at + to /\ 8 * c.at + 8 * to \in BitsOfByte(o)
  BY <1>1, <1>2, <1>6 DEF BitsOfByte
<1>9. CASE det.kind = "value"
  <2>1. Written(det, err) = BytesAt(det, 0)
    BY <1>9 DEF Written, Touched
  <2>2. PICK e \in det.bytes : b + 8 * to \in BitsOfByte(0 + e[1])
    BY <2>1 DEF BytesAt
  <2>3. 0 + e[1] \in Int
    BY <1>1, <1>9, ValueParts
  <2>4. 8 * c.at + 8 * to \in BitsOfByte(0 + e[1])
    <3> HIDE DEF to
    <3> QED
      BY <1>8, <2>2, <2>3
  <2>5. 8 * c.at + 8 * to \in BytesAt(det, 0)
    BY <2>4 DEF BytesAt
  <2> QED
    BY <1>7, <2>1, <2>5
<1>10. CASE det.kind = "bit"
  <2>1. Written(det, err) = TouchedAt(det, 0)
    BY <1>10 DEF Written, Touched
  <2>2. det.byte \in Nat /\ det.bit \in AllBits /\ BitAt(det, 0) \in BitsOfByte(0 + det.byte) /\ 0 + det.byte = det.byte
    <3>1. 0 \in Nat
      OBVIOUS
    <3>2. det.byte \in Nat /\ det.bit \in AllBits /\ BitAt(det, 0) \in BitsOfByte(0 + det.byte)
      BY <1>1, <1>10, <3>1, BitParts
    <3> QED
      BY <3>2
  <2>3. b + 8 * to \in BitsOfByte(det.byte)
    BY <2>1, <2>2 DEF TouchedAt
  <2>4. det.byte = c.at + to
    BY <1>8, <2>2, <2>3
  <2> QED
    BY <1>5, <1>10, <2>4
<1> QED
  BY <1>1, <1>4, <1>9, <1>10 DEF IsDeterminant

IsUnmarked(det, T, at, err, front, R) == Placed(det, T, at, err, front, R) /\ det.kind = "value" /\ ~err
ShowsIn(m, v, base, front, at, build) == Shows(m, v, base + (front + at), build)

\* A value that differs from the determinant's is not taken for it.
LEMMA DiffersIsRead ==
  ASSUME NEW det, NEW T, NEW at, NEW err, NEW front, NEW R,
         IsUnmarked(det, T, at, err, front, R), NEW v \in T.vals,
         NEW base \in Nat, NEW m, NEW build \in BOOLEAN,
         ShowsIn(m, v, base, front, at, build)
  PROVE  ReadsErr(det, build, m, base) = {err}
<1>0. Placed(det, T, at, err, front, R) /\ det.kind = "value" /\ err = FALSE
  BY DEF IsUnmarked, Placed
<1>1. /\ T.size \in Nat /\ at \in Nat /\ front = 0 /\ IsDeterminant(det)
      /\ v.care \subseteq BitsOfBytes(0, T.size)
  BY <1>0 DEF Placed, IsValue
<1>2. PICK e \in det.bytes : Differs(v, at, e)
  BY <1>0 DEF Placed, Suits
<1>3. PICK x \in AllBits : ~((8 * e[1] + x) - 8 * at \in v.one <=> x \in BitsOf(e[2]))
  BY <1>2 DEF Differs
<1> DEFINE b == 8 * e[1] + x
           far == 8 * (base + e[1]) + x
<1>4. ~(b - 8 * at \in v.one <=> x \in BitsOf(e[2]))
  BY <1>3
<1>5. e[1] \in Nat /\ x \in 0 .. 7
  BY <1>0, <1>1, ValueParts DEF AllBits
<1>6. b \in BitsOfByte(e[1]) /\ far \in BitsOfByte(base + e[1])
  BY <1>5 DEF BitsOfByte
<1>7. b - 8 * at \in v.care /\ (b - 8 * at) + 8 * (base + (front + at)) = far
  BY <1>1, <1>2, <1>5, <1>6 DEF Differs
<1>8. far \in BytesAt(det, base)
  BY <1>6 DEF BytesAt
<1>9. far \notin m.undef /\ (far \in m.one <=> b - 8 * at \in v.one)
  <2> HIDE DEF b, far
  <2> QED
    BY <1>7 DEF Shows, ShowsIn
<1>10. far \in OnesAt(det, base) <=> x \in BitsOf(e[2])
  BY <1>0, <1>1, OnesAreInBytes
<1> HIDE DEF b, far
<1>11. ~MayBe(m, BytesAt(det, base), OnesAt(det, base))
  BY <1>4, <1>8, <1>9, <1>10 DEF MayBe
<1>12. LooksAt(det, build, base) = BytesAt(det, base)
  BY <1>0 DEF LooksAt
<1> QED
  BY <1>0, <1>11, <1>12 DEF ReadsErr, MustBe

\* The determinant is set, or it is a tag that was not written over.
IsMarked(m, n, det, ok, at, build) ==
  \/ n.one = MarkAs(det, ok, m, at).one /\ n.undef = MarkAs(det, ok, m, at).undef
  \/ det.kind = "tag" /\ n = m /\ ReadsAs(det, build, m, at) = {ok}

\* In memory that has the value in its place, there is then the whole.
LEMMA ShowsWhole ==
  ASSUME NEW R, Holds(R), NEW ok \in BOOLEAN, NEW v \in VariantOf(R, ok).vals, NEW w, w = MadeOf(R, ok, v),
         NEW build \in BOOLEAN, build \/ ~Overlays(w), NEW base \in Nat, NEW m, NEW n,
         Shows(m, v, base + VariantAt(R, ok), build), IsMarked(m, n, R.det, ok, base, build)
  PROVE  Shows(n, w, base, build)
<1> DEFINE T == VariantOf(R, ok)
           det == R.det
           to == VariantAt(R, ok)
<1>1. PICK front, at, err : Placed(det, T, at, err, front, R) /\ (err <=> ok = det.not) /\ to = front + at
  BY DEF Holds, IsAt
<1>2. /\ T.size \in Nat /\ at \in Nat /\ front \in Nat /\ to \in Nat /\ err \in BOOLEAN
      /\ IsDeterminant(det) /\ det.not \in BOOLEAN /\ IsValue(v, T)
  BY <1>1 DEF Placed, IsDeterminant
<1>3. /\ w.care = ShiftBits(v.care, to)
      /\ w.choices = {[c EXCEPT !.at = @ + to] : c \in v.choices} \cup {Choice(det, 0, ok)}
      /\ MadeOf(R, ok, v) = Made(Choice(det, 0, ok), v, to, T.size)
  BY DEF MadeOf, Made, ShiftValue
<1>4. (ok = det.not) = err
  BY <1>1, <1>2
<1>5. n = m \/ (n.one = MarkErr(det, err, m, base).one /\ n.undef = MarkErr(det, err, m, base).undef)
  BY <1>4 DEF IsMarked, MarkAs
<1> HIDE DEF T, det, to
<1>6. ReadsAs(det, build, n, base) = {ok}
  <2>1. CASE det.kind = "tag" /\ n = m /\ ReadsAs(det, build, m, base) = {ok}
    BY <2>1
  <2>2. CASE n.one = MarkErr(det, err, m, base).one /\ n.undef = MarkErr(det, err, m, base).undef
    <3> DEFINE new == MarkErr(det, err, m, base)
    <3>1. ReadsErr(det, build, n, base) = ReadsErr(det, build, new, base)
      BY <2>2 DEF ReadsErr, MayBe, MustBe
    <3>2. ReadsErr(det, build, new, base) = {err}
      <4>1. CASE ~(det.kind = "value" /\ ~err)
        BY <1>2, <4>1, MarkIsRead
      <4>2. CASE det.kind = "value" /\ ~err
        <5>1. new = m
          BY <1>2, <4>2, MarkKeeps
        <5>2. v \in T.vals /\ ShowsIn(m, v, base, front, at, build)
          BY <1>1 DEF T, to, ShowsIn
        <5>4. IsUnmarked(det, T, at, err, front, R)
          BY <1>1, <4>2 DEF IsUnmarked
        <5>3. ReadsErr(det, build, m, base) = {err}
          BY <5>2, <5>4, DiffersIsRead
        <5> QED
          BY <1>2, <4>2, <5>1, <5>3
      <4> QED
        BY <4>1, <4>2
    <3> HIDE DEF new
    <3>3. \A o \in BOOLEAN : (o = det.not) = err <=> o = ok
      BY <1>2, <1>4
    <3>4. ReadsAs(det, build, n, base) = {o \in BOOLEAN : (o = det.not) = err}
      BY <3>1, <3>2 DEF ReadsAs
    <3> QED
      BY <3>3, <3>4
  <2> QED
    BY <1>4, <2>1, <2>2 DEF IsMarked, MarkAs, det
<1>7. ASSUME NEW b, b \notin ShiftBits(Written(det, err), base)
      PROVE  (b \in n.one <=> b \in m.one) /\ (b \in n.undef <=> b \in m.undef)
  <2> DEFINE new == MarkErr(det, err, m, base)
  <2>1. /\ b \notin Touched(det, base) => Same(m, new, b)
        /\ det.kind = "value" /\ ~err => new = m
    BY <1>2, MarkKeeps
  <2>2. Touched(det, base) = ShiftBits(Touched(det, 0), base)
    BY <1>2, TouchedShift
  <2>3. Same(m, new, b)
    BY <1>7, <2>1, <2>2 DEF Written, Same
  <2> QED
    BY <1>5, <2>3 DEF Same
<1>8. ASSUME NEW x \in Int, x \notin Written(det, err)
      PROVE  /\ x + 8 * base \in n.one <=> x + 8 * base \in m.one
             /\ x + 8 * base \in n.undef <=> x + 8 * base \in m.undef
  <2>1. Written(det, err) \subseteq Int
    BY <1>2, TouchedShift DEF Written
  <2>2. \A y \in Written(det, err) : y + 8 * base # x + 8 * base
    BY <1>8, <2>1
  <2>3. x + 8 * base \notin ShiftBits(Written(det, err), base)
    BY <2>2 DEF ShiftBits
  <2> QED
    BY <1>7, <2>3
<1>9. ASSUME NEW x \in w.care
      PROVE  x + 8 * base \notin n.undef /\ (x + 8 * base \in n.one <=> x \in w.one)
  <2>1. PICK y \in v.care : x = y + 8 * to
    BY <1>3 DEF ShiftBits
  <2>2. y \in BitsOfBytes(0, T.size) /\ y \notin Positions(T.ub) /\ y \in Int
    BY <1>2 DEF IsValue, BitsOfBytes
  <2>3. x \notin Written(det, err) /\ x \in Int
    BY <1>1, <1>2, <2>1, <2>2, WrittenIsFree
  <2>4. x + 8 * base = y + 8 * (base + to)
    BY <1>2, <2>1, <2>2
  <2>5. y + 8 * (base + to) \notin m.undef /\ (y + 8 * (base + to) \in m.one <=> y \in v.one)
    BY DEF Shows, to
  <2>6. x \in w.one <=> y \in v.one
    <3>1. y + 8 * VariantAt(R, ok) \in w.one <=> y \in v.one
      BY HeldIsValue
    <3> QED
      BY <2>1, <3>1 DEF to
  <2> QED
    BY <1>8, <2>3, <2>4, <2>5, <2>6
<1>10. ASSUME NEW d \in w.choices PROVE ReadsAs(d.det, build, n, d.at + base) = {d.ok}
  <2>1. CASE d = Choice(det, 0, ok)
    <3>1. d.det = det /\ d.at + base = base /\ d.ok = ok
      BY <2>1 DEF Choice
    <3> QED
      BY <1>6, <3>1
  <2>2. ASSUME NEW c \in v.choices, d = [c EXCEPT !.at = @ + to]
        PROVE  ReadsAs(d.det, build, n, d.at + base) = {d.ok}
    <3>1. /\ c.at \in Nat /\ IsDeterminant(c.det) /\ c = Choice(c.det, c.at, c.ok)
          /\ LooksAt(c.det, build, c.at) \subseteq BitsOfBytes(0, T.size)
      BY <1>2, ChoicesInside
    <3>2. d.det = c.det /\ d.at = c.at + to /\ d.ok = c.ok
      BY <2>2, <3>1, ChoiceMoves
    <3>3. ReadsAs(c.det, build, m, c.at + (base + to)) = {c.ok}
      BY DEF Shows, to
    <3>4. ASSUME NEW b \in LooksAt(c.det, build, c.at) PROVE b + 8 * to \notin Written(det, err)
      <4>1. SUFFICES ASSUME b + 8 * to \in Written(det, err) PROVE FALSE
        OBVIOUS
      <4>2. ~build /\ c.det.kind = "tag" /\ det.kind = "bit" /\ det.byte = c.at + to
        <5>1. v \in T.vals /\ b + 8 * (front + at) \in Written(det, err)
          BY <1>1, <4>1 DEF T
        <5>2. ~build /\ c.det.kind = "tag" /\ det.kind = "bit" /\ det.byte = c.at + (front + at)
          BY <1>1, <5>1, ChoicesApart
        <5> QED
          BY <1>1, <5>2
      <4>3. Choice(det, 0, ok) \in w.choices
        BY <1>3
      <4>4. /\ Choice(det, 0, ok).det = det /\ Choice(det, 0, ok).at = 0
            /\ 0 + det.byte = d.at /\ d.det.kind = "tag"
        BY <1>2, <3>1, <3>2, <4>2 DEF Choice
      <4>5. Overlays(w)
        BY <4>2, <4>3, <4>4 DEF Overlays
      <4> QED
        BY <4>2, <4>5
    <3> DEFINE far == c.at + (base + to)
    <3>5. LooksAt(c.det, build, far) = ShiftBits(LooksAt(c.det, build, c.at), base + to)
      <4>1. base + to \in Nat
        BY <1>2
      <4> QED
        BY <3>1, <4>1, LooksShift
    <3>6. \A b \in LooksAt(c.det, build, c.at) : b + 8 * (base + to) = (b + 8 * to) + 8 * base /\ b + 8 * to \in Int
      <4>1. LooksAt(c.det, build, c.at) \subseteq Int
        BY <3>1 DEF BitsOfBytes
      <4> QED
        BY <1>2, <4>1
    <3>7. \A z \in LooksAt(c.det, build, far) :
            (z \in n.one <=> z \in m.one) /\ (z \in n.undef <=> z \in m.undef)
      BY <1>8, <3>4, <3>5, <3>6 DEF ShiftBits
    <3>8. far \in Nat /\ far = d.at + base
      BY <1>2, <3>1, <3>2
    <3>9. ReadsAs(c.det, build, n, far) = ReadsAs(c.det, build, m, far)
      BY <3>1, <3>7, <3>8, SameReads
    <3> QED
      BY <3>2, <3>3, <3>8, <3>9
  <2> QED
    BY <1>3, <2>1, <2>2
<1> QED
  BY <1>9, <1>10 DEF Shows

-----------------------------------------------------------------------------
(* All that the types are made of *)

\* Whatever Results the types are made of, each relies on what holds of its
\* variants.
LEMMA PartsAreHonest ==
  \A T \in Parts : Honest(T) /\ (IsSum(T) => T.ok \in Parts /\ T.err \in Parts /\ IsResult(T, T.ok, T.err))
<1>1. Depth \in [Parts -> Nat] /\ \A T \in Parts : IsPart(T)
  BY TypesAssumption
<1>2. ASSUME NEW T \in Parts, IsSum(T)
      PROVE  /\ T.ok \in Parts /\ T.err \in Parts /\ Depth[T.ok] < Depth[T] /\ Depth[T.err] < Depth[T]
             /\ T = ResultOf(T.ok, T.err)
             /\ Larger(T.ok.size, T.err.size) % Larger(T.ok.align, T.err.align) = 0
  BY <1>1, <1>2 DEF IsPart
<1> DEFINE Doubtful == {T \in Parts : ~Honest(T)}
           Depths == {Depth[T] : T \in Doubtful}
<1>3. Doubtful = {}
  <2>1. SUFFICES ASSUME Doubtful # {} PROVE FALSE
    OBVIOUS
  <2>2. Depths \in SUBSET Nat /\ Depths # {}
    BY <1>1, <2>1
  <2>3. PICK n \in Depths : \A k \in Depths : n <= k
    <3> HIDE DEF Depths
    <3> QED
      BY <2>2, LeastOf
  <2>4. PICK T \in Doubtful : Depth[T] = n
    BY <2>3
  <2>5. T \in Parts /\ ~Honest(T)
    OBVIOUS
  <2>6. IsSum(T)
    BY <1>1, <2>5 DEF IsPart
  <2>7. /\ T.ok \in Parts /\ T.err \in Parts /\ Depth[T.ok] < Depth[T] /\ Depth[T.err] < Depth[T]
        /\ T = ResultOf(T.ok, T.err)
        /\ Larger(T.ok.size, T.err.size) % Larger(T.ok.align, T.err.align) = 0
    BY <1>2, <2>5, <2>6
  <2>8. ASSUME NEW U \in Parts, Depth[U] < Depth[T] PROVE Honest(U)
    <3>1. SUFFICES ASSUME U \in Doubtful PROVE FALSE
      OBVIOUS
    <3>2. Depth[U] \in Depths /\ Depth[U] \in Nat /\ Depth[T] \in Nat
      BY <1>1, <2>5, <3>1
    <3> QED
      BY <2>3, <2>4, <2>8, <3>2
  <2>9. Honest(T.ok) /\ Honest(T.err)
    BY <2>7, <2>8
  <2>10. Honest(ResultOf(T.ok, T.err))
    BY <2>7, <2>9, ResultIsHonest
  <2> QED
    BY <2>5, <2>7, <2>10
<1>4. \A T \in Parts : Honest(T)
  BY <1>3
<1>5. ASSUME NEW T \in Parts, IsSum(T)
      PROVE  T.ok \in Parts /\ T.err \in Parts /\ IsResult(T, T.ok, T.err)
  BY <1>2, <1>4, <1>5 DEF IsResult
<1> QED
  BY <1>4, <1>5

\* A type and its values.
LEMMA PartIs ==
  ASSUME NEW T \in Parts
  PROVE  T.size \in Nat /\ T.align \in Nat \ {0} /\ IsMask(T.ub, T.size) /\ \A v \in T.vals : IsValue(v, T)
<1>1. Honest(T)
  BY PartsAreHonest
<1> QED
  BY <1>1 DEF Honest

LEMMA SumIs ==
  ASSUME NEW T \in Parts, IsSum(T)
  PROVE  Holds(T) /\ HasParts(T, T.ok, T.err) /\ \A ok \in BOOLEAN : VariantOf(T, ok) \in Parts
<1>1. T.ok \in Parts /\ T.err \in Parts /\ IsResult(T, T.ok, T.err)
  BY PartsAreHonest
<1>2. Holds(T) /\ HasParts(T, T.ok, T.err)
  BY <1>1, ResultHolds, ResultParts
<1>3. \A ok \in BOOLEAN : VariantOf(T, ok) \in Parts
  BY <1>1 DEF VariantOf
<1> QED
  BY <1>2, <1>3

\* The storage of a Result is as large as it is.
LEMMA MultipleIs ==
  ASSUME NEW n \in Nat, NEW a \in Nat \ {0}, n % a = 0
  PROVE  a * (n \div a) = n /\ a * ((a + n) \div a) = a + n
<1> DEFINE q == n \div a
<1>1. n = a * q /\ q \in Nat
  OBVIOUS
<1> HIDE DEF q
<1>2. a + n = a * (q + 1)
  BY <1>1
<1>3. (a * (q + 1)) \div a = q + 1
  BY <1>1
<1>4. (a * q) \div a = q
  BY <1>1
<1> QED
  BY <1>1, <1>2, <1>3, <1>4

LEMMA StorageFits ==
  ASSUME NEW T \in Parts, IsSum(T)
  PROVE  StorageSize(T) = T.size
<1> DEFINE a == Larger(T.ok.align, T.err.align)
           n == Larger(T.ok.size, T.err.size)
           det == Provider(T.ok, T.err).det
           front == NextMultiple(DetSize(det), a)
<1>1. T.ok \in Parts /\ T.err \in Parts /\ IsResult(T, T.ok, T.err)
  BY PartsAreHonest
<1>2. /\ T.ok.size \in Nat /\ T.err.size \in Nat /\ T.ok.align \in Nat \ {0} /\ T.err.align \in Nat \ {0}
  BY <1>1, PartIs
<1>3. a \in Nat \ {0} /\ n \in Nat /\ n % a = 0
  <2>1. n % a = 0
    BY <1>1 DEF IsResult
  <2> QED
    BY <1>2, <2>1, LargerIs
<1>4. T.size = front + n /\ T.align = a
  <2>1. T = ResultOf(T.ok, T.err)
    BY <1>1 DEF IsResult
  <2> QED
    BY <2>1 DEF ResultOf
<1> HIDE DEF a, n, det
<1>5. front \in {0, a}
  <2>1. DetSize(det) \in {0, 1}
    BY DEF DetSize
  <2>2. NextMultiple(0, a) = 0 /\ NextMultiple(1, a) = a
    <3>1. 0 \in Nat
      OBVIOUS
    <3> QED
      BY <1>3, <3>1, NextMultipleIs
  <2> QED
    BY <2>1, <2>2
<1> HIDE DEF front
<1>6. a * (n \div a) = n /\ a * ((a + n) \div a) = a + n
  BY <1>3, MultipleIs
<1>7. CASE front = 0
  <2>1. T.size = n
    BY <1>3, <1>4, <1>7
  <2> QED
    BY <1>4, <1>6, <2>1 DEF StorageSize
<1>8. CASE front = a
  <2>1. T.size = a + n
    BY <1>4, <1>8
  <2> QED
    BY <1>4, <1>6, <2>1 DEF StorageSize
<1> QED
  BY <1>5, <1>7, <1>8

-----------------------------------------------------------------------------
(* Places in a type *)

\* A place in a type, all of whose bits that the type leaves unused what is
\* there leaves unused itself.
Within(T, place, build) ==
  /\ place.type \in Parts /\ place.at \in Nat /\ place.at + place.type.size <= T.size
  /\ \A x \in BitsOfBytes(0, place.type.size) :
       x + 8 * place.at \in Positions(T.ub) => x \in Positions(place.type.ub)
  /\ Legible(T, build) => Legible(place.type, build)

BitsOfPlace(place) == BitsOfBytes(place.at, place.type.size)

\* A tag outside of a place.
Outside(det, at, place) == det.kind = "tag" => BitsOfByte(at) \cap BitsOfPlace(place) = {}

LEMMA VariantIsLegible ==
  ASSUME NEW R \in Parts, IsSum(R), NEW build \in BOOLEAN, Legible(R, build), NEW ok \in BOOLEAN
  PROVE  /\ \A v \in VariantOf(R, ok).vals : build \/ ~Overlays(MadeOf(R, ok, v))
         /\ Legible(VariantOf(R, ok), build)
<1>1. Holds(R) /\ VariantOf(R, ok) \in Parts
  BY SumIs
<1>2. ASSUME NEW v \in VariantOf(R, ok).vals PROVE MadeOf(R, ok, v) \in R.vals
  BY <1>1 DEF Holds
<1>3. \A v \in VariantOf(R, ok).vals : build \/ ~Overlays(MadeOf(R, ok, v))
  BY <1>2 DEF Legible
<1>4. PICK front, at, err : IsAt(R, ok, front, at, err)
  BY <1>1 DEF Holds
<1> DEFINE to == VariantAt(R, ok)
<1>5. to \in Nat
  BY <1>4 DEF IsAt, Placed
<1>6. ASSUME NEW v \in VariantOf(R, ok).vals, Overlays(v) PROVE Overlays(MadeOf(R, ok, v))
  <2>1. PICK c \in v.choices, d \in v.choices :
          c.det.kind = "tag" /\ d.det.kind = "bit" /\ d.at + d.det.byte = c.at
    BY <1>6 DEF Overlays
  <2>2. IsValue(v, VariantOf(R, ok)) /\ VariantOf(R, ok).size \in Nat
    BY <1>1, PartIs
  <2>3. /\ c.at \in Nat /\ c = Choice(c.det, c.at, c.ok)
        /\ d.at \in Nat /\ d = Choice(d.det, d.at, d.ok) /\ IsDeterminant(d.det)
    BY <2>2 DEF IsValue, IsChoice
  <2>4. d.det.byte \in Nat
    BY <2>1, <2>3 DEF IsDeterminant
  <2> DEFINE cc == [c EXCEPT !.at = @ + to]
             dd == [d EXCEPT !.at = @ + to]
  <2>5. cc.det = c.det /\ cc.at = c.at + to /\ dd.det = d.det /\ dd.at = d.at + to
    BY <2>3, ChoiceMoves
  <2>6. cc \in MadeOf(R, ok, v).choices /\ dd \in MadeOf(R, ok, v).choices
    BY DEF MadeOf, Made, ShiftValue
  <2> HIDE DEF cc, dd, to
  <2>7. dd.at + dd.det.byte = cc.at
    BY <1>5, <2>1, <2>3, <2>4, <2>5
  <2> QED
    BY <2>1, <2>5, <2>6, <2>7 DEF Overlays
<1>7. Legible(VariantOf(R, ok), build)
  BY <1>3, <1>6 DEF Legible
<1> QED
  BY <1>3, <1>7

\* What a guard leads to is in the place of the Result, behind its tag.
LEMMA InsideIs ==
  ASSUME NEW T, T.size \in Nat, NEW build \in BOOLEAN, NEW place, Within(T, place, build), IsSum(place.type),
         NEW ok \in BOOLEAN
  PROVE  /\ Inside(place, ok).type = VariantOf(place.type, ok)
         /\ Inside(place, ok).at = place.at + VariantAt(place.type, ok)
         /\ Within(T, Inside(place, ok), build)
         /\ BitsOfPlace(Inside(place, ok)) \subseteq BitsOfPlace(place)
         /\ Outside(place.type.det, place.at, Inside(place, ok))
<1> DEFINE R == place.type
           V == VariantOf(R, ok)
           to == VariantAt(R, ok)
           in == Inside(place, ok)
<1>1. in.type = V /\ in.at = place.at + to
  BY DEF Inside, VariantOf, VariantAt
<1>2. /\ R \in Parts /\ place.at \in Nat /\ place.at + R.size <= T.size
      /\ \A x \in BitsOfBytes(0, R.size) : x + 8 * place.at \in Positions(T.ub) => x \in Positions(R.ub)
      /\ Legible(T, build) => Legible(R, build)
  BY DEF Within
<1>3. Holds(R) /\ V \in Parts
  BY <1>2, SumIs
<1>4. PICK front, at, err : IsAt(R, ok, front, at, err)
  BY <1>3 DEF Holds
<1>5. /\ Placed(R.det, V, at, err, front, R) /\ to = front + at
  BY <1>4 DEF IsAt
<1>6. /\ V.size \in Nat /\ R.size \in Nat /\ at \in Nat /\ front \in Nat /\ to \in Nat /\ to + V.size <= R.size
      /\ R.det.kind = "tag" => front # 0
      /\ \A x \in BitsOfBytes(0, V.size) : x + 8 * to \in Positions(R.ub) => x \in Positions(V.ub)
  BY <1>5 DEF Placed
<1>7. Legible(R, build) => Legible(V, build)
  BY <1>2, VariantIsLegible
<1> HIDE DEF R, V, to, in
<1>8. /\ in.at \in Nat /\ in.at + V.size <= T.size
  BY <1>1, <1>2, <1>6
<1>9. ASSUME NEW x \in BitsOfBytes(0, V.size), x + 8 * in.at \in Positions(T.ub) PROVE x \in Positions(V.ub)
  <2>1. x + 8 * to \in BitsOfBytes(0, R.size) /\ x + 8 * in.at = (x + 8 * to) + 8 * place.at
    BY <1>1, <1>2, <1>6 DEF BitsOfBytes
  <2> QED
    BY <1>2, <1>6, <1>9, <2>1
<1>10. Within(T, in, build)
  BY <1>1, <1>2, <1>3, <1>7, <1>8, <1>9 DEF Within
<1>11. BitsOfPlace(in) \subseteq BitsOfPlace(place)
  BY <1>1, <1>2, <1>6 DEF BitsOfPlace, BitsOfBytes, R
<1>12. Outside(R.det, place.at, in)
  BY <1>1, <1>2, <1>5, <1>6 DEF Outside, BitsOfPlace, BitsOfBytes, BitsOfByte
<1> QED
  BY <1>1, <1>10, <1>11, <1>12 DEF R, V, to, in

IsVariant(R, w, ok, m, at, build) ==
  /\ ok \in BOOLEAN /\ ReadsAs(R.det, build, m, at) = {ok}
  /\ \E v \in VariantOf(R, ok).vals : w = MadeOf(R, ok, v) /\ Shows(m, v, at + VariantAt(R, ok), build)

\* From the memory of a Result the variant is read, and is in its place.
LEMMA ShowsVariant ==
  ASSUME NEW R \in Parts, IsSum(R), NEW build \in BOOLEAN, NEW w \in R.vals, NEW at \in Nat, NEW m,
         Shows(m, w, at, build), NEW ok \in ReadsAs(R.det, build, m, at)
  PROVE  IsVariant(R, w, ok, m, at, build)
<1>1. Holds(R)
  BY SumIs
<1>2. PICK o \in BOOLEAN : \E v \in VariantOf(R, o).vals : w = MadeOf(R, o, v)
  BY <1>1 DEF Holds
<1>3. PICK v \in VariantOf(R, o).vals : w = MadeOf(R, o, v)
  BY <1>2
<1>4. w.choices = {[c EXCEPT !.at = @ + VariantAt(R, o)] : c \in v.choices} \cup {Choice(R.det, 0, o)}
  BY <1>3 DEF MadeOf, Made, ShiftValue
<1>5. ReadsAs(R.det, build, m, at) = {o}
  <2> DEFINE d == Choice(R.det, 0, o)
  <2>1. d \in w.choices /\ d.det = R.det /\ d.at + at = at /\ d.ok = o
    BY <1>4 DEF Choice
  <2> HIDE DEF d
  <2>2. ReadsAs(d.det, build, m, d.at + at) = {d.ok}
    BY <2>1 DEF Shows
  <2> QED
    BY <2>1, <2>2
<1>6. o = ok
  BY <1>5
<1>7. PICK front, to, err : IsAt(R, o, front, to, err)
  BY <1>1 DEF Holds
<1> DEFINE V == VariantOf(R, o)
           far == VariantAt(R, o)
<1>8. far \in Nat /\ IsValue(v, V) /\ V.size \in Nat
  BY <1>7 DEF IsAt, Placed
<1>9. ASSUME NEW x \in v.care
      PROVE  x + 8 * (at + far) \notin m.undef /\ (x + 8 * (at + far) \in m.one <=> x \in v.one)
  <2>1. x + 8 * far \in w.care /\ (x + 8 * far \in w.one <=> x \in v.one)
    BY <1>1, <1>3, HeldIsValue
  <2>2. x + 8 * (at + far) = (x + 8 * far) + 8 * at
    <3>1. x \in Int
      BY <1>8 DEF IsValue, BitsOfBytes
    <3> HIDE DEF far
    <3> QED
      BY <1>8, <3>1
  <2> HIDE DEF far
  <2>3. (x + 8 * far) + 8 * at \notin m.undef /\ ((x + 8 * far) + 8 * at \in m.one <=> x + 8 * far \in w.one)
    BY <2>1 DEF Shows
  <2> QED
    BY <2>1, <2>2, <2>3
<1>10. ASSUME NEW c \in v.choices PROVE ReadsAs(c.det, build, m, c.at + (at + far)) = {c.ok}
  <2>1. c.at \in Nat /\ c = Choice(c.det, c.at, c.ok)
    BY <1>8 DEF IsValue, IsChoice
  <2> DEFINE d == [c EXCEPT !.at = @ + far]
  <2>2. d.det = c.det /\ d.at = c.at + far /\ d.ok = c.ok
    BY <2>1, ChoiceMoves
  <2>3. d \in w.choices
    BY <1>4
  <2> HIDE DEF d, far
  <2>4. ReadsAs(d.det, build, m, d.at + at) = {d.ok}
    BY <2>3 DEF Shows
  <2>5. d.at + at = c.at + (at + far)
    BY <1>8, <2>1, <2>2
  <2> QED
    BY <2>2, <2>4, <2>5
<1>11. Shows(m, v, at + far, build)
  BY <1>9, <1>10 DEF Shows
<1> QED
  BY <1>3, <1>5, <1>6, <1>11 DEF IsVariant

-----------------------------------------------------------------------------
(* What is stored, and writing it *)

StoredAs(v, at, open) ==
  [one |-> ShiftBits(v.one \cap v.care, at), care |-> ShiftBits(v.care, at),
   choices |-> open \cup ShiftValue(v, at).choices]

LEMMA ShiftTwice ==
  ASSUME NEW S \in SUBSET Int, NEW a \in Nat, NEW b \in Nat
  PROVE  ShiftBits(ShiftBits(S, a), b) = ShiftBits(S, b + a) /\ ShiftBits(S, 0) = S
<1>1. \A x \in S : (x + 8 * a) + 8 * b = x + 8 * (b + a) /\ x + 8 * 0 = x
  OBVIOUS
<1>2. ShiftBits(ShiftBits(S, a), b) = {(x + 8 * a) + 8 * b : x \in S}
  BY DEF ShiftBits
<1>3. ShiftBits(ShiftBits(S, a), b) = ShiftBits(S, b + a)
  BY <1>1, <1>2 DEF ShiftBits
<1>4. ShiftBits(S, 0) = S
  BY <1>1 DEF ShiftBits
<1> QED
  BY <1>3, <1>4

LEMMA ValueBits ==
  ASSUME NEW T, T.size \in Nat, NEW v, IsValue(v, T)
  PROVE  /\ v.one \in SUBSET Int /\ v.undef \in SUBSET Int /\ v.care \in SUBSET Int
         /\ v.one \cap v.care \in SUBSET Int
         /\ \A c \in v.choices : c = Choice(c.det, c.at, c.ok) /\ c.at \in Nat /\ c.ok \in BOOLEAN
<1>1. BitsOfBytes(0, T.size) \subseteq Int
  BY DEF BitsOfBytes
<1>2. v.one \cup v.undef \cup v.care \subseteq Int
  BY <1>1 DEF IsValue
<1>3. \A c \in v.choices : c = Choice(c.det, c.at, c.ok) /\ c.at \in Nat /\ c.ok \in BOOLEAN
  BY DEF IsValue, IsChoice
<1> QED
  BY <1>2, <1>3

\* What is stored in a type is its value, and in a Result what the value of the
\* variant stands for, with the choice of it.
LEMMA StoredHere ==
  ASSUME NEW T, T.size \in Nat, NEW v, IsValue(v, T)
  PROVE  StoredAs(v, 0, {}) = Meaning(v)
<1>1. ShiftBits(v.one \cap v.care, 0) = v.one \cap v.care /\ ShiftBits(v.care, 0) = v.care
  <2>1. 0 \in Nat
    OBVIOUS
  <2> QED
    BY <2>1, ValueBits, ShiftTwice
<1>2. ASSUME NEW c \in v.choices PROVE [c EXCEPT !.at = @ + 0] = c
  <2>1. c = Choice(c.det, c.at, c.ok) /\ c.at \in Nat
    BY ValueBits
  <2>2. [c EXCEPT !.at = @ + 0] = Choice(c.det, c.at + 0, c.ok)
    BY <2>1, ChoiceMoves
  <2>3. c.at + 0 = c.at
    BY <2>1
  <2> QED
    BY <2>1, <2>2, <2>3
<1>3. ShiftValue(v, 0).choices = {[c EXCEPT !.at = @ + 0] : c \in v.choices}
  BY DEF ShiftValue
<1>4. ShiftValue(v, 0).choices = v.choices
  BY <1>2, <1>3
<1>5. {} \cup ShiftValue(v, 0).choices = v.choices
  BY <1>4
<1> QED
  BY <1>1, <1>5 DEF StoredAs, Meaning

LEMMA StoredWhole ==
  ASSUME NEW R \in Parts, IsSum(R), NEW ok \in BOOLEAN, NEW v \in VariantOf(R, ok).vals,
         NEW at \in Nat, NEW open
  PROVE  StoredAs(MadeOf(R, ok, v), at, open)
           = StoredAs(v, at + VariantAt(R, ok), open \cup {Choice(R.det, at, ok)})
<1> DEFINE V == VariantOf(R, ok)
           to == VariantAt(R, ok)
           w == MadeOf(R, ok, v)
<1>1. Holds(R) /\ V \in Parts
  BY SumIs
<1>2. IsValue(v, V) /\ V.size \in Nat
  BY <1>1, PartIs
<1>3. PICK front, near, err : IsAt(R, ok, front, near, err)
  BY <1>1 DEF Holds
<1>4. to \in Nat
  BY <1>3 DEF IsAt, Placed
<1>5. /\ w.care = ShiftBits(v.care, to)
      /\ w.choices = {[c EXCEPT !.at = @ + to] : c \in v.choices} \cup {Choice(R.det, 0, ok)}
  BY DEF MadeOf, Made, ShiftValue
<1>6. \A x \in v.care : x + 8 * to \in w.one <=> x \in v.one
  BY <1>1, HeldIsValue
<1> HIDE DEF V, to, w
<1>7. w.one \cap w.care = ShiftBits(v.one \cap v.care, to)
  BY <1>5, <1>6 DEF ShiftBits
<1>8. v.care \in SUBSET Int /\ v.one \cap v.care \in SUBSET Int
  BY <1>2, ValueBits
<1>9. ShiftBits(w.care, at) = ShiftBits(v.care, at + to)
  <2>1. ShiftBits(ShiftBits(v.care, to), at) = ShiftBits(v.care, at + to)
    BY <1>4, <1>8, ShiftTwice
  <2> QED
    BY <1>5, <2>1
<1>10. ShiftBits(w.one \cap w.care, at) = ShiftBits(v.one \cap v.care, at + to)
  <2> DEFINE S == v.one \cap v.care
  <2>1. S \in SUBSET Int
    BY <1>8
  <2> HIDE DEF S
  <2>2. ShiftBits(ShiftBits(S, to), at) = ShiftBits(S, at + to)
    BY <1>4, <2>1, ShiftTwice
  <2> QED
    BY <1>7, <2>2 DEF S
<1> DEFINE Moved(c, by) == [c EXCEPT !.at = @ + by]
<1>11. ASSUME NEW c \in v.choices
       PROVE  Moved(Moved(c, to), at) = Moved(c, at + to)
  <2> DEFINE d == Moved(c, to)
  <2>1. c = Choice(c.det, c.at, c.ok) /\ c.at \in Nat
    BY <1>2, ValueBits
  <2>2. /\ d = Choice(c.det, c.at + to, c.ok)
        /\ d.det = c.det /\ d.at = c.at + to /\ d.ok = c.ok
    BY <2>1, ChoiceMoves
  <2> HIDE DEF d
  <2>3. d = Choice(d.det, d.at, d.ok)
    BY <2>2
  <2>4. [d EXCEPT !.at = @ + at] = Choice(d.det, d.at + at, d.ok)
    BY <2>3, ChoiceMoves
  <2>5. [c EXCEPT !.at = @ + (at + to)] = Choice(c.det, c.at + (at + to), c.ok)
    BY <2>1, ChoiceMoves
  <2>6. d.at + at = c.at + (at + to)
    BY <1>4, <2>1, <2>2
  <2> QED
    BY <2>2, <2>4, <2>5, <2>6 DEF d
<1>12. Moved(Choice(R.det, 0, ok), at) = Choice(R.det, at, ok)
  BY DEF Choice
<1>13. ShiftValue(w, at).choices = {Moved(d, at) : d \in w.choices}
  BY DEF ShiftValue
<1>14. ShiftValue(v, at + to).choices = {Moved(c, at + to) : c \in v.choices}
  BY DEF ShiftValue
<1>17. w.choices = {Moved(c, to) : c \in v.choices} \cup {Choice(R.det, 0, ok)}
  BY <1>5
<1> HIDE DEF Moved
<1>15. ShiftValue(w, at).choices = ShiftValue(v, at + to).choices \cup {Choice(R.det, at, ok)}
  BY <1>11, <1>12, <1>13, <1>14, <1>17
<1>16. open \cup ShiftValue(w, at).choices
         = (open \cup {Choice(R.det, at, ok)}) \cup ShiftValue(v, at + to).choices
  BY <1>15
<1> QED
  BY <1>9, <1>10, <1>16 DEF StoredAs, to, w

\* A write leaves what is around it.
SameAround(m, n, bits) ==
  /\ \A b : b \notin bits => (b \in n.one <=> b \in m.one) /\ (b \in n.undef <=> b \in m.undef)
  /\ n.one \cup n.undef \subseteq m.one \cup m.undef \cup bits

LEMMA WriteIs ==
  ASSUME NEW T, T.size \in Nat, NEW v, v.one \cup v.undef \subseteq BitsOfBytes(0, T.size), NEW at \in Nat, NEW m
  PROVE  /\ \A x \in BitsOfBytes(0, T.size) :
              /\ x + 8 * at \in Write(m, v, at, T.size).one <=> x \in v.one
              /\ x + 8 * at \in Write(m, v, at, T.size).undef <=> x \in v.undef
         /\ SameAround(m, Write(m, v, at, T.size), BitsOfBytes(at, T.size))
<1> DEFINE inner == BitsOfBytes(0, T.size)
           bits == BitsOfBytes(at, T.size)
<1>1. \A x \in inner : x \in Int /\ x + 8 * at \in bits
  BY DEF BitsOfBytes
<1> HIDE DEF inner, bits
<1>2. ASSUME NEW S, S \subseteq inner
      PROVE  /\ ShiftBits(S, at) \subseteq bits
             /\ \A x \in inner : x + 8 * at \in ShiftBits(S, at) <=> x \in S
  <2>1. ShiftBits(S, at) \subseteq bits
    BY <1>1, <1>2 DEF ShiftBits
  <2>2. \A x \in inner, y \in inner : x + 8 * at = y + 8 * at => x = y
    BY <1>1
  <2> QED
    BY <1>2, <2>1, <2>2 DEF ShiftBits
<1>3. v.one \subseteq inner /\ v.undef \subseteq inner
  BY DEF inner
<1>4. /\ ShiftBits(v.one, at) \subseteq bits /\ ShiftBits(v.undef, at) \subseteq bits
      /\ \A x \in inner : x + 8 * at \in ShiftBits(v.one, at) <=> x \in v.one
      /\ \A x \in inner : x + 8 * at \in ShiftBits(v.undef, at) <=> x \in v.undef
  BY <1>2, <1>3
<1>5. /\ Write(m, v, at, T.size).one = (m.one \ bits) \cup ShiftBits(v.one, at)
      /\ Write(m, v, at, T.size).undef = (m.undef \ bits) \cup ShiftBits(v.undef, at)
  BY DEF Write, bits
<1>6. SameAround(m, Write(m, v, at, T.size), bits)
  BY <1>4, <1>5 DEF SameAround
<1>7. \A x \in inner : /\ x + 8 * at \in Write(m, v, at, T.size).one <=> x \in v.one
                       /\ x + 8 * at \in Write(m, v, at, T.size).undef <=> x \in v.undef
  BY <1>1, <1>4, <1>5
<1> QED
  BY <1>6, <1>7 DEF inner, bits

LEMMA WriteShows ==
  ASSUME NEW T \in Parts, NEW v \in T.vals, NEW build \in BOOLEAN, Legible(T, build), NEW at \in Nat, NEW m
  PROVE  /\ Shows(Write(m, v, at, T.size), v, at, build)
         /\ SameAround(m, Write(m, v, at, T.size), BitsOfBytes(at, T.size))
<1>1. T.size \in Nat /\ IsValue(v, T) /\ (build \/ ~Overlays(v))
  BY PartIs DEF Legible
<1>2. v.one \cup v.undef \subseteq BitsOfBytes(0, T.size)
  BY <1>1 DEF IsValue
<1> DEFINE n == Write(m, v, at, T.size)
<1>3. /\ \A x \in BitsOfBytes(0, T.size) : /\ x + 8 * at \in n.one <=> x \in v.one
                                           /\ x + 8 * at \in n.undef <=> x \in v.undef
      /\ SameAround(m, n, BitsOfBytes(at, T.size))
  BY <1>1, <1>2, WriteIs
<1> HIDE DEF n
<1>4. Shows(n, v, at, build)
  BY <1>1, <1>3, ValueShows
<1> QED
  BY <1>3, <1>4 DEF n

LEMMA ImageShows ==
  ASSUME NEW T \in Parts, NEW v \in T.vals, NEW build \in BOOLEAN, Legible(T, build)
  PROVE  Shows(Image(v), v, 0, build)
<1>1. T.size \in Nat /\ IsValue(v, T) /\ (build \/ ~Overlays(v)) /\ 0 \in Nat
  BY PartIs DEF Legible
<1> DEFINE n == Image(v)
<1>2. \A x \in BitsOfBytes(0, T.size) : /\ x + 8 * 0 \in n.one <=> x \in v.one
                                        /\ x + 8 * 0 \in n.undef <=> x \in v.undef
  BY DEF BitsOfBytes, Image
<1> HIDE DEF n
<1>3. Shows(n, v, 0, build)
  BY <1>1, <1>2, ValueShows
<1> QED
  BY <1>3 DEF n

\* The determinant is written inside of its Result.
LEMMA MarkInside ==
  ASSUME NEW R \in Parts, IsSum(R), NEW ok \in BOOLEAN, NEW at \in Nat, NEW m
  PROVE  SameAround(m, MarkAs(R.det, ok, m, at), BitsOfBytes(at, R.size))
<1>1. PICK front, near, err : IsAt(R, ok, front, near, err)
  BY SumIs DEF Holds
<1>2. /\ IsDeterminant(R.det) /\ R.size \in Nat /\ Touched(R.det, 0) \subseteq BitsOfBytes(0, R.size)
      /\ err \in BOOLEAN /\ R.det.not \in BOOLEAN /\ (err <=> ok = R.det.not)
  BY <1>1 DEF IsAt, Placed, IsDeterminant
<1> DEFINE n == MarkErr(R.det, err, m, at)
<1>3. /\ \A b : b \notin Touched(R.det, at) => Same(m, n, b)
      /\ n.one \subseteq m.one \cup Touched(R.det, at) /\ n.undef \subseteq m.undef
  BY <1>2, MarkKeeps
<1>4. Touched(R.det, at) = ShiftBits(Touched(R.det, 0), at)
  BY <1>2, TouchedShift
<1>5. \A x \in BitsOfBytes(0, R.size) : x + 8 * at \in BitsOfBytes(at, R.size)
  BY <1>2 DEF BitsOfBytes
<1>6. Touched(R.det, at) \subseteq BitsOfBytes(at, R.size)
  BY <1>2, <1>4, <1>5 DEF ShiftBits
<1>7. (ok = R.det.not) = err
  BY <1>2
<1>8. MarkAs(R.det, ok, m, at) = n
  BY <1>7 DEF MarkAs
<1> HIDE DEF n
<1> QED
  BY <1>3, <1>6, <1>8 DEF SameAround, Same

\* A tag outside of what was written stays as it is.
LEMMA TagStays ==
  ASSUME NEW det, IsDeterminant(det), det.kind = "tag", NEW at \in Nat, NEW build \in BOOLEAN,
         NEW m, NEW n, NEW bits, SameAround(m, n, bits), BitsOfByte(at) \cap bits = {}
  PROVE  ReadsAs(det, build, n, at) = ReadsAs(det, build, m, at)
<1>1. LooksAt(det, build, at) \subseteq BitsOfByte(at)
  BY DEF LooksAt, BitsOfByte
<1>2. \A b \in LooksAt(det, build, at) : (b \in n.one <=> b \in m.one) /\ (b \in n.undef <=> b \in m.undef)
  BY <1>1 DEF SameAround
<1> QED
  BY <1>2, SameReads

-----------------------------------------------------------------------------
(* Guards lead from the whole value to the place that they give access to *)

Guarded == [type : Parts, at : Nat, ok : BOOLEAN]

\* Where the guards before the i-th lead.
Before(T, gs, i) == IF i = 1 THEN [type |-> T, at |-> 0] ELSE Inside(gs[i - 1], gs[i - 1].ok)

Leads(T, gs, build) ==
  /\ gs \in Seq(Guarded)
  /\ \A i \in 1 .. Len(gs) :
       IsSum(gs[i].type) /\ gs[i].type = Before(T, gs, i).type /\ gs[i].at = Before(T, gs, i).at
  /\ \A i \in 1 .. Len(gs) + 1 : Within(T, Before(T, gs, i), build)
  /\ \A i \in 1 .. Len(gs), j \in 1 .. Len(gs) + 1 : i < j => Outside(gs[i].type.det, gs[i].at, Before(T, gs, j))

Innermost(T, gs) == Before(T, gs, Len(gs) + 1)

LEMMA WholeIsWithin ==
  ASSUME NEW T \in Parts, NEW build \in BOOLEAN
  PROVE  Within(T, [type |-> T, at |-> 0], build)
<1>1. T.size \in Nat
  BY PartIs
<1>2. \A x \in BitsOfBytes(0, T.size) : x + 8 * 0 = x
  BY <1>1 DEF BitsOfBytes
<1> QED
  BY <1>1, <1>2 DEF Within

LEMMA NoGuards ==
  ASSUME NEW T \in Parts, NEW build \in BOOLEAN
  PROVE  Leads(T, <<>>, build) /\ Innermost(T, <<>>) = [type |-> T, at |-> 0]
<1>1. Len(<<>>) = 0 /\ <<>> \in Seq(Guarded)
  OBVIOUS
<1>2. Before(T, <<>>, 1) = [type |-> T, at |-> 0]
  BY DEF Before
<1>3. Within(T, Before(T, <<>>, 1), build)
  BY <1>2, WholeIsWithin
<1>4. Len(<<>>) + 1 = 1 /\ 1 .. Len(<<>>) + 1 = {1} /\ 1 .. Len(<<>>) = {}
  BY <1>1
<1>5. Innermost(T, <<>>) = Before(T, <<>>, 1)
  BY <1>4 DEF Innermost
<1> QED
  BY <1>1, <1>2, <1>3, <1>4, <1>5 DEF Leads

LEMMA GuardsAre ==
  ASSUME NEW T, NEW gs, NEW build, Leads(T, gs, build)
  PROVE  /\ gs \in Seq(Guarded) /\ Len(gs) \in Nat /\ DOMAIN gs = 1 .. Len(gs)
         /\ \A i \in 1 .. Len(gs) : /\ gs[i] \in Guarded /\ gs[i].type \in Parts /\ IsSum(gs[i].type)
                                    /\ gs[i].at \in Nat /\ gs[i].ok \in BOOLEAN
                                    /\ gs[i] = Guard(Before(T, gs, i), gs[i].ok)
         /\ Within(T, Innermost(T, gs), build)
<1>1. gs \in Seq(Guarded)
  BY DEF Leads
<1>2. Len(gs) \in Nat /\ DOMAIN gs = 1 .. Len(gs)
  BY <1>1
<1>3. ASSUME NEW i \in 1 .. Len(gs)
      PROVE  /\ gs[i] \in Guarded /\ gs[i].type \in Parts /\ IsSum(gs[i].type)
             /\ gs[i].at \in Nat /\ gs[i].ok \in BOOLEAN
             /\ gs[i] = Guard(Before(T, gs, i), gs[i].ok)
  <2>1. gs[i] \in Guarded
    BY <1>1
  <2>2. /\ gs[i] = [type |-> gs[i].type, at |-> gs[i].at, ok |-> gs[i].ok]
        /\ gs[i].type \in Parts /\ gs[i].at \in Nat /\ gs[i].ok \in BOOLEAN
    BY <2>1 DEF Guarded
  <2>3. IsSum(gs[i].type) /\ gs[i].type = Before(T, gs, i).type /\ gs[i].at = Before(T, gs, i).at
    BY DEF Leads
  <2> QED
    BY <2>1, <2>2, <2>3 DEF Guard
<1>4. Within(T, Innermost(T, gs), build)
  <2>1. Len(gs) + 1 \in 1 .. Len(gs) + 1
    BY <1>2
  <2> QED
    BY <2>1 DEF Leads, Innermost
<1> QED
  BY <1>1, <1>2, <1>3, <1>4

LEMMA InnermostIs ==
  ASSUME NEW T, NEW gs, NEW build, Leads(T, gs, build)
  PROVE  Innermost(T, gs) = IF gs = <<>> THEN [type |-> T, at |-> 0] ELSE Inside(Last(gs), Last(gs).ok)
<1>1. Len(gs) \in Nat /\ (gs = <<>> <=> Len(gs) = 0)
  <2>1. gs \in Seq(Guarded)
    BY DEF Leads
  <2> QED
    BY <2>1
<1>2. (Len(gs) + 1) - 1 = Len(gs) /\ (Len(gs) + 1 = 1 <=> gs = <<>>)
  BY <1>1
<1> QED
  BY <1>2 DEF Innermost, Before, Last

\* One guard more, which leads into what the last one led to.
LEMMA GuardIsPushed ==
  ASSUME NEW T, T.size \in Nat, NEW build \in BOOLEAN, NEW gs, Leads(T, gs, build), NEW ok \in BOOLEAN,
         IsSum(Innermost(T, gs).type)
  PROVE  LET g == Guard(Innermost(T, gs), ok)
         IN /\ Leads(T, Append(gs, g), build)
            /\ Innermost(T, Append(gs, g)) = Inside(Innermost(T, gs), ok)
            /\ Len(Append(gs, g)) = Len(gs) + 1 /\ Append(gs, g)[Len(gs) + 1] = g
            /\ \A i \in 1 .. Len(gs) : Append(gs, g)[i] = gs[i]
<1> DEFINE place == Innermost(T, gs)
           g == Guard(place, ok)
           new == Append(gs, g)
           n == Len(gs)
<1>1. /\ gs \in Seq(Guarded) /\ n \in Nat /\ Within(T, place, build)
  BY GuardsAre
<1>2. g \in Guarded /\ g.type = place.type /\ g.at = place.at /\ g.ok = ok
  BY <1>1 DEF Within, Guarded, Guard
<1> HIDE DEF g
<1>3. new \in Seq(Guarded) /\ Len(new) = n + 1 /\ new[n + 1] = g /\ \A i \in 1 .. n : new[i] = gs[i]
  BY <1>1, <1>2, AppendProperties
<1> HIDE DEF new
<1>4. ASSUME NEW i \in 1 .. n + 1 PROVE Before(T, new, i) = Before(T, gs, i)
  <2>1. CASE i = 1
    BY <2>1 DEF Before
  <2>2. CASE i # 1
    <3>1. i - 1 \in 1 .. n
      BY <1>1, <2>2
    <3> QED
      BY <1>3, <2>2, <3>1 DEF Before
  <2> QED
    BY <2>1, <2>2
<1>5. Before(T, new, n + 2) = Inside(place, ok)
  <2>1. n + 2 # 1 /\ (n + 2) - 1 = n + 1
    BY <1>1
  <2>2. Before(T, new, n + 2) = Inside(g, g.ok)
    BY <1>3, <2>1 DEF Before
  <2> QED
    BY <1>2, <2>2 DEF Inside
<1>6. place = Before(T, gs, n + 1)
  BY DEF Innermost
<1> HIDE DEF place
<1>7. /\ Within(T, Inside(place, ok), build)
      /\ BitsOfPlace(Inside(place, ok)) \subseteq BitsOfPlace(place)
      /\ Outside(place.type.det, place.at, Inside(place, ok))
  <2>1. IsSum(place.type)
    BY DEF place
  <2> QED
    BY <1>1, <2>1, InsideIs
<1> HIDE DEF n
<1>8. /\ \A i \in 1 .. n :
           IsSum(gs[i].type) /\ gs[i].type = Before(T, gs, i).type /\ gs[i].at = Before(T, gs, i).at
      /\ \A i \in 1 .. n + 1 : Within(T, Before(T, gs, i), build)
      /\ \A i \in 1 .. n, j \in 1 .. n + 1 : i < j => Outside(gs[i].type.det, gs[i].at, Before(T, gs, j))
  BY DEF Leads, n
<1>9. ASSUME NEW i \in 1 .. n + 1
      PROVE  IsSum(new[i].type) /\ new[i].type = Before(T, new, i).type /\ new[i].at = Before(T, new, i).at
  <2>1. CASE i \in 1 .. n
    BY <1>1, <1>3, <1>4, <1>8, <2>1
  <2>2. CASE i = n + 1
    BY <1>1, <1>2, <1>3, <1>4, <1>6, <2>2 DEF place
  <2> QED
    BY <1>1, <2>1, <2>2
<1>10. ASSUME NEW i \in 1 .. n + 2 PROVE Within(T, Before(T, new, i), build)
  <2>1. CASE i \in 1 .. n + 1
    BY <1>4, <1>8, <2>1
  <2>2. CASE i = n + 2
    BY <1>5, <1>7, <2>2
  <2> QED
    BY <1>1, <2>1, <2>2
<1>11. ASSUME NEW i \in 1 .. n + 1, NEW j \in 1 .. n + 2, i < j
       PROVE  Outside(new[i].type.det, new[i].at, Before(T, new, j))
  <2>1. CASE i \in 1 .. n /\ j \in 1 .. n + 1
    BY <1>3, <1>4, <1>8, <1>11, <2>1
  <2>2. CASE i \in 1 .. n /\ j = n + 2
    <3>1. n + 1 \in 1 .. n + 1 /\ i < n + 1
      BY <1>1, <2>2
    <3>2. Outside(gs[i].type.det, gs[i].at, place)
      BY <1>6, <1>8, <2>2, <3>1
    <3>3. Outside(gs[i].type.det, gs[i].at, Inside(place, ok))
      BY <1>7, <3>2 DEF Outside
    <3> QED
      BY <1>3, <1>5, <2>2, <3>3
  <2>3. CASE i = n + 1
    <3>1. j = n + 2
      BY <1>1, <1>11, <2>3
    <3> QED
      BY <1>2, <1>3, <1>5, <1>7, <2>3, <3>1
  <2> QED
    BY <1>1, <1>11, <2>1, <2>2, <2>3
<1>12. Len(new) + 1 = n + 2
  BY <1>1, <1>3
<1>13. Leads(T, new, build)
  BY <1>3, <1>9, <1>10, <1>11, <1>12 DEF Leads
<1>14. Innermost(T, new) = Inside(place, ok)
  BY <1>5, <1>12 DEF Innermost
<1> QED
  BY <1>3, <1>13, <1>14 DEF place, g, new, n

LEMMA OuterAreLeft ==
  ASSUME NEW S, NEW gs \in Seq(S), gs # <<>>, NEW i \in 1 .. Len(Front(gs))
  PROVE  Front(gs)[i] = gs[i]
<1> DEFINE n == Len(gs)
<1>1. n \in Nat /\ n # 0 /\ \A j \in 1 .. n - 1 : gs[j] \in S
  OBVIOUS
<1>2. /\ Len(SubSeq(gs, 1, n - 1)) = IF 1 <= n - 1 THEN (n - 1) - 1 + 1 ELSE 0
      /\ \A j \in 1 .. (n - 1) - 1 + 1 : SubSeq(gs, 1, n - 1)[j] = gs[1 + j - 1]
  <2>1. 1 \in Int /\ n - 1 \in Int
    BY <1>1
  <2> HIDE DEF n
  <2> QED
    BY <1>1, <2>1, SubSeqProperties
<1>3. Front(gs) = SubSeq(gs, 1, n - 1)
  BY DEF Front
<1> HIDE DEF n
<1>4. CASE 1 <= n - 1
  <2>1. i \in 1 .. (n - 1) - 1 + 1 /\ 1 + i - 1 = i
    BY <1>1, <1>2, <1>3, <1>4
  <2> QED
    BY <1>2, <1>3, <2>1
<1>5. CASE ~(1 <= n - 1)
  <2>1. (IF 1 <= n - 1 THEN (n - 1) - 1 + 1 ELSE 0) = 0
    BY <1>5
  <2>2. Len(Front(gs)) = 0
    BY <1>2, <1>3, <2>1
  <2> QED
    BY <2>2
<1> QED
  BY <1>4, <1>5

\* The last guard is dropped, and was one of the place that is left.
LEMMA GuardIsPopped ==
  ASSUME NEW T, NEW build, NEW gs, Leads(T, gs, build), gs # <<>>
  PROVE  /\ Leads(T, Front(gs), build)
         /\ Last(gs) = Guard(Innermost(T, Front(gs)), Last(gs).ok)
         /\ IsSum(Last(gs).type) /\ Last(gs).ok \in BOOLEAN /\ Last(gs).type \in Parts /\ Last(gs).at \in Nat
         /\ Innermost(T, gs) = Inside(Innermost(T, Front(gs)), Last(gs).ok)
         /\ Len(gs) = Len(Front(gs)) + 1 /\ Last(gs) = gs[Len(gs)]
<1> DEFINE n == Len(gs)
           new == Front(gs)
           g == Last(gs)
<1>1. /\ gs \in Seq(Guarded) /\ n \in Nat
      /\ \A i \in 1 .. n : /\ gs[i] \in Guarded /\ gs[i].type \in Parts /\ IsSum(gs[i].type)
                           /\ gs[i].at \in Nat /\ gs[i].ok \in BOOLEAN
                           /\ gs[i] = Guard(Before(T, gs, i), gs[i].ok)
  BY GuardsAre
<1>2. n # 0 /\ n \in 1 .. n /\ g = gs[n]
  BY <1>1 DEF Last
<1>3. new \in Seq(Guarded) /\ Len(new) = n - 1 /\ \A i \in 1 .. n - 1 : new[i] = gs[i]
  <2>1. /\ SubSeq(gs, 1, n - 1) \in Seq(Guarded)
        /\ Len(SubSeq(gs, 1, n - 1)) = IF 1 <= n - 1 THEN (n - 1) - 1 + 1 ELSE 0
        /\ \A i \in 1 .. (n - 1) - 1 + 1 : SubSeq(gs, 1, n - 1)[i] = gs[1 + i - 1]
    <3>1. 1 \in Int /\ n - 1 \in Int /\ \A i \in 1 .. n - 1 : gs[i] \in Guarded
      BY <1>1, <1>2
    <3> HIDE DEF n
    <3> QED
      BY <3>1, SubSeqProperties
  <2>2. (n - 1) - 1 + 1 = n - 1 /\ \A i \in 1 .. n - 1 : 1 + i - 1 = i
    BY <1>1, <1>2
  <2>3. (IF 1 <= n - 1 THEN (n - 1) - 1 + 1 ELSE 0) = n - 1
    <3>1. n \in Nat /\ n # 0
      BY <1>1, <1>2
    <3> HIDE DEF n
    <3>2. CASE 1 <= n - 1
      BY <2>2, <3>2
    <3>3. CASE ~(1 <= n - 1)
      <4>1. n - 1 = 0
        BY <3>1, <3>3
      <4> QED
        BY <3>3, <4>1
    <3> QED
      BY <3>2, <3>3
  <2> QED
    BY <2>1, <2>2, <2>3 DEF Front
<1> HIDE DEF n, new, g
<1>4. ASSUME NEW i \in 1 .. n PROVE Before(T, new, i) = Before(T, gs, i)
  <2>1. CASE i = 1
    BY <2>1 DEF Before
  <2>2. CASE i # 1
    <3>1. i - 1 \in 1 .. n - 1
      BY <1>1, <2>2
    <3> QED
      BY <1>3, <2>2, <3>1 DEF Before
  <2> QED
    BY <2>1, <2>2
<1>5. /\ \A i \in 1 .. n :
           IsSum(gs[i].type) /\ gs[i].type = Before(T, gs, i).type /\ gs[i].at = Before(T, gs, i).at
      /\ \A i \in 1 .. n + 1 : Within(T, Before(T, gs, i), build)
      /\ \A i \in 1 .. n, j \in 1 .. n + 1 : i < j => Outside(gs[i].type.det, gs[i].at, Before(T, gs, j))
  BY DEF Leads, n
<1>6. Len(new) + 1 = n /\ \A i \in 1 .. n - 1 : i \in 1 .. n /\ \A j \in 1 .. n : j \in 1 .. n + 1
  BY <1>1, <1>3
<1>7. Leads(T, new, build)
  <2>1. ASSUME NEW i \in 1 .. Len(new)
        PROVE  IsSum(new[i].type) /\ new[i].type = Before(T, new, i).type /\ new[i].at = Before(T, new, i).at
    BY <1>3, <1>4, <1>5, <1>6
  <2>2. \A i \in 1 .. Len(new) + 1 : Within(T, Before(T, new, i), build)
    BY <1>4, <1>5, <1>6
  <2>3. ASSUME NEW i \in 1 .. Len(new), NEW j \in 1 .. Len(new) + 1, i < j
        PROVE  Outside(new[i].type.det, new[i].at, Before(T, new, j))
    <3>1. i \in 1 .. n /\ j \in 1 .. n + 1 /\ j \in 1 .. n /\ new[i] = gs[i]
      BY <1>3, <1>6
    <3> QED
      BY <1>4, <1>5, <2>3, <3>1
  <2> QED
    BY <1>3, <2>1, <2>2, <2>3 DEF Leads
<1>8. Innermost(T, new) = Before(T, gs, n)
  BY <1>2, <1>4, <1>6 DEF Innermost
<1>9. g = Guard(Innermost(T, new), g.ok)
  BY <1>1, <1>2, <1>8
<1>10. Innermost(T, gs) = Inside(g, g.ok)
  <2>1. n + 1 # 1 /\ (n + 1) - 1 = n
    BY <1>1, <1>2
  <2> QED
    BY <1>2, <2>1 DEF Innermost, Before, n
<1>11. Inside(g, g.ok) = Inside(Innermost(T, new), g.ok)
  BY <1>9 DEF Inside, Guard
<1> QED
  BY <1>1, <1>2, <1>3, <1>6, <1>7, <1>9, <1>10, <1>11 DEF n, new, g

-----------------------------------------------------------------------------
(* What is in memory stays in the type, and out of what it leaves unused *)

MemFits(T, m) == m.one \cup m.undef \subseteq BitsOfBytes(0, T.size)

StoredFits(T, st) ==
  /\ st.care \subseteq BitsOfBytes(0, T.size) \ Positions(T.ub)
  /\ \A c \in st.choices : LooksAt(c.det, TRUE, c.at) \cap Positions(T.ub) = {}

Opened(gs) == {ChoiceOf(gs[i]) : i \in DOMAIN gs}

LEMMA LooksWithin ==
  ASSUME NEW T, NEW build, NEW place, Within(T, place, build), NEW det, IsDeterminant(det), NEW at \in Nat,
         LooksAt(det, TRUE, at) \subseteq BitsOfBytes(0, place.type.size) \ Positions(place.type.ub)
  PROVE  LooksAt(det, TRUE, at + place.at) \cap Positions(T.ub) = {}
<1>1. /\ place.at \in Nat
      /\ \A x \in BitsOfBytes(0, place.type.size) :
           x + 8 * place.at \in Positions(T.ub) => x \in Positions(place.type.ub)
  BY DEF Within
<1>2. LooksAt(det, TRUE, at + place.at) = ShiftBits(LooksAt(det, TRUE, at), place.at)
  <2> DEFINE masked == TRUE
  <2>1. masked \in BOOLEAN
    OBVIOUS
  <2> HIDE DEF masked
  <2>2. LooksAt(det, masked, at + place.at) = ShiftBits(LooksAt(det, masked, at), place.at)
    BY <1>1, <2>1, LooksShift
  <2> QED
    BY <2>2 DEF masked
<1> QED
  BY <1>1, <1>2 DEF ShiftBits

LEMMA PlaceInside ==
  ASSUME NEW T, T.size \in Nat, NEW build, NEW place, Within(T, place, build)
  PROVE  /\ BitsOfPlace(place) \subseteq BitsOfBytes(0, T.size)
         /\ \A x \in BitsOfBytes(0, place.type.size) : x + 8 * place.at \in BitsOfBytes(0, T.size)
<1>1. place.type \in Parts /\ place.at \in Nat /\ place.at + place.type.size <= T.size
  BY DEF Within
<1>2. place.type.size \in Nat
  BY <1>1, PartIs
<1> QED
  BY <1>1, <1>2 DEF BitsOfPlace, BitsOfBytes

LEMMA MeaningFits ==
  ASSUME NEW T \in Parts, NEW v \in T.vals
  PROVE  MemFits(T, Image(v)) /\ StoredFits(T, Meaning(v))
<1>1. IsValue(v, T)
  BY PartIs
<1>2. MemFits(T, Image(v))
  BY <1>1 DEF IsValue, MemFits, Image
<1>3. Meaning(v).care = v.care /\ Meaning(v).choices = v.choices
  BY DEF Meaning
<1>4. v.care \subseteq BitsOfBytes(0, T.size) \ Positions(T.ub)
  BY <1>1 DEF IsValue
<1>5. ASSUME NEW c \in v.choices PROVE LooksAt(c.det, TRUE, c.at) \cap Positions(T.ub) = {}
  BY <1>1 DEF IsValue, IsChoice
<1> QED
  BY <1>2, <1>3, <1>4, <1>5 DEF StoredFits

\* The determinants of the guards are not in unused bits either.
LEMMA OpenedFits ==
  ASSUME NEW T, NEW build, NEW gs, Leads(T, gs, build), NEW c \in Opened(gs)
  PROVE  LooksAt(c.det, TRUE, c.at) \cap Positions(T.ub) = {}
<1>1. /\ DOMAIN gs = 1 .. Len(gs) /\ Len(gs) \in Nat
      /\ \A i \in 1 .. Len(gs) : /\ gs[i].type \in Parts /\ IsSum(gs[i].type)
                                 /\ gs[i].at \in Nat /\ gs[i].ok \in BOOLEAN
                                 /\ gs[i] = Guard(Before(T, gs, i), gs[i].ok)
  BY GuardsAre
<1>2. PICK i \in 1 .. Len(gs) : c = ChoiceOf(gs[i])
  BY <1>1 DEF Opened
<1> DEFINE place == Before(T, gs, i)
           R == place.type
<1>3. Within(T, place, build)
  <2>1. i \in 1 .. Len(gs) + 1
    BY <1>1
  <2> QED
    BY <2>1 DEF Leads
<1>4. R = gs[i].type /\ place.at = gs[i].at
  BY DEF Leads
<1>5. c.det = R.det /\ c.at = place.at
  BY <1>2, <1>4 DEF ChoiceOf, Choice
<1>6. PICK ok \in BOOLEAN : \E front, at, err : IsAt(R, ok, front, at, err)
  <2>1. Holds(R)
    BY <1>1, <1>4, SumIs
  <2> QED
    BY <2>1 DEF Holds
<1>7. IsDeterminant(R.det) /\ LooksAt(R.det, TRUE, 0) \subseteq BitsOfBytes(0, R.size) \ Positions(R.ub)
  BY <1>6 DEF IsAt, Placed
<1> DEFINE zero == 0
<1>8. zero \in Nat /\ zero + place.at = place.at
  BY <1>1, <1>4
<1>9. LooksAt(R.det, TRUE, zero) \subseteq BitsOfBytes(0, R.size) \ Positions(R.ub)
  BY <1>7
<1> HIDE DEF zero, place
<1>10. LooksAt(R.det, TRUE, zero + place.at) \cap Positions(T.ub) = {}
  BY <1>3, <1>7, <1>8, <1>9, LooksWithin
<1> QED
  BY <1>5, <1>8, <1>10

LEMMA AssignFits ==
  ASSUME NEW T, T.size \in Nat, NEW build, NEW gs, Leads(T, gs, build), NEW v \in Innermost(T, gs).type.vals
  PROVE  /\ \A m : MemFits(T, m) => MemFits(T, Write(m, v, Innermost(T, gs).at, Innermost(T, gs).type.size))
         /\ StoredFits(T, StoredAs(v, Innermost(T, gs).at, Opened(gs)))
<1> DEFINE place == Innermost(T, gs)
           U == place.type
<1>1. Within(T, place, build)
  BY GuardsAre
<1>2. /\ U \in Parts /\ place.at \in Nat
      /\ \A x \in BitsOfBytes(0, U.size) : x + 8 * place.at \in Positions(T.ub) => x \in Positions(U.ub)
  BY <1>1 DEF Within
<1>3. U.size \in Nat /\ IsValue(v, U)
  BY <1>2, PartIs
<1>4. /\ BitsOfBytes(place.at, U.size) \subseteq BitsOfBytes(0, T.size)
      /\ \A x \in BitsOfBytes(0, U.size) : x + 8 * place.at \in BitsOfBytes(0, T.size)
  BY <1>1, PlaceInside DEF BitsOfPlace
<1>9. \A c \in Opened(gs) : LooksAt(c.det, TRUE, c.at) \cap Positions(T.ub) = {}
  BY OpenedFits
<1> HIDE DEF place
<1>5. ASSUME NEW m, MemFits(T, m) PROVE MemFits(T, Write(m, v, place.at, U.size))
  <2>1. v.one \cup v.undef \subseteq BitsOfBytes(0, U.size)
    BY <1>3 DEF IsValue
  <2>2. SameAround(m, Write(m, v, place.at, U.size), BitsOfBytes(place.at, U.size))
    BY <1>2, <1>3, <2>1, WriteIs
  <2> QED
    BY <1>4, <1>5, <2>2 DEF SameAround, MemFits
<1> DEFINE st == StoredAs(v, place.at, Opened(gs))
<1>6. st.care = ShiftBits(v.care, place.at) /\ st.choices = Opened(gs) \cup ShiftValue(v, place.at).choices
  BY DEF StoredAs
<1>7. st.care \subseteq BitsOfBytes(0, T.size) \ Positions(T.ub)
  <2>1. v.care \subseteq BitsOfBytes(0, U.size) \ Positions(U.ub)
    BY <1>3 DEF IsValue
  <2> HIDE DEF st
  <2> QED
    BY <1>2, <1>4, <1>6, <2>1 DEF ShiftBits
<1>8. ASSUME NEW c \in v.choices, NEW d, d = [c EXCEPT !.at = @ + place.at]
      PROVE  LooksAt(d.det, TRUE, d.at) \cap Positions(T.ub) = {}
  <2>1. /\ c = Choice(c.det, c.at, c.ok) /\ c.at \in Nat /\ IsDeterminant(c.det)
        /\ LooksAt(c.det, TRUE, c.at) \subseteq BitsOfBytes(0, U.size) \ Positions(U.ub)
    BY <1>3 DEF IsValue, IsChoice
  <2>2. d.det = c.det /\ d.at = c.at + place.at
    BY <1>8, <2>1, ChoiceMoves
  <2>3. LooksAt(c.det, TRUE, c.at + place.at) \cap Positions(T.ub) = {}
    BY <1>1, <2>1, LooksWithin
  <2> QED
    BY <2>2, <2>3
<1>10. ASSUME NEW d \in st.choices PROVE LooksAt(d.det, TRUE, d.at) \cap Positions(T.ub) = {}
  <2>1. CASE d \in Opened(gs)
    BY <1>9, <2>1
  <2>2. CASE d \in ShiftValue(v, place.at).choices
    <3>1. PICK c \in v.choices : d = [c EXCEPT !.at = @ + place.at]
      BY <2>2 DEF ShiftValue
    <3> QED
      BY <1>8, <3>1
  <2> HIDE DEF st
  <2> QED
    BY <1>6, <2>1, <2>2
<1>11. StoredFits(T, st)
  BY <1>7, <1>10 DEF StoredFits
<1> QED
  BY <1>5, <1>11 DEF place

\* A guard that is dropped writes into its place.
LEMMA DropIsInside ==
  ASSUME NEW T, T.size \in Nat, NEW build, NEW gs, Leads(T, gs, build), gs # <<>>, NEW m
  PROVE  LET g == Last(gs)
         IN /\ SameAround(m, MarkAs(g.type.det, g.ok, m, g.at), BitsOfPlace(Innermost(T, Front(gs))))
            /\ BitsOfPlace(Innermost(T, Front(gs))) \subseteq BitsOfBytes(0, T.size)
            /\ MemFits(T, m) => MemFits(T, MarkAs(g.type.det, g.ok, m, g.at))
<1> DEFINE g == Last(gs)
           place == Innermost(T, Front(gs))
<1>1. /\ Leads(T, Front(gs), build) /\ g = Guard(place, g.ok)
      /\ g.type \in Parts /\ IsSum(g.type) /\ g.ok \in BOOLEAN /\ g.at \in Nat
  BY GuardIsPopped
<1>2. place.type = g.type /\ place.at = g.at
  BY <1>1 DEF Guard
<1>3. Within(T, place, build)
  BY <1>1, GuardsAre
<1> HIDE DEF g, place
<1>4. SameAround(m, MarkAs(g.type.det, g.ok, m, g.at), BitsOfBytes(g.at, g.type.size))
  BY <1>1, MarkInside
<1>5. BitsOfPlace(place) \subseteq BitsOfBytes(0, T.size)
  BY <1>3, PlaceInside
<1>6. BitsOfPlace(place) = BitsOfBytes(g.at, g.type.size)
  BY <1>2 DEF BitsOfPlace
<1>7. MemFits(T, m) => MemFits(T, MarkAs(g.type.det, g.ok, m, g.at))
  BY <1>4, <1>5, <1>6 DEF SameAround, MemFits
<1> QED
  BY <1>4, <1>5, <1>6, <1>7 DEF g, place

\* A Result that is wrapped again.
LEMMA WrapFits ==
  ASSUME NEW T \in Parts, IsSum(T), NEW ok \in BOOLEAN, NEW r,
         r.one \cup r.undef \subseteq BitsOfBytes(0, VariantOf(T, ok).size)
  PROVE  MemFits(T, Image(MadeOf(T, ok, r)))
<1> DEFINE V == VariantOf(T, ok)
           to == VariantAt(T, ok)
           old == Write(Zeroed, r, to, V.size)
           new == MarkAs(T.det, ok, old, 0)
<1>1. T.size \in Nat /\ V \in Parts
  BY PartIs, SumIs
<1>2. V.size \in Nat
  BY <1>1, PartIs
<1>3. PICK front, at, err : IsAt(T, ok, front, at, err)
  BY SumIs DEF Holds
<1>4. to \in Nat /\ to + V.size <= T.size
  BY <1>3 DEF IsAt, Placed
<1>5. SameAround(Zeroed, old, BitsOfBytes(to, V.size))
  <2>1. r.one \cup r.undef \subseteq BitsOfBytes(0, V.size)
    OBVIOUS
  <2> HIDE DEF V, to
  <2> QED
    BY <1>2, <1>4, <2>1, WriteIs
<1>6. BitsOfBytes(to, V.size) \subseteq BitsOfBytes(0, T.size)
  BY <1>1, <1>2, <1>4 DEF BitsOfBytes
<1> HIDE DEF old
<1>7. SameAround(old, new, BitsOfBytes(0, T.size))
  <2>1. 0 \in Nat
    OBVIOUS
  <2> QED
    BY <2>1, MarkInside
<1>8. Image(MadeOf(T, ok, r)).one = new.one /\ Image(MadeOf(T, ok, r)).undef = new.undef
  BY DEF Image, MadeOf, Made, Choice, old
<1> HIDE DEF new
<1>9. Zeroed.one = {} /\ Zeroed.undef = {}
  BY DEF Zeroed
<1> QED
  BY <1>5, <1>6, <1>7, <1>8, <1>9 DEF SameAround, MemFits

-----------------------------------------------------------------------------
(* The steps of sum types *)

LeadInv ==
  /\ type \in Types /\ masks \in BOOLEAN /\ polled \in BOOLEAN /\ yields \in Nat
  /\ Leads(type, guards, masks) /\ (polled => guards # <<>>)

BitsInv ==
  /\ MemFits(type, mem) /\ StoredFits(type, stored)
  /\ ~IsSum(type) => \E v \in type.vals : mem = Image(v)

LEMMA TypeIs ==
  ASSUME LeadInv
  PROVE  /\ type \in Parts /\ type.size \in Nat /\ masks \in BOOLEAN
         /\ PlaceOf(guards) = Innermost(type, guards) /\ OpenChoices = Opened(guards)
         /\ Whole = [type |-> type, at |-> 0]
<1>1. type \in Parts /\ masks \in BOOLEAN
  BY TypesAssumption DEF LeadInv
<1>2. type.size \in Nat
  BY <1>1, PartIs
<1>3. Leads(type, guards, masks)
  BY DEF LeadInv
<1>4. Innermost(type, guards) =
        IF guards = <<>> THEN [type |-> type, at |-> 0] ELSE Inside(Last(guards), Last(guards).ok)
  BY <1>3, InnermostIs
<1>5. PlaceOf(guards) = Innermost(type, guards)
  BY <1>4 DEF PlaceOf, Whole
<1> QED
  BY <1>1, <1>2, <1>5 DEF OpenChoices, Opened, Whole

LEMMA InitLeads ==
  ASSUME Init
  PROVE  LeadInv /\ BitsInv
<1>1. type \in Parts /\ type \in Types /\ masks \in BOOLEAN /\ guards = <<>> /\ polled = FALSE /\ yields = 0
  BY TypesAssumption DEF Init
<1>2. Leads(type, <<>>, masks)
  BY <1>1, NoGuards
<1>3. LeadInv
  BY <1>1, <1>2 DEF LeadInv
<1>4. PICK v \in type.vals : mem = Image(v) /\ stored = Meaning(v)
  BY DEF Init
<1>5. MemFits(type, mem) /\ StoredFits(type, stored)
  BY <1>1, <1>4, MeaningFits
<1> QED
  BY <1>3, <1>4, <1>5 DEF BitsInv

\* What is read of a place, put somewhere else.
LEMMA ReadIs ==
  ASSUME NEW at \in Nat, NEW size \in Nat
  PROVE  /\ Read(at, size).one \cup Read(at, size).undef \subseteq BitsOfBytes(0, size)
         /\ \A x \in BitsOfBytes(0, size) : /\ x \in Read(at, size).one <=> x + 8 * at \in mem.one
                                            /\ x \in Read(at, size).undef <=> x + 8 * at \in mem.undef
<1>1. \A b \in BitsOfBytes(at, size) : b - 8 * at \in BitsOfBytes(0, size) /\ (b - 8 * at) + 8 * at = b
  BY DEF BitsOfBytes
<1>2. \A x \in BitsOfBytes(0, size) : x + 8 * at \in BitsOfBytes(at, size) /\ (x + 8 * at) - 8 * at = x
  BY DEF BitsOfBytes
<1>3. /\ Read(at, size).one = {b - 8 * at : b \in mem.one \cap BitsOfBytes(at, size)}
      /\ Read(at, size).undef = {b - 8 * at : b \in mem.undef \cap BitsOfBytes(at, size)}
  BY DEF Read
<1>4. Read(at, size).one \cup Read(at, size).undef \subseteq BitsOfBytes(0, size)
  BY <1>1, <1>3
<1>5. ASSUME NEW x \in BitsOfBytes(0, size), NEW S
      PROVE  x \in {b - 8 * at : b \in S \cap BitsOfBytes(at, size)} <=> x + 8 * at \in S
  <2>1. ASSUME NEW b \in S \cap BitsOfBytes(at, size), x = b - 8 * at PROVE x + 8 * at \in S
    BY <1>1, <2>1
  <2>2. ASSUME x + 8 * at \in S PROVE \E b \in S \cap BitsOfBytes(at, size) : x = b - 8 * at
    BY <1>2, <2>2
  <2> QED
    BY <2>1, <2>2
<1> QED
  BY <1>3, <1>4, <1>5

\* A poll that is ready leaves the Empty of a MaybeResolved.
LEMMA EmptyIsHeld ==
  ASSUME type \in Parts, IsMaybeResolved
  PROVE  LET inner == MadeOf(type.err, TRUE, Plain(0, <<>>))
         IN /\ type.err \in Parts /\ IsSum(type.err) /\ IsSum(type)
            /\ EmptyValue \in type.vals /\ EmptyValue = MadeOf(type, FALSE, inner)
            /\ inner \in VariantOf(type, FALSE).vals
            /\ EmptyValue.choices = {Choice(type.det, 0, FALSE), Choice(type.err.det, type.errAt, TRUE)}
<1> DEFINE unit == Plain(0, <<>>)
           inner == MadeOf(type.err, TRUE, unit)
<1>1. IsSum(type) /\ IsSum(type.err) /\ type.err.ok = Unit
  BY DEF IsMaybeResolved
<1>2. Holds(type) /\ VariantOf(type, FALSE) = type.err /\ type.err \in Parts
  <2>1. Holds(type) /\ VariantOf(type, FALSE) \in Parts
    BY <1>1, SumIs
  <2> QED
    BY <2>1 DEF VariantOf
<1>3. Holds(type.err) /\ VariantOf(type.err, TRUE) = Unit
  BY <1>1, <1>2, SumIs DEF VariantOf
<1>4. unit \in Unit.vals /\ Unit.size = 0 /\ unit.choices = {}
  BY DEF Unit, Type, Plain
<1>5. inner \in type.err.vals
  BY <1>3, <1>4 DEF Holds
<1>6. MadeOf(type, FALSE, inner) \in type.vals
  BY <1>2, <1>5 DEF Holds
<1>7. inner = Made(Choice(type.err.det, 0, TRUE), unit, type.err.okAt, 0)
  BY <1>1, <1>4 DEF MadeOf, VariantOf, VariantAt
<1>8. EmptyValue = Made(Choice(type.det, 0, FALSE), inner, type.errAt, type.err.size)
  BY <1>7 DEF EmptyValue
<1>9. MadeOf(type, FALSE, inner) = Made(Choice(type.det, 0, FALSE), inner, type.errAt, type.err.size)
  BY DEF MadeOf, VariantOf, VariantAt
<1> HIDE DEF unit
<1> DEFINE okAt == type.err.okAt
           mark == Choice(type.err.det, 0, TRUE)
<1>10. inner.choices = {mark}
  <2>1. inner = Made(mark, unit, okAt, 0)
    BY <1>7
  <2> HIDE DEF inner, okAt, mark
  <2>2. Made(mark, unit, okAt, 0).choices = {[d EXCEPT !.at = @ + okAt] : d \in unit.choices} \cup {mark}
    BY DEF Made, ShiftValue
  <2> QED
    BY <1>4, <2>1, <2>2
<1>11. /\ EmptyValue.choices
            = {[c EXCEPT !.at = @ + type.errAt] : c \in inner.choices} \cup {Choice(type.det, 0, FALSE)}
  BY <1>8 DEF Made, ShiftValue
<1>12. type.errAt \in Nat
  <2>1. PICK front, at, err : IsAt(type, FALSE, front, at, err)
    BY <1>2 DEF Holds
  <2> QED
    BY <2>1 DEF IsAt, Placed, VariantAt
<1>13. [Choice(type.err.det, 0, TRUE) EXCEPT !.at = @ + type.errAt] = Choice(type.err.det, type.errAt, TRUE)
  <2> DEFINE c == Choice(type.err.det, 0, TRUE)
  <2>1. c = Choice(c.det, c.at, c.ok) /\ c.det = type.err.det /\ c.at = 0 /\ c.ok = TRUE
    BY DEF Choice
  <2> HIDE DEF c
  <2>2. [c EXCEPT !.at = @ + type.errAt] = Choice(c.det, c.at + type.errAt, c.ok)
    BY <2>1, ChoiceMoves
  <2>3. c.at + type.errAt = type.errAt
    BY <1>12, <2>1
  <2> QED
    BY <2>1, <2>2, <2>3 DEF c
<1> HIDE DEF inner
<1>14. EmptyValue.choices = {Choice(type.det, 0, FALSE), Choice(type.err.det, type.errAt, TRUE)}
  BY <1>10, <1>11, <1>13
<1> QED
  BY <1>1, <1>2, <1>5, <1>6, <1>8, <1>9, <1>14 DEF inner, unit

LEMMA EnterLeads ==
  ASSUME LeadInv, Enter
  PROVE  LeadInv'
<1>1. /\ type \in Parts /\ type.size \in Nat /\ masks \in BOOLEAN
      /\ PlaceOf(guards) = Innermost(type, guards)
  BY TypeIs
<1>2. Leads(type, guards, masks) /\ yields \in Nat /\ type \in Types /\ polled \in BOOLEAN
  BY DEF LeadInv
<1> DEFINE place == Innermost(type, guards)
<1>3. IsSum(place.type) /\ ~polled
  BY <1>1 DEF Enter
<1>4. PICK ok \in BOOLEAN : guards' = Append(guards, Guard(place, ok))
  BY <1>1 DEF Enter, ReadsAs
<1>5. Leads(type, Append(guards, Guard(place, ok)), masks)
  BY <1>1, <1>2, <1>3, GuardIsPushed
<1>6. UNCHANGED <<type, masks, polled, yields>>
  BY DEF Enter
<1> QED
  BY <1>1, <1>2, <1>3, <1>4, <1>5, <1>6 DEF LeadInv

LEMMA ExitLeads ==
  ASSUME LeadInv, Exit
  PROVE  LeadInv'
<1>1. /\ Leads(type, guards, masks) /\ type \in Types /\ masks \in BOOLEAN /\ polled \in BOOLEAN
      /\ yields \in Nat
  BY DEF LeadInv
<1>2. /\ guards # <<>> /\ guards' = Front(guards) /\ polled' = (polled /\ guards' # <<>>)
      /\ UNCHANGED <<type, masks, yields>>
  BY DEF Exit
<1>3. Leads(type, Front(guards), masks)
  BY <1>1, <1>2, GuardIsPopped
<1> QED
  BY <1>1, <1>2, <1>3 DEF LeadInv

LEMMA YieldHasGuards ==
  ASSUME CanYield
  PROVE  guards # <<>>
<1>1. SUFFICES ASSUME guards = <<>> PROVE FALSE
  OBVIOUS
<1>2. Matched = <<TRUE>> \/ Matched = <<FALSE, FALSE>>
  BY DEF CanYield
<1>3. DOMAIN Matched = {}
  BY <1>1 DEF Matched
<1>4. 1 \in DOMAIN <<TRUE>> /\ 1 \in DOMAIN <<FALSE, FALSE>>
  OBVIOUS
<1> QED
  BY <1>2, <1>3, <1>4

LEMMA StepLeads ==
  ASSUME LeadInv, [Next]_vars
  PROVE  LeadInv'
<1>1. /\ Leads(type, guards, masks) /\ type \in Types /\ masks \in BOOLEAN /\ polled \in BOOLEAN
      /\ yields \in Nat /\ (polled => guards # <<>>)
  BY DEF LeadInv
<1>2. CASE Enter
  BY <1>2, EnterLeads
<1>3. CASE Exit
  BY <1>3, ExitLeads
<1>4. CASE Assign
  <2>1. UNCHANGED <<type, masks, guards, polled>> /\ yields' = IF guards = <<>> THEN 0 ELSE yields
    BY <1>4 DEF Assign
  <2> QED
    BY <1>1, <2>1 DEF LeadInv
<1>5. CASE Rewrap \/ Clone \/ UNCHANGED vars
  BY <1>1, <1>5 DEF LeadInv, Rewrap, Clone, vars
<1>6. CASE Yield
  <2>1. UNCHANGED <<type, masks, guards>> /\ polled' = TRUE /\ yields' = yields + 1 /\ CanYield
    BY <1>6 DEF Yield
  <2>2. guards # <<>>
    BY <2>1, YieldHasGuards
  <2> QED
    BY <1>1, <2>1, <2>2 DEF LeadInv
<1> QED
  BY <1>2, <1>3, <1>4, <1>5, <1>6 DEF Next

\* Only a Result is matched.
LEMMA OnlySumsAreMatched ==
  ASSUME LeadInv, ~IsSum(type)
  PROVE  guards = <<>>
<1>1. Leads(type, guards, masks)
  BY DEF LeadInv
<1>2. Len(guards) \in Nat /\ (Len(guards) = 0 => guards = <<>>)
  <2>1. guards \in Seq(Guarded)
    BY <1>1 DEF Leads
  <2> QED
    BY <2>1
<1>3. CASE Len(guards) # 0
  <2>1. 1 \in 1 .. Len(guards)
    BY <1>2, <1>3
  <2>2. IsSum(guards[1].type) /\ guards[1].type = Before(type, guards, 1).type
    BY <1>1, <2>1 DEF Leads
  <2>3. Before(type, guards, 1).type = type
    BY DEF Before
  <2> QED
    BY <2>2, <2>3
<1> QED
  BY <1>2, <1>3

\* What is written over the whole is all there is.
LEMMA WholeIsWritten ==
  ASSUME NEW T \in Parts, NEW v \in T.vals, NEW m, MemFits(T, m)
  PROVE  Write(m, v, 0, T.size) = Image(v)
<1>1. IsValue(v, T) /\ T.size \in Nat
  BY PartIs
<1>2. v.one \in SUBSET Int /\ v.undef \in SUBSET Int
  BY <1>1, ValueBits
<1>3. ShiftBits(v.one, 0) = v.one /\ ShiftBits(v.undef, 0) = v.undef
  <2>1. 0 \in Nat
    OBVIOUS
  <2> QED
    BY <1>2, <2>1, ShiftTwice
<1>4. m.one \ BitsOfBytes(0, T.size) = {} /\ m.undef \ BitsOfBytes(0, T.size) = {}
  BY DEF MemFits
<1>5. /\ Write(m, v, 0, T.size).one = v.one /\ Write(m, v, 0, T.size).undef = v.undef
  BY <1>3, <1>4 DEF Write
<1> QED
  BY <1>3, <1>4 DEF Write, Image

LEMMA AssignKeepsBits ==
  ASSUME LeadInv, BitsInv, Assign
  PROVE  BitsInv'
<1>1. /\ type \in Parts /\ type.size \in Nat /\ masks \in BOOLEAN
      /\ PlaceOf(guards) = Innermost(type, guards) /\ OpenChoices = Opened(guards)
  BY TypeIs
<1>2. Leads(type, guards, masks)
  BY DEF LeadInv
<1> DEFINE place == Innermost(type, guards)
<1>3. PICK v \in place.type.vals :
        /\ mem' = Write(mem, v, place.at, place.type.size)
        /\ stored' = StoredAs(v, place.at, Opened(guards))
  BY <1>1 DEF Assign, StoredAs
<1>4. type' = type
  BY DEF Assign
<1>5. MemFits(type, mem)
  BY DEF BitsInv
<1>6. MemFits(type, mem') /\ StoredFits(type, stored')
  BY <1>1, <1>2, <1>3, <1>5, AssignFits
<1>7. ASSUME ~IsSum(type) PROVE \E w \in type.vals : mem' = Image(w)
  <2>1. guards = <<>>
    BY <1>7, OnlySumsAreMatched
  <2>2. place.type = type /\ place.at = 0
    BY <1>1, <2>1, NoGuards
  <2>3. mem' = Image(v)
    BY <1>1, <1>3, <1>5, <2>2, WholeIsWritten
  <2> QED
    BY <1>3, <2>2, <2>3
<1> QED
  BY <1>4, <1>6, <1>7 DEF BitsInv

LEMMA ExitKeepsBits ==
  ASSUME LeadInv, BitsInv, Exit
  PROVE  BitsInv'
<1>1. type \in Parts /\ type.size \in Nat
  BY TypeIs
<1>2. Leads(type, guards, masks) /\ guards # <<>> /\ IsSum(type)
  BY OnlySumsAreMatched DEF LeadInv, Exit
<1>3. type' = type /\ stored' = stored
  BY DEF Exit
<1> DEFINE g == Last(guards)
<1>4. mem' = mem \/ mem' = MarkAs(g.type.det, g.ok, mem, g.at)
  BY DEF Exit, ChoiceOf, Choice
<1>5. MemFits(type, mem) /\ StoredFits(type, stored)
  BY DEF BitsInv
<1>6. MemFits(type, mem')
  <2>1. MemFits(type, MarkAs(g.type.det, g.ok, mem, g.at))
    BY <1>1, <1>2, <1>5, DropIsInside
  <2> QED
    BY <1>4, <1>5, <2>1
<1> QED
  BY <1>2, <1>3, <1>5, <1>6 DEF BitsInv

\* Of what was wrapped again, with what was read of its place.
LEMMA RewrapIs ==
  ASSUME LeadInv, Rewrap
  PROVE  /\ guards = <<>> /\ IsSum(type)
         /\ \E ok \in ReadsAs(type.det, masks, mem, 0) :
              LET from == VariantAt(type, ok)
                  r == Read(from, VariantOf(type, ok).size)
              IN /\ ok \in BOOLEAN /\ from \in Nat /\ VariantOf(type, ok) \in Parts
                 /\ mem' = Image(MadeOf(type, ok, r))
<1>1. type \in Parts
  BY TypeIs
<1>2. guards = <<>> /\ IsSum(type)
  BY DEF Rewrap
<1>3. PICK ok \in ReadsAs(type.det, masks, mem, 0) :
        mem' = Image(Made(Choice(type.det, 0, ok), Read(Inside(Whole, ok).at, Inside(Whole, ok).type.size),
                          Inside(Whole, ok).at, Inside(Whole, ok).type.size))
  BY DEF Rewrap
<1>4. ok \in BOOLEAN
  BY <1>3 DEF ReadsAs
<1>5. Holds(type) /\ VariantOf(type, ok) \in Parts
  BY <1>1, <1>2, <1>4, SumIs
<1>6. PICK front, at, err : IsAt(type, ok, front, at, err)
  BY <1>4, <1>5 DEF Holds
<1>7. VariantAt(type, ok) \in Nat
  BY <1>6 DEF IsAt, Placed
<1>8. Inside(Whole, ok).type = VariantOf(type, ok) /\ Inside(Whole, ok).at = 0 + VariantAt(type, ok)
  BY DEF Inside, Whole, VariantOf, VariantAt
<1>9. 0 + VariantAt(type, ok) = VariantAt(type, ok)
  BY <1>7
<1>10. mem' = Image(MadeOf(type, ok, Read(VariantAt(type, ok), VariantOf(type, ok).size)))
  BY <1>3, <1>8, <1>9 DEF MadeOf
<1> QED
  BY <1>2, <1>3, <1>4, <1>5, <1>7, <1>10

LEMMA RewrapKeepsBits ==
  ASSUME LeadInv, BitsInv, Rewrap
  PROVE  BitsInv'
<1>1. type \in Parts
  BY TypeIs
<1>2. IsSum(type)
  BY DEF Rewrap
<1>3. PICK ok \in BOOLEAN :
        /\ VariantAt(type, ok) \in Nat /\ VariantOf(type, ok) \in Parts
        /\ mem' = Image(MadeOf(type, ok, Read(VariantAt(type, ok), VariantOf(type, ok).size)))
  BY RewrapIs
<1> DEFINE r == Read(VariantAt(type, ok), VariantOf(type, ok).size)
<1>4. VariantOf(type, ok).size \in Nat
  BY <1>3, PartIs
<1>5. r.one \cup r.undef \subseteq BitsOfBytes(0, VariantOf(type, ok).size)
  BY <1>3, <1>4, ReadIs
<1> HIDE DEF r
<1>6. MemFits(type, Image(MadeOf(type, ok, r)))
  BY <1>1, <1>2, <1>5, WrapFits
<1>7. type' = type /\ stored' = stored
  BY DEF Rewrap
<1> QED
  BY <1>2, <1>3, <1>6, <1>7 DEF BitsInv, r

LEMMA StepKeepsBits ==
  ASSUME LeadInv, BitsInv, [Next]_vars
  PROVE  BitsInv'
<1>1. type \in Parts
  BY TypeIs
<1>2. CASE Assign
  BY <1>2, AssignKeepsBits
<1>3. CASE Exit
  BY <1>3, ExitKeepsBits
<1>4. CASE Rewrap
  BY <1>4, RewrapKeepsBits
<1>5. CASE Clone
  <2>1. PICK v \in type.vals : mem' = Image(v)
    BY <1>5 DEF Clone
  <2>2. type' = type /\ stored' = stored
    BY <1>5 DEF Clone
  <2>3. MemFits(type, mem')
    BY <1>1, <2>1, MeaningFits
  <2> QED
    BY <2>1, <2>2, <2>3 DEF BitsInv
<1>6. CASE Yield
  <2>1. /\ IsMaybeResolved /\ mem' = Image(EmptyValue) /\ stored' = Meaning(EmptyValue) /\ type' = type
    BY <1>6 DEF Yield, CanYield
  <2>2. EmptyValue \in type.vals
    BY <1>1, <2>1, EmptyIsHeld
  <2>3. MemFits(type, mem') /\ StoredFits(type, stored')
    BY <1>1, <2>1, <2>2, MeaningFits
  <2> QED
    BY <2>1, <2>2, <2>3 DEF BitsInv
<1>7. CASE Enter \/ UNCHANGED vars
  <2>1. type' = type /\ mem' = mem /\ stored' = stored
    BY <1>7 DEF Enter, vars
  <2> QED
    BY <2>1 DEF BitsInv
<1> QED
  BY <1>2, <1>3, <1>4, <1>5, <1>6, <1>7 DEF Next

\* The guards of a Result always lead from the whole into a variant of what the
\* one before them leads to, and what the code put in memory is in the type,
\* and out of the bits that the type declares unused (both invariants are
\* inductive): for Results of any types that are as the choice of a determinant
\* relies on, nested as deep as they may be.
THEOREM SumInvTheorem == Spec => [](LeadInv /\ BitsInv)
<1>1. Init => LeadInv /\ BitsInv
  BY InitLeads
<1>2. LeadInv /\ BitsInv /\ [Next]_vars => (LeadInv /\ BitsInv)'
  BY StepLeads, StepKeepsBits
<1> QED
  BY <1>1, <1>2, PTL DEF Spec

LEMMA BitsStayInside ==
  ASSUME LeadInv, BitsInv
  PROVE  StaysInside
<1>1. type \in Parts /\ type.size \in Nat
  BY TypeIs
<1>2. IsSum(type) => StorageSize(type) = type.size
  BY <1>1, StorageFits
<1>3. MemFits(type, mem) /\ StoredFits(type, stored)
  BY DEF BitsInv
<1>4. mem.one \cup mem.undef \cup stored.care \subseteq BitsOfBytes(0, type.size)
  BY <1>3 DEF MemFits, StoredFits
<1> QED
  BY <1>2, <1>4 DEF StaysInside

\* Whatever is stored, matched, assigned, wrapped again, cloned or polled:
\* nothing is written outside the array of integers that is the storage of a
\* Result (Storage in stabby-abi/src/result.rs).
THEOREM StaysInsideTheorem == Spec => []StaysInside
<1>1. LeadInv /\ BitsInv => StaysInside
  BY BitsStayInside
<1> QED
  BY <1>1, SumInvTheorem, PTL

\* A byte of the value that none of the forbidden ones is in.
LEMMA NoForbiddenByte ==
  ASSUME NEW v, mem = Image(v), NEW e, BitsOfByte(e[1]) \cap v.undef = {},
         \A value \in e[2] : v.one \cap BitsOfByte(e[1]) # {8 * e[1] + b : b \in BitsOf(value)}
  PROVE  BitsOfByte(e[1]) \cap mem.undef = {} /\ ~ByteIn(e[2], e[1])
<1>1. mem.one = v.one /\ mem.undef = v.undef
  BY DEF Image
<1> QED
  BY <1>1 DEF ByteIn

LEMMA BitsLeaveNiches ==
  ASSUME LeadInv, BitsInv
  PROVE  NichesStayFree
<1>1. type \in Parts
  BY TypeIs
<1>2. StoredFits(type, stored)
  BY DEF BitsInv
<1>3. /\ stored.care \cap Positions(type.ub) = {}
      /\ \A c \in stored.choices : LooksAt(c.det, TRUE, c.at) \cap Positions(type.ub) = {}
  BY <1>2 DEF StoredFits
<1>4. Positions(type.ub) \cap
        (stored.care \cup UNION {LooksAt(c.det, TRUE, c.at) : c \in stored.choices}) = {}
  BY <1>3
<1>5. ASSUME NEW i \in DOMAIN type.fv, type.fv[i] # NoValue
      PROVE  \E e \in type.fv[i] : BitsOfByte(e[1]) \cap mem.undef = {} /\ ~ByteIn(e[2], e[1])
  <2>1. CASE IsSum(type)
    <3>1. type.fv = Nothing
      <4>1. type = ResultOf(type.ok, type.err)
        BY <1>1, <2>1, TypesAssumption DEF IsPart
      <4>2. \A A, B : ResultOf(A, B).fv = Nothing
        BY DEF ResultOf
      <4> QED
        BY <4>1, <4>2
    <3> QED
      BY <1>5, <3>1 DEF Nothing
  <2>2. CASE ~IsSum(type)
    <3>1. PICK v \in type.vals : mem = Image(v)
      BY <2>2 DEF BitsInv
    <3>2. IsValue(v, type)
      BY <1>1, PartIs
    <3>3. Avoids(v, type.fv[i]) /\ v.care \cap v.undef = {}
      BY <1>5, <3>2 DEF IsValue
    <3>4. PICK e \in type.fv[i] :
            /\ BitsOfByte(e[1]) \subseteq v.care
            /\ \A value \in e[2] : v.one \cap BitsOfByte(e[1]) # {8 * e[1] + b : b \in BitsOf(value)}
      BY <3>3 DEF Avoids
    <3>5. BitsOfByte(e[1]) \cap v.undef = {}
      BY <3>3, <3>4
    <3>6. BitsOfByte(e[1]) \cap mem.undef = {} /\ ~ByteIn(e[2], e[1])
      BY <3>1, <3>4, <3>5, NoForbiddenByte
    <3> QED
      BY <3>6
  <2> QED
    BY <2>1, <2>2
<1> QED
  BY <1>4, <1>5 DEF NichesStayFree

\* The bits that a type declares unused are read by nobody, and the values that
\* it declares forbidden never show: an enclosing Result may keep its
\* determinant there, of whatever the types are made.
THEOREM NichesStayFreeTheorem == Spec => []NichesStayFree
<1>1. LeadInv /\ BitsInv => NichesStayFree
  BY BitsLeaveNiches
<1> QED
  BY <1>1, SumInvTheorem, PTL

-----------------------------------------------------------------------------
(* What is stored is in memory, where the guards lead *)

\* The tags around the place, which dropping a guard does not set again.
TagsRead(m, gs, build) ==
  \A i \in DOMAIN gs : gs[i].type.det.kind = "tag" =>
    ReadsAs(gs[i].type.det, build, m, gs[i].at) = {gs[i].ok}

\* Where the guards lead there is v, and nothing else is stored.
Holding(T, gs, m, st, build, v) ==
  /\ v \in Innermost(T, gs).type.vals
  /\ Shows(m, v, Innermost(T, gs).at, build)
  /\ st = StoredAs(v, Innermost(T, gs).at, Opened(gs))

Shown(T, gs, m, st, build) == TagsRead(m, gs, build) /\ \E v : Holding(T, gs, m, st, build, v)

\* The guards while a MaybeResolved that was polled is not used again, and those
\* that its Empty can be matched with.
PolledPath(gs) == Len(gs) = 1 \/ (Len(gs) = 2 /\ gs[1].ok = FALSE /\ gs[2].ok = FALSE)
EmptyPath(gs) ==
  Len(gs) <= 2 /\ (Len(gs) >= 1 => gs[1].ok = FALSE) /\ (Len(gs) = 2 => gs[2].ok = TRUE)

EmptyChoices == {Choice(type.det, 0, FALSE), Choice(type.err.det, type.errAt, TRUE)}

IsEmpty ==
  /\ IsMaybeResolved /\ yields = 1 /\ EmptyChoices \subseteq stored.choices
  /\ ~polled => EmptyPath(guards)

Emptied ==
  /\ IsMaybeResolved /\ yields = 1 /\ PolledPath(guards)
  /\ Shows(mem, EmptyValue, 0, masks) /\ stored = Meaning(EmptyValue)

Clear == Legible(type, masks)
Unhurt == yields = 0 \/ ~EmptyIsOverwritten

Kept ==
  /\ polled => Emptied
  /\ ~polled => Shown(type, guards, mem, stored, masks)
  /\ yields # 0 => IsEmpty

MemoryInv == Clear /\ Unhurt => Kept

LEMMA OuterTagsStay ==
  ASSUME NEW T, NEW build \in BOOLEAN, NEW gs, Leads(T, gs, build), NEW m, NEW n,
         TagsRead(m, gs, build), SameAround(m, n, BitsOfPlace(Innermost(T, gs)))
  PROVE  TagsRead(n, gs, build)
<1>1. /\ DOMAIN gs = 1 .. Len(gs) /\ Len(gs) \in Nat
      /\ \A i \in 1 .. Len(gs) : gs[i].type \in Parts /\ IsSum(gs[i].type) /\ gs[i].at \in Nat
  BY GuardsAre
<1>2. ASSUME NEW i \in DOMAIN gs, gs[i].type.det.kind = "tag"
      PROVE  ReadsAs(gs[i].type.det, build, n, gs[i].at) = {gs[i].ok}
  <2> DEFINE R == gs[i].type
             at == gs[i].at
             bits == BitsOfPlace(Innermost(T, gs))
  <2>1. R \in Parts /\ IsSum(R) /\ at \in Nat /\ i \in 1 .. Len(gs)
    BY <1>1
  <2>2. IsDeterminant(R.det)
    <3>1. Holds(R)
      BY <2>1, SumIs
    <3> HIDE DEF R
    <3>2. PICK ok \in BOOLEAN : \E front, to, err : IsAt(R, ok, front, to, err)
      BY <3>1 DEF Holds
    <3> QED
      BY <3>2 DEF IsAt, Placed
  <2>3. BitsOfByte(at) \cap bits = {}
    <3>1. Outside(gs[i].type.det, gs[i].at, Before(T, gs, Len(gs) + 1))
      <4>1. Len(gs) + 1 \in 1 .. Len(gs) + 1 /\ i < Len(gs) + 1
        BY <1>1, <2>1
      <4> QED
        BY <2>1, <4>1 DEF Leads
    <3> QED
      BY <1>2, <3>1 DEF Outside, Innermost
  <2>4. SameAround(m, n, bits)
    OBVIOUS
  <2>5. R.det.kind = "tag" /\ ReadsAs(R.det, build, m, at) = {gs[i].ok}
    BY <1>2 DEF TagsRead
  <2> HIDE DEF R, at, bits
  <2>6. ReadsAs(R.det, build, n, at) = ReadsAs(R.det, build, m, at)
    BY <2>1, <2>2, <2>3, <2>4, <2>5, TagStays
  <2> QED
    BY <2>5, <2>6 DEF R, at
<1> QED
  BY <1>2 DEF TagsRead

LEMMA EnterShows ==
  ASSUME NEW T, T.size \in Nat, NEW build \in BOOLEAN, NEW gs, Leads(T, gs, build), NEW m, NEW st,
         Shown(T, gs, m, st, build), IsSum(Innermost(T, gs).type),
         NEW ok \in ReadsAs(Innermost(T, gs).type.det, build, m, Innermost(T, gs).at)
  PROVE  Shown(T, Append(gs, Guard(Innermost(T, gs), ok)), m, st, build)
<1> DEFINE place == Innermost(T, gs)
           R == place.type
           g == Guard(place, ok)
           new == Append(gs, g)
<1>1. PICK w : Holding(T, gs, m, st, build, w)
  BY DEF Shown
<1>2. w \in R.vals /\ Shows(m, w, place.at, build) /\ st = StoredAs(w, place.at, Opened(gs))
  BY <1>1 DEF Holding
<1>3. Within(T, place, build) /\ DOMAIN gs = 1 .. Len(gs) /\ Len(gs) \in Nat /\ gs \in Seq(Guarded)
  BY GuardsAre
<1>4. R \in Parts /\ place.at \in Nat
  BY <1>3 DEF Within
<1>5. IsSum(R) /\ ok \in ReadsAs(R.det, build, m, place.at)
  OBVIOUS
<1>6. /\ ok \in BOOLEAN /\ ReadsAs(R.det, build, m, place.at) = {ok}
      /\ \E v \in VariantOf(R, ok).vals : w = MadeOf(R, ok, v) /\ Shows(m, v, place.at + VariantAt(R, ok), build)
  <2> DEFINE at == place.at
  <2>1. Shows(m, w, at, build) /\ ok \in ReadsAs(R.det, build, m, at) /\ at \in Nat
    BY <1>2, <1>4, <1>5
  <2> HIDE DEF R, at
  <2>2. IsVariant(R, w, ok, m, at, build)
    BY <1>2, <1>4, <1>5, <2>1, ShowsVariant
  <2> QED
    BY <2>2 DEF at, IsVariant
<1>7. PICK v \in VariantOf(R, ok).vals : w = MadeOf(R, ok, v) /\ Shows(m, v, place.at + VariantAt(R, ok), build)
  BY <1>6
<1>8. /\ Innermost(T, new) = Inside(place, ok)
      /\ Len(new) = Len(gs) + 1 /\ new[Len(gs) + 1] = g /\ \A i \in 1 .. Len(gs) : new[i] = gs[i]
  BY <1>5, <1>6, GuardIsPushed
<1>9. Innermost(T, new).type = VariantOf(R, ok) /\ Innermost(T, new).at = place.at + VariantAt(R, ok)
  BY <1>8 DEF Inside, VariantOf, VariantAt
<1>10. DOMAIN new = 1 .. Len(gs) + 1
  <2>1. g \in Guarded
    BY <1>4, <1>6 DEF Guarded, Guard
  <2> HIDE DEF g
  <2>2. new \in Seq(Guarded)
    BY <1>3, <2>1, AppendProperties
  <2> HIDE DEF new
  <2> QED
    BY <1>8, <2>2
<1>11. g.type = R /\ g.at = place.at /\ g.ok = ok
  BY DEF Guard
<1> HIDE DEF g, new, place
<1>12. Opened(new) = Opened(gs) \cup {Choice(R.det, place.at, ok)}
  <2>1. ChoiceOf(g) = Choice(R.det, place.at, ok)
    BY <1>11 DEF ChoiceOf
  <2>2. 1 .. Len(gs) + 1 = 1 .. Len(gs) \cup {Len(gs) + 1}
    BY <1>3
  <2> QED
    BY <1>3, <1>8, <1>10, <2>1, <2>2 DEF Opened
<1>13. st = StoredAs(v, place.at + VariantAt(R, ok), Opened(new))
  <2> DEFINE open == Opened(gs)
  <2>1. StoredAs(MadeOf(R, ok, v), place.at, open)
          = StoredAs(v, place.at + VariantAt(R, ok), open \cup {Choice(R.det, place.at, ok)})
    <3>1. IsSum(R)
      BY <1>5
    <3> HIDE DEF R, open
    <3> QED
      BY <1>4, <1>6, <3>1, StoredWhole
  <2> QED
    BY <1>2, <1>7, <1>12, <2>1
<1>14. Holding(T, new, m, st, build, v)
  BY <1>7, <1>9, <1>13 DEF Holding
<1>15. ASSUME NEW i \in DOMAIN new, new[i].type.det.kind = "tag"
       PROVE  ReadsAs(new[i].type.det, build, m, new[i].at) = {new[i].ok}
  <2>1. CASE i \in 1 .. Len(gs)
    BY <1>3, <1>8, <1>15, <2>1 DEF Shown, TagsRead
  <2>2. CASE i = Len(gs) + 1
    BY <1>6, <1>8, <1>11, <2>2
  <2> QED
    BY <1>3, <1>10, <2>1, <2>2
<1> QED
  BY <1>14, <1>15 DEF Shown, TagsRead, new, g, place

\* The last guard is dropped, and the determinant set again where it is shared.
LEMMA ExitShows ==
  ASSUME NEW T, T.size \in Nat, NEW build \in BOOLEAN, Legible(T, build), NEW gs, Leads(T, gs, build),
         gs # <<>>, NEW m, NEW n, NEW st, Shown(T, gs, m, st, build),
         SameAround(m, n, BitsOfPlace(Innermost(T, Front(gs)))),
         IsMarked(m, n, Last(gs).type.det, Last(gs).ok, Last(gs).at, build)
  PROVE  Shown(T, Front(gs), n, st, build)
<1>0. /\ Leads(T, Front(gs), build)
      /\ Last(gs) = Guard(Innermost(T, Front(gs)), Last(gs).ok)
      /\ IsSum(Last(gs).type) /\ Last(gs).ok \in BOOLEAN /\ Last(gs).type \in Parts /\ Last(gs).at \in Nat
      /\ Innermost(T, gs) = Inside(Innermost(T, Front(gs)), Last(gs).ok)
      /\ Len(gs) = Len(Front(gs)) + 1 /\ Last(gs) = gs[Len(gs)]
      /\ \A i \in 1 .. Len(Front(gs)) : Front(gs)[i] = gs[i]
  <2>1. Leads(T, Front(gs), build) /\ Last(gs) = Guard(Innermost(T, Front(gs)), Last(gs).ok)
    BY GuardIsPopped
  <2>2. IsSum(Last(gs).type) /\ Last(gs).ok \in BOOLEAN /\ Last(gs).type \in Parts /\ Last(gs).at \in Nat
    BY GuardIsPopped
  <2>3. Innermost(T, gs) = Inside(Innermost(T, Front(gs)), Last(gs).ok)
    BY GuardIsPopped
  <2>4. Len(gs) = Len(Front(gs)) + 1 /\ Last(gs) = gs[Len(gs)]
    BY GuardIsPopped
  <2>5. ASSUME NEW i \in 1 .. Len(Front(gs)) PROVE Front(gs)[i] = gs[i]
    <3>1. gs \in Seq(Guarded)
      BY DEF Leads
    <3> QED
      BY <3>1, OuterAreLeft
  <2> QED
    BY <2>1, <2>2, <2>3, <2>4, <2>5
<1> DEFINE old == Front(gs)
           g == Last(gs)
           place == Innermost(T, old)
           R == place.type
           ok == g.ok
<1>1. PICK v : Holding(T, gs, m, st, build, v)
  BY DEF Shown
<1>2. /\ Leads(T, old, build) /\ g = Guard(place, ok)
      /\ IsSum(g.type) /\ ok \in BOOLEAN
      /\ Innermost(T, gs) = Inside(place, ok)
      /\ Len(gs) = Len(old) + 1 /\ g = gs[Len(gs)]
      /\ \A i \in 1 .. Len(old) : old[i] = gs[i]
  BY <1>0
<1>3. DOMAIN gs = 1 .. Len(gs) /\ Len(gs) \in Nat
  BY GuardsAre
<1>4. DOMAIN old = 1 .. Len(old) /\ Len(old) \in Nat /\ Within(T, place, build)
  BY <1>2, GuardsAre
<1>5. g.type = R /\ g.at = place.at /\ IsSum(R)
  <2>1. Guard(place, ok).type = R /\ Guard(place, ok).at = place.at
    BY DEF Guard
  <2> QED
    BY <1>2, <2>1
<1>6. /\ v \in VariantOf(R, ok).vals /\ Shows(m, v, place.at + VariantAt(R, ok), build)
      /\ st = StoredAs(v, place.at + VariantAt(R, ok), Opened(gs))
  <2>1. Inside(place, ok).type = VariantOf(R, ok) /\ Inside(place, ok).at = place.at + VariantAt(R, ok)
    BY DEF Inside, VariantOf, VariantAt
  <2> QED
    BY <1>1, <1>2, <2>1 DEF Holding
<1>7. IsMarked(m, n, R.det, ok, place.at, build) /\ SameAround(m, n, BitsOfPlace(place))
  BY <1>5
<1> HIDE DEF g, old, place, ok
<1> DEFINE w == MadeOf(R, ok, v)
<1>8. R \in Parts /\ place.at \in Nat /\ Legible(R, build)
  BY <1>4 DEF Within
<1>9. Holds(R)
  BY <1>5, <1>8, SumIs
<1>10. w \in R.vals
  BY <1>2, <1>6, <1>9 DEF Holds
<1>11. build \/ ~Overlays(w)
  BY <1>2, <1>5, <1>6, <1>8, VariantIsLegible
<1>12. Shows(n, w, place.at, build)
  <2> HIDE DEF R
  <2> QED
    BY <1>2, <1>6, <1>7, <1>8, <1>9, <1>11, ShowsWhole
<1>13. Opened(gs) = Opened(old) \cup {Choice(R.det, place.at, ok)}
  <2>1. ChoiceOf(g) = Choice(R.det, place.at, ok)
    BY <1>5 DEF ChoiceOf, ok
  <2>2. 1 .. Len(gs) = 1 .. Len(old) \cup {Len(gs)}
    BY <1>2, <1>4
  <2> QED
    BY <1>2, <1>3, <1>4, <2>1, <2>2 DEF Opened
<1>14. st = StoredAs(w, place.at, Opened(old))
  <2> DEFINE open == Opened(old)
  <2>1. StoredAs(MadeOf(R, ok, v), place.at, open)
          = StoredAs(v, place.at + VariantAt(R, ok), open \cup {Choice(R.det, place.at, ok)})
    <3>1. IsSum(R)
      BY <1>5
    <3> HIDE DEF R, open
    <3> QED
      BY <1>2, <1>6, <1>8, <3>1, StoredWhole
  <2> QED
    BY <1>6, <1>13, <2>1
<1>15. Holding(T, old, n, st, build, w)
  BY <1>10, <1>12, <1>14 DEF Holding, place
<1>16. TagsRead(m, old, build)
  <2>1. TagsRead(m, gs, build)
    BY DEF Shown
  <2>2. \A i \in 1 .. Len(old) : i \in DOMAIN gs
    BY <1>2, <1>3, <1>4
  <2> QED
    BY <1>2, <1>4, <2>1, <2>2 DEF TagsRead
<1>17. TagsRead(n, old, build)
  BY <1>2, <1>7, <1>16, OuterTagsStay DEF place
<1> QED
  BY <1>15, <1>17 DEF Shown, old

\* Whatever was shown before, what is assigned is then where the guards lead.
LEMMA AssignShows ==
  ASSUME NEW T, NEW build \in BOOLEAN, Legible(T, build), NEW gs, Leads(T, gs, build),
         NEW v \in Innermost(T, gs).type.vals, NEW m, TagsRead(m, gs, build)
  PROVE  LET place == Innermost(T, gs)
         IN Shown(T, gs, Write(m, v, place.at, place.type.size), StoredAs(v, place.at, Opened(gs)), build)
<1> DEFINE place == Innermost(T, gs)
           U == place.type
           at == place.at
           n == Write(m, v, at, U.size)
           st == StoredAs(v, at, Opened(gs))
<1>1. Within(T, place, build)
  BY GuardsAre
<1>2. U \in Parts /\ at \in Nat /\ Legible(U, build) /\ v \in U.vals
  BY <1>1 DEF Within
<1>3. Shows(n, v, at, build) /\ SameAround(m, n, BitsOfBytes(at, U.size))
  <2> HIDE DEF U, at
  <2> QED
    BY <1>2, WriteShows
<1>4. SameAround(m, n, BitsOfPlace(Innermost(T, gs)))
  BY <1>3 DEF BitsOfPlace
<1> HIDE DEF n
<1>5. TagsRead(n, gs, build)
  BY <1>4, OuterTagsStay
<1>6. st = StoredAs(v, Innermost(T, gs).at, Opened(gs))
  OBVIOUS
<1> HIDE DEF st
<1>7. Holding(T, gs, n, st, build, v)
  BY <1>2, <1>3, <1>6 DEF Holding
<1>8. Shown(T, gs, n, st, build)
  BY <1>5, <1>7 DEF Shown
<1> QED
  BY <1>8 DEF n, st

\* Without guards, the whole is shown.
LEMMA WholeIsShown ==
  ASSUME NEW T \in Parts, NEW build \in BOOLEAN, NEW v, NEW m, NEW st
  PROVE  Holding(T, <<>>, m, st, build, v) <=> v \in T.vals /\ Shows(m, v, 0, build) /\ st = Meaning(v)
<1>1. Innermost(T, <<>>).type = T /\ Innermost(T, <<>>).at = 0
  BY NoGuards
<1>2. Opened(<<>>) = {}
  <2>1. DOMAIN <<>> = {}
    OBVIOUS
  <2> QED
    BY <2>1 DEF Opened
<1>3. ASSUME v \in T.vals PROVE StoredAs(v, 0, {}) = Meaning(v)
  <2>1. IsValue(v, T) /\ T.size \in Nat
    BY <1>3, PartIs
  <2> QED
    BY <2>1, StoredHere
<1> QED
  BY <1>1, <1>2, <1>3 DEF Holding

LEMMA ShownWhole ==
  ASSUME NEW T \in Parts, NEW build \in BOOLEAN, NEW m, NEW st
  PROVE  Shown(T, <<>>, m, st, build) <=> \E v \in T.vals : Shows(m, v, 0, build) /\ st = Meaning(v)
<1>1. TagsRead(m, <<>>, build)
  <2>1. DOMAIN <<>> = {}
    OBVIOUS
  <2> QED
    BY <2>1 DEF TagsRead
<1>2. ASSUME NEW v
      PROVE  Holding(T, <<>>, m, st, build, v) <=> v \in T.vals /\ Shows(m, v, 0, build) /\ st = Meaning(v)
  BY WholeIsShown
<1> QED
  BY <1>1, <1>2 DEF Shown

\* The bits of the variant are as they were, and the determinant is set again.
LEMMA RewrapShows ==
  ASSUME NEW T \in Parts, IsSum(T), NEW build \in BOOLEAN, Legible(T, build), NEW m, NEW w \in T.vals,
         Shows(m, w, 0, build), NEW ok \in ReadsAs(T.det, build, m, 0), NEW r,
         \A x \in BitsOfBytes(0, VariantOf(T, ok).size) :
           /\ x \in r.one <=> x + 8 * VariantAt(T, ok) \in m.one
           /\ x \in r.undef <=> x + 8 * VariantAt(T, ok) \in m.undef,
         r.one \cup r.undef \subseteq BitsOfBytes(0, VariantOf(T, ok).size), VariantAt(T, ok) \in Nat
  PROVE  Shows(Image(MadeOf(T, ok, r)), w, 0, build)
<1> DEFINE V == VariantOf(T, ok)
           at == VariantAt(T, ok)
           zero == 0
           old == Write(Zeroed, r, at, V.size)
           new == Image(MadeOf(T, ok, r))
<1>0. zero \in Nat /\ zero + at = at
  OBVIOUS
<1>1. /\ ok \in BOOLEAN
      /\ \E v \in V.vals : w = MadeOf(T, ok, v) /\ Shows(m, v, zero + at, build)
  <2>1. Shows(m, w, zero, build) /\ ok \in ReadsAs(T.det, build, m, zero)
    OBVIOUS
  <2> HIDE DEF zero
  <2>2. IsVariant(T, w, ok, m, zero, build)
    BY <1>0, <2>1, ShowsVariant
  <2> QED
    BY <2>2 DEF IsVariant
<1>2. PICK v \in V.vals : w = MadeOf(T, ok, v) /\ Shows(m, v, at, build)
  BY <1>0, <1>1
<1>3. Holds(T) /\ V \in Parts
  BY <1>1, SumIs
<1>4. V.size \in Nat /\ IsValue(v, V)
  BY <1>2, <1>3, PartIs
<1>5. SameBits(m, at, old, at, BitsOfBytes(0, V.size))
  <2>1. /\ r.one \cup r.undef \subseteq BitsOfBytes(0, V.size) /\ at \in Nat
        /\ \A x \in BitsOfBytes(0, V.size) : /\ x \in r.one <=> x + 8 * at \in m.one
                                             /\ x \in r.undef <=> x + 8 * at \in m.undef
    OBVIOUS
  <2> HIDE DEF V, at
  <2>2. \A x \in BitsOfBytes(0, V.size) : /\ x + 8 * at \in old.one <=> x \in r.one
                                          /\ x + 8 * at \in old.undef <=> x \in r.undef
    BY <1>4, <2>1, WriteIs
  <2> QED
    BY <2>1, <2>2 DEF SameBits
<1>6. new.one = MarkAs(T.det, ok, old, zero).one /\ new.undef = MarkAs(T.det, ok, old, zero).undef
  BY DEF Image, MadeOf, Made, Choice
<1>7. build \/ ~Overlays(w)
  BY <1>1, <1>2, VariantIsLegible
<1> HIDE DEF old, new, V
<1>8. Shows(old, v, at, build)
  <2>1. at \in Nat
    OBVIOUS
  <2> HIDE DEF at
  <2> QED
    BY <1>2, <1>4, <1>5, <2>1, ShowsTheSame
<1>9. IsMarked(old, new, T.det, ok, zero, build)
  BY <1>6 DEF IsMarked
<1>10. Shows(new, w, zero, build)
  <2>1. Shows(old, v, zero + VariantAt(T, ok), build)
    BY <1>0, <1>8
  <2>2. v \in VariantOf(T, ok).vals
    BY DEF V
  <2> HIDE DEF zero, at
  <2> QED
    BY <1>0, <1>1, <1>2, <1>3, <1>7, <1>9, <2>1, <2>2, ShowsWhole
<1> QED
  BY <1>10 DEF new

\* A value that reads as the one in memory does stands for the same.
LEMMA CloneMeans ==
  ASSUME NEW T \in Parts, NEW w \in T.vals, NEW v \in T.vals, NEW build, NEW m, Shows(m, w, 0, build),
         v.care = w.care, \A c \in v.choices : c.ok \in ReadsAs(c.det, build, m, c.at),
         m.one \cap v.care = v.one \cap v.care
  PROVE  Meaning(v) = Meaning(w)
<1>1. IsValue(v, T) /\ IsValue(w, T) /\ T.size \in Nat
  BY PartIs
<1>2. v.care \in SUBSET Int /\ \A c \in w.choices : c.at \in Nat
  BY <1>1, ValueBits
<1>3. ToldApart(v, w)
  BY PartsAreHonest DEF Honest
<1>4. ASSUME NEW c \in v.choices, NEW d \in w.choices, c.det = d.det, c.at = d.at, c.ok # d.ok
      PROVE  FALSE
  <2>1. d.at + 0 = d.at
    BY <1>2
  <2>2. ReadsAs(d.det, build, m, d.at) = {d.ok}
    BY <2>1 DEF Shows
  <2>3. c.ok \in ReadsAs(c.det, build, m, c.at)
    OBVIOUS
  <2>4. c.ok \in {d.ok}
    BY <1>4, <2>2, <2>3
  <2> QED
    BY <1>4, <2>4
<1>5. v.choices = w.choices
  BY <1>3, <1>4 DEF ToldApart
<1>6. v.one \cap v.care = w.one \cap w.care
  <2>1. \A x \in w.care : x + 8 * 0 = x
    BY <1>2
  <2>2. \A x \in w.care : x \in m.one <=> x \in w.one
    BY <2>1 DEF Shows
  <2> QED
    BY <2>2
<1> QED
  BY <1>5, <1>6 DEF Meaning

\* What is stored and no guard is open on is read as it was chosen.
IsReadBack(open, m, st, build) ==
  /\ \A c \in st.choices \ open : ReadsAs(c.det, build, m, c.at) = {c.ok}
  /\ st.care \cap m.undef = {}
  /\ m.one \cap st.care = st.one

LEMMA StoredIsRead ==
  ASSUME NEW T, NEW build \in BOOLEAN, NEW gs, Leads(T, gs, build), NEW m, NEW st, Shown(T, gs, m, st, build)
  PROVE  IsReadBack(Opened(gs), m, st, build)
<1> DEFINE place == Innermost(T, gs)
           at == place.at
<1>1. PICK v : v \in place.type.vals /\ Shows(m, v, at, build) /\ st = StoredAs(v, at, Opened(gs))
  BY DEF Shown, Holding
<1>2. at \in Nat /\ place.type \in Parts
  BY GuardsAre DEF Within
<1>3. IsValue(v, place.type) /\ place.type.size \in Nat
  BY <1>1, <1>2, PartIs
<1> HIDE DEF place, at
<1>4. /\ st.one = ShiftBits(v.one \cap v.care, at) /\ st.care = ShiftBits(v.care, at)
      /\ st.choices = Opened(gs) \cup ShiftValue(v, at).choices
  BY <1>1 DEF StoredAs
<1>5. ASSUME NEW c \in st.choices \ Opened(gs)
      PROVE  ReadsAs(c.det, build, m, c.at) = {c.ok}
  <2>1. PICK d \in v.choices : c = [d EXCEPT !.at = @ + at]
    BY <1>4 DEF ShiftValue
  <2>2. d = Choice(d.det, d.at, d.ok)
    BY <1>3, ValueBits
  <2>3. c.det = d.det /\ c.at = d.at + at /\ c.ok = d.ok
    BY <2>1, <2>2, ChoiceMoves
  <2>4. ReadsAs(d.det, build, m, d.at + at) = {d.ok}
    BY <1>1 DEF Shows
  <2> QED
    BY <2>3, <2>4
<1>6. \A x \in v.care : x + 8 * at \notin m.undef /\ (x + 8 * at \in m.one <=> x \in v.one)
  BY <1>1 DEF Shows
<1>7. st.care \cap m.undef = {}
  BY <1>4, <1>6 DEF ShiftBits
<1>8. m.one \cap st.care = st.one
  <2>1. v.care \in SUBSET Int
    BY <1>3, ValueBits
  <2> QED
    BY <1>2, <1>4, <1>6, <2>1 DEF ShiftBits
<1> QED
  BY <1>5, <1>7, <1>8 DEF IsReadBack

-----------------------------------------------------------------------------
(* Every step keeps what is stored *)

LEMMA PathIs ==
  ASSUME NEW T, NEW build, NEW gs, Leads(T, gs, build)
  PROVE  /\ gs \in Seq(Guarded) /\ Len(gs) \in Nat /\ DOMAIN gs = 1 .. Len(gs)
         /\ Len(gs) = 0 => gs = <<>>
         /\ Len(gs) = 0 => Innermost(T, gs).type = T /\ Innermost(T, gs).at = 0
         /\ Len(gs) # 0 => gs[1].type = T /\ gs[1].at = 0
         /\ Len(gs) = 1 => Innermost(T, gs) = Inside(gs[1], gs[1].ok)
         /\ Len(gs) = 2 => /\ gs[2].type = Inside(gs[1], gs[1].ok).type
                           /\ gs[2].at = Inside(gs[1], gs[1].ok).at
                           /\ Innermost(T, gs) = Inside(gs[2], gs[2].ok)
<1>1. gs \in Seq(Guarded)
  BY DEF Leads
<1>2. Len(gs) \in Nat /\ DOMAIN gs = 1 .. Len(gs) /\ (Len(gs) = 0 => gs = <<>>)
  BY <1>1
<1>3. Before(T, gs, 1).type = T /\ Before(T, gs, 1).at = 0
  BY DEF Before
<1>4. Before(T, gs, 2) = Inside(gs[1], gs[1].ok) /\ Before(T, gs, 3) = Inside(gs[2], gs[2].ok)
  <2>1. 2 # 1 /\ 3 # 1 /\ 2 - 1 = 1 /\ 3 - 1 = 2
    OBVIOUS
  <2> QED
    BY <2>1 DEF Before
<1>5. \A i \in 1 .. Len(gs) : gs[i].type = Before(T, gs, i).type /\ gs[i].at = Before(T, gs, i).at
  BY DEF Leads
<1>6. Innermost(T, gs) = Before(T, gs, Len(gs) + 1)
  BY DEF Innermost
<1>7. Len(gs) = 0 => Innermost(T, gs).type = T /\ Innermost(T, gs).at = 0
  BY <1>3, <1>6
<1>8. ASSUME Len(gs) # 0 PROVE gs[1].type = T /\ gs[1].at = 0
  <2>1. 1 \in 1 .. Len(gs)
    BY <1>2, <1>8
  <2> QED
    BY <1>3, <1>5, <2>1
<1>9. Len(gs) = 1 => Innermost(T, gs) = Inside(gs[1], gs[1].ok)
  BY <1>4, <1>6
<1>10. ASSUME Len(gs) = 2
       PROVE  /\ gs[2].type = Inside(gs[1], gs[1].ok).type /\ gs[2].at = Inside(gs[1], gs[1].ok).at
              /\ Innermost(T, gs) = Inside(gs[2], gs[2].ok)
  <2>1. 2 \in 1 .. Len(gs) /\ Len(gs) + 1 = 3
    BY <1>10
  <2> QED
    BY <1>4, <1>5, <1>6, <2>1
<1> QED
  BY <1>1, <1>2, <1>7, <1>8, <1>9, <1>10

\* How often the value was matched before a poll that was ready.
LEMMA MatchedIs ==
  ASSUME LeadInv, CanYield
  PROVE  \/ Len(guards) = 1 /\ guards[1].ok = TRUE
         \/ Len(guards) = 2 /\ guards[1].ok = FALSE /\ guards[2].ok = FALSE
<1>1. Len(guards) \in Nat /\ DOMAIN guards = 1 .. Len(guards)
  BY PathIs DEF LeadInv
<1>2. DOMAIN Matched = 1 .. Len(guards) /\ \A i \in 1 .. Len(guards) : Matched[i] = guards[i].ok
  BY <1>1 DEF Matched
<1>3. Matched = <<TRUE>> \/ Matched = <<FALSE, FALSE>>
  BY DEF CanYield
<1>4. CASE Matched = <<TRUE>>
  <2>1. DOMAIN <<TRUE>> = 1 .. 1 /\ <<TRUE>>[1] = TRUE
    OBVIOUS
  <2>2. 1 .. Len(guards) = 1 .. 1
    BY <1>2, <1>4, <2>1
  <2>3. Len(guards) = 1
    BY <1>1, <2>2
  <2>4. guards[1].ok = Matched[1]
    BY <1>2, <2>3
  <2>5. Matched[1] = TRUE
    BY <1>4, <2>1
  <2> QED
    BY <2>3, <2>4, <2>5
<1>5. CASE Matched = <<FALSE, FALSE>>
  <2>1. DOMAIN <<FALSE, FALSE>> = 1 .. 2 /\ <<FALSE, FALSE>>[1] = FALSE /\ <<FALSE, FALSE>>[2] = FALSE
    OBVIOUS
  <2>2. 1 .. Len(guards) = 1 .. 2
    BY <1>2, <1>5, <2>1
  <2>3. Len(guards) = 2
    BY <1>1, <2>2
  <2>4. guards[1].ok = Matched[1] /\ guards[2].ok = Matched[2]
    BY <1>2, <2>3
  <2>5. Matched[1] = FALSE /\ Matched[2] = FALSE
    BY <1>5, <2>1
  <2> QED
    BY <2>3, <2>4, <2>5
<1> QED
  BY <1>3, <1>4, <1>5

\* What follows from the type alone.
LEMMA TypeStays ==
  ASSUME type' = type, masks' = masks
  PROVE  /\ Clear' <=> Clear
         /\ EmptyIsOverwritten' <=> EmptyIsOverwritten
         /\ IsMaybeResolved' <=> IsMaybeResolved
         /\ EmptyChoices' = EmptyChoices /\ EmptyValue' = EmptyValue
<1>1. Clear' <=> Clear
  BY DEF Clear
<1>2. IsMaybeResolved' <=> IsMaybeResolved
  BY DEF IsMaybeResolved
<1>3. EmptyIsOverwritten' <=> EmptyIsOverwritten
  BY <1>2 DEF EmptyIsOverwritten
<1>4. EmptyChoices' = EmptyChoices
  BY DEF EmptyChoices
<1>5. EmptyValue' = EmptyValue
  BY DEF EmptyValue
<1> QED
  BY <1>1, <1>2, <1>3, <1>4, <1>5

\* The places that lead to an Empty.
LEMMA EmptyPlaces ==
  ASSUME LeadInv, IsMaybeResolved, EmptyPath(guards)
  PROVE  LET place == Innermost(type, guards)
         IN /\ IsSum(type) /\ IsSum(type.err) /\ type.errAt \in Nat
            /\ Len(guards) = 0 => place.type = type /\ place.at = 0
            /\ Len(guards) = 1 => place.type = type.err /\ place.at = type.errAt
            /\ Len(guards) # 0 => ChoiceOf(guards[1]) = Choice(type.det, 0, FALSE)
            /\ Len(guards) = 2 => /\ ChoiceOf(guards[2]) = Choice(type.err.det, type.errAt, TRUE)
                                  /\ ~IsSum(place.type)
<1> DEFINE place == Innermost(type, guards)
<1>1. IsSum(type) /\ IsSum(type.err) /\ type.err.ok = Unit
  BY DEF IsMaybeResolved
<1>2. type.errAt \in Nat
  <2>1. type \in Parts
    BY TypeIs
  <2>2. Holds(type)
    BY <1>1, <2>1, SumIs
  <2>3. PICK front, at, err : IsAt(type, FALSE, front, at, err)
    BY <2>2 DEF Holds
  <2> QED
    BY <2>3 DEF IsAt, Placed, VariantAt
<1>3. /\ Len(guards) \in Nat
      /\ Len(guards) = 0 => place.type = type /\ place.at = 0
      /\ Len(guards) # 0 => guards[1].type = type /\ guards[1].at = 0
      /\ Len(guards) = 1 => place = Inside(guards[1], guards[1].ok)
      /\ Len(guards) = 2 => /\ guards[2].type = Inside(guards[1], guards[1].ok).type
                            /\ guards[2].at = Inside(guards[1], guards[1].ok).at
                            /\ place = Inside(guards[2], guards[2].ok)
  BY PathIs DEF LeadInv
<1> HIDE DEF place
<1>4. ASSUME Len(guards) # 0
      PROVE  /\ guards[1].ok = FALSE /\ ChoiceOf(guards[1]) = Choice(type.det, 0, FALSE)
             /\ Inside(guards[1], guards[1].ok).type = type.err
             /\ Inside(guards[1], guards[1].ok).at = type.errAt
  <2>1. guards[1].ok = FALSE
    BY <1>3, <1>4 DEF EmptyPath
  <2>2. guards[1].type = type /\ guards[1].at = 0
    BY <1>3, <1>4
  <2>3. Inside(guards[1], FALSE).type = type.err /\ Inside(guards[1], FALSE).at = 0 + type.errAt
    BY <2>2 DEF Inside
  <2>4. 0 + type.errAt = type.errAt
    BY <1>2
  <2> QED
    BY <2>1, <2>2, <2>3, <2>4 DEF ChoiceOf
<1>5. ASSUME Len(guards) = 2
      PROVE  ChoiceOf(guards[2]) = Choice(type.err.det, type.errAt, TRUE) /\ ~IsSum(place.type)
  <2>1. guards[2].ok = TRUE
    BY <1>5 DEF EmptyPath
  <2>2. guards[2].type = type.err /\ guards[2].at = type.errAt
    BY <1>3, <1>4, <1>5
  <2>3. Inside(guards[2], TRUE).type = Unit
    BY <1>1, <2>2 DEF Inside
  <2>4. place.type = Unit
    BY <1>3, <1>5, <2>1, <2>3
  <2>5. ~IsSum(Unit)
    BY DEF IsSum, Unit, Type
  <2> QED
    BY <2>1, <2>2, <2>4, <2>5 DEF ChoiceOf
<1>6. Len(guards) = 1 => place.type = type.err /\ place.at = type.errAt
  BY <1>3, <1>4
<1> QED
  BY <1>1, <1>2, <1>3, <1>4, <1>5, <1>6 DEF place

\* An Empty is matched as what it is.
LEMMA EmptyIsEntered ==
  ASSUME LeadInv, IsEmpty, ~polled, Shown(type, guards, mem, stored, masks),
         IsSum(Innermost(type, guards).type),
         NEW ok \in ReadsAs(Innermost(type, guards).type.det, masks, mem, Innermost(type, guards).at),
         NEW new, new = Append(guards, Guard(Innermost(type, guards), ok))
  PROVE  EmptyPath(new)
<1> DEFINE place == Innermost(type, guards)
           g == Guard(place, ok)
           none == Choice(type.det, 0, FALSE)
           some == Choice(type.err.det, type.errAt, TRUE)
<1>1. IsMaybeResolved /\ EmptyPath(guards) /\ EmptyChoices \subseteq stored.choices
  BY DEF IsEmpty
<1>2. /\ Len(guards) = 0 => place.type = type /\ place.at = 0
      /\ Len(guards) = 1 => place.type = type.err /\ place.at = type.errAt
      /\ Len(guards) # 0 => ChoiceOf(guards[1]) = none
      /\ Len(guards) = 2 => ~IsSum(place.type)
  BY <1>1, EmptyPlaces
<1>3. Leads(type, guards, masks) /\ masks \in BOOLEAN
  BY DEF LeadInv
<1>4. guards \in Seq(Guarded) /\ Len(guards) \in Nat /\ DOMAIN guards = 1 .. Len(guards)
  BY <1>3, PathIs
<1>5. \A c \in stored.choices \ Opened(guards) : ReadsAs(c.det, masks, mem, c.at) = {c.ok}
  <2>1. IsReadBack(Opened(guards), mem, stored, masks)
    BY <1>3, StoredIsRead
  <2> QED
    BY <2>1 DEF IsReadBack
<1>6. none \in stored.choices /\ some \in stored.choices
  BY <1>1 DEF EmptyChoices
<1>7. /\ none.det = type.det /\ none.at = 0 /\ none.ok = FALSE
      /\ some.det = type.err.det /\ some.at = type.errAt /\ some.ok = TRUE
  BY DEF Choice
<1>8. Len(guards) = 0 \/ Len(guards) = 1
  <2>1. Len(guards) <= 2 /\ Len(guards) # 2
    BY <1>1, <1>2 DEF EmptyPath
  <2> QED
    BY <1>4, <2>1
<1>9. /\ Len(new) = Len(guards) + 1 /\ new[Len(guards) + 1] = g
      /\ \A i \in 1 .. Len(guards) : new[i] = guards[i]
  <2>1. place.type \in Parts /\ place.at \in Nat /\ ok \in BOOLEAN
    BY <1>3, GuardsAre DEF Within, ReadsAs
  <2>2. g \in Guarded
    BY <2>1 DEF Guarded, Guard
  <2> HIDE DEF g
  <2> QED
    BY <1>4, <2>2, AppendProperties DEF g
<1>10. g.ok = ok
  BY DEF Guard
<1>11. ok \in ReadsAs(place.type.det, masks, mem, place.at)
  OBVIOUS
<1> HIDE DEF place, none, some, g
<1>12. CASE Len(guards) = 0
  <2>1. Opened(guards) = {}
    BY <1>4, <1>12 DEF Opened
  <2>2. ReadsAs(type.det, masks, mem, 0) = {none.ok}
    BY <1>5, <1>6, <1>7, <2>1
  <2>3. ok \in {none.ok}
    BY <1>2, <1>11, <1>12, <2>2
  <2>4. ok = FALSE
    BY <1>7, <2>3
  <2>5. Len(new) = 1 /\ new[1].ok = FALSE
    BY <1>9, <1>10, <1>12, <2>4
  <2> QED
    BY <2>5 DEF EmptyPath
<1>13. CASE Len(guards) = 1
  <2>1. some \notin Opened(guards)
    <3>1. Opened(guards) = {none}
      <4>1. 1 .. Len(guards) = {1}
        BY <1>13
      <4> QED
        BY <1>2, <1>4, <1>13, <4>1 DEF Opened
    <3>2. some # none
      BY <1>7
    <3> QED
      BY <3>1, <3>2
  <2>2. ReadsAs(type.err.det, masks, mem, type.errAt) = {some.ok}
    BY <1>5, <1>6, <1>7, <2>1
  <2>3. ok \in {some.ok}
    BY <1>2, <1>11, <1>13, <2>2
  <2>4. ok = TRUE
    BY <1>7, <2>3
  <2>5. Len(new) = 2 /\ new[2].ok = TRUE /\ new[1] = guards[1]
    <3>1. Len(guards) + 1 = 2 /\ 1 \in 1 .. Len(guards)
      BY <1>13
    <3>2. new[2] = g /\ new[1] = guards[1] /\ Len(new) = 2
      BY <1>9, <3>1
    <3> QED
      BY <1>10, <2>4, <3>2
  <2>6. guards[1].ok = FALSE
    BY <1>1, <1>13 DEF EmptyPath
  <2> QED
    BY <2>5, <2>6 DEF EmptyPath
<1> QED
  BY <1>8, <1>12, <1>13

LEMMA EnterKeeps ==
  ASSUME LeadInv, Kept, Enter
  PROVE  Kept'
<1> DEFINE place == Innermost(type, guards)
<1>1. type.size \in Nat /\ masks \in BOOLEAN /\ PlaceOf(guards) = place
  BY TypeIs
<1>2. Leads(type, guards, masks)
  BY DEF LeadInv
<1>3. IsSum(place.type) /\ ~polled /\ UNCHANGED <<type, masks, mem, stored, polled, yields>>
  BY <1>1 DEF Enter
<1>4. PICK ok \in ReadsAs(place.type.det, masks, mem, place.at) : guards' = Append(guards, Guard(place, ok))
  BY <1>1 DEF Enter
<1>5. Shown(type, guards, mem, stored, masks)
  BY <1>3 DEF Kept
<1>6. Shown(type, guards', mem, stored, masks)
  <2>1. Shown(type, Append(guards, Guard(place, ok)), mem, stored, masks)
    BY <1>1, <1>2, <1>3, <1>5, EnterShows
  <2> QED
    BY <1>4, <2>1
<1>7. ASSUME yields # 0 PROVE IsEmpty'
  <2>1. IsEmpty
    BY <1>7 DEF Kept
  <2>2. EmptyPath(guards')
    BY <1>3, <1>4, <1>5, <2>1, EmptyIsEntered
  <2>3. (IsMaybeResolved' <=> IsMaybeResolved) /\ EmptyChoices' = EmptyChoices
    BY <1>3, TypeStays
  <2> QED
    BY <1>3, <2>1, <2>2, <2>3 DEF IsEmpty
<1> QED
  BY <1>3, <1>6, <1>7 DEF Kept

\* Nothing has to be shown for a whole value to be assigned.
LEMMA AssignKeeps ==
  ASSUME LeadInv, Clear, guards = <<>> \/ Kept, Assign
  PROVE  Kept'
<1> DEFINE place == Innermost(type, guards)
<1>1. masks \in BOOLEAN /\ PlaceOf(guards) = place /\ OpenChoices = Opened(guards)
  BY TypeIs
<1>2. Leads(type, guards, masks) /\ Legible(type, masks)
  BY DEF LeadInv, Clear
<1>3. /\ ~polled /\ (IsMaybeResolved => guards = <<>> \/ ~IsSum(place.type))
      /\ yields' = (IF guards = <<>> THEN 0 ELSE yields)
      /\ UNCHANGED <<type, masks, guards, polled>>
  BY <1>1 DEF Assign
<1>4. PICK v \in place.type.vals :
        /\ mem' = Write(mem, v, place.at, place.type.size)
        /\ stored' = StoredAs(v, place.at, Opened(guards))
  BY <1>1 DEF Assign, StoredAs
<1>5. TagsRead(mem, guards, masks)
  <2>1. CASE guards = <<>>
    <3>1. DOMAIN guards = {}
      BY <2>1
    <3> QED
      BY <3>1 DEF TagsRead
  <2>2. CASE Kept
    BY <1>3, <2>2 DEF Kept, Shown
  <2> QED
    BY <2>1, <2>2
<1>6. Shown(type, guards, mem', stored', masks)
  <2>1. Shown(type, guards, Write(mem, v, place.at, place.type.size), StoredAs(v, place.at, Opened(guards)), masks)
    BY <1>1, <1>2, <1>5, AssignShows
  <2> QED
    BY <1>4, <2>1
<1>7. ASSUME yields' # 0 PROVE IsEmpty'
  <2>1. guards # <<>> /\ yields' = yields /\ IsEmpty
    BY <1>3, <1>7 DEF Kept
  <2>2. IsMaybeResolved /\ EmptyPath(guards) /\ ~IsSum(place.type) /\ yields = 1
    BY <1>3, <2>1 DEF IsEmpty
  <2>3. /\ IsSum(type.err) /\ (Len(guards) = 1 => place.type = type.err)
        /\ Len(guards) # 0 => ChoiceOf(guards[1]) = Choice(type.det, 0, FALSE)
        /\ Len(guards) = 2 => ChoiceOf(guards[2]) = Choice(type.err.det, type.errAt, TRUE)
    BY <2>2, EmptyPlaces
  <2>4. Len(guards) \in Nat /\ DOMAIN guards = 1 .. Len(guards) /\ (Len(guards) = 0 => guards = <<>>)
    BY <1>2, PathIs
  <2> HIDE DEF place
  <2>5. Len(guards) = 2
    <3>1. Len(guards) <= 2 /\ Len(guards) # 0 /\ Len(guards) # 1
      BY <2>1, <2>2, <2>3, <2>4 DEF EmptyPath
    <3> QED
      BY <2>4, <3>1
  <2>6. EmptyChoices \subseteq Opened(guards)
    <3>1. 1 \in DOMAIN guards /\ 2 \in DOMAIN guards
      BY <2>4, <2>5
    <3>2. ChoiceOf(guards[1]) \in Opened(guards) /\ ChoiceOf(guards[2]) \in Opened(guards)
      BY <3>1 DEF Opened
    <3>3. Len(guards) # 0
      BY <2>5
    <3>4. /\ ChoiceOf(guards[1]) = Choice(type.det, 0, FALSE)
          /\ ChoiceOf(guards[2]) = Choice(type.err.det, type.errAt, TRUE)
      BY <2>3, <2>5, <3>3
    <3> QED
      BY <3>2, <3>4 DEF EmptyChoices
  <2>7. Opened(guards) \subseteq stored'.choices
    BY <1>4 DEF StoredAs
  <2>8. (IsMaybeResolved' <=> IsMaybeResolved) /\ EmptyChoices' = EmptyChoices
    BY <1>3, TypeStays
  <2> QED
    BY <1>3, <2>1, <2>2, <2>6, <2>7, <2>8 DEF IsEmpty
<1> QED
  BY <1>3, <1>6, <1>7 DEF Kept

LEMMA RewrapKeeps ==
  ASSUME LeadInv, Clear, Kept, Rewrap
  PROVE  Kept'
<1>1. type \in Parts /\ masks \in BOOLEAN /\ Legible(type, masks)
  BY TypeIs DEF Clear
<1>2. guards = <<>> /\ IsSum(type) /\ UNCHANGED <<type, masks, stored, guards, polled, yields>>
  BY DEF Rewrap
<1>3. ~polled
  BY <1>2 DEF LeadInv
<1>4. PICK ok \in ReadsAs(type.det, masks, mem, 0) :
        /\ ok \in BOOLEAN /\ VariantAt(type, ok) \in Nat /\ VariantOf(type, ok) \in Parts
        /\ mem' = Image(MadeOf(type, ok, Read(VariantAt(type, ok), VariantOf(type, ok).size)))
  BY RewrapIs
<1>5. Shown(type, <<>>, mem, stored, masks)
  BY <1>2, <1>3 DEF Kept
<1>6. PICK w \in type.vals : Shows(mem, w, 0, masks) /\ stored = Meaning(w)
  BY <1>1, <1>5, ShownWhole
<1> DEFINE V == VariantOf(type, ok)
           at == VariantAt(type, ok)
           r == Read(at, V.size)
<1>7. V.size \in Nat
  BY <1>4, PartIs
<1>8. /\ r.one \cup r.undef \subseteq BitsOfBytes(0, V.size)
      /\ \A x \in BitsOfBytes(0, V.size) : /\ x \in r.one <=> x + 8 * at \in mem.one
                                           /\ x \in r.undef <=> x + 8 * at \in mem.undef
  <2>1. at \in Nat
    BY <1>4
  <2> HIDE DEF at, V
  <2> QED
    BY <1>7, <2>1, ReadIs
<1> HIDE DEF r
<1>9. Shows(Image(MadeOf(type, ok, r)), w, 0, masks)
  BY <1>1, <1>2, <1>4, <1>6, <1>8, RewrapShows
<1>10. Shown(type, <<>>, mem', stored, masks)
  <2>1. Shows(mem', w, 0, masks)
    BY <1>4, <1>9 DEF r
  <2> QED
    BY <1>1, <1>6, <2>1, ShownWhole
<1>11. (IsMaybeResolved' <=> IsMaybeResolved) /\ EmptyChoices' = EmptyChoices
  BY <1>2, TypeStays
<1> QED
  BY <1>2, <1>3, <1>10, <1>11 DEF Kept, IsEmpty

LEMMA CloneKeeps ==
  ASSUME LeadInv, Clear, Kept, Clone
  PROVE  Kept'
<1>1. type \in Parts /\ masks \in BOOLEAN /\ Legible(type, masks)
  BY TypeIs DEF Clear
<1>2. guards = <<>> /\ UNCHANGED <<type, masks, stored, guards, polled, yields>>
  BY DEF Clone
<1>3. ~polled
  BY <1>2 DEF LeadInv
<1>4. PICK v \in type.vals : Reads(v) /\ mem' = Image(v)
  BY DEF Clone
<1>5. Shown(type, <<>>, mem, stored, masks)
  BY <1>2, <1>3 DEF Kept
<1>6. PICK w \in type.vals : Shows(mem, w, 0, masks) /\ stored = Meaning(w)
  BY <1>1, <1>5, ShownWhole
<1>7. /\ v.care = w.care /\ mem.one \cap v.care = v.one \cap v.care
      /\ \A c \in v.choices : c.ok \in ReadsAs(c.det, masks, mem, c.at)
  <2>1. stored.care = w.care
    BY <1>6 DEF Meaning
  <2> QED
    BY <1>4, <2>1 DEF Reads
<1>8. Meaning(v) = Meaning(w)
  BY <1>1, <1>6, <1>7, CloneMeans
<1>9. Shows(Image(v), v, 0, masks)
  BY <1>1, <1>4, ImageShows
<1>10. Shown(type, <<>>, mem', stored, masks)
  <2>1. Shows(mem', v, 0, masks) /\ stored = Meaning(v)
    BY <1>4, <1>6, <1>8, <1>9
  <2> QED
    BY <1>1, <2>1, ShownWhole
<1>11. (IsMaybeResolved' <=> IsMaybeResolved) /\ EmptyChoices' = EmptyChoices
  BY <1>2, TypeStays
<1> QED
  BY <1>2, <1>3, <1>10, <1>11 DEF Kept, IsEmpty

\* Of a value that was taken already no poll is ready again.
LEMMA YieldKeeps ==
  ASSUME LeadInv, Clear, Kept, Yield
  PROVE  Kept'
<1>1. type \in Parts /\ masks \in BOOLEAN /\ Legible(type, masks)
  BY TypeIs DEF Clear
<1>2. /\ CanYield /\ IsMaybeResolved /\ ~polled
      /\ mem' = Image(EmptyValue) /\ stored' = Meaning(EmptyValue)
      /\ polled' = TRUE /\ yields' = yields + 1 /\ UNCHANGED <<type, masks, guards>>
  BY DEF Yield, CanYield
<1>3. \/ Len(guards) = 1 /\ guards[1].ok = TRUE
      \/ Len(guards) = 2 /\ guards[1].ok = FALSE /\ guards[2].ok = FALSE
  BY <1>2, MatchedIs
<1>4. yields = 0
  <2>1. SUFFICES ASSUME yields # 0 PROVE FALSE
    OBVIOUS
  <2>2. EmptyPath(guards)
    BY <1>2, <2>1 DEF Kept, IsEmpty
  <2>3. (Len(guards) = 1 => guards[1].ok = FALSE) /\ (Len(guards) = 2 => guards[2].ok = TRUE)
    BY <2>2 DEF EmptyPath
  <2> QED
    BY <1>3, <2>3
<1>5. /\ EmptyValue \in type.vals /\ EmptyValue.choices = EmptyChoices
  BY <1>1, <1>2, EmptyIsHeld DEF EmptyChoices
<1>6. Shows(mem', EmptyValue, 0, masks)
  BY <1>1, <1>2, <1>5, ImageShows
<1>7. stored'.choices = EmptyChoices
  BY <1>2, <1>5 DEF Meaning
<1>8. /\ IsMaybeResolved' <=> IsMaybeResolved
      /\ EmptyChoices' = EmptyChoices /\ EmptyValue' = EmptyValue
  BY <1>2, TypeStays
<1>9. PolledPath(guards)
  BY <1>3 DEF PolledPath
<1>10. IsEmpty' /\ Emptied'
  BY <1>2, <1>4, <1>6, <1>7, <1>8, <1>9 DEF IsEmpty, Emptied
<1> QED
  BY <1>2, <1>10 DEF Kept

\* A determinant that is dropped is set, or a tag that was never written over.
LEMMA DropMarks ==
  ASSUME LeadInv, Exit, NEW g, g = Last(guards), NEW place, place = Innermost(type, Front(guards)),
         g.type.det.kind = "tag" => ReadsAs(g.type.det, masks, mem, g.at) = {g.ok}
  PROVE  /\ SameAround(mem, mem', BitsOfPlace(place))
         /\ IsMarked(mem, mem', g.type.det, g.ok, g.at, masks)
<1>1. type.size \in Nat
  BY TypeIs
<1>2. Leads(type, guards, masks)
  BY DEF LeadInv
<1>3. /\ guards # <<>>
      /\ mem' = IF IsNicheTrick(g.type.det) THEN MarkAs(g.type.det, g.ok, mem, g.at) ELSE mem
  BY DEF Exit, ChoiceOf, Choice
<1>4. CASE IsNicheTrick(g.type.det)
  <2>1. mem' = MarkAs(g.type.det, g.ok, mem, g.at)
    BY <1>3, <1>4
  <2>2. SameAround(mem, MarkAs(g.type.det, g.ok, mem, g.at), BitsOfPlace(place))
    BY <1>1, <1>2, <1>3, DropIsInside
  <2> QED
    BY <2>1, <2>2 DEF IsMarked
<1>5. CASE ~IsNicheTrick(g.type.det)
  <2>1. mem' = mem /\ g.type.det.kind = "tag"
    BY <1>3, <1>5 DEF IsNicheTrick
  <2>2. SameAround(mem, mem, BitsOfPlace(place))
    BY DEF SameAround
  <2> QED
    BY <2>1, <2>2 DEF IsMarked
<1> QED
  BY <1>4, <1>5

LEMMA ExitKeepsShown ==
  ASSUME LeadInv, Clear, Kept, Exit, ~polled
  PROVE  Kept'
<1> DEFINE g == Last(guards)
           left == Front(guards)
<1>1. type.size \in Nat /\ masks \in BOOLEAN
  BY TypeIs
<1>2. Leads(type, guards, masks) /\ Legible(type, masks)
  BY DEF LeadInv, Clear
<1>3. /\ guards # <<>> /\ guards' = left /\ polled' = (polled /\ guards' # <<>>)
      /\ UNCHANGED <<type, masks, stored, yields>>
  BY DEF Exit
<1>4. Shown(type, guards, mem, stored, masks)
  BY DEF Kept
<1>5. /\ guards \in Seq(Guarded) /\ Len(guards) \in Nat /\ DOMAIN guards = 1 .. Len(guards)
      /\ Len(guards) = 0 => guards = <<>>
  BY <1>2, PathIs
<1>6. g = guards[Len(guards)] /\ Len(guards) = Len(left) + 1
  BY <1>2, <1>3, GuardIsPopped
<1>7. ASSUME g.type.det.kind = "tag" PROVE ReadsAs(g.type.det, masks, mem, g.at) = {g.ok}
  <2>1. Len(guards) \in DOMAIN guards
    BY <1>3, <1>5
  <2>2. TagsRead(mem, guards, masks)
    BY <1>4 DEF Shown
  <2> HIDE DEF g
  <2> QED
    BY <1>6, <1>7, <2>1, <2>2 DEF TagsRead
<1>8. /\ SameAround(mem, mem', BitsOfPlace(Innermost(type, left)))
      /\ IsMarked(mem, mem', g.type.det, g.ok, g.at, masks)
  BY <1>7, DropMarks
<1>9. Shown(type, left, mem', stored, masks)
  BY <1>1, <1>2, <1>3, <1>4, <1>8, ExitShows
<1>10. ASSUME yields # 0 PROVE IsEmpty'
  <2>1. IsEmpty /\ EmptyPath(guards)
    BY <1>10 DEF Kept, IsEmpty
  <2>2. \A i \in 1 .. Len(left) : left[i] = guards[i]
    <3>1. ASSUME NEW i \in 1 .. Len(left) PROVE left[i] = guards[i]
      BY <1>3, <1>5, OuterAreLeft
    <3> QED
      BY <3>1
  <2>3. Len(left) \in Nat
    <3>1. Leads(type, left, masks)
      BY <1>2, <1>3, GuardIsPopped
    <3> QED
      BY <3>1, PathIs
  <2> HIDE DEF left
  <2>4. Len(left) <= 1 /\ (Len(left) >= 1 => left[1].ok = FALSE)
    <3>1. Len(left) <= 1 /\ (Len(left) >= 1 => Len(guards) >= 1 /\ 1 \in 1 .. Len(left))
      BY <1>5, <1>6, <2>1, <2>3 DEF EmptyPath
    <3> QED
      BY <2>1, <2>2, <3>1 DEF EmptyPath
  <2>5. EmptyPath(left)
    BY <2>3, <2>4 DEF EmptyPath
  <2>6. (IsMaybeResolved' <=> IsMaybeResolved) /\ EmptyChoices' = EmptyChoices
    BY <1>3, TypeStays
  <2> QED
    BY <1>3, <2>1, <2>5, <2>6 DEF IsEmpty
<1> QED
  BY <1>3, <1>9, <1>10 DEF Kept

\* Dropping a guard that would have to set a variant of the Result that an Empty
\* took the place of: nothing is written where it does not share its place.
LEMMA NotSetAgain ==
  ASSUME NEW det, IsDeterminant(det), NEW ok \in BOOLEAN, ~SetsAgain(det, ok), NEW m, NEW at
  PROVE  (IF IsNicheTrick(det) THEN MarkAs(det, ok, m, at) ELSE m) = m
<1>1. CASE ~IsNicheTrick(det)
  BY <1>1
<1>2. CASE IsNicheTrick(det)
  <2>1. det.kind = "value" /\ ~(ok = det.not)
    BY <1>2 DEF SetsAgain, IsNicheTrick, IsDeterminant
  <2>2. MarkErr(det, ok = det.not, m, at) = m
    BY <2>1 DEF MarkErr
  <2> QED
    BY <2>2 DEF MarkAs
<1> QED
  BY <1>1, <1>2

\* The guards of a poll that was ready are dropped.
LEMMA ExitKeepsEmpty ==
  ASSUME LeadInv, Clear, Kept, Exit, polled, ~EmptyIsOverwritten
  PROVE  Kept'
<1> DEFINE g == Last(guards)
           left == Front(guards)
           none == FALSE
<1>1. type \in Parts /\ masks \in BOOLEAN /\ Leads(type, guards, masks) /\ Legible(type, masks)
  BY TypeIs DEF LeadInv, Clear
<1>2. /\ guards # <<>> /\ guards' = left /\ polled' = (polled /\ guards' # <<>>)
      /\ UNCHANGED <<type, masks, stored, yields>>
      /\ mem' = IF IsNicheTrick(g.type.det) THEN MarkAs(g.type.det, g.ok, mem, g.at) ELSE mem
  BY DEF Exit, ChoiceOf, Choice
<1>3. /\ IsMaybeResolved /\ yields = 1 /\ PolledPath(guards) /\ Shows(mem, EmptyValue, 0, masks)
      /\ stored = Meaning(EmptyValue) /\ EmptyChoices \subseteq stored.choices
  BY DEF Kept, Emptied, IsEmpty
<1>4. ~SetsAgain(type.det, TRUE) /\ ~SetsAgain(type.err.det, FALSE)
  BY <1>3 DEF EmptyIsOverwritten
<1>5. /\ guards \in Seq(Guarded) /\ Len(guards) \in Nat /\ DOMAIN guards = 1 .. Len(guards)
      /\ guards[1].type = type /\ guards[1].at = 0
      /\ Len(guards) = 2 => guards[2].type = Inside(guards[1], guards[1].ok).type
  <2>1. Len(guards) # 0
    BY <1>3 DEF PolledPath
  <2> QED
    BY <1>1, <2>1, PathIs
<1>6. g = guards[Len(guards)] /\ Len(guards) = Len(left) + 1 /\ g.ok \in BOOLEAN
  BY <1>1, <1>2, GuardIsPopped
<1>7. IsSum(type) /\ IsSum(type.err) /\ type.err \in Parts /\ EmptyValue \in type.vals
  BY <1>1, <1>3, EmptyIsHeld
<1>8. /\ IsMaybeResolved' <=> IsMaybeResolved
      /\ EmptyChoices' = EmptyChoices /\ EmptyValue' = EmptyValue
  BY <1>2, TypeStays
<1>9. IsDeterminant(type.det) /\ IsDeterminant(type.err.det)
  <2>1. ASSUME NEW R \in Parts, IsSum(R) PROVE IsDeterminant(R.det)
    <3>1. Holds(R)
      BY <2>1, SumIs
    <3>2. PICK ok \in BOOLEAN : \E front, to, err : IsAt(R, ok, front, to, err)
      BY <3>1 DEF Holds
    <3> QED
      BY <3>2 DEF IsAt, Placed
  <2> QED
    BY <1>1, <1>7, <2>1
<1>10. left \in Seq(Guarded) /\ Len(left) \in Nat /\ (Len(left) = 0 <=> left = <<>>)
  <2>1. Leads(type, left, masks)
    BY <1>1, <1>2, GuardIsPopped
  <2>2. left \in Seq(Guarded)
    BY <2>1 DEF Leads
  <2> HIDE DEF left
  <2> QED
    BY <2>2
<1>11. CASE Len(guards) = 2
  <2>1. guards[1].ok = FALSE /\ guards[2].ok = FALSE
    BY <1>3, <1>11 DEF PolledPath
  <2>2. guards[2].type = type.err
    <3>1. Inside(guards[1], FALSE).type = type.err
      BY <1>5 DEF Inside
    <3> QED
      BY <1>5, <1>11, <2>1, <3>1
  <2>3. g.type = type.err /\ g.ok = none
    BY <1>6, <1>11, <2>1, <2>2
  <2>4. mem' = mem
    <3>1. none \in BOOLEAN /\ ~SetsAgain(type.err.det, none)
      BY <1>4
    <3> HIDE DEF g, none
    <3>2. (IF IsNicheTrick(type.err.det) THEN MarkAs(type.err.det, none, mem, g.at) ELSE mem) = mem
      BY <1>9, <3>1, NotSetAgain
    <3> QED
      BY <1>2, <2>3, <3>2
  <2>5. Len(left) = 1 /\ left # <<>>
    <3>1. \A n \in Nat : n + 1 = 2 => n = 1
      OBVIOUS
    <3>2. Len(left) + 1 = 2
      BY <1>6, <1>11
    <3>3. Len(left) = 1
      <4> DEFINE n == Len(left)
      <4>1. n \in Nat /\ n + 1 = 2
        BY <1>10, <3>2
      <4> HIDE DEF n
      <4>2. n = 1
        BY <3>1, <4>1
      <4> QED
        BY <4>2 DEF n
    <3> QED
      BY <1>10, <3>3
  <2>6. PolledPath(left) /\ polled' = TRUE
    BY <1>2, <2>5 DEF PolledPath
  <2>7. IsEmpty' /\ Emptied'
    BY <1>2, <1>3, <1>8, <2>4, <2>6 DEF IsEmpty, Emptied
  <2> QED
    BY <2>6, <2>7 DEF Kept
<1>12. CASE Len(guards) = 1
  <2>1. Len(left) = 0 /\ left = <<>>
    <3>1. Len(left) \in Nat /\ Len(left) + 1 = 1
      BY <1>6, <1>10, <1>12
    <3>2. Len(left) = 0
      <4> DEFINE n == Len(left)
      <4> HIDE DEF n
      <4>1. n = 0
        BY <3>1 DEF n
      <4> QED
        BY <4>1 DEF n
    <3> QED
      BY <1>10, <3>2
  <2>2. g.type = type /\ g.at = 0
    BY <1>5, <1>6, <1>12
  <2>3. Shows(mem', EmptyValue, 0, masks)
    <3>1. CASE g.ok = TRUE
      <4> DEFINE some == TRUE
      <4>1. some \in BOOLEAN /\ ~SetsAgain(type.det, some) /\ g.ok = some
        BY <1>4, <3>1
      <4> HIDE DEF g, some
      <4>2. (IF IsNicheTrick(type.det) THEN MarkAs(type.det, some, mem, g.at) ELSE mem) = mem
        BY <1>9, <4>1, NotSetAgain
      <4>3. mem' = mem
        BY <1>2, <2>2, <4>1, <4>2
      <4> QED
        BY <1>3, <4>3
    <3>2. CASE g.ok = FALSE
      <4> DEFINE zero == 0
                 w == EmptyValue
      <4>0. g.ok = none /\ none \in BOOLEAN /\ zero \in Nat /\ g.at = zero
        BY <2>2, <3>2
      <4>1. Choice(type.det, 0, FALSE) \in EmptyValue.choices
        BY <1>3 DEF EmptyChoices, Meaning
      <4>2. ReadsAs(type.det, masks, mem, zero) = {none}
        <5>1. /\ Choice(type.det, 0, FALSE).det = type.det /\ Choice(type.det, 0, FALSE).ok = FALSE
              /\ Choice(type.det, 0, FALSE).at + 0 = 0
          BY DEF Choice
        <5> QED
          BY <1>3, <4>1, <5>1 DEF Shows
      <4>3. Shows(mem, w, zero, masks) /\ w \in type.vals
        BY <1>3, <1>7
      <4> HIDE DEF zero, none, w, g
      <4>4. none \in ReadsAs(type.det, masks, mem, zero)
        BY <4>2
      <4>5. \E v \in VariantOf(type, none).vals :
              w = MadeOf(type, none, v) /\ Shows(mem, v, zero + VariantAt(type, none), masks)
        <5>1. IsVariant(type, w, none, mem, zero, masks)
          BY <1>1, <1>7, <4>0, <4>3, <4>4, ShowsVariant
        <5> QED
          BY <5>1 DEF IsVariant
      <4>6. PICK v \in VariantOf(type, none).vals :
              w = MadeOf(type, none, v) /\ Shows(mem, v, zero + VariantAt(type, none), masks)
        BY <4>5
      <4>7. IsMarked(mem, mem', type.det, none, zero, masks)
        <5>1. ASSUME g.type.det.kind = "tag" PROVE ReadsAs(g.type.det, masks, mem, g.at) = {g.ok}
          BY <2>2, <4>0, <4>2
        <5>2. IsMarked(mem, mem', g.type.det, g.ok, g.at, masks)
          BY <5>1, DropMarks DEF g
        <5> QED
          BY <2>2, <4>0, <5>2
      <4>8. masks \/ ~Overlays(w)
        BY <1>1, <4>3 DEF Legible
      <4>9. Holds(type)
        BY <1>1, <1>7, SumIs
      <4>10. Shows(mem', w, zero, masks)
        BY <1>1, <4>0, <4>6, <4>7, <4>8, <4>9, ShowsWhole
      <4> QED
        BY <4>10 DEF zero, w
    <3> QED
      BY <1>6, <3>1, <3>2
  <2>4. polled' = FALSE /\ guards' = <<>>
    BY <1>2, <2>1
  <2>5. Shown(type, <<>>, mem', stored, masks)
    BY <1>1, <1>3, <1>7, <2>3, ShownWhole
  <2>6. EmptyPath(guards')
    BY <2>4 DEF EmptyPath
  <2>7. IsEmpty'
    BY <1>2, <1>3, <1>8, <2>6 DEF IsEmpty
  <2> QED
    BY <1>2, <2>4, <2>5, <2>7 DEF Kept
<1> QED
  BY <1>3, <1>11, <1>12 DEF PolledPath

LEMMA InitKept ==
  ASSUME Init
  PROVE  MemoryInv
<1>1. LeadInv
  BY InitLeads
<1>2. type \in Parts /\ masks \in BOOLEAN
  BY <1>1, TypeIs
<1>3. guards = <<>> /\ polled = FALSE /\ yields = 0
  BY DEF Init
<1>4. PICK v \in type.vals : mem = Image(v) /\ stored = Meaning(v)
  BY DEF Init
<1>5. ASSUME Clear PROVE Kept
  <2>1. Shows(mem, v, 0, masks)
    BY <1>2, <1>4, <1>5, ImageShows DEF Clear
  <2>2. Shown(type, <<>>, mem, stored, masks)
    BY <1>2, <1>4, <2>1, ShownWhole
  <2> QED
    BY <1>3, <2>2 DEF Kept
<1> QED
  BY <1>5 DEF MemoryInv

\* What a poll that was ready left may be written over by its guards, and is
\* then not looked at before a new value is assigned.
LEMMA UnhurtBefore ==
  ASSUME LeadInv, Next, Unhurt'
  PROVE  /\ UNCHANGED <<type, masks>>
         /\ Unhurt \/ (Assign /\ guards = <<>>)
         /\ Exit /\ yields # 0 => ~EmptyIsOverwritten
<1>1. UNCHANGED <<type, masks>>
  BY DEF Next, Enter, Assign, Exit, Rewrap, Clone, Yield
<1>2. EmptyIsOverwritten' <=> EmptyIsOverwritten
  BY <1>1, TypeStays
<1>3. yields \in Nat
  BY DEF LeadInv
<1>4. yields' = yields \/ (Assign /\ guards = <<>>) \/ (Yield /\ yields' = yields + 1)
  BY DEF Next, Enter, Assign, Exit, Rewrap, Clone, Yield
<1>5. Unhurt \/ (Assign /\ guards = <<>>)
  BY <1>2, <1>3, <1>4 DEF Unhurt
<1>6. Exit => yields' = yields
  BY DEF Exit
<1> QED
  BY <1>1, <1>2, <1>5, <1>6 DEF Unhurt

LEMMA StepKeeps ==
  ASSUME LeadInv, MemoryInv, [Next]_vars
  PROVE  MemoryInv'
<1>1. CASE UNCHANGED vars
  BY <1>1 DEF vars, MemoryInv, Clear, Unhurt, Kept, Emptied, IsEmpty, EmptyChoices, EmptyIsOverwritten,
               IsMaybeResolved, EmptyValue
<1>2. CASE Next
  <2>1. SUFFICES ASSUME Clear', Unhurt' PROVE Kept'
    BY DEF MemoryInv
  <2>2. Clear
    BY <1>2, <2>1, UnhurtBefore, TypeStays
  <2>3. Kept \/ (Assign /\ guards = <<>>)
    BY <1>2, <2>1, <2>2, UnhurtBefore DEF MemoryInv
  <2>4. CASE Assign /\ guards = <<>>
    BY <2>2, <2>4, AssignKeeps
  <2>5. CASE Kept
    <3>1. CASE Enter
      BY <2>5, <3>1, EnterKeeps
    <3>2. CASE Assign
      BY <2>2, <2>5, <3>2, AssignKeeps
    <3>3. CASE Exit /\ ~polled
      BY <2>2, <2>5, <3>3, ExitKeepsShown
    <3>4. CASE Exit /\ polled
      <4>1. yields # 0
        BY <2>5, <3>4 DEF Kept, Emptied
      <4>2. ~EmptyIsOverwritten
        BY <1>2, <2>1, <3>4, <4>1, UnhurtBefore
      <4> QED
        BY <2>2, <2>5, <3>4, <4>2, ExitKeepsEmpty
    <3>5. CASE Rewrap
      BY <2>2, <2>5, <3>5, RewrapKeeps
    <3>6. CASE Clone
      BY <2>2, <2>5, <3>6, CloneKeeps
    <3>7. CASE Yield
      BY <2>2, <2>5, <3>7, YieldKeeps
    <3> QED
      BY <1>2, <3>1, <3>2, <3>3, <3>4, <3>5, <3>6, <3>7 DEF Next
  <2> QED
    BY <2>3, <2>4, <2>5
<1> QED
  BY <1>1, <1>2

\* What is in memory where the guards lead is what was stored there last, and
\* every tag around it is read as it was matched; after a poll that was ready it
\* is the Empty, until a new value is assigned (the invariant is inductive).
THEOREM MemoryInvTheorem == Spec => []MemoryInv
<1>1. Init => MemoryInv
  BY InitKept
<1>2. LeadInv /\ MemoryInv /\ [Next]_vars => MemoryInv'
  BY StepKeeps
<1> QED
  BY <1>1, <1>2, SumInvTheorem, PTL DEF Spec

\* When the code reads every tag right - because the build masks the bits of it
\* that it does not use, or because no determinant is among these - what was
\* stored is read back after any series of matches, assignments through guards,
\* conversions and clones, in Results of any types, nested as deep as they may be.
THEOREM ReadsBackTheorem == Spec => [](Clear => ReadsBack)
<1>1. ASSUME LeadInv, MemoryInv, Clear PROVE ReadsBack
  <2>1. SUFFICES ASSUME Unhurt
        PROVE  IsReadBack(OpenChoices, mem, stored, masks)
    BY DEF ReadsBack, IsReadBack, Unhurt
  <2>2. type \in Parts /\ masks \in BOOLEAN /\ OpenChoices = Opened(guards)
    BY <1>1, TypeIs
  <2>3. Leads(type, guards, masks) /\ Kept
    BY <1>1, <2>1 DEF LeadInv, MemoryInv
  <2>4. CASE ~polled
    BY <2>2, <2>3, <2>4, StoredIsRead DEF Kept
  <2>5. CASE polled
    <3>1. Shows(mem, EmptyValue, 0, masks) /\ stored = Meaning(EmptyValue) /\ IsMaybeResolved
      BY <2>3, <2>5 DEF Kept, Emptied
    <3>2. EmptyValue \in type.vals
      BY <2>2, <3>1, EmptyIsHeld
    <3>3. Shown(type, <<>>, mem, stored, masks) /\ Leads(type, <<>>, masks)
      BY <2>2, <3>1, <3>2, ShownWhole, NoGuards
    <3>4. IsReadBack(Opened(<<>>), mem, stored, masks)
      BY <2>2, <3>3, StoredIsRead
    <3>5. Opened(<<>>) = {}
      <4>1. DOMAIN <<>> = {}
        OBVIOUS
      <4> QED
        BY <4>1 DEF Opened
    <3> QED
      BY <3>4, <3>5 DEF IsReadBack
  <2> QED
    BY <2>4, <2>5
<1>2. LeadInv /\ MemoryInv => (Clear => ReadsBack)
  BY <1>1
<1> QED
  BY <1>2, SumInvTheorem, MemoryInvTheorem, PTL

\* A MaybeResolved gives its value once, in the same builds and of any types of
\* which the guards do not write over what took its place.
THEOREM YieldsOnceTheorem == Spec => [](Clear => YieldsOnce)
<1>1. MemoryInv => (Clear => YieldsOnce)
  BY DEF MemoryInv, Kept, IsEmpty, Unhurt, YieldsOnce
<1> QED
  BY <1>1, MemoryInvTheorem, PTL
=============================================================================
