-------------------------- MODULE StabbyVecProofs --------------------------
(***************************************************************************)
(* Vectors never touch a slot that is outside the allocation or that holds *)
(* no item, whatever the capacities and however many items there are;      *)
(* their buffers are freed; every item has one owner at a time; a vector   *)
(* is a sequence to the program; and buffers are where an allocator        *)
(* granted memory for them.                                                *)
(***************************************************************************)
EXTENDS Buffers, FiniteSetTheorems, SequenceTheorems, TLAPS

Bits == Item \cup {Uninit}

\* The first n slots hold items.
Filled(m, n) == \A k \in 1 .. n : m[k] \in Item

\* The items of the container are in the first slots of m as well.
Keeps(m) == \A k \in 1 .. len : m[k] = memory[k]

\* The buffer of a container: the prefix says how many slots it has, and so does
\* a vector, except one that came from an empty slice and knows of none.
HasBuffer == prefix = Len(memory) /\ capacity \in {0, prefix}

\* What each container knows of its slots.  While a drain is under way, len is
\* the start of its range, and all of the vector that it did not hand out is
\* still where it was.
VecInv == IsVec => HasBuffer /\ len <= capacity /\ Filled(memory, len)
BoxedInv == kind = "boxed" => prefix = Len(memory) /\ len <= prefix /\ Filled(memory, len)
SingleInv == kind = "single" => /\ Len(memory) = 1 /\ len = 1 /\ capacity = 1
                                /\ Filled(memory, 1)
NoneInv == kind = "none" => memory = <<>> /\ prefix = 0 /\ len = 0 /\ capacity = 0
DrainInv == kind \in {"drain", "double_ended"} =>
  /\ HasBuffer
  /\ range.from = len /\ len <= range.lindex /\ range.lindex <= range.rindex
  /\ range.rindex = range.to /\ range.to <= range.original_len
  /\ range.original_len <= capacity
  /\ Filled(memory, range.original_len)
IterInv == kind = "into_iter" =>
  /\ HasBuffer
  /\ range.lindex <= range.rindex /\ range.rindex = len /\ len <= capacity
  /\ Filled(memory, len)

Shape ==
  /\ kind \in Kind
  /\ memory \in Seq(Bits)
  /\ prefix \in Nat /\ len \in Nat /\ capacity \in Nat
  /\ range \in [from : Nat, to : Nat, lindex : Nat, rindex : Nat, original_len : Nat]

SlotInv ==
  Shape /\ VecInv /\ BoxedInv /\ SingleInv /\ NoneInv /\ DrainInv /\ IterInv

LEMMA InitSlots == Init => SlotInv
BY DEF Init, SlotInv, Shape, VecInv, BoxedInv, SingleInv, NoneInv, DrainInv, IterInv,
       Kind, IsVec, NoRange, Bits

\* Slots numbered from 1 are a sequence.
LEMMA SlotsAreSeq ==
  ASSUME NEW n \in Nat, NEW S, NEW m \in [1 .. n -> S]
  PROVE  m \in Seq(S) /\ Len(m) = n
OBVIOUS

\* A vector keeps its invariant when it takes a buffer that holds what it had,
\* or as many items as its new length says.
LEMMA BufferOwned ==
  ASSUME SlotInv, IsVec, NEW n \in Nat \ {0}, NEW m \in [1 .. n -> Bits], Buffer(m)
  PROVE  /\ memory' \in Seq(Bits) /\ prefix' \in Nat /\ capacity' \in Nat
         /\ capacity' = n /\ HasBuffer' /\ memory' = m
<1>1. m \in Seq(Bits) /\ Len(m) = n
  BY SlotsAreSeq
<1> QED
  BY <1>1 DEF Buffer, SlotInv, Shape, VecInv, HasBuffer

\* What a reallocation gives.
LEMMA ReservedSlots ==
  ASSUME SlotInv, IsVec, NEW additional \in Nat \ {0}
  PROVE  \E n \in Nat : /\ len + additional <= n /\ capacity <= n
                        /\ Reserved(additional) \in [1 .. n -> Bits]
                        /\ Keeps(Reserved(additional))
<1> USE DEF SlotInv, Shape, VecInv, HasBuffer, Keeps
<1>1. CASE capacity - len < additional
  <2>1. Reserved(additional) = Grown(len + additional)
    BY <1>1 DEF Reserved
  <2>2. Grown(len + additional) \in [1 .. (len + additional) -> Bits]
    BY DEF Grown, Bits
  <2>3. Keeps(Grown(len + additional))
    BY DEF Grown
  <2>4. len + additional \in Nat /\ capacity <= len + additional
    BY <1>1
  <2> QED
    BY <2>1, <2>2, <2>3, <2>4
<1>2. CASE ~(capacity - len < additional)
  <2>1. Reserved(additional) = memory /\ memory \in [1 .. capacity -> Bits]
    BY <1>2 DEF Reserved
  <2> QED
    BY <1>2, <2>1
<1> QED
  BY <1>1, <1>2

LEMMA RoomySlots ==
  ASSUME SlotInv, IsVec
  PROVE  \E n \in Nat : /\ len + 1 <= n /\ capacity <= n
                        /\ Roomy \in [1 .. n -> Bits]
                        /\ Keeps(Roomy)
<1>1. Growth \in Nat /\ Growth >= 1
  BY FirstAssumption DEF Growth, SlotInv, Shape
<1>2. CASE len = capacity
  <2>1. Roomy = Reserved(Growth)
    BY <1>2 DEF Roomy
  <2>2. PICK n \in Nat : /\ len + Growth <= n /\ capacity <= n
                         /\ Reserved(Growth) \in [1 .. n -> Bits]
                         /\ Keeps(Reserved(Growth))
    BY <1>1, ReservedSlots
  <2> QED
    BY <1>1, <2>1, <2>2 DEF SlotInv, Shape
<1>3. CASE len # capacity
  <2>1. Roomy = memory /\ memory \in [1 .. capacity -> Bits]
    BY <1>3 DEF Roomy, SlotInv, Shape, VecInv, HasBuffer
  <2> QED
    BY <1>3, <2>1 DEF SlotInv, Shape, VecInv, HasBuffer, Keeps
<1> QED
  BY <1>2, <1>3

\* A vector that stays one has only its own invariant to keep.
LEMMA StaysVec ==
  ASSUME SlotInv, IsVec, UNCHANGED <<kind, range>>,
         memory' \in Seq(Bits), prefix' \in Nat, len' \in Nat, capacity' \in Nat, VecInv'
  PROVE  SlotInv'
BY DEF SlotInv, Shape, BoxedInv, SingleInv, NoneInv, DrainInv, IterInv, IsVec

LEMMA TryReserveSlots ==
  ASSUME SlotInv, NEW n \in Nat \ {0}, TryReserve(n)
  PROVE  SlotInv'
<1>1. IsVec /\ Buffer(Reserved(n)) /\ UNCHANGED <<kind, len, range>>
  BY DEF TryReserve
<1>2. PICK k \in Nat \ {0} : /\ len + n <= k
                             /\ Reserved(n) \in [1 .. k -> Bits]
                             /\ Keeps(Reserved(n))
  <2>1. \A k \in Nat : len + n <= k => k # 0
    BY DEF SlotInv, Shape
  <2> QED
    BY <1>1, <2>1, ReservedSlots
<1>3. /\ memory' \in Seq(Bits) /\ prefix' \in Nat /\ capacity' \in Nat
      /\ capacity' = k /\ HasBuffer' /\ memory' = Reserved(n)
  BY <1>1, <1>2, BufferOwned
<1>4. VecInv'
  BY <1>1, <1>2, <1>3 DEF VecInv, Filled, Keeps, SlotInv, Shape, HasBuffer
<1> QED
  BY <1>1, <1>3, <1>4, StaysVec DEF SlotInv, Shape

\* The items that are stored go to slots that are there and were free.
LEMMA StoreSlots ==
  ASSUME SlotInv, IsVec, UNCHANGED <<kind, range>>,
         NEW n \in Nat \ {0}, NEW m \in [1 .. n -> Bits], NEW xs \in Seq(Item),
         len + Len(xs) <= n, Keeps(m), Store(m, xs)
  PROVE  SlotInv'
<1> DEFINE w == [k \in 1 .. Len(m) |-> IF k - len \in 1 .. Len(xs) THEN xs[k - len] ELSE m[k]]
<1>0. len \in Nat /\ Len(xs) \in Nat /\ \A i \in 1 .. Len(xs) : xs[i] \in Item
  BY DEF SlotInv, Shape
<1>1. Len(m) = n
  BY SlotsAreSeq
<1>2. w \in [1 .. n -> Bits]
  BY <1>0, <1>1 DEF Bits
<1>3. Filled(w, len + Len(xs))
  <2> SUFFICES ASSUME NEW k \in 1 .. len + Len(xs) PROVE w[k] \in Item
    BY DEF Filled
  <2>1. CASE k <= len
    <3>1. k \in 1 .. len /\ k - len \notin 1 .. Len(xs) /\ k \in 1 .. Len(m)
      BY <1>0, <1>1, <2>1
    <3>2. w[k] = m[k] /\ m[k] = memory[k]
      BY <3>1 DEF Keeps
    <3> QED
      BY <3>1, <3>2 DEF SlotInv, VecInv, Filled
  <2>2. CASE k > len
    <3>1. k - len \in 1 .. Len(xs) /\ k \in 1 .. Len(m)
      BY <1>0, <1>1, <2>2
    <3> QED
      BY <1>0, <3>1
  <2> QED
    BY <1>0, <2>1, <2>2
<1>4. Buffer(w) /\ len' = len + Len(xs)
  BY DEF Store
<1> HIDE DEF w
<1>5. /\ memory' \in Seq(Bits) /\ prefix' \in Nat /\ capacity' \in Nat
      /\ capacity' = n /\ HasBuffer' /\ memory' = w
  BY <1>2, <1>4, BufferOwned
<1>6. VecInv'
  BY <1>0, <1>3, <1>4, <1>5 DEF VecInv, Filled, HasBuffer
<1> QED
  BY <1>0, <1>4, <1>5, <1>6, StaysVec

LEMMA PushSlots ==
  ASSUME SlotInv, NEW x \in Item, NEW y \in Item, TryPush(x) \/ Extend(x, y)
  PROVE  SlotInv'
<1>1. IsVec /\ UNCHANGED <<kind, range>>
  BY DEF TryPush, Extend, IsVec
<1>2. CASE TryPush(x)
  <2>1. PICK n \in Nat : /\ len + 1 <= n /\ Roomy \in [1 .. n -> Bits] /\ Keeps(Roomy)
    BY <1>1, RoomySlots
  <2>2. <<x>> \in Seq(Item) /\ Len(<<x>>) = 1 /\ Store(Roomy, <<x>>)
    BY <1>2 DEF TryPush
  <2>3. n # 0
    BY <2>1 DEF SlotInv, Shape
  <2> QED
    BY <1>1, <2>1, <2>2, <2>3, StoreSlots
<1>3. CASE Extend(x, y)
  <2>1. PICK n \in Nat : /\ len + 2 <= n
                         /\ Reserved(2) \in [1 .. n -> Bits] /\ Keeps(Reserved(2))
    BY <1>1, ReservedSlots
  <2>2. <<x, y>> \in Seq(Item) /\ Len(<<x, y>>) = 2 /\ Store(Reserved(2), <<x, y>>)
    BY <1>3 DEF Extend
  <2>3. n # 0
    BY <2>1 DEF SlotInv, Shape
  <2> QED
    BY <1>1, <2>1, <2>2, <2>3, StoreSlots
<1> QED
  BY <1>2, <1>3

\* remove closes the gap it leaves, swap_remove fills it with the last item.
LEMMA RemoveSlots ==
  ASSUME SlotInv, NEW i \in Nat, Remove(i) \/ SwapRemove(i)
  PROVE  SlotInv'
<1>1. /\ IsVec /\ i < len /\ len' = len - 1
      /\ UNCHANGED <<kind, prefix, capacity, range>>
  BY DEF Remove, SwapRemove, IsVec
<1>2. /\ memory \in Seq(Bits) /\ Len(memory) = capacity /\ capacity \in Nat /\ len \in Nat
      /\ len <= capacity /\ memory \in [1 .. capacity -> Bits] /\ Filled(memory, len)
  BY <1>1 DEF SlotInv, Shape, VecInv, HasBuffer
<1>3. memory' \in [1 .. capacity -> Bits] /\ Filled(memory', len - 1)
  <2>1. CASE Remove(i)
    BY <1>1, <1>2, <2>1 DEF Remove, Copy, Filled, Bits
  <2>2. CASE SwapRemove(i)
    BY <1>1, <1>2, <2>2 DEF SwapRemove, Filled, Bits
  <2> QED
    BY <2>1, <2>2
<1>4. memory' \in Seq(Bits) /\ Len(memory') = capacity
  BY <1>2, <1>3, SlotsAreSeq
<1> QED
  BY <1>1, <1>2, <1>3, <1>4, StaysVec DEF VecInv, HasBuffer, SlotInv, Shape

LEMMA TruncateSlots ==
  ASSUME SlotInv, NEW n \in Nat, Truncate(n)
  PROVE  SlotInv'
BY StaysVec DEF Truncate, SlotInv, Shape, VecInv, HasBuffer, Filled, buffer

\* What changes no slot.
LEMMA QuietSlots ==
  ASSUME SlotInv, UNCHANGED <<kind, memory, prefix, len, capacity, range>>
  PROVE  SlotInv'
BY DEF SlotInv, Shape, VecInv, BoxedInv, SingleInv, NoneInv, DrainInv, IterInv, IsVec, HasBuffer,
       Filled

\* A container goes, or comes without a buffer.
LEMMA GoneSlots ==
  ASSUME SlotInv, NEW free \in BOOLEAN, Gone(free)
  PROVE  SlotInv'
BY DEF Gone, SlotInv, Shape, VecInv, BoxedInv, SingleInv, NoneInv, DrainInv, IterInv, IsVec,
       Kind, NoRange

LEMMA NewSlots ==
  ASSUME SlotInv, NEW k \in {"vec", "single_or_vec"}, New(k)
  PROVE  SlotInv'
BY DEF New, SlotInv, Shape, VecInv, BoxedInv, SingleInv, NoneInv, DrainInv, IterInv, IsVec,
       Kind, HasBuffer, Filled, buffer

-----------------------------------------------------------------------------
(* Iterators *)

LEMMA StartSlots ==
  ASSUME SlotInv, NEW from \in Nat, NEW to \in Nat, Drain(from, to) \/ IntoIter
  PROVE  SlotInv'
<1>1. CASE Drain(from, to)
  BY <1>1 DEF Drain, SlotInv, Shape, VecInv, BoxedInv, SingleInv, NoneInv, DrainInv, IterInv,
              IsVec, Kind, HasBuffer, Filled, buffer
<1>2. CASE IntoIter
  <2>1. /\ kind = "vec" /\ kind' = "into_iter" /\ UNCHANGED <<memory, prefix, len, capacity>>
        /\ len \in Nat
        /\ range' = [from |-> 0, to |-> 0, lindex |-> 0, rindex |-> len, original_len |-> 0]
    BY <1>2 DEF IntoIter, NoRange, buffer, SlotInv, Shape
  <2>2. HasBuffer /\ len <= capacity /\ Filled(memory, len)
    BY <2>1 DEF SlotInv, VecInv, IsVec
  <2>3. Shape'
    BY <2>1 DEF SlotInv, Shape, Kind
  <2>4. IterInv'
    BY <2>1, <2>2 DEF IterInv, HasBuffer, Filled
  <2> QED
    BY <2>1, <2>3, <2>4 DEF SlotInv, VecInv, BoxedInv, SingleInv, NoneInv, DrainInv, IsVec
<1> QED
  BY <1>1, <1>2

LEMMA DoubleEndedSlots == ASSUME SlotInv, DoubleEnded PROVE SlotInv'
BY DEF DoubleEnded, SlotInv, Shape, VecInv, BoxedInv, SingleInv, NoneInv, DrainInv, IterInv,
       IsVec, Kind, HasBuffer, Filled, buffer

LEMMA HandOutSlots == ASSUME SlotInv, HandOut PROVE SlotInv'
<1> DEFINE i == range.lindex
<1>1. /\ kind \in {"drain", "double_ended", "into_iter"}
      /\ UNCHANGED <<kind, memory, prefix, capacity, len>>
  BY DEF HandOut, buffer
<1>2. /\ i \in Nat /\ range.rindex \in Nat /\ i < range.rindex
      /\ range' = [range EXCEPT !.lindex = i + 1]
  BY DEF HandOut, SlotInv, Shape
<1>3. /\ range' \in [from : Nat, to : Nat, lindex : Nat, rindex : Nat, original_len : Nat]
      /\ range'.lindex = i + 1 /\ range'.from = range.from /\ range'.to = range.to
      /\ range'.rindex = range.rindex /\ range'.original_len = range.original_len
  BY <1>2 DEF SlotInv, Shape
<1>4. Shape'
  BY <1>1, <1>3 DEF SlotInv, Shape
<1>5. DrainInv'
  BY <1>1, <1>2, <1>3 DEF SlotInv, Shape, DrainInv, HasBuffer, Filled
<1>6. IterInv'
  BY <1>1, <1>2, <1>3 DEF SlotInv, Shape, IterInv, HasBuffer, Filled
<1> QED
  BY <1>1, <1>4, <1>5, <1>6 DEF SlotInv, VecInv, BoxedInv, SingleInv, NoneInv, IsVec

\* The tail moves down over the range, and everything before its end is an item.
LEMMA CloseGapSlots ==
  ASSUME SlotInv, kind \in {"drain", "double_ended"}, NEW to \in Nat,
         range.from <= to, to <= range.original_len, CloseGap(to)
  PROVE  SlotInv'
<1> DEFINE n == range.original_len - to
<1>1. /\ memory \in Seq(Bits) /\ prefix \in Nat /\ memory \in [1 .. prefix -> Bits]
      /\ Len(memory) = prefix /\ capacity \in {0, prefix} /\ capacity \in Nat
      /\ range.from \in Nat /\ range.original_len \in Nat
      /\ range.original_len <= capacity /\ Filled(memory, range.original_len)
  BY DEF SlotInv, Shape, DrainInv, HasBuffer
<1>2. /\ memory' = Copy(memory, range.from, to, n)
      /\ len' = n + range.from
      /\ kind' = "vec" /\ range' = NoRange /\ UNCHANGED <<prefix, capacity>>
  BY DEF CloseGap
<1>3. Copy(memory, range.from, to, n) \in [1 .. prefix -> Bits]
  <2> SUFFICES ASSUME NEW k \in 1 .. prefix,
                      k \in range.from + 1 .. range.from + n
               PROVE  k - range.from + to \in 1 .. prefix
    BY <1>1 DEF Copy
  <2>1. k - range.from <= n /\ n + to = range.original_len /\ range.original_len <= prefix
    BY <1>1
  <2> QED
    BY <1>1, <2>1
<1>4. Filled(Copy(memory, range.from, to, n), n + range.from)
  <2> SUFFICES ASSUME NEW k \in 1 .. n + range.from
               PROVE  Copy(memory, range.from, to, n)[k] \in Item
    BY DEF Filled
  <2>1. CASE k <= range.from
    BY <1>1, <2>1 DEF Copy, Filled
  <2>2. CASE k > range.from
    <3> DEFINE l == k - range.from + to
    <3>1. l \in 1 .. range.original_len /\ k \in 1 .. Len(memory)
      BY <1>1, <2>2
    <3>2. Copy(memory, range.from, to, n)[k] = memory[l]
      BY <1>1, <2>2, <3>1 DEF Copy
    <3> QED
      BY <1>1, <3>1, <3>2 DEF Filled
  <2> QED
    BY <1>1, <2>1, <2>2
<1>5. memory' \in Seq(Bits) /\ Len(memory') = prefix
  BY <1>1, <1>2, <1>3, SlotsAreSeq
<1>6. VecInv' /\ len' \in Nat
  BY <1>1, <1>2, <1>4, <1>5 DEF VecInv, HasBuffer
<1> QED
  BY <1>1, <1>2, <1>5, <1>6
     DEF SlotInv, Shape, BoxedInv, SingleInv, NoneInv, DrainInv, IterInv, Kind, NoRange

LEMMA EndDrainSlots ==
  ASSUME SlotInv, DropDrain \/ Stop \/ ForgetDrain
  PROVE  SlotInv'
<1>1. CASE DropDrain
  BY <1>1, CloseGapSlots DEF DropDrain, SlotInv, Shape, DrainInv
<1>2. CASE Stop
  BY <1>2, CloseGapSlots DEF Stop, SlotInv, Shape, DrainInv
<1>3. CASE ForgetDrain
  BY <1>3 DEF ForgetDrain, SlotInv, Shape, VecInv, BoxedInv, SingleInv, NoneInv, DrainInv,
              IterInv, IsVec, Kind, HasBuffer, Filled, buffer, NoRange
<1> QED
  BY <1>1, <1>2, <1>3

-----------------------------------------------------------------------------
(* Boxed slices and single items *)

LEMMA BoxSlots ==
  ASSUME SlotInv, IntoBoxed \/ FromBoxed
  PROVE  SlotInv'
<1>1. CASE IntoBoxed
  BY <1>1 DEF IntoBoxed, SlotInv, Shape, VecInv, BoxedInv, SingleInv, NoneInv, DrainInv, IterInv,
              IsVec, Kind, HasBuffer, Filled
<1>2. CASE FromBoxed
  BY <1>2 DEF FromBoxed, SlotInv, Shape, VecInv, BoxedInv, SingleInv, NoneInv, DrainInv, IterInv,
              IsVec, Kind, HasBuffer, Filled
<1> QED
  BY <1>1, <1>2

LEMMA BoxedPushSlots ==
  ASSUME SlotInv, ~PushDangling, NEW x \in Item, BoxedPush(x)
  PROVE  SlotInv'
<1>1. /\ memory \in Seq(Bits) /\ prefix \in Nat /\ memory \in [1 .. prefix -> Bits]
      /\ len \in Nat /\ len < prefix /\ Filled(memory, len) /\ Len(memory) = prefix
  BY DEF BoxedPush, PrefixReads, SlotInv, Shape, BoxedInv
<1>2. /\ kind = "boxed" /\ len' = len + 1
      /\ memory' = [k \in 1 .. Len(memory) |-> IF k = len + 1 THEN x ELSE memory[k]]
      /\ UNCHANGED <<kind, prefix, capacity, range>>
  BY DEF BoxedPush
<1>3. memory' \in [1 .. prefix -> Bits] /\ Filled(memory', len + 1)
  BY <1>1, <1>2 DEF Filled, Bits
<1>4. memory' \in Seq(Bits) /\ Len(memory') = prefix
  BY <1>1, <1>3, SlotsAreSeq
<1> QED
  BY <1>1, <1>2, <1>3, <1>4
     DEF SlotInv, Shape, VecInv, BoxedInv, SingleInv, NoneInv, DrainInv, IterInv, IsVec, HasBuffer

LEMMA PushSingleSlots ==
  ASSUME SlotInv, NEW x \in Item, PushSingle(x)
  PROVE  SlotInv'
<1>1. <<x>> \in Seq(Bits) /\ Len(<<x>>) = 1 /\ <<x>>[1] = x
  BY DEF Bits
<1> QED
  BY <1>1 DEF PushSingle, SlotInv, Shape, VecInv, BoxedInv, SingleInv, NoneInv, DrainInv,
              IterInv, IsVec, Kind, HasBuffer, Filled

LEMMA SpillSlots ==
  ASSUME SlotInv, NEW x \in Item, Spill(x)
  PROVE  SlotInv'
<1> DEFINE w == [k \in 1 .. SpillCapacity |->
                   IF k = 1 THEN memory[1] ELSE IF k = 2 THEN x ELSE Uninit]
<1>1. memory[1] \in Item
  BY DEF Spill, SlotInv, SingleInv, Filled
<1>2. w \in [1 .. SpillCapacity -> Bits] /\ Filled(w, 2)
  BY <1>1, SpillAssumption DEF Bits, Filled
<1>3. w \in Seq(Bits) /\ Len(w) = SpillCapacity
  BY <1>2, SpillAssumption, SlotsAreSeq
<1>4. /\ kind' = "single_or_vec" /\ memory' = w /\ len' = 2
      /\ prefix' = SpillCapacity /\ capacity' = SpillCapacity /\ range' = range
  BY DEF Spill
<1> HIDE DEF w
<1> QED
  BY <1>2, <1>3, <1>4, SpillAssumption
     DEF SlotInv, Shape, VecInv, BoxedInv, SingleInv, NoneInv, DrainInv, IterInv, IsVec, Kind, HasBuffer

-----------------------------------------------------------------------------

LEMMA NextSlots ==
  ASSUME SlotInv, ~PushDangling, [Next]_vars
  PROVE  SlotInv'
<1>0. Index \subseteq Nat
  BY MaxAssumption DEF Index
<1>1. CASE UNCHANGED vars \/ PushFails
  BY <1>1, QuietSlots DEF vars, PushFails
<1>2. ASSUME NEW k \in {"vec", "single_or_vec"}, New(k) PROVE SlotInv'
  BY <1>2, NewSlots
<1>3. ASSUME NEW n \in 1 .. 2, TryReserve(n) PROVE SlotInv'
  BY <1>3, TryReserveSlots
<1>4. ASSUME NEW x \in Item, NEW y \in Item,
             TryPush(x) \/ BoxedPush(x) \/ PushSingle(x) \/ Spill(x) \/ Extend(x, y)
      PROVE  SlotInv'
  BY <1>4, PushSlots, BoxedPushSlots, PushSingleSlots, SpillSlots
<1>5. ASSUME NEW x \in Item, NEW y \in Item, PushPanics({x, y}) PROVE SlotInv'
  BY <1>5, QuietSlots DEF PushPanics, buffer
<1>6. ASSUME NEW i \in Index, Remove(i) \/ SwapRemove(i) \/ Truncate(i) PROVE SlotInv'
  BY <1>0, <1>6, RemoveSlots, TruncateSlots
<1>7. ASSUME NEW from \in Index, NEW to \in Index, Drain(from, to) PROVE SlotInv'
  BY <1>0, <1>7, StartSlots
<1>8. CASE IntoIter \/ DoubleEnded \/ HandOut
  BY <1>8, StartSlots, DoubleEndedSlots, HandOutSlots
<1>9. CASE DropDrain \/ Stop \/ ForgetDrain
  BY <1>9, EndDrainSlots
<1>10. CASE IntoBoxed \/ FromBoxed
  BY <1>10, BoxSlots
<1>11. CASE DropVec \/ DropIntoIter \/ DropBoxed \/ DropSingle
  BY <1>11, GoneSlots DEF DropVec, DropIntoIter, DropBoxed, DropSingle
<1> QED
  BY <1>1, <1>2, <1>3, <1>4, <1>5, <1>6, <1>7, <1>8, <1>9, <1>10, <1>11 DEF Next

LEMMA LiveSlotsHoldItems ==
  ASSUME SlotInv PROVE \A k \in Live : k <= Len(memory) /\ memory[k] \in Item
<1> SUFFICES ASSUME NEW k \in Live PROVE k <= Len(memory) /\ memory[k] \in Item
  OBVIOUS
<1>1. CASE kind = "into_iter"
  BY <1>1 DEF Live, Leaving, SlotInv, Shape, IterInv, HasBuffer, Filled
<1>2. CASE kind \in {"drain", "double_ended"}
  BY <1>2 DEF Live, Leaving, Behind, SlotInv, Shape, DrainInv, HasBuffer, Filled
<1>3. CASE kind \in {"vec", "single_or_vec", "boxed", "single", "none"}
  BY <1>3 DEF Live, SlotInv, Shape, VecInv, BoxedInv, SingleInv, NoneInv, HasBuffer, Filled, IsVec
<1> QED
  BY <1>1, <1>2, <1>3 DEF SlotInv, Shape, Kind

\* In a program that does not push to a boxed slice that has no allocation
\* (where try_push of boxed.rs:318 reads a prefix that is not there): no
\* container reads, hands out or destroys a slot outside its allocation or one
\* that was never written, and the prefix keeps the length of that allocation,
\* for any number of items and any capacities.
THEOREM SlotsAreItems ==
  ASSUME ~PushDangling
  PROVE  Spec => [](PrefixIsTrue /\ LiveSlotsAreItems)
<1>1. SlotInv /\ [Next]_vars => SlotInv'
  BY NextSlots
<1>2. SlotInv => PrefixIsTrue
  BY DEF SlotInv, Shape, PrefixIsTrue, VecInv, BoxedInv, DrainInv, IterInv, NoneInv, HasBuffer,
         IsVec, Kind
<1>3. SlotInv => LiveSlotsAreItems
  BY LiveSlotsHoldItems DEF LiveSlotsAreItems
<1> QED
  BY <1>1, <1>2, <1>3, InitSlots, PTL DEF Spec

-----------------------------------------------------------------------------
(* Allocations *)

Empty == Len(memory) = 0

\* A boxed slice has a buffer exactly if it has items, which is how it decides
\* whether to free one; a vector, if it has capacity.
BlockInv ==
  /\ CapacityIsTrue
  /\ blocks = IF ~Empty /\ kind # "single" THEN 1 ELSE 0
  /\ kind = "boxed" => (len = 0 <=> Empty)

LEMMA InitBlocks == Init => BlockInv
BY DEF Init, BlockInv, Empty, CapacityIsTrue, IsVec, Iterating

\* The first buffer is allocated, and reallocated from then on.
LEMMA BufferBlocks ==
  ASSUME SlotInv, BlockInv, IsVec, kind' = kind, NEW n \in Nat, NEW m \in [1 .. n -> Bits],
         capacity <= n, Buffer(m)
  PROVE  BlockInv'
<1>1. Len(m) = n
  BY SlotsAreSeq
<1>2. memory' = m /\ capacity = Len(memory) /\ capacity \in Nat
  BY DEF Buffer, BlockInv, CapacityIsTrue, SlotInv, Shape
<1>3. kind \notin {"single", "boxed"} /\ ~Iterating'
  BY DEF IsVec, Iterating
<1>c. CapacityIsTrue'
  BY <1>2, <1>3 DEF Buffer, CapacityIsTrue
<1>4. CASE n = capacity
  BY <1>1, <1>2, <1>3, <1>c, <1>4 DEF Buffer, BlockInv, Empty
<1>5. CASE n # capacity /\ capacity = 0
  BY <1>1, <1>2, <1>3, <1>c, <1>5 DEF Buffer, BlockInv, Empty
<1>6. CASE n # capacity /\ capacity # 0
  BY <1>1, <1>2, <1>3, <1>c, <1>6 DEF Buffer, BlockInv, Empty
<1> QED
  BY <1>4, <1>5, <1>6

LEMMA TryReserveBlocks ==
  ASSUME SlotInv, BlockInv, NEW n \in Nat \ {0}, TryReserve(n)
  PROVE  BlockInv'
<1>1. PICK k \in Nat : capacity <= k /\ Reserved(n) \in [1 .. k -> Bits]
  BY ReservedSlots DEF TryReserve
<1> QED
  BY <1>1, BufferBlocks DEF TryReserve

LEMMA PushBlocks ==
  ASSUME SlotInv, BlockInv, NEW x \in Item, NEW y \in Item, TryPush(x) \/ Extend(x, y)
  PROVE  BlockInv'
<1>1. IsVec /\ kind' = kind
  BY DEF TryPush, Extend, IsVec
<1>2. ASSUME NEW k \in Nat, NEW m \in [1 .. k -> Bits], NEW xs \in Seq(Item),
             capacity <= k, Store(m, xs)
      PROVE  BlockInv'
  <2> DEFINE w == [i \in 1 .. Len(m) |-> IF i - len \in 1 .. Len(xs) THEN xs[i - len] ELSE m[i]]
  <2>1. Buffer(w)
    BY <1>2 DEF Store
  <2>2. Len(m) = k
    BY SlotsAreSeq
  <2>3. w \in [1 .. k -> Bits]
    BY <2>2 DEF Bits, SlotInv, Shape
  <2> HIDE DEF w
  <2> QED
    BY <1>1, <1>2, <2>1, <2>3, BufferBlocks
<1>3. CASE TryPush(x)
  <2>1. PICK k \in Nat : capacity <= k /\ Roomy \in [1 .. k -> Bits]
    BY <1>1, RoomySlots
  <2>2. <<x>> \in Seq(Item) /\ Store(Roomy, <<x>>)
    BY <1>3 DEF TryPush
  <2> QED
    BY <1>2, <2>1, <2>2
<1>4. CASE Extend(x, y)
  <2>1. PICK k \in Nat : capacity <= k /\ Reserved(2) \in [1 .. k -> Bits]
    BY <1>1, ReservedSlots
  <2>2. <<x, y>> \in Seq(Item) /\ Store(Reserved(2), <<x, y>>)
    BY <1>4 DEF Extend
  <2> QED
    BY <1>2, <2>1, <2>2
<1> QED
  BY <1>3, <1>4

\* What rearranges the slots of a container that stays the same.
LEMMA RearrangeBlocks ==
  ASSUME SlotInv, BlockInv, kind \notin {"boxed", "single"}, kind' \notin {"boxed", "single"},
         Len(memory') = Len(memory), UNCHANGED <<capacity, blocks>>,
         kind # "none" \/ UNCHANGED kind
  PROVE  BlockInv'
BY DEF BlockInv, Empty, CapacityIsTrue, IsVec, Iterating, SlotInv, Shape, Kind

LEMMA MoveBlocks ==
  ASSUME SlotInv, BlockInv, NEW i \in Nat,
         Remove(i) \/ SwapRemove(i) \/ Truncate(i) \/ DropDrain \/ Stop \/ ForgetDrain
  PROVE  BlockInv'
<1>1. /\ kind \notin {"boxed", "single", "none"} /\ kind' \notin {"boxed", "single"}
      /\ UNCHANGED <<capacity, blocks>>
  BY DEF Remove, SwapRemove, Truncate, DropDrain, Stop, ForgetDrain, CloseGap, IsVec, buffer
<1>2. memory \in Seq(Bits)
  BY DEF SlotInv, Shape
<1>3. Len(memory') = Len(memory)
  <2>1. CASE Truncate(i) \/ ForgetDrain
    BY <2>1 DEF Truncate, ForgetDrain, buffer
  <2>2. CASE SwapRemove(i)
    BY <1>2, <2>2 DEF SwapRemove
  <2>3. ASSUME NEW a, NEW b, NEW n, memory' = Copy(memory, a, b, n) PROVE Len(memory') = Len(memory)
    BY <1>2, <2>3 DEF Copy
  <2> QED
    BY <2>1, <2>2, <2>3 DEF Remove, DropDrain, Stop, CloseGap
<1> QED
  BY <1>1, <1>3, RearrangeBlocks

LEMMA BoxBlocks ==
  ASSUME SlotInv, BlockInv, ~BoxEmpty, IntoBoxed \/ FromBoxed
  PROVE  BlockInv'
<1>1. CASE IntoBoxed
  BY <1>1 DEF IntoBoxed, BlockInv, CapacityIsTrue, Empty, SlotInv, VecInv, HasBuffer, IsVec,
              Iterating, Shape
<1>2. CASE FromBoxed
  BY <1>2 DEF FromBoxed, BlockInv, CapacityIsTrue, Empty, SlotInv, BoxedInv, IsVec, Iterating, Shape
<1> QED
  BY <1>1, <1>2

LEMMA BoxedPushBlocks ==
  ASSUME SlotInv, BlockInv, ~PushDangling, NEW x \in Item, BoxedPush(x)
  PROVE  BlockInv'
<1>1. memory \in Seq(Bits) /\ len \in Nat
  BY DEF SlotInv, Shape
<1>2. Len(memory') = Len(memory) /\ Len(memory) # 0
  BY <1>1 DEF BoxedPush, PrefixReads
<1> QED
  BY <1>1, <1>2 DEF BoxedPush, BlockInv, Empty, CapacityIsTrue, IsVec, Iterating

LEMMA SingleBlocks ==
  ASSUME SlotInv, BlockInv, NEW x \in Item, PushSingle(x) \/ Spill(x)
  PROVE  BlockInv'
<1>1. CASE PushSingle(x)
  BY <1>1 DEF PushSingle, BlockInv, CapacityIsTrue, Empty, SlotInv, Shape, IsVec, Iterating
<1>2. CASE Spill(x)
  <2>1. Len(memory') = SpillCapacity /\ SpillCapacity # 0 /\ capacity' = SpillCapacity
    BY <1>2, SpillAssumption DEF Spill
  <2>2. kind = "single" /\ kind' = "single_or_vec" /\ blocks' = blocks + 1
    BY <1>2 DEF Spill
  <2> QED
    BY <2>1, <2>2 DEF BlockInv, CapacityIsTrue, Empty, IsVec, Iterating
<1> QED
  BY <1>1, <1>2

\* Every container frees the buffer it has, and only that.
LEMMA DropBlocks ==
  ASSUME SlotInv, BlockInv, DropVec \/ DropIntoIter \/ DropBoxed \/ DropSingle
  PROVE  BlockInv'
<1>1. kind' = "none" /\ Len(memory') = 0
  BY DEF DropVec, DropIntoIter, DropBoxed, DropSingle, Gone
<1>2. blocks' = 0
  <2>1. CASE DropVec
    BY <2>1 DEF DropVec, Gone, BlockInv, CapacityIsTrue, Empty, IsVec
  <2>2. CASE DropIntoIter
    BY <2>2 DEF DropIntoIter, Gone, BlockInv, CapacityIsTrue, Empty, Iterating
  <2>3. CASE DropBoxed
    BY <2>3 DEF DropBoxed, Gone, BlockInv, Empty
  <2>4. CASE DropSingle
    BY <2>4 DEF DropSingle, Gone, BlockInv, Empty
  <2> QED
    BY <2>1, <2>2, <2>3, <2>4
<1> QED
  BY <1>1, <1>2 DEF BlockInv, CapacityIsTrue, Empty, IsVec, Iterating

LEMMA QuietBlocks ==
  ASSUME SlotInv, BlockInv, UNCHANGED <<memory, capacity, blocks>>,
         \/ kind \notin {"boxed", "single"} /\ kind' \notin {"boxed", "single"}
         \/ UNCHANGED <<kind, len>>
  PROVE  BlockInv'
BY DEF BlockInv, CapacityIsTrue, Empty, IsVec, Iterating, SlotInv, Shape, Kind, NoneInv

LEMMA NextBlocks ==
  ASSUME SlotInv, BlockInv, ~BoxEmpty, ~PushDangling, [Next]_vars
  PROVE  BlockInv'
<1>0. Index \subseteq Nat
  BY MaxAssumption DEF Index
<1>1. CASE UNCHANGED vars \/ PushFails
  BY <1>1, QuietBlocks DEF vars, PushFails
<1>2. ASSUME NEW k \in {"vec", "single_or_vec"}, New(k) PROVE BlockInv'
  BY <1>2, QuietBlocks DEF New, buffer
<1>3. ASSUME NEW n \in 1 .. 2, TryReserve(n) PROVE BlockInv'
  BY <1>3, TryReserveBlocks
<1>4. ASSUME NEW x \in Item, NEW y \in Item,
             TryPush(x) \/ BoxedPush(x) \/ PushSingle(x) \/ Spill(x) \/ Extend(x, y)
      PROVE  BlockInv'
  BY <1>4, PushBlocks, BoxedPushBlocks, SingleBlocks
<1>5. ASSUME NEW x \in Item, NEW y \in Item, PushPanics({x, y}) PROVE BlockInv'
  BY <1>5, QuietBlocks DEF PushPanics, buffer
<1>6. ASSUME NEW i \in Index, Remove(i) \/ SwapRemove(i) \/ Truncate(i) PROVE BlockInv'
  BY <1>0, <1>6, MoveBlocks
<1>7. ASSUME NEW from \in Index, NEW to \in Index, Drain(from, to) PROVE BlockInv'
  BY <1>7, QuietBlocks DEF Drain, buffer
<1>8. CASE IntoIter \/ DoubleEnded \/ HandOut
  BY <1>8, QuietBlocks DEF IntoIter, DoubleEnded, HandOut, buffer
<1>9. CASE DropDrain \/ Stop \/ ForgetDrain
  BY <1>9, MoveBlocks
<1>10. CASE IntoBoxed \/ FromBoxed
  BY <1>10, BoxBlocks
<1>11. CASE DropVec \/ DropIntoIter \/ DropBoxed \/ DropSingle
  BY <1>11, DropBlocks
<1> QED
  BY <1>1, <1>2, <1>3, <1>4, <1>5, <1>6, <1>7, <1>8, <1>9, <1>10, <1>11 DEF Next

\* If a program boxes no empty vector that has a buffer, and pushes to no boxed
\* slice that has none, every buffer is freed with the container that owns it at
\* the time, once, and vectors know the capacity they have.
THEOREM BuffersAreFreed ==
  ASSUME ~BoxEmpty, ~PushDangling
  PROVE  Spec => [](NoBlockIsLost /\ CapacityIsTrue)
<1>1. SlotInv /\ BlockInv /\ [Next]_vars => SlotInv' /\ BlockInv'
  BY NextSlots, NextBlocks
<1>2. SlotInv /\ BlockInv => NoBlockIsLost /\ CapacityIsTrue
  BY DEF SlotInv, Shape, BlockInv, Empty, NoBlockIsLost
<1> QED
  BY <1>1, <1>2, InitSlots, InitBlocks, PTL DEF Spec

-----------------------------------------------------------------------------
(* Owners.  An item that has one owner is in one live slot, or in none; so  *)
(* the sizes of sets in OwnedOnce come down to whether a set is empty.      *)

Where(x) == {k \in Live : memory[k] = x}
Count(x) == held[x] + dropped[x] + leaked[x]

OneOwner(x) ==
  \/ Where(x) = {} /\ Count(x) = 1
  \/ Count(x) = 0 /\ \E k : Where(x) = {k}

Ledgers == held \in [Item -> Nat] /\ dropped \in [Item -> Nat] /\ leaked \in [Item -> Nat]

OwnerInv == Ledgers /\ \A x \in Item : OneOwner(x)

\* The program gets the items of the slots from i to j, or they are destroyed.
Leave(i, j) ==
  \/ held' = Account(held, i, j) /\ UNCHANGED <<dropped, leaked>>
  \/ dropped' = Account(dropped, i, j) /\ UNCHANGED <<held, leaked>>

\* The live slots that are not in R move as to says.
Moves(R, to) ==
  /\ \A k \in Live \ R : to[k] \in Live' /\ memory'[to[k]] = memory[k]
  /\ \A l \in Live' : \E k \in Live \ R : l = to[k]

LEMMA LiveSlots ==
  /\ kind \in {"vec", "single_or_vec", "boxed", "single", "none"} => Live = 1 .. len
  /\ kind = "into_iter" => Live = Leaving
  /\ kind \in {"drain", "double_ended"} => Live = (1 .. len) \cup Leaving \cup Behind
BY DEF Live

LEMMA InitOwners == Init => OwnerInv
<1> SUFFICES ASSUME Init PROVE OwnerInv
  OBVIOUS
<1>1. Live = {}
  BY LiveSlots DEF Init
<1> QED
  BY <1>1 DEF Init, OwnerInv, Ledgers, OneOwner, Where, Count

\* An item with one owner is counted once in a set of live slots, or not at all.
LEMMA SlotsCount ==
  ASSUME NEW x \in Item, OneOwner(x), NEW i \in Nat, NEW j \in Nat, (i + 1 .. j) \subseteq Live
  PROVE  InSlots(i, j, x) = IF Where(x) \cap (i + 1 .. j) = {} THEN 0 ELSE 1
<1> DEFINE S == {k \in i + 1 .. j : memory[k] = x}
<1>1. S = Where(x) \cap (i + 1 .. j)
  BY DEF Where
<1>2. Where(x) = {} \/ \E k : Where(x) = {k}
  BY DEF OneOwner
<1>3. S = {} \/ \E k : S = {k}
  BY <1>1, <1>2
<1>4. InSlots(i, j, x) = Cardinality(S)
  BY DEF InSlots
<1> HIDE DEF S
<1> QED
  BY <1>1, <1>3, <1>4, FS_EmptySet, FS_Singleton

\* The slots of R leave the container, and are counted where they go; the
\* other live slots move as to says.
LEMMA OwnerStep ==
  ASSUME NEW x \in Item, Ledgers, OneOwner(x), NEW R,
         Count(x)' = Count(x) + IF Where(x) \cap R = {} THEN 0 ELSE 1,
         NEW to, Moves(R, to)
  PROVE  OneOwner(x)'
<1>1. Count(x) \in Nat
  BY DEF Count, Ledgers
<1>2. Where(x) \ R = {} => Where(x)' = {}
  BY DEF Where, Moves
<1>3. ASSUME NEW k, Where(x) \ R = {k} PROVE Where(x)' = {to[k]}
  <2>1. \A l \in Where(x)' : l = to[k]
    BY <1>3 DEF Where, Moves
  <2>2. to[k] \in Where(x)'
    BY <1>3 DEF Where, Moves
  <2> QED
    BY <2>1, <2>2
<1>4. CASE Where(x) \cap R = {}
  <2>1. Where(x) \ R = Where(x) /\ Count(x)' = Count(x)
    BY <1>1, <1>4
  <2> QED
    BY <1>2, <1>3, <2>1 DEF OneOwner
<1>5. CASE Where(x) \cap R # {}
  <2>1. Count(x) = 0 /\ \E k : Where(x) = {k}
    BY <1>5 DEF OneOwner
  <2>2. Where(x) \ R = {}
    BY <1>5, <2>1
  <2>3. Count(x)' = 1
    BY <1>5, <2>1
  <2> QED
    BY <1>2, <2>2, <2>3 DEF OneOwner
<1> QED
  BY <1>4, <1>5

\* A step that moves no item and changes no account.
LEMMA QuietOwners ==
  ASSUME OwnerInv, UNCHANGED ledger, \A x \in Item : Where(x)' = Where(x)
  PROVE  OwnerInv'
BY DEF OwnerInv, Ledgers, OneOwner, Count, ledger

\* The account that the slots from i to j are counted in.
LEMMA Accounted ==
  ASSUME OwnerInv, NEW i \in Nat, NEW j \in Nat, (i + 1 .. j) \subseteq Live,
         Leave(i, j)
  PROVE  /\ Ledgers'
         /\ \A x \in Item :
              Count(x)' = Count(x) + IF Where(x) \cap (i + 1 .. j) = {} THEN 0 ELSE 1
<1>1. \A x \in Item : InSlots(i, j, x) = IF Where(x) \cap (i + 1 .. j) = {} THEN 0 ELSE 1
  BY SlotsCount DEF OwnerInv
<1> DEFINE n == [x \in Item |-> IF Where(x) \cap (i + 1 .. j) = {} THEN 0 ELSE 1]
<1>2. n \in [Item -> Nat]
  OBVIOUS
<1>3. \A of : Account(of, i, j) = [x \in Item |-> of[x] + n[x]]
  BY <1>1 DEF Account
<1>4. Ledgers
  BY DEF OwnerInv
<1> HIDE DEF n
<1>5. Ledgers' /\ \A x \in Item : Count(x)' = Count(x) + n[x]
  BY <1>2, <1>3, <1>4 DEF Ledgers, Count, Leave
<1> QED
  BY <1>5 DEF n

\* The slots from i to j leave the container, and the others move.
LEMMA MoveOwners ==
  ASSUME OwnerInv, NEW i \in Nat, NEW j \in Nat, (i + 1 .. j) \subseteq Live,
         Leave(i, j),
         NEW to, Moves(i + 1 .. j, to)
  PROVE  OwnerInv'
<1>1. /\ Ledgers'
      /\ \A x \in Item : Count(x)' = Count(x) + IF Where(x) \cap (i + 1 .. j) = {} THEN 0 ELSE 1
  BY Accounted
<1>2. ASSUME NEW x \in Item PROVE OneOwner(x)'
  BY <1>1, OwnerStep DEF OwnerInv
<1> QED
  BY <1>1, <1>2 DEF OwnerInv

\* They do not move.
LEMMA LeaveOwners ==
  ASSUME OwnerInv, NEW i \in Nat, NEW j \in Nat, (i + 1 .. j) \subseteq Live,
         Leave(i, j),
         Live' = Live \ (i + 1 .. j), \A k \in Live' : memory'[k] = memory[k]
  PROVE  OwnerInv'
<1> DEFINE to == [k \in Live |-> k]
<1>1. Moves(i + 1 .. j, to)
  BY DEF Moves
<1> HIDE DEF to
<1> QED
  BY <1>1, MoveOwners

LEMMA RemoveOwners ==
  ASSUME SlotInv, OwnerInv, NEW i \in Nat, Remove(i) \/ SwapRemove(i)
  PROVE  OwnerInv'
<1>1. /\ kind = "vec" /\ kind' = "vec" /\ i < len /\ len' = len - 1
      /\ Leave(i, i + 1)
  BY DEF Remove, SwapRemove, Leave
<1>2. /\ memory \in Seq(Bits) /\ Len(memory) = capacity /\ capacity \in Nat /\ len \in Nat
      /\ len <= capacity /\ memory \in [1 .. capacity -> Bits]
  BY <1>1 DEF SlotInv, Shape, VecInv, HasBuffer, IsVec
<1>3. Live = 1 .. len /\ Live' = 1 .. len - 1 /\ (i + 1 .. i + 1) \subseteq Live
  BY <1>1, <1>2, LiveSlots DEF Live
<1>4. ASSUME NEW to, Moves(i + 1 .. i + 1, to) PROVE OwnerInv'
  <2> DEFINE j == i + 1
  <2>1. j \in Nat /\ Leave(i, j) /\ Moves(i + 1 .. j, to) /\ (i + 1 .. j) \subseteq Live
    BY <1>1, <1>3, <1>4
  <2> HIDE DEF j
  <2> QED
    BY <2>1, MoveOwners
<1>5. CASE Remove(i)
  <2> DEFINE to == [k \in 1 .. len |-> IF k > i + 1 THEN k - 1 ELSE k]
  <2>1. memory' = Copy(memory, i, i + 1, len - (i + 1))
    BY <1>5 DEF Remove
  <2>2. \A k \in 1 .. len - 1 : memory'[k] = IF k > i THEN memory[k + 1] ELSE memory[k]
    BY <1>1, <1>2, <2>1 DEF Copy
  <2>3. \A k \in Live \ (i + 1 .. i + 1) : to[k] \in Live' /\ memory'[to[k]] = memory[k]
    BY <1>1, <1>2, <1>3, <2>2
  <2>4. ASSUME NEW l \in Live' PROVE \E k \in Live \ (i + 1 .. i + 1) : l = to[k]
    <3>1. CASE l > i
      <4>1. l + 1 \in Live \ (i + 1 .. i + 1) /\ to[l + 1] = l
        BY <1>2, <1>3, <3>1
      <4> QED
        BY <4>1
    <3>2. CASE ~(l > i)
      <4>1. l \in Live \ (i + 1 .. i + 1) /\ to[l] = l
        BY <1>2, <1>3, <3>2
      <4> QED
        BY <4>1
    <3> QED
      BY <3>1, <3>2
  <2>5. Moves(i + 1 .. i + 1, to)
    BY <2>3, <2>4 DEF Moves
  <2> HIDE DEF to
  <2> QED
    BY <1>4, <2>5
<1>6. CASE SwapRemove(i)
  <2> DEFINE to == [k \in 1 .. len |-> IF k = len THEN i + 1 ELSE k]
  <2>1. \A k \in 1 .. len - 1 : memory'[k] = IF k = i + 1 THEN memory[len] ELSE memory[k]
    BY <1>1, <1>2, <1>6 DEF SwapRemove
  <2>2. \A k \in Live \ (i + 1 .. i + 1) : to[k] \in Live' /\ memory'[to[k]] = memory[k]
    BY <1>1, <1>2, <1>3, <2>1
  <2>3. ASSUME NEW l \in Live' PROVE \E k \in Live \ (i + 1 .. i + 1) : l = to[k]
    <3>1. CASE l = i + 1
      <4>1. len \in Live \ (i + 1 .. i + 1) /\ to[len] = l
        BY <1>1, <1>2, <1>3, <3>1
      <4> QED
        BY <4>1
    <3>2. CASE l # i + 1
      <4>1. l \in Live \ (i + 1 .. i + 1) /\ to[l] = l
        BY <1>2, <1>3, <3>2
      <4> QED
        BY <4>1
    <3> QED
      BY <3>1, <3>2
  <2>4. Moves(i + 1 .. i + 1, to)
    BY <2>2, <2>3 DEF Moves
  <2> HIDE DEF to
  <2> QED
    BY <1>4, <2>4
<1> QED
  BY <1>5, <1>6

LEMMA TruncateOwners ==
  ASSUME SlotInv, OwnerInv, NEW n \in Nat, Truncate(n)
  PROVE  OwnerInv'
<1>1. Live = 1 .. len /\ Live' = 1 .. n /\ memory' = memory /\ n <= len /\ len \in Nat
  BY LiveSlots DEF Truncate, Live, IsVec, buffer, SlotInv, Shape
<1>2. Leave(n, len)
  BY DEF Truncate, Leave
<1>3. Live' = Live \ (n + 1 .. len)
  BY <1>1
<1> QED
  BY <1>1, <1>2, <1>3, LeaveOwners

LEMMA HandOutOwners == ASSUME SlotInv, OwnerInv, HandOut PROVE OwnerInv'
<1> DEFINE i == range.lindex
<1>1. /\ i \in Nat /\ len \in Nat /\ range.rindex \in Nat /\ range.to \in Nat
      /\ range.original_len \in Nat /\ i < range.rindex
      /\ memory' = memory /\ len' = len
      /\ range'.lindex = i + 1 /\ range'.rindex = range.rindex
      /\ range'.to = range.to /\ range'.original_len = range.original_len
      /\ Leave(i, i + 1) /\ UNCHANGED kind
  BY DEF HandOut, SlotInv, Shape, buffer, Leave
<1>2. Live' = Live \ (i + 1 .. i + 1) /\ (i + 1 .. i + 1) \subseteq Live
  <2>1. CASE kind = "into_iter"
    BY <1>1, <2>1 DEF Live, Leaving
  <2>2. CASE kind \in {"drain", "double_ended"}
    BY <1>1, <2>2 DEF Live, Leaving, Behind, SlotInv, DrainInv
  <2> QED
    BY <2>1, <2>2 DEF HandOut
<1> QED
  BY <1>1, <1>2, LeaveOwners

\* Containers that go destroy all that is left in them.
LEMMA DropOwners ==
  ASSUME SlotInv, OwnerInv, DropVec \/ DropIntoIter \/ DropBoxed \/ DropSingle
  PROVE  OwnerInv'
<1>1. Live' = {}
  BY DEF DropVec, DropIntoIter, DropBoxed, DropSingle, Gone, Live
<1>2. ASSUME NEW i \in Nat, NEW j \in Nat, Live = i + 1 .. j, Leave(i, j)
      PROVE  OwnerInv'
  <2>1. Live' = Live \ (i + 1 .. j)
    BY <1>1, <1>2
  <2> QED
    BY <1>1, <1>2, <2>1, LeaveOwners
<1>3. CASE DropVec \/ DropBoxed
  <2>1. Live = 1 .. len /\ len \in Nat
    BY <1>3, LiveSlots DEF DropVec, DropBoxed, IsVec, SlotInv, Shape
  <2> QED
    BY <1>2, <1>3, <2>1 DEF DropVec, DropBoxed, Leave
<1>4. CASE DropSingle
  <2>1. Live = 1 .. 1
    BY <1>4, LiveSlots DEF DropSingle, SlotInv, SingleInv
  <2> QED
    BY <1>2, <1>4, <2>1 DEF DropSingle, Leave
<1>5. CASE DropIntoIter
  <2>1. Live = range.lindex + 1 .. len /\ range.lindex \in Nat /\ len \in Nat
    BY <1>5, LiveSlots DEF DropIntoIter, Leaving, SlotInv, IterInv, Shape
  <2> QED
    BY <1>2, <1>5, <2>1 DEF DropIntoIter, Leave
<1> QED
  BY <1>3, <1>4, <1>5

\* The slots that come alive, one of which is the only one that x moves to; the
\* others stay as they are.
Fresh == Live' \ Live
Arrives(x) == \E l \in Fresh : \A k \in Fresh : memory'[k] = x <=> k = l
Stay == Live \subseteq Live' /\ \A k \in Live : memory'[k] = memory[k]

\* The program gives the items of xs.
Given(xs) ==
  /\ \A x \in xs : held[x] > 0 /\ Arrives(x)
  /\ \A k \in Fresh : memory'[k] \in xs
  /\ held' = [x \in Item |-> IF x \in xs THEN held[x] - 1 ELSE held[x]]
  /\ UNCHANGED <<dropped, leaked>>

LEMMA ArriveOwners ==
  ASSUME NEW x \in Item, Ledgers, OneOwner(x), Stay,
         \/ Count(x)' = Count(x) /\ \A k \in Fresh : memory'[k] # x
         \/ held[x] > 0 /\ Count(x)' = Count(x) - 1 /\ Arrives(x)
  PROVE  OneOwner(x)'
<1>1. CASE Count(x)' = Count(x) /\ \A k \in Fresh : memory'[k] # x
  <2>1. Where(x)' = Where(x)
    BY <1>1 DEF Where, Stay, Fresh
  <2> QED
    BY <1>1, <2>1 DEF OneOwner
<1>2. CASE held[x] > 0 /\ Count(x)' = Count(x) - 1 /\ Arrives(x)
  <2>1. Count(x) # 0
    BY <1>2 DEF Count, Ledgers
  <2>2. Where(x) = {} /\ Count(x)' = 0
    BY <1>2, <2>1 DEF OneOwner
  <2>3. \A k \in Live : memory'[k] # x
    BY <2>2 DEF Where, Stay
  <2>4. PICK l \in Fresh : \A k \in Fresh : memory'[k] = x <=> k = l
    BY <1>2 DEF Arrives
  <2>5. Where(x)' = {l}
    BY <2>3, <2>4 DEF Where, Fresh
  <2> QED
    BY <2>2, <2>5 DEF OneOwner
<1> QED
  BY <1>1, <1>2

LEMMA GiveOwners ==
  ASSUME OwnerInv, NEW xs \in SUBSET Item, Given(xs), Stay
  PROVE  OwnerInv'
<1>1. Ledgers'
  BY DEF OwnerInv, Ledgers, Given
<1>2. ASSUME NEW x \in Item PROVE OneOwner(x)'
  <2>1. Ledgers /\ OneOwner(x)
    BY DEF OwnerInv
  <2>2. Count(x)' = IF x \in xs THEN Count(x) - 1 ELSE Count(x)
    <3>1. held'[x] = IF x \in xs THEN held[x] - 1 ELSE held[x]
      BY DEF Given
    <3> QED
      BY <2>1, <3>1 DEF Count, Ledgers, Given
  <2>3. CASE x \in xs
    BY <2>1, <2>2, <2>3, ArriveOwners DEF Given
  <2>4. CASE x \notin xs
    BY <2>1, <2>2, <2>4, ArriveOwners DEF Given
  <2> QED
    BY <2>3, <2>4
<1> QED
  BY <1>1, <1>2 DEF OwnerInv

LEMMA GiveOneOwners ==
  ASSUME OwnerInv, NEW x \in Item, held[x] > 0, Give(x), UNCHANGED <<dropped, leaked>>,
         len \in Nat, Live = 1 .. len, Live' = 1 .. len + 1,
         \A k \in 1 .. len : memory'[k] = memory[k], memory'[len + 1] = x
  PROVE  OwnerInv'
<1>1. held' = [z \in Item |-> IF z \in {x} THEN held[z] - 1 ELSE held[z]]
  BY DEF Give, OwnerInv, Ledgers
<1>2. Fresh = {len + 1} /\ Stay
  BY DEF Fresh, Stay
<1>3. Arrives(x)
  BY <1>2 DEF Arrives
<1>4. Given({x})
  BY <1>1, <1>2, <1>3 DEF Given
<1> QED
  BY <1>2, <1>4, GiveOwners

LEMMA GiveTwoOwners ==
  ASSUME OwnerInv, NEW x \in Item, NEW y \in Item, x # y, held[x] > 0, held[y] > 0,
         held' = [held EXCEPT ![x] = @ - 1, ![y] = @ - 1], UNCHANGED <<dropped, leaked>>,
         len \in Nat, Live = 1 .. len, Live' = 1 .. len + 2,
         \A k \in 1 .. len : memory'[k] = memory[k],
         memory'[len + 1] = x, memory'[len + 2] = y
  PROVE  OwnerInv'
<1>1. held' = [z \in Item |-> IF z \in {x, y} THEN held[z] - 1 ELSE held[z]]
  BY DEF OwnerInv, Ledgers
<1>2. Fresh = {len + 1, len + 2} /\ len + 1 # len + 2 /\ Stay
  BY DEF Fresh, Stay
<1>3. Arrives(x)
  BY <1>2 DEF Arrives
<1>4. Arrives(y)
  BY <1>2 DEF Arrives
<1>5. Given({x, y})
  BY <1>1, <1>2, <1>3, <1>4 DEF Given
<1> QED
  BY <1>2, <1>5, GiveOwners

\* What the vector stores.
LEMMA StoredItems ==
  ASSUME SlotInv, IsVec,
         NEW n \in Nat, NEW m \in [1 .. n -> Bits], NEW xs \in Seq(Item),
         len + Len(xs) <= n, Keeps(m), Store(m, xs)
  PROVE  /\ len' = len + Len(xs)
         /\ \A k \in 1 .. len : memory'[k] = memory[k]
         /\ \A k \in 1 .. Len(xs) : memory'[len + k] = xs[k]
<1> DEFINE l == Len(xs)
<1>1. Len(m) = n /\ len \in Nat /\ l \in Nat
  BY SlotsAreSeq DEF SlotInv, Shape
<1>2. memory' = [k \in 1 .. n |-> IF k - len \in 1 .. l THEN xs[k - len] ELSE m[k]]
  BY <1>1 DEF Store, Buffer
<1>3. len' = len + l /\ len + l <= n
  BY DEF Store
<1> HIDE DEF l
<1>4. \A k \in 1 .. len : memory'[k] = memory[k]
  BY <1>1, <1>2, <1>3 DEF Keeps
<1>5. ASSUME NEW k \in 1 .. l PROVE memory'[len + k] = xs[k]
  <2>1. len + k \in 1 .. n /\ (len + k) - len = k
    BY <1>1, <1>3
  <2> QED
    BY <1>2, <2>1
<1> QED
  BY <1>3, <1>4, <1>5 DEF l

\* One item is stored behind those there are, in a slot that was free or new.
LEMMA OneStored ==
  ASSUME SlotInv, ~PushDangling, NEW x \in Item,
         TryPush(x) \/ BoxedPush(x) \/ PushSingle(x) \/ Spill(x)
  PROVE  /\ ~Iterating /\ ~Iterating'
         /\ held[x] > 0 /\ Give(x) /\ UNCHANGED <<dropped, leaked>>
         /\ len \in Nat /\ len' = len + 1
         /\ \A k \in 1 .. len : memory'[k] = memory[k]
         /\ memory'[len + 1] = x
<1>1. /\ ~Iterating /\ ~Iterating'
      /\ held[x] > 0 /\ Give(x) /\ UNCHANGED <<dropped, leaked>>
  BY DEF TryPush, BoxedPush, PushSingle, Spill, Iterating
<1>2. len \in Nat
  BY DEF SlotInv, Shape
<1>3. /\ len' = len + 1
      /\ \A k \in 1 .. len : memory'[k] = memory[k]
      /\ memory'[len + 1] = x
  <2>1. CASE TryPush(x)
    <3>1. IsVec
      BY <2>1 DEF TryPush, IsVec
    <3>2. PICK n \in Nat : /\ len + 1 <= n /\ Roomy \in [1 .. n -> Bits] /\ Keeps(Roomy)
      BY <3>1, RoomySlots
    <3> DEFINE xs == <<x>>
    <3>3. xs \in Seq(Item) /\ Len(xs) = 1 /\ xs[1] = x /\ Store(Roomy, xs)
      BY <2>1 DEF TryPush
    <3> HIDE DEF xs
    <3>4. /\ len' = len + 1
          /\ \A k \in 1 .. len : memory'[k] = memory[k]
          /\ \A k \in 1 .. 1 : memory'[len + k] = xs[k]
      BY <3>1, <3>2, <3>3, StoredItems
    <3> QED
      BY <3>3, <3>4
  <2>2. CASE BoxedPush(x)
    <3>1. /\ memory \in Seq(Bits) /\ Len(memory) = prefix /\ prefix \in Nat
          /\ len < prefix /\ len' = len + 1
          /\ memory' = [k \in 1 .. Len(memory) |-> IF k = len + 1 THEN x ELSE memory[k]]
      BY <2>2 DEF BoxedPush, PrefixReads, SlotInv, Shape, BoxedInv
    <3>2. memory \in [1 .. prefix -> Bits]
      BY <3>1
    <3> QED
      BY <1>2, <3>1, <3>2
  <2>3. CASE PushSingle(x)
    BY <2>3 DEF PushSingle, SlotInv, Shape, VecInv, IsVec
  <2>4. CASE Spill(x)
    <3>1. len = 1 /\ len' = 2
      BY <2>4 DEF Spill, SlotInv, SingleInv
    <3>2. memory'[1] = memory[1] /\ memory'[2] = x
      BY <2>4, SpillAssumption DEF Spill
    <3> QED
      BY <3>1, <3>2
  <2> QED
    BY <2>1, <2>2, <2>3, <2>4
<1> QED
  BY <1>1, <1>2, <1>3

LEMMA TwoStored ==
  ASSUME SlotInv, NEW x \in Item, NEW y \in Item, Extend(x, y)
  PROVE  /\ ~Iterating /\ ~Iterating'
         /\ x # y /\ held[x] > 0 /\ held[y] > 0
         /\ held' = [held EXCEPT ![x] = @ - 1, ![y] = @ - 1] /\ UNCHANGED <<dropped, leaked>>
         /\ len \in Nat /\ len' = len + 2
         /\ \A k \in 1 .. len : memory'[k] = memory[k]
         /\ memory'[len + 1] = x /\ memory'[len + 2] = y
<1>1. /\ IsVec /\ ~Iterating /\ ~Iterating' /\ UNCHANGED <<dropped, leaked>>
      /\ x # y /\ held[x] > 0 /\ held[y] > 0
      /\ held' = [held EXCEPT ![x] = @ - 1, ![y] = @ - 1]
  BY DEF Extend, IsVec, Iterating
<1>2. PICK n \in Nat : /\ len + 2 <= n
                       /\ Reserved(2) \in [1 .. n -> Bits] /\ Keeps(Reserved(2))
  BY <1>1, ReservedSlots
<1> DEFINE xs == <<x, y>>
<1>3. xs \in Seq(Item) /\ Len(xs) = 2 /\ xs[1] = x /\ xs[2] = y /\ Store(Reserved(2), xs)
  BY DEF Extend
<1> HIDE DEF xs
<1>4. /\ len' = len + 2
      /\ \A k \in 1 .. len : memory'[k] = memory[k]
      /\ \A k \in 1 .. 2 : memory'[len + k] = xs[k]
  BY <1>1, <1>2, <1>3, StoredItems
<1>5. len \in Nat
  BY DEF SlotInv, Shape
<1> QED
  BY <1>1, <1>3, <1>4, <1>5

LEMMA PushOwners ==
  ASSUME SlotInv, OwnerInv, ~PushDangling, NEW x \in Item,
         TryPush(x) \/ BoxedPush(x) \/ PushSingle(x) \/ Spill(x)
  PROVE  OwnerInv'
<1>1. /\ ~Iterating /\ ~Iterating'
      /\ held[x] > 0 /\ Give(x) /\ UNCHANGED <<dropped, leaked>>
      /\ len \in Nat /\ len' = len + 1
      /\ \A k \in 1 .. len : memory'[k] = memory[k]
      /\ memory'[len + 1] = x
  BY OneStored
<1>2. Live = 1 .. len /\ Live' = 1 .. len + 1
  BY <1>1 DEF Live, Iterating
<1> QED
  BY <1>1, <1>2, GiveOneOwners

LEMMA ExtendOwners ==
  ASSUME SlotInv, OwnerInv, NEW x \in Item, NEW y \in Item, Extend(x, y)
  PROVE  OwnerInv'
<1>1. /\ ~Iterating /\ ~Iterating'
      /\ x # y /\ held[x] > 0 /\ held[y] > 0
      /\ held' = [held EXCEPT ![x] = @ - 1, ![y] = @ - 1] /\ UNCHANGED <<dropped, leaked>>
      /\ len \in Nat /\ len' = len + 2
      /\ \A k \in 1 .. len : memory'[k] = memory[k]
      /\ memory'[len + 1] = x /\ memory'[len + 2] = y
  BY TwoStored
<1>2. Live = 1 .. len /\ Live' = 1 .. len + 2
  BY <1>1 DEF Live, Iterating
<1> QED
  BY <1>1, <1>2, GiveTwoOwners

\* Allocations, conversions and the start of an iterator move no item.
LEMMA StartOwners ==
  ASSUME SlotInv, OwnerInv, NEW from \in Nat, NEW to \in Nat,
         Drain(from, to) \/ IntoIter \/ DoubleEnded
  PROVE  OwnerInv'
<1>1. memory' = memory /\ UNCHANGED ledger
  BY DEF Drain, IntoIter, DoubleEnded, buffer
<1>2. Live' = Live
  <2>1. CASE Drain(from, to)
    <3>1. /\ kind = "vec" /\ len \in Nat /\ from <= to /\ to <= len
          /\ kind' = "drain" /\ len' = from
          /\ range' = [from |-> from, to |-> to, lindex |-> from, rindex |-> to,
                       original_len |-> len]
      BY <2>1 DEF Drain, SlotInv, Shape
    <3>2. Live = 1 .. len /\ Live' = (1 .. from) \cup (from + 1 .. to) \cup (to + 1 .. len)
      BY <3>1 DEF Live, Leaving, Behind
    <3> QED
      BY <3>1, <3>2
  <2>2. CASE IntoIter
    <3>1. kind = "vec" /\ kind' = "into_iter" /\ range'.lindex = 0 /\ range'.rindex = len
      BY <2>2 DEF IntoIter, NoRange
    <3> QED
      BY <3>1 DEF Live, Leaving
  <2>3. CASE DoubleEnded
    BY <2>3 DEF DoubleEnded, Live, Leaving, Behind
  <2> QED
    BY <2>1, <2>2, <2>3
<1> QED
  BY <1>1, <1>2, QuietOwners DEF Where

LEMMA TryReserveOwners ==
  ASSUME SlotInv, OwnerInv, NEW n \in Nat \ {0}, TryReserve(n)
  PROVE  OwnerInv'
<1>1. IsVec /\ Buffer(Reserved(n)) /\ UNCHANGED <<kind, len, range, ledger>>
  BY DEF TryReserve
<1>2. memory' = Reserved(n) /\ Keeps(Reserved(n))
  BY <1>1, ReservedSlots DEF Buffer
<1>3. Live = 1 .. len /\ Live' = 1 .. len
  BY <1>1 DEF Live, IsVec
<1> QED
  BY <1>1, <1>2, <1>3, QuietOwners DEF Where, Keeps

LEMMA BoxOwners ==
  ASSUME SlotInv, OwnerInv, IntoBoxed \/ FromBoxed \/ \E k \in {"vec", "single_or_vec"} : New(k)
  PROVE  OwnerInv'
<1>1. UNCHANGED <<len, ledger>> /\ len \in Nat
  BY DEF IntoBoxed, FromBoxed, New, SlotInv, Shape
<1>2. Live = 1 .. len /\ Live' = 1 .. len
  BY DEF IntoBoxed, FromBoxed, New, Live
<1>3. len = 0 \/ memory' = memory
  BY DEF IntoBoxed, FromBoxed, New, buffer
<1>4. len = 0 => Live = {}
  BY <1>2
<1> QED
  BY <1>1, <1>2, <1>3, <1>4, QuietOwners DEF Where

\* Items that a push destroys when it panics.
LEMMA PanicOwners ==
  ASSUME OwnerInv, NEW xs \in SUBSET Item, PushPanics(xs)
  PROVE  OwnerInv'
<1>1. Live' = Live /\ memory' = memory
  BY DEF PushPanics, Live, Leaving, Behind, buffer
<1>2. /\ \A x \in xs : held[x] > 0
      /\ held' = [x \in Item |-> IF x \in xs THEN held[x] - 1 ELSE held[x]]
      /\ dropped' = [x \in Item |-> IF x \in xs THEN dropped[x] + 1 ELSE dropped[x]]
      /\ leaked' = leaked
  BY DEF PushPanics
<1>3. Ledgers' /\ \A x \in Item : Count(x)' = Count(x)
  BY <1>2 DEF OwnerInv, Ledgers, Count
<1> QED
  BY <1>1, <1>3 DEF OwnerInv, OneOwner, Where

-----------------------------------------------------------------------------
(* The end of a drain *)

\* The items from t on follow what is before a drain when it ends.
LEMMA GapClosed ==
  ASSUME SlotInv, kind \in {"drain", "double_ended"}, NEW t \in Nat,
         range.from <= t, t <= range.original_len, CloseGap(t)
  PROVE  /\ kind' = "vec" /\ ~Iterating'
         /\ len \in Nat /\ range.original_len \in Nat /\ len <= t
         /\ len' = len + (range.original_len - t)
         /\ \A k \in 1 .. len : memory'[k] = memory[k]
         /\ \A k \in 1 .. range.original_len - t : memory'[len + k] = memory[t + k]
<1> DEFINE o == range.original_len
<1>1. /\ memory \in Seq(Bits) /\ prefix \in Nat /\ Len(memory) = prefix
      /\ len \in Nat /\ range.from = len /\ o \in Nat /\ o <= prefix /\ len <= t /\ t <= o
  BY DEF SlotInv, Shape, DrainInv, HasBuffer
<1>2. /\ memory' = Copy(memory, len, t, o - t)
      /\ len' = o - t + len /\ kind' = "vec" /\ ~Iterating'
  BY <1>1 DEF CloseGap, Iterating
<1> HIDE DEF o
<1>3. \A k \in 1 .. len : memory'[k] = memory[k]
  BY <1>1, <1>2 DEF Copy
<1>4. ASSUME NEW k \in 1 .. o - t PROVE memory'[len + k] = memory[t + k]
  <2>1. /\ len + k \in 1 .. Len(memory) /\ len + k \in len + 1 .. len + (o - t)
        /\ (len + k) - len + t = t + k
    BY <1>1
  <2> QED
    BY <1>2, <2>1 DEF Copy
<1> QED
  BY <1>1, <1>2, <1>3, <1>4 DEF o

\* What is before the drain stays, and what is behind t moves to its start.
LEMMA CloseGapMoves ==
  ASSUME SlotInv, kind \in {"drain", "double_ended"}, NEW t \in Nat,
         range.from <= t, t <= range.original_len, CloseGap(t),
         NEW R, Live \ R = (1 .. len) \cup (t + 1 .. range.original_len)
  PROVE  \E to : Moves(R, to)
<1> DEFINE o == range.original_len
           to == [k \in 1 .. o |-> IF k > len THEN k - t + len ELSE k]
<1>1. /\ len \in Nat /\ o \in Nat /\ len <= t /\ t <= o
      /\ kind' = "vec" /\ len' = len + (o - t)
      /\ \A k \in 1 .. len : memory'[k] = memory[k]
      /\ \A k \in 1 .. o - t : memory'[len + k] = memory[t + k]
  BY GapClosed
<1>2. len' = o - t + len
  BY <1>1
<1>3. Live' = 1 .. (o - t + len)
  BY <1>1, <1>2 DEF Live
<1>4. \A k \in 1 .. (o - t + len) :
        memory'[k] = IF k > len THEN memory[k - len + t] ELSE memory[k]
  <2> SUFFICES ASSUME NEW k \in 1 .. (o - t + len)
               PROVE  memory'[k] = IF k > len THEN memory[k - len + t] ELSE memory[k]
    OBVIOUS
  <2>1. CASE k > len
    <3>1. k - len \in 1 .. o - t /\ len + (k - len) = k /\ t + (k - len) = k - len + t
      BY <1>1, <2>1
    <3> QED
      BY <1>1, <2>1, <3>1
  <2>2. CASE ~(k > len)
    BY <1>1, <2>2
  <2> QED
    BY <2>1, <2>2
<1> HIDE DEF o
<1>5. ASSUME NEW k \in Live \ R PROVE to[k] \in Live' /\ memory'[to[k]] = memory[k]
  <2>1. CASE k > len
    <3>1. k \in t + 1 .. o
      BY <1>1, <2>1 DEF o
    <3>2. to[k] = k - t + len
      BY <1>1, <2>1, <3>1
    <3>3. /\ k - t + len \in 1 .. (o - t + len) /\ k - t + len > len
          /\ (k - t + len) - len + t = k
      BY <1>1, <2>1, <3>1
    <3> HIDE DEF to
    <3> QED
      BY <1>3, <1>4, <3>2, <3>3
  <2>2. CASE ~(k > len)
    <3>1. k \in 1 .. len
      BY <1>1, <2>2 DEF o
    <3>2. to[k] = k /\ k \in 1 .. (o - t + len)
      BY <1>1, <2>2, <3>1
    <3> HIDE DEF to
    <3> QED
      BY <1>3, <1>4, <2>2, <3>2
  <2> QED
    BY <2>1, <2>2
<1>6. ASSUME NEW l \in Live' PROVE \E k \in Live \ R : l = to[k]
  <2>1. CASE l > len
    <3>1. l - len + t \in t + 1 .. o /\ l - len + t > len /\ l - len + t \in 1 .. o
      BY <1>1, <1>3, <2>1
    <3>2. l - len + t \in Live \ R /\ to[l - len + t] = l
      BY <1>1, <1>3, <3>1 DEF o
    <3> QED
      BY <3>2
  <2>2. CASE ~(l > len)
    <3>1. l \in 1 .. len /\ l \in 1 .. o
      BY <1>1, <1>3, <2>2
    <3>2. l \in Live \ R /\ to[l] = l
      BY <1>1, <2>2, <3>1 DEF o
    <3> QED
      BY <3>2
  <2> QED
    BY <2>1, <2>2
<1>7. Moves(R, to)
  BY <1>5, <1>6 DEF Moves
<1> QED
  BY <1>7

LEMMA DrainLive ==
  ASSUME SlotInv, kind \in {"drain", "double_ended"}
  PROVE  /\ Live = (1 .. len) \cup Leaving \cup Behind
         /\ len \in Nat /\ range.from = len
         /\ range.lindex \in Nat /\ range.rindex \in Nat /\ range.original_len \in Nat
         /\ range.to = range.rindex
         /\ len <= range.lindex /\ range.lindex <= range.rindex
         /\ range.rindex <= range.original_len
BY DEF Live, SlotInv, Shape, DrainInv

LEMMA DropDrainOwners == ASSUME SlotInv, OwnerInv, DropDrain PROVE OwnerInv'
<1> DEFINE i == range.lindex
           j == range.rindex
           R == i + 1 .. j
<1>1. kind \in {"drain", "double_ended"} /\ CloseGap(j) /\ Leave(i, j)
  BY DrainLive DEF DropDrain, Leave
<1>2. /\ i \in Nat /\ j \in Nat /\ R \subseteq Live
      /\ range.from <= j /\ j <= range.original_len
  BY <1>1, DrainLive DEF Leaving
<1>3. Live \ R = (1 .. len) \cup (j + 1 .. range.original_len)
  BY <1>1, DrainLive DEF Leaving, Behind
<1> HIDE DEF R
<1>4. PICK to : Moves(R, to)
  BY <1>1, <1>2, <1>3, CloseGapMoves
<1>5. (i + 1 .. j) \subseteq Live /\ Moves(i + 1 .. j, to)
  BY <1>2, <1>4 DEF R
<1> HIDE DEF i, j
<1> QED
  BY <1>1, <1>2, <1>5, MoveOwners

LEMMA StopOwners == ASSUME SlotInv, OwnerInv, Stop PROVE OwnerInv'
<1>1. kind \in {"drain", "double_ended"} /\ CloseGap(range.lindex) /\ UNCHANGED ledger
  BY DEF Stop
<1>2. /\ range.lindex \in Nat /\ range.from <= range.lindex
      /\ range.lindex <= range.original_len
  BY <1>1, DrainLive
<1>3. Live \ {} = (1 .. len) \cup (range.lindex + 1 .. range.original_len)
  BY <1>1, DrainLive DEF Leaving, Behind
<1>4. PICK to : Moves({}, to)
  BY <1>1, <1>2, <1>3, CloseGapMoves
<1>5. Ledgers /\ Ledgers' /\ \A x \in Item : OneOwner(x) /\ Count(x) \in Nat /\ Count(x)' = Count(x)
  BY <1>1 DEF OwnerInv, Ledgers, Count, ledger
<1>6. ASSUME NEW x \in Item PROVE OneOwner(x)'
  <2>1. Count(x)' = Count(x) + IF Where(x) \cap {} = {} THEN 0 ELSE 1
    BY <1>5
  <2> QED
    BY <1>4, <1>5, <2>1, OwnerStep
<1> QED
  BY <1>5, <1>6 DEF OwnerInv

\* A forgotten drain leaks the rest of its range and what was behind it.
LEMMA ForgetOwners == ASSUME SlotInv, OwnerInv, ForgetDrain PROVE OwnerInv'
<1> DEFINE i == range.lindex
           j == range.rindex
           o == range.original_len
           R == (i + 1 .. j) \cup (j + 1 .. o)
           to == [k \in 1 .. len |-> k]
<1>1. /\ kind \in {"drain", "double_ended"} /\ kind' = "vec"
      /\ UNCHANGED <<memory, len, held, dropped>>
      /\ range.to = j
      /\ leaked' = [x \in Item |-> Account(leaked, i, j)[x] + InSlots(j, o, x)]
  BY DrainLive DEF ForgetDrain, buffer
<1>2. /\ i \in Nat /\ j \in Nat /\ o \in Nat /\ len \in Nat
      /\ Live = (1 .. len) \cup R /\ len <= i /\ i <= j
      /\ (i + 1 .. j) \subseteq Live /\ (j + 1 .. o) \subseteq Live
  BY <1>1, DrainLive DEF Leaving, Behind
<1>3. Live' = 1 .. len /\ Live \ R = 1 .. len
  BY <1>1, <1>2 DEF Live
<1>4. Moves(R, to)
  BY <1>1, <1>3 DEF Moves
<1>5. \A x \in Item :
        /\ InSlots(i, j, x) = IF Where(x) \cap (i + 1 .. j) = {} THEN 0 ELSE 1
        /\ InSlots(j, o, x) = IF Where(x) \cap (j + 1 .. o) = {} THEN 0 ELSE 1
  BY <1>2, SlotsCount DEF OwnerInv
<1>6. (i + 1 .. j) \cap (j + 1 .. o) = {}
  BY <1>2
<1>7. ASSUME NEW x \in Item
      PROVE  leaked'[x] = leaked[x] + IF Where(x) \cap R = {} THEN 0 ELSE 1
  <2>1. leaked'[x] = leaked[x] + InSlots(i, j, x) + InSlots(j, o, x)
    BY <1>1 DEF Account
  <2>2. Where(x) = {} \/ \E k : Where(x) = {k}
    BY DEF OwnerInv, OneOwner
  <2>3. leaked[x] \in Nat
    BY DEF OwnerInv, Ledgers
  <2>4. CASE Where(x) \cap (i + 1 .. j) = {}
    BY <1>5, <2>1, <2>3, <2>4
  <2>5. CASE Where(x) \cap (i + 1 .. j) # {}
    <3>1. Where(x) \cap (j + 1 .. o) = {} /\ Where(x) \cap R # {}
      BY <1>6, <2>2, <2>5
    <3> QED
      BY <1>5, <2>1, <2>3, <2>5, <3>1
  <2> QED
    BY <2>4, <2>5
<1>8. leaked' = [x \in Item |-> leaked'[x]]
  BY <1>1
<1> HIDE DEF R, to
<1>9. Ledgers'
  BY <1>1, <1>7, <1>8 DEF OwnerInv, Ledgers
<1>10. ASSUME NEW x \in Item PROVE OneOwner(x)'
  <2>1. Ledgers /\ OneOwner(x)
    BY DEF OwnerInv
  <2>2. Count(x)' = Count(x) + IF Where(x) \cap R = {} THEN 0 ELSE 1
    BY <1>1, <1>7, <2>1 DEF Count, Ledgers
  <2> QED
    BY <1>4, <2>1, <2>2, OwnerStep
<1> QED
  BY <1>9, <1>10 DEF OwnerInv

-----------------------------------------------------------------------------

LEMMA NextOwners ==
  ASSUME SlotInv, OwnerInv, ~PushDangling, [Next]_vars
  PROVE  OwnerInv'
<1>0. Index \subseteq Nat
  BY MaxAssumption DEF Index
<1>1. CASE UNCHANGED vars \/ PushFails
  <2>1. Live' = Live /\ memory' = memory /\ UNCHANGED ledger
    BY <1>1 DEF vars, PushFails, Live, Leaving, Behind, ledger
  <2> QED
    BY <2>1, QuietOwners DEF Where
<1>2. ASSUME NEW n \in 1 .. 2, TryReserve(n) PROVE OwnerInv'
  BY <1>2, TryReserveOwners
<1>3. ASSUME NEW x \in Item, NEW y \in Item,
             TryPush(x) \/ BoxedPush(x) \/ PushSingle(x) \/ Spill(x) \/ Extend(x, y)
      PROVE  OwnerInv'
  BY <1>3, PushOwners, ExtendOwners
<1>4. ASSUME NEW x \in Item, NEW y \in Item, PushPanics({x, y}) PROVE OwnerInv'
  BY <1>4, PanicOwners
<1>5. ASSUME NEW i \in Index, Remove(i) \/ SwapRemove(i) \/ Truncate(i) PROVE OwnerInv'
  BY <1>0, <1>5, RemoveOwners, TruncateOwners
<1>6. ASSUME NEW from \in Index, NEW to \in Index, Drain(from, to) PROVE OwnerInv'
  BY <1>0, <1>6, StartOwners
<1>7. CASE IntoIter \/ DoubleEnded \/ HandOut
  BY <1>7, StartOwners, HandOutOwners
<1>8. CASE DropDrain \/ Stop \/ ForgetDrain
  BY <1>8, DropDrainOwners, StopOwners, ForgetOwners
<1>9. CASE IntoBoxed \/ FromBoxed \/ \E k \in {"vec", "single_or_vec"} : New(k)
  BY <1>9, BoxOwners
<1>10. CASE DropVec \/ DropIntoIter \/ DropBoxed \/ DropSingle
  BY <1>10, DropOwners
<1> QED
  BY <1>1, <1>2, <1>3, <1>4, <1>5, <1>6, <1>7, <1>8, <1>9, <1>10 DEF Next

\* In a program that pushes to no boxed slice without an allocation: no item is
\* destroyed, handed out or leaked twice, and none gets lost.  At any time exactly
\* one of the container, the program and the accounts of what was destroyed or
\* leaked has it, for any number of items and any capacities.
THEOREM ItemsAreOwnedOnce ==
  ASSUME ~PushDangling
  PROVE  Spec => []OwnedOnce
<1>1. SlotInv /\ OwnerInv /\ [Next]_vars => SlotInv' /\ OwnerInv'
  BY NextSlots, NextOwners
<1>2. OwnerInv => OwnedOnce
  <2> SUFFICES ASSUME OwnerInv, NEW x \in Item
               PROVE  Cardinality(Where(x)) + held[x] + dropped[x] + leaked[x] = 1
    BY DEF OwnedOnce, Where
  <2>1. held[x] \in Nat /\ dropped[x] \in Nat /\ leaked[x] \in Nat
    BY DEF OwnerInv, Ledgers
  <2>2. CASE Where(x) = {} /\ Count(x) = 1
    <3>1. Cardinality(Where(x)) = 0
      BY <2>2, FS_EmptySet
    <3> QED
      BY <2>1, <2>2, <3>1 DEF Count
  <2>3. CASE Count(x) = 0 /\ \E k : Where(x) = {k}
    <3>1. Cardinality(Where(x)) = 1
      BY <2>3, FS_Singleton
    <3> QED
      BY <2>1, <2>3, <3>1 DEF Count
  <2> QED
    BY <2>2, <2>3 DEF OwnerInv, OneOwner
<1> QED
  BY <1>1, <1>2, InitSlots, InitOwners, PTL DEF Spec

-----------------------------------------------------------------------------
(* What the program sees.  The promise is about the sequences that the      *)
(* slots of a container make up, and about the sets of items that the       *)
(* program holds and of those that are gone.                                *)

Elems ==
  CASE kind = "into_iter" -> <<>>
    [] kind \in {"drain", "double_ended"} ->
         SubSeq(memory, 1, len) \o SubSeq(memory, range.to + 1, range.original_len)
    [] OTHER -> SubSeq(memory, 1, len)
Departing == SubSeq(memory, range.lindex + 1, range.rindex)
Held == {x \in Item : held[x] > 0}
Lost == {x \in Item : dropped[x] + leaked[x] > 0}

Items(i, j) == {memory[k] : k \in i + 1 .. j}

\* No iterator is under way.
Whole == ~Iterating

RangeInv ==
  /\ Whole => range = NoRange
  /\ kind = "into_iter" => range.from = 0

LEMMA InitRange == Init => RangeInv
BY DEF Init, RangeInv, Whole, Iterating

LEMMA NextRange == ASSUME SlotInv, RangeInv, [Next]_vars PROVE RangeInv'
<1> USE DEF RangeInv, Whole, Iterating
<1>1. CASE UNCHANGED <<kind, range>>
  BY <1>1
<1>2. CASE range' = NoRange /\ Whole'
  BY <1>2
<1>3. CASE range' = range /\ Whole /\ Whole'
  BY <1>3
<1>4. CASE kind' = "drain"
  BY <1>4
<1>5. CASE DoubleEnded \/ HandOut \/ IntoIter
  <2>1. CASE HandOut
    <3>1. range' = [range EXCEPT !.lindex = @ + 1] /\ Iterating /\ kind' = kind
      BY <2>1 DEF HandOut
    <3>2. range'.from = range.from
      BY <3>1 DEF SlotInv, Shape
    <3> QED
      BY <3>1, <3>2
  <2>2. CASE DoubleEnded \/ IntoIter
    BY <2>2 DEF DoubleEnded, IntoIter, NoRange
  <2> QED
    BY <1>5, <2>1, <2>2
<1>6. CASE UNCHANGED vars \/ PushFails
  BY <1>1, <1>6 DEF vars, PushFails
<1>7. CASE \E k \in {"vec", "single_or_vec"} : New(k)
  BY <1>3, <1>7 DEF New
<1>8. CASE \E n \in 1 .. 2 : TryReserve(n)
  BY <1>1, <1>8 DEF TryReserve
<1>9. CASE \E x \in Item : TryPush(x) \/ BoxedPush(x) \/ \E y \in Item : Extend(x, y)
  BY <1>1, <1>9 DEF TryPush, BoxedPush, Extend
<1>10. CASE \E x \in Item : PushSingle(x) \/ Spill(x)
  BY <1>3, <1>10 DEF PushSingle, Spill
<1>11. CASE \E x, y \in Item : PushPanics({x, y})
  BY <1>1, <1>11 DEF PushPanics
<1>12. CASE \E i \in Index : Remove(i) \/ SwapRemove(i) \/ Truncate(i)
  BY <1>1, <1>12 DEF Remove, SwapRemove, Truncate
<1>13. CASE \E from, to \in Index : Drain(from, to)
  BY <1>4, <1>13 DEF Drain
<1>14. CASE DropDrain \/ Stop \/ ForgetDrain
  BY <1>2, <1>14 DEF DropDrain, Stop, ForgetDrain, CloseGap
<1>15. CASE IntoBoxed \/ FromBoxed
  BY <1>3, <1>15 DEF IntoBoxed, FromBoxed
<1>16. CASE DropVec \/ DropIntoIter \/ DropBoxed \/ DropSingle
  BY <1>2, <1>16 DEF DropVec, DropIntoIter, DropBoxed, DropSingle, Gone
<1> QED
  BY <1>5, <1>6, <1>7, <1>8, <1>9, <1>10, <1>11, <1>12, <1>13, <1>14, <1>15, <1>16 DEF Next

\* The slots from i to j.
LEMMA Cut ==
  ASSUME NEW S, NEW m \in Seq(S), NEW i \in Nat, NEW j \in Nat, i <= j, j <= Len(m)
  PROVE  /\ SubSeq(m, i + 1, j) \in Seq(S)
         /\ Len(SubSeq(m, i + 1, j)) = j - i
         /\ \A k \in 1 .. j - i : SubSeq(m, i + 1, j)[k] = m[i + k]
<1>1. \A k \in i + 1 .. j : m[k] \in S
  OBVIOUS
<1>2. /\ SubSeq(m, i + 1, j) \in Seq(S)
      /\ Len(SubSeq(m, i + 1, j)) = IF i + 1 <= j THEN j - (i + 1) + 1 ELSE 0
  BY <1>1, SubSeqProperties
<1>3. Len(SubSeq(m, i + 1, j)) = j - i
  BY <1>2
<1> QED
  BY <1>2, <1>3

LEMMA Joined ==
  ASSUME NEW S, NEW s \in Seq(S), NEW t \in Seq(S), NEW u \in Seq(S),
         Len(u) = Len(s) + Len(t),
         \A k \in 1 .. Len(s) : u[k] = s[k],
         \A k \in 1 .. Len(t) : u[Len(s) + k] = t[k]
  PROVE  u = s \o t
<1>1. /\ s \o t \in Seq(S) /\ Len(s \o t) = Len(s) + Len(t)
      /\ \A k \in 1 .. Len(s) + Len(t) : (s \o t)[k] = IF k <= Len(s) THEN s[k] ELSE t[k - Len(s)]
  BY ConcatProperties
<1>2. ASSUME NEW k \in 1 .. Len(u) PROVE u[k] = (s \o t)[k]
  <2>1. CASE k <= Len(s)
    BY <1>1, <2>1
  <2>2. CASE ~(k <= Len(s))
    <3>1. PICK l \in 1 .. Len(t) : k = Len(s) + l
      <4>1. k - Len(s) \in 1 .. Len(t) /\ k = Len(s) + (k - Len(s))
        BY <2>2
      <4> QED
        BY <4>1
    <3>2. (s \o t)[k] = t[l]
      <4>1. k - Len(s) = l
        BY <3>1
      <4> QED
        BY <1>1, <2>2, <4>1
    <3> QED
      BY <3>1, <3>2
  <2> QED
    BY <2>1, <2>2
<1> QED
  BY <1>1, <1>2, SeqEqual

\* The parts that a sequence was joined from.
LEMMA Parts ==
  ASSUME NEW S, NEW s \in Seq(S), NEW t \in Seq(S)
  PROVE  /\ SubSeq(s \o t, 1, Len(s)) = s
         /\ SubSeq(s \o t, Len(s) + 1, Len(s \o t)) = t
<1> DEFINE u == s \o t
           n == Len(s)
<1>1. /\ u \in Seq(S) /\ Len(u) = n + Len(t) /\ n \in Nat /\ Len(t) \in Nat
      /\ \A k \in 1 .. n + Len(t) : u[k] = IF k <= n THEN s[k] ELSE t[k - n]
  BY ConcatProperties
<1> HIDE DEF u
<1>2. SubSeq(u, 1, n) = s
  <2>1. /\ SubSeq(u, 0 + 1, n) \in Seq(S) /\ Len(SubSeq(u, 0 + 1, n)) = n - 0
        /\ \A k \in 1 .. n - 0 : SubSeq(u, 0 + 1, n)[k] = u[0 + k]
    BY <1>1, Cut
  <2>2. /\ SubSeq(u, 1, n) \in Seq(S) /\ Len(SubSeq(u, 1, n)) = n
        /\ \A k \in 1 .. n : SubSeq(u, 1, n)[k] = s[k]
    BY <1>1, <2>1
  <2> QED
    BY <2>2, SeqEqual
<1>3. SubSeq(u, n + 1, Len(u)) = t
  <2>1. /\ SubSeq(u, n + 1, Len(u)) \in Seq(S) /\ Len(SubSeq(u, n + 1, Len(u))) = Len(u) - n
        /\ \A k \in 1 .. Len(u) - n : SubSeq(u, n + 1, Len(u))[k] = u[n + k]
    BY <1>1, Cut
  <2>2. Len(u) - n = Len(t)
    BY <1>1
  <2>3. ASSUME NEW k \in 1 .. Len(t) PROVE u[n + k] = t[k]
    <3>1. n + k \in 1 .. n + Len(t) /\ ~(n + k <= n) /\ (n + k) - n = k
      BY <1>1
    <3> QED
      BY <1>1, <3>1
  <2>4. \A k \in 1 .. Len(t) : SubSeq(u, n + 1, Len(u))[k] = t[k]
    BY <2>1, <2>2, <2>3
  <2> HIDE DEF n
  <2> QED
    BY <2>1, <2>2, <2>4, SeqEqual
<1> QED
  BY <1>2, <1>3 DEF u

\* A part of a part that starts where the slots do.
LEMMA CutAgain ==
  ASSUME NEW S, NEW m \in Seq(S), NEW l \in Nat, l <= Len(m),
         NEW i \in Nat, NEW j \in Nat, i <= j, j <= l
  PROVE  SubSeq(SubSeq(m, 1, l), i + 1, j) = SubSeq(m, i + 1, j)
<1> DEFINE s == SubSeq(m, 1, l)
           u == SubSeq(s, i + 1, j)
           v == SubSeq(m, i + 1, j)
<1>1. s \in Seq(S) /\ Len(s) = l /\ \A k \in 1 .. l : s[k] = m[k]
  <2>1. /\ SubSeq(m, 0 + 1, l) \in Seq(S) /\ Len(SubSeq(m, 0 + 1, l)) = l - 0
        /\ \A k \in 1 .. l - 0 : SubSeq(m, 0 + 1, l)[k] = m[0 + k]
    BY Cut
  <2> QED
    BY <2>1
<1> HIDE DEF s
<1>2. u \in Seq(S) /\ Len(u) = j - i /\ \A k \in 1 .. j - i : u[k] = s[i + k]
  BY <1>1, Cut
<1>3. v \in Seq(S) /\ Len(v) = j - i /\ \A k \in 1 .. j - i : v[k] = m[i + k]
  BY Cut
<1>4. \A k \in 1 .. j - i : s[i + k] = m[i + k]
  BY <1>1
<1> HIDE DEF u, v
<1>5. u = v
  BY <1>2, <1>3, <1>4, SeqEqual
<1> QED
  BY <1>5 DEF s, u, v

LEMMA CutItems ==
  ASSUME NEW S, memory \in Seq(S), NEW i \in Nat, NEW j \in Nat, i <= j, j <= Len(memory)
  PROVE  Promise!ToSet(SubSeq(memory, i + 1, j)) = Items(i, j)
<1> DEFINE s == SubSeq(memory, i + 1, j)
<1>1. s \in Seq(S) /\ Len(s) = j - i /\ \A k \in 1 .. j - i : s[k] = memory[i + k]
  BY Cut
<1>2. DOMAIN s = 1 .. j - i
  BY <1>1
<1> HIDE DEF s
<1>3. ASSUME NEW k \in i + 1 .. j PROVE \E l \in 1 .. j - i : s[l] = memory[k]
  <2>1. k - i \in 1 .. j - i /\ i + (k - i) = k
    OBVIOUS
  <2> QED
    BY <1>1, <2>1
<1>4. ASSUME NEW l \in 1 .. j - i PROVE \E k \in i + 1 .. j : s[l] = memory[k]
  <2>1. i + l \in i + 1 .. j
    OBVIOUS
  <2> QED
    BY <1>1, <2>1
<1>5. Promise!ToSet(s) = {s[l] : l \in 1 .. j - i}
  BY <1>2 DEF Promise!ToSet
<1>6. {s[l] : l \in 1 .. j - i} = Items(i, j)
  <2> DEFINE T == {s[l] : l \in 1 .. j - i}
  <2>1. \A z \in T : z \in Items(i, j)
    BY <1>4 DEF Items
  <2>2. \A z \in Items(i, j) : z \in T
    BY <1>3 DEF Items
  <2> HIDE DEF T
  <2>3. T = Items(i, j)
    BY <2>1, <2>2
  <2> QED
    BY <2>3 DEF T
<1> QED
  BY <1>5, <1>6 DEF s

\* Items in a sequence.
LEMMA OneInSeq == \A x : Promise!ToSet(<<x>>) = {x}
BY DEF Promise!ToSet
LEMMA TwoInSeq == \A x, y : Promise!ToSet(<<x, y>>) = {x, y}
BY DEF Promise!ToSet

\* What is counted in an account.
LEMMA AccountedItems ==
  ASSUME SlotInv, OwnerInv, NEW i \in Nat, NEW j \in Nat, (i + 1 .. j) \subseteq Live,
         NEW of \in [Item -> Nat]
  PROVE  /\ Account(of, i, j) \in [Item -> Nat]
         /\ \A x \in Item : Account(of, i, j)[x] = of[x] + IF x \in Items(i, j) THEN 1 ELSE 0
<1>1. ASSUME NEW x \in Item
      PROVE  InSlots(i, j, x) = IF x \in Items(i, j) THEN 1 ELSE 0
  <2>1. InSlots(i, j, x) = IF Where(x) \cap (i + 1 .. j) = {} THEN 0 ELSE 1
    BY SlotsCount DEF OwnerInv
  <2>2. Where(x) \cap (i + 1 .. j) = {} <=> x \notin Items(i, j)
    BY DEF Where, Items
  <2> QED
    BY <2>1, <2>2
<1> QED
  BY <1>1 DEF Account

WholeSeen ==
  /\ Elems = SubSeq(memory, 1, len) /\ Departing = <<>> /\ range.from = 0
  /\ memory \in Seq(Bits) /\ len \in Nat /\ len <= Len(memory)
  /\ Elems \in Seq(Bits) /\ Len(Elems) = len /\ \A k \in 1 .. len : Elems[k] = memory[k]
  /\ Live = 1 .. len

LEMMA WholeView == SlotInv /\ RangeInv /\ Whole => WholeSeen
<1> SUFFICES ASSUME SlotInv, RangeInv, Whole PROVE WholeSeen
  OBVIOUS
<1>1. Elems = SubSeq(memory, 1, len) /\ Live = 1 .. len
  BY DEF Elems, Live, Whole, Iterating
<1>2. Departing = <<>> /\ range.from = 0
  BY SubSeqEmpty DEF Departing, RangeInv, NoRange
<1>3. memory \in Seq(Bits) /\ len \in Nat /\ len <= Len(memory)
  <2>1. kind \in {"vec", "single_or_vec", "boxed", "single", "none"}
    BY DEF SlotInv, Shape, Kind, Whole, Iterating
  <2>2. CASE kind \in {"vec", "single_or_vec", "boxed"}
    BY <2>2 DEF SlotInv, Shape, VecInv, BoxedInv, HasBuffer, IsVec
  <2>3. CASE kind = "single"
    <3>1. memory \in Seq(Bits)
      BY DEF SlotInv, Shape
    <3>2. Len(memory) = 1 /\ len = 1
      BY <2>3 DEF SlotInv, SingleInv
    <3> QED
      BY <3>1, <3>2
  <2>4. CASE kind = "none"
    BY <2>4 DEF SlotInv, Shape, NoneInv
  <2> QED
    BY <2>1, <2>2, <2>3, <2>4
<1>4. /\ SubSeq(memory, 0 + 1, len) \in Seq(Bits) /\ Len(SubSeq(memory, 0 + 1, len)) = len - 0
      /\ \A k \in 1 .. len - 0 : SubSeq(memory, 0 + 1, len)[k] = memory[0 + k]
  BY <1>3, Cut
<1>5. /\ SubSeq(memory, 1, len) \in Seq(Bits) /\ Len(SubSeq(memory, 1, len)) = len
      /\ \A k \in 1 .. len : SubSeq(memory, 1, len)[k] = memory[k]
  BY <1>3, <1>4
<1> QED
  BY <1>1, <1>2, <1>3, <1>5 DEF WholeSeen

LEMMA WholeViewNext == ASSUME SlotInv', RangeInv', Whole' PROVE WholeSeen'
BY WholeView, PTL

\* While a drain is under way, what is before it and what is behind it.
Front == SubSeq(memory, 1, len)
Back == SubSeq(memory, range.to + 1, range.original_len)

DrainSeen ==
  /\ Elems = Front \o Back
  /\ Front \in Seq(Bits) /\ Len(Front) = len
  /\ \A k \in 1 .. len : Front[k] = memory[k]
  /\ Departing \in Seq(Bits) /\ Len(Departing) = range.rindex - range.lindex
  /\ \A k \in 1 .. range.rindex - range.lindex : Departing[k] = memory[range.lindex + k]
  /\ Back \in Seq(Bits) /\ Len(Back) = range.original_len - range.to
  /\ \A k \in 1 .. range.original_len - range.to : Back[k] = memory[range.to + k]
  /\ memory \in Seq(Bits) /\ range.original_len <= Len(memory)

LEMMA DrainView ==
  ASSUME SlotInv, kind \in {"drain", "double_ended"}
  PROVE  DrainSeen
<1>1. Elems = Front \o Back
  BY DEF Elems, Front, Back
<1>2. /\ memory \in Seq(Bits) /\ range.original_len <= Len(memory) /\ Len(memory) \in Nat
      /\ range.to \in Nat
  BY DEF SlotInv, Shape, DrainInv, HasBuffer
<1> DEFINE i == range.lindex
           j == range.rindex
           o == range.original_len
           t == range.to
<1>3. /\ len \in Nat /\ i \in Nat /\ j \in Nat /\ o \in Nat /\ t \in Nat
      /\ t = j /\ len <= i /\ i <= j /\ j <= o /\ o <= Len(memory)
  BY <1>2, DrainLive
<1> HIDE DEF i, j, o, t
<1>4. /\ SubSeq(memory, 0 + 1, len) \in Seq(Bits) /\ Len(SubSeq(memory, 0 + 1, len)) = len - 0
      /\ \A k \in 1 .. len - 0 : SubSeq(memory, 0 + 1, len)[k] = memory[0 + k]
  BY <1>2, <1>3, Cut
<1>5. /\ Front \in Seq(Bits) /\ Len(Front) = len
      /\ \A k \in 1 .. len : Front[k] = memory[k]
  BY <1>3, <1>4 DEF Front
<1>6. /\ SubSeq(memory, i + 1, j) \in Seq(Bits) /\ Len(SubSeq(memory, i + 1, j)) = j - i
      /\ \A k \in 1 .. j - i : SubSeq(memory, i + 1, j)[k] = memory[i + k]
  BY <1>2, <1>3, Cut
<1>7. /\ SubSeq(memory, t + 1, o) \in Seq(Bits) /\ Len(SubSeq(memory, t + 1, o)) = o - t
      /\ \A k \in 1 .. o - t : SubSeq(memory, t + 1, o)[k] = memory[t + k]
  BY <1>2, <1>3, Cut
<1> QED
  BY <1>1, <1>2, <1>5, <1>6, <1>7 DEF DrainSeen, Departing, Back, i, j, o, t

\* A container that keeps its items is the same to the program.
LEMMA QuietView ==
  ASSUME SlotInv, RangeInv, Whole, SlotInv', RangeInv', Whole', UNCHANGED <<len, ledger>>,
         \A k \in 1 .. len : memory'[k] = memory[k]
  PROVE  UNCHANGED Promise!vars
<1>1. WholeSeen /\ WholeSeen'
  BY WholeView, WholeViewNext
<1>2. Elems' = Elems
  <2>1. /\ Elems' \in Seq(Bits) /\ Elems \in Seq(Bits) /\ Len(Elems') = Len(Elems)
        /\ \A k \in 1 .. Len(Elems') : Elems'[k] = Elems[k]
    BY <1>1 DEF WholeSeen
  <2> QED
    BY <2>1, SeqEqual
<1>3. Departing' = Departing /\ range'.from = range.from
  BY <1>1 DEF WholeSeen
<1>4. Held' = Held /\ Lost' = Lost
  BY DEF ledger, Held, Lost
<1> QED
  BY <1>2, <1>3, <1>4 DEF Promise!vars, Elems, Departing, Held, Lost

\* Items are stored behind those there are.
LEMMA PushView ==
  ASSUME SlotInv, RangeInv, Whole, SlotInv', RangeInv', Whole',
         NEW xs \in Seq(Item), len' = len + Len(xs),
         \A k \in 1 .. len : memory'[k] = memory[k],
         \A k \in 1 .. Len(xs) : memory'[len + k] = xs[k],
         Promise!ToSet(xs) \subseteq Held, Held' = Held \ Promise!ToSet(xs),
         UNCHANGED <<dropped, leaked>>
  PROVE  Promise!Push(xs)
<1>1. WholeSeen /\ WholeSeen'
  BY WholeView, WholeViewNext
<1>2. Elems' = Elems \o xs
  <2>1. Len(xs) \in Nat /\ xs \in Seq(Bits)
    BY DEF Bits
  <2>2. /\ Elems' \in Seq(Bits) /\ Elems \in Seq(Bits) /\ Len(Elems) = len /\ len \in Nat
        /\ Len(Elems') = Len(Elems) + Len(xs)
        /\ \A k \in 1 .. Len(Elems) : Elems'[k] = Elems[k]
    BY <1>1, <2>1 DEF WholeSeen
  <2>3. ASSUME NEW k \in 1 .. Len(xs) PROVE Elems'[Len(Elems) + k] = xs[k]
    <3>1. len + k \in 1 .. len'
      BY <2>1, <2>2
    <3> QED
      BY <1>1, <2>2, <3>1 DEF WholeSeen
  <2> QED
    BY <2>1, <2>2, <2>3, Joined
<1>3. Departing' = Departing /\ range'.from = range.from /\ Lost' = Lost
  BY <1>1 DEF WholeSeen, Lost
<1> QED
  BY <1>2, <1>3 DEF Promise!Push, Elems, Departing, Held, Lost

\* The program gives an item away, or two.
LEMMA GiveHeld ==
  ASSUME OwnerInv, NEW xs \in SUBSET Item, \A x \in xs : held[x] > 0,
         held' = [x \in Item |-> IF x \in xs THEN held[x] - 1 ELSE held[x]]
  PROVE  Held' = Held \ xs
<1>1. \A x \in xs : held[x] = 1
  <2> SUFFICES ASSUME NEW x \in xs PROVE held[x] = 1
    OBVIOUS
  <2>1. held[x] \in Nat /\ dropped[x] \in Nat /\ leaked[x] \in Nat /\ held[x] > 0
    BY DEF OwnerInv, Ledgers
  <2>2. held[x] + dropped[x] + leaked[x] \in {0, 1}
    BY DEF OwnerInv, OneOwner, Count
  <2> QED
    BY <2>1, <2>2
<1> QED
  BY <1>1 DEF Held

-----------------------------------------------------------------------------

Good == SlotInv /\ OwnerInv /\ RangeInv

LEMMA PushRefines ==
  ASSUME Good, Good', ~PushDangling, NEW x \in Item,
         TryPush(x) \/ BoxedPush(x) \/ PushSingle(x) \/ Spill(x)
  PROVE  Promise!Push(<<x>>)
<1> DEFINE xs == <<x>>
<1>1. /\ ~Iterating /\ ~Iterating'
      /\ held[x] > 0 /\ Give(x) /\ UNCHANGED <<dropped, leaked>>
      /\ len \in Nat /\ len' = len + 1
      /\ \A k \in 1 .. len : memory'[k] = memory[k]
      /\ memory'[len + 1] = x
  BY OneStored DEF Good
<1>2. xs \in Seq(Item) /\ Len(xs) = 1 /\ xs[1] = x /\ Promise!ToSet(xs) = {x}
  BY OneInSeq
<1>3. held' = [z \in Item |-> IF z \in {x} THEN held[z] - 1 ELSE held[z]]
  BY <1>1 DEF Give, Good, OwnerInv, Ledgers
<1>4. Held' = Held \ {x} /\ {x} \subseteq Held
  BY <1>1, <1>3, GiveHeld DEF Good, Held
<1> HIDE DEF xs
<1>5. \A k \in 1 .. Len(xs) : memory'[len + k] = xs[k]
  BY <1>1, <1>2
<1>6. Promise!Push(xs)
  BY <1>1, <1>2, <1>4, <1>5, PushView DEF Good, Whole
<1> QED
  BY <1>6 DEF xs

LEMMA ExtendRefines ==
  ASSUME Good, Good', NEW x \in Item, NEW y \in Item, Extend(x, y)
  PROVE  x # y /\ Promise!Push(<<x, y>>)
<1> DEFINE xs == <<x, y>>
<1>1. /\ ~Iterating /\ ~Iterating'
      /\ x # y /\ held[x] > 0 /\ held[y] > 0
      /\ held' = [held EXCEPT ![x] = @ - 1, ![y] = @ - 1] /\ UNCHANGED <<dropped, leaked>>
      /\ len \in Nat /\ len' = len + 2
      /\ \A k \in 1 .. len : memory'[k] = memory[k]
      /\ memory'[len + 1] = x /\ memory'[len + 2] = y
  BY TwoStored DEF Good
<1>2. /\ xs \in Seq(Item) /\ Len(xs) = 2 /\ xs[1] = x /\ xs[2] = y
      /\ Promise!ToSet(xs) = {x, y}
  BY TwoInSeq
<1>3. held' = [z \in Item |-> IF z \in {x, y} THEN held[z] - 1 ELSE held[z]]
  BY <1>1 DEF Good, OwnerInv, Ledgers
<1>4. Held' = Held \ {x, y} /\ {x, y} \subseteq Held
  <2> DEFINE zs == {x, y}
  <2>1. zs \in SUBSET Item /\ \A z \in zs : held[z] > 0
    BY <1>1
  <2>2. held' = [z \in Item |-> IF z \in zs THEN held[z] - 1 ELSE held[z]]
    BY <1>3
  <2> HIDE DEF zs
  <2>3. Held' = Held \ zs /\ zs \subseteq Held
    BY <2>1, <2>2, GiveHeld DEF Good, Held
  <2> QED
    BY <2>3 DEF zs
<1> HIDE DEF xs
<1>5. \A k \in 1 .. Len(xs) : memory'[len + k] = xs[k]
  BY <1>1, <1>2
<1>6. Promise!Push(xs)
  BY <1>1, <1>2, <1>4, <1>5, PushView DEF Good, Whole
<1> QED
  BY <1>1, <1>6 DEF xs

LEMMA PanicRefines ==
  ASSUME Good, Good', NEW x \in Item, NEW y \in Item, PushPanics({x, y})
  PROVE  Promise!Refuse({x, y})
<1>1. /\ Whole /\ Whole' /\ UNCHANGED <<memory, kind, len, range, leaked>>
      /\ \A z \in {x, y} : held[z] > 0
      /\ held' = [z \in Item |-> IF z \in {x, y} THEN held[z] - 1 ELSE held[z]]
      /\ dropped' = [z \in Item |-> IF z \in {x, y} THEN dropped[z] + 1 ELSE dropped[z]]
  BY DEF PushPanics, buffer, Whole, Iterating, IsVec
<1>2. Held' = Held \ {x, y} /\ {x, y} \subseteq Held
  BY <1>1, GiveHeld DEF Good, Held
<1>3. Lost' = Lost \cup {x, y}
  BY <1>1 DEF Lost, Good, OwnerInv, Ledgers
<1>4. Elems' = Elems /\ Departing' = Departing /\ range'.from = range.from
  BY <1>1 DEF Elems, Departing
<1> QED
  BY <1>2, <1>3, <1>4 DEF Promise!Refuse, Elems, Departing, Held, Lost

\* What leaves the container is held by the program, or gone.
LEMMA LeaveHeld ==
  ASSUME Good, NEW i \in Nat, NEW j \in Nat, (i + 1 .. j) \subseteq Live,
         held' = Account(held, i, j), UNCHANGED <<dropped, leaked>>
  PROVE  Held' = Held \cup Items(i, j) /\ Lost' = Lost
<1>1. Items(i, j) \subseteq Item
  BY LiveSlotsHoldItems DEF Items, Good
<1>2. \A x \in Item : held'[x] = held[x] + IF x \in Items(i, j) THEN 1 ELSE 0
  BY AccountedItems DEF Good, OwnerInv, Ledgers
<1> QED
  BY <1>1, <1>2 DEF Held, Lost, Good, OwnerInv, Ledgers

LEMMA LeaveLost ==
  ASSUME Good, NEW i \in Nat, NEW j \in Nat, (i + 1 .. j) \subseteq Live,
         dropped' = Account(dropped, i, j), UNCHANGED <<held, leaked>>
  PROVE  Lost' = Lost \cup Items(i, j) /\ Held' = Held
<1>1. Items(i, j) \subseteq Item
  BY LiveSlotsHoldItems DEF Items, Good
<1>2. \A x \in Item : dropped'[x] = dropped[x] + IF x \in Items(i, j) THEN 1 ELSE 0
  BY AccountedItems DEF Good, OwnerInv, Ledgers
<1>3. \A x \in Item : dropped[x] \in Nat /\ leaked[x] \in Nat /\ leaked'[x] = leaked[x]
  BY DEF Good, OwnerInv, Ledgers
<1> QED
  BY <1>1, <1>2, <1>3 DEF Held, Lost

\* One item leaves a vector: what follows it moves up, or the last one takes its place.
LEMMA TakeOutHeld ==
  ASSUME Good, NEW i \in Nat, i + 1 \in Live,
         held' = Account(held, i, i + 1), UNCHANGED <<dropped, leaked>>
  PROVE  Held' = Held \cup {memory[i + 1]} /\ Lost' = Lost
<1> DEFINE j == i + 1
<1>1. j \in Nat /\ (i + 1 .. j) \subseteq Live /\ held' = Account(held, i, j)
  OBVIOUS
<1>2. Items(i, j) = {memory[i + 1]}
  <2>1. i + 1 .. j = {i + 1}
    OBVIOUS
  <2> QED
    BY <2>1 DEF Items
<1> HIDE DEF j
<1> QED
  BY <1>1, <1>2, LeaveHeld

LEMMA RemoveRefines ==
  ASSUME Good, Good', NEW i \in Nat, Remove(i)
  PROVE  i + 1 \in 1 .. Len(Elems) /\ Promise!TakeOut(i + 1)
<1>1. /\ kind = "vec" /\ kind' = "vec" /\ i < len /\ len' = len - 1
      /\ held' = Account(held, i, i + 1) /\ UNCHANGED <<dropped, leaked>>
      /\ memory' = Copy(memory, i, i + 1, len - (i + 1))
  BY DEF Remove
<1>2. WholeSeen /\ WholeSeen'
  BY <1>1, WholeView, WholeViewNext DEF Good, Whole, Iterating
<1>3. \A k \in 1 .. len - 1 : memory'[k] = IF k > i THEN memory[k + 1] ELSE memory[k]
  BY <1>1, <1>2 DEF Copy, WholeSeen
<1> DEFINE l == i + 1
           s == SubSeq(Elems, 1, i)
           t == SubSeq(Elems, l + 1, len)
<1>4. /\ Elems \in Seq(Bits) /\ Len(Elems) = len /\ len \in Nat
      /\ \A k \in 1 .. len : Elems[k] = memory[k]
      /\ Elems' \in Seq(Bits) /\ Len(Elems') = len - 1
      /\ \A k \in 1 .. len - 1 : Elems'[k] = memory'[k]
      /\ l \in 1 .. len /\ Live = 1 .. len
  BY <1>1, <1>2 DEF WholeSeen
<1>5. s \in Seq(Bits) /\ Len(s) = i /\ \A k \in 1 .. i : s[k] = Elems[k]
  <2>1. /\ SubSeq(Elems, 0 + 1, i) \in Seq(Bits) /\ Len(SubSeq(Elems, 0 + 1, i)) = i - 0
        /\ \A k \in 1 .. i - 0 : SubSeq(Elems, 0 + 1, i)[k] = Elems[0 + k]
    BY <1>1, <1>4, Cut
  <2> QED
    BY <2>1
<1>6. t \in Seq(Bits) /\ Len(t) = len - l /\ \A k \in 1 .. len - l : t[k] = Elems[l + k]
  <2>1. l \in Nat /\ l <= len /\ len \in Nat /\ len <= Len(Elems) /\ Elems \in Seq(Bits)
    BY <1>4
  <2> HIDE DEF l
  <2> QED
    BY <2>1, Cut
<1>7. Elems' = s \o t
  <2>0. Len(s) = i /\ Len(t) = len - l /\ Len(Elems') = len - 1 /\ len \in Nat /\ l = i + 1
    <3>1. l = i + 1
      OBVIOUS
    <3> HIDE DEF s, t, l
    <3> QED
      BY <1>4, <1>5, <1>6, <3>1
  <2>1. Len(Elems') = Len(s) + Len(t) /\ Len(s) = i /\ Len(t) = len - l
    <3> HIDE DEF s, t, l
    <3> QED
      BY <2>0
  <2>2. ASSUME NEW k \in 1 .. i PROVE Elems'[k] = s[k]
    <3> HIDE DEF s, t, l
    <3>1. k \in 1 .. len - 1 /\ k \in 1 .. len /\ ~(k > i)
      BY <1>1, <2>0
    <3>2. Elems'[k] = memory[k]
      BY <1>3, <1>4, <3>1
    <3> QED
      BY <1>4, <1>5, <3>1, <3>2
  <2>3. ASSUME NEW k \in 1 .. len - l PROVE Elems'[i + k] = t[k]
    <3>1. /\ i + k \in 1 .. len - 1 /\ i + k > i /\ (i + k) + 1 = l + k
          /\ l + k \in 1 .. len
      BY <1>1, <1>4
    <3>2. Elems'[i + k] = memory[l + k]
      BY <1>3, <1>4, <3>1
    <3> QED
      BY <1>4, <1>6, <3>1, <3>2
  <2>4. \A k \in 1 .. Len(s) : Elems'[k] = s[k]
    BY <2>1, <2>2
  <2>5. \A k \in 1 .. Len(t) : Elems'[Len(s) + k] = t[k]
    BY <2>1, <2>3
  <2> HIDE DEF s, t, l
  <2> QED
    BY <1>4, <1>5, <1>6, <2>1, <2>4, <2>5, Joined
<1>8. Promise!RemoveAt(Elems, i + 1) = s \o t
  <2>1. l - 1 = i
    OBVIOUS
  <2> QED
    BY <1>4, <2>1 DEF Promise!RemoveAt
<1>9. Held' = Held \cup {Elems[i + 1]} /\ Lost' = Lost
  BY <1>1, <1>4, TakeOutHeld
<1>10. Departing' = Departing /\ range'.from = range.from
  BY <1>2 DEF WholeSeen
<1> HIDE DEF s, t
<1>11. Promise!TakeOut(i + 1)
  BY <1>7, <1>8, <1>9, <1>10 DEF Promise!TakeOut, Elems, Departing, Held, Lost
<1> QED
  BY <1>4, <1>11

LEMMA SwapRemoveRefines ==
  ASSUME Good, Good', NEW i \in Nat, SwapRemove(i)
  PROVE  i + 1 \in 1 .. Len(Elems) /\ Promise!TakeOutSwapping(i + 1)
<1>1. /\ kind = "vec" /\ kind' = "vec" /\ i < len /\ len' = len - 1
      /\ held' = Account(held, i, i + 1) /\ UNCHANGED <<dropped, leaked>>
      /\ memory' = [memory EXCEPT ![i + 1] = memory[len], ![len] = memory[i + 1]]
  BY DEF SwapRemove
<1>2. WholeSeen /\ WholeSeen'
  BY <1>1, WholeView, WholeViewNext DEF Good, Whole, Iterating
<1>3. \A k \in 1 .. len - 1 : memory'[k] = IF k = i + 1 THEN memory[len] ELSE memory[k]
  BY <1>1, <1>2 DEF WholeSeen
<1> PICK n \in Nat : len = n + 1 /\ len' = n
  <2>1. len \in Nat /\ len - 1 \in Nat
    BY <1>1, <1>2 DEF WholeSeen
  <2> QED
    BY <1>1, <2>1
<1> DEFINE r == [Elems EXCEPT ![i + 1] = Elems[len]]
<1>4. /\ Elems \in Seq(Bits) /\ Len(Elems) = len /\ len \in Nat /\ n \in Nat
      /\ \A k \in 1 .. len : Elems[k] = memory[k]
      /\ Elems' \in Seq(Bits) /\ Len(Elems') = n
      /\ \A k \in 1 .. n : Elems'[k] = memory'[k]
      /\ i + 1 \in 1 .. len /\ Live = 1 .. len
  <2>1. /\ Elems' \in Seq(Bits) /\ Len(Elems') = n
        /\ \A k \in 1 .. n : Elems'[k] = memory'[k]
    BY <1>2 DEF WholeSeen
  <2>2. i + 1 \in 1 .. len
    BY <1>1
  <2> QED
    BY <1>2, <2>1, <2>2 DEF WholeSeen
<1>5. /\ r \in Seq(Bits) /\ Len(r) = len
      /\ \A k \in 1 .. len : r[k] = IF k = i + 1 THEN Elems[len] ELSE Elems[k]
  <2>1. Elems[len] \in Bits
    BY <1>4
  <2> QED
    BY <1>4, <2>1
<1>6. Promise!Front(Promise!ReplaceAt(Elems, i + 1, Promise!Last(Elems))) = SubSeq(r, 1, n)
  BY <1>4, <1>5 DEF Promise!Front, Promise!ReplaceAt, Promise!Last
<1>7. Elems' = SubSeq(r, 1, n)
  <2>1. /\ SubSeq(r, 0 + 1, n) \in Seq(Bits) /\ Len(SubSeq(r, 0 + 1, n)) = n - 0
        /\ \A k \in 1 .. n - 0 : SubSeq(r, 0 + 1, n)[k] = r[0 + k]
    <3> HIDE DEF r
    <3>1. 0 <= n /\ n <= Len(r)
      BY <1>4, <1>5
    <3> QED
      BY <1>5, <3>1, Cut
  <2>2. /\ SubSeq(r, 1, n) \in Seq(Bits) /\ Len(SubSeq(r, 1, n)) = n
        /\ \A k \in 1 .. n : SubSeq(r, 1, n)[k] = r[k]
    BY <1>4, <2>1
  <2>3. ASSUME NEW k \in 1 .. n PROVE Elems'[k] = SubSeq(r, 1, n)[k]
    <3> HIDE DEF r
    <3>1. k \in 1 .. len /\ k \in 1 .. len - 1 /\ len \in 1 .. len
      BY <1>4
    <3>2. SubSeq(r, 1, n)[k] = IF k = i + 1 THEN Elems[len] ELSE Elems[k]
      BY <1>5, <2>2, <3>1
    <3>3. Elems'[k] = IF k = i + 1 THEN memory[len] ELSE memory[k]
      BY <1>3, <1>4, <3>1
    <3> QED
      BY <1>4, <3>1, <3>2, <3>3
  <2> HIDE DEF r
  <2> QED
    BY <1>4, <2>2, <2>3, SeqEqual
<1>8. Held' = Held \cup {Elems[i + 1]} /\ Lost' = Lost
  BY <1>1, <1>4, TakeOutHeld
<1>9. Departing' = Departing /\ range'.from = range.from
  BY <1>2 DEF WholeSeen
<1> HIDE DEF r
<1>10. Promise!TakeOutSwapping(i + 1)
  BY <1>6, <1>7, <1>8, <1>9 DEF Promise!TakeOutSwapping, Elems, Departing, Held, Lost
<1> QED
  BY <1>4, <1>10

\* The items from n on are destroyed; all of them if the container is.
LEMMA TruncateView ==
  ASSUME Good, Good', Whole, Whole', NEW n \in Nat, n <= len, len' = n,
         \A k \in 1 .. n : memory'[k] = memory[k],
         dropped' = Account(dropped, n, len), UNCHANGED <<held, leaked>>
  PROVE  n \in 0 .. Len(Elems) /\ Promise!Truncate(n)
<1>1. WholeSeen /\ WholeSeen'
  BY WholeView, WholeViewNext DEF Good
<1>2. /\ Elems \in Seq(Bits) /\ Len(Elems) = len /\ len \in Nat
      /\ \A k \in 1 .. len : Elems[k] = memory[k]
      /\ Elems' \in Seq(Bits) /\ Len(Elems') = n
      /\ \A k \in 1 .. n : Elems'[k] = memory'[k]
      /\ Live = 1 .. len
  BY <1>1 DEF WholeSeen
<1>3. Elems' = SubSeq(Elems, 1, n)
  <2>1. /\ SubSeq(Elems, 0 + 1, n) \in Seq(Bits) /\ Len(SubSeq(Elems, 0 + 1, n)) = n - 0
        /\ \A k \in 1 .. n - 0 : SubSeq(Elems, 0 + 1, n)[k] = Elems[0 + k]
    BY <1>2, Cut
  <2>2. /\ SubSeq(Elems, 1, n) \in Seq(Bits) /\ Len(SubSeq(Elems, 1, n)) = n
        /\ \A k \in 1 .. n : SubSeq(Elems, 1, n)[k] = Elems[k]
    BY <2>1
  <2>3. \A k \in 1 .. n : Elems'[k] = SubSeq(Elems, 1, n)[k]
    BY <1>2, <2>2
  <2> QED
    BY <1>2, <2>2, <2>3, SeqEqual
<1>4. Promise!ToSet(SubSeq(Elems, n + 1, Len(Elems))) = Items(n, len)
  <2>1. SubSeq(Elems, n + 1, len) = SubSeq(memory, n + 1, len)
    BY <1>1, <1>2, CutAgain DEF WholeSeen
  <2>2. Promise!ToSet(SubSeq(memory, n + 1, len)) = Items(n, len)
    <3>1. PICK l \in Nat : l = len
      BY <1>2
    <3>2. memory \in Seq(Bits) /\ n <= l /\ l <= Len(memory)
      BY <1>1, <3>1 DEF WholeSeen
    <3>3. Promise!ToSet(SubSeq(memory, n + 1, l)) = Items(n, l)
      BY <3>2, CutItems
    <3> QED
      BY <3>1, <3>3
  <2> QED
    BY <1>2, <2>1, <2>2
<1>5. Lost' = Lost \cup Items(n, len) /\ Held' = Held
  <2>1. (n + 1 .. len) \subseteq Live
    BY <1>2
  <2> QED
    BY <1>2, <2>1, LeaveLost
<1>6. Departing' = Departing /\ range'.from = range.from
  BY <1>1 DEF WholeSeen
<1>7. Promise!Truncate(n)
  BY <1>3, <1>4, <1>5, <1>6 DEF Promise!Truncate, Elems, Departing, Held, Lost
<1> QED
  BY <1>2, <1>7

LEMMA TruncateRefines ==
  ASSUME Good, Good', NEW n \in Nat, Truncate(n)
  PROVE  n \in 0 .. Len(Elems) /\ Promise!Truncate(n)
BY TruncateView DEF Truncate, IsVec, buffer, Whole, Iterating

LEMMA DropRefines ==
  ASSUME Good, Good', DropVec \/ DropBoxed \/ DropSingle
  PROVE  0 \in 0 .. Len(Elems) /\ Promise!Truncate(0)
<1>1. /\ Whole /\ Whole' /\ len' = 0
      /\ dropped' = Account(dropped, 0, len) /\ UNCHANGED <<held, leaked>>
  <2>1. CASE DropVec
    BY <2>1 DEF DropVec, Gone, IsVec, Whole, Iterating
  <2>2. CASE DropBoxed
    BY <2>2 DEF DropBoxed, Gone, Whole, Iterating
  <2>3. CASE DropSingle
    BY <2>3 DEF DropSingle, Gone, Whole, Iterating, Good, SlotInv, SingleInv
  <2> QED
    BY <2>1, <2>2, <2>3
<1>2. len \in Nat
  BY DEF Good, SlotInv, Shape
<1> QED
  BY <1>1, <1>2, TruncateView

-----------------------------------------------------------------------------

LEMMA DrainRefines ==
  ASSUME Good, Good', NEW from \in Nat, NEW to \in Nat, Drain(from, to)
  PROVE  /\ from \in 0 .. Len(Elems) /\ to \in 0 .. Len(Elems) /\ from <= to
         /\ Promise!Drain(from, to)
<1>1. /\ kind = "vec" /\ kind' = "drain" /\ from <= to /\ to <= len
      /\ range' = [from |-> from, to |-> to, lindex |-> from, rindex |-> to, original_len |-> len]
      /\ len' = from /\ UNCHANGED <<memory, ledger>>
  BY DEF Drain, buffer
<1>2. WholeSeen
  BY <1>1, WholeView DEF Good, Whole, Iterating
<1>3. PICK l \in Nat : l = len
  BY <1>2 DEF WholeSeen
<1>4. memory \in Seq(Bits) /\ l <= Len(memory) /\ Elems = SubSeq(memory, 1, l) /\ Len(Elems) = l
  BY <1>2, <1>3 DEF WholeSeen
<1>5. /\ SubSeq(Elems, 0 + 1, from) = SubSeq(memory, 0 + 1, from)
      /\ SubSeq(Elems, to + 1, l) = SubSeq(memory, to + 1, l)
      /\ SubSeq(Elems, from + 1, to) = SubSeq(memory, from + 1, to)
  BY <1>1, <1>3, <1>4, CutAgain
<1>6. Elems' = SubSeq(Elems, 1, from) \o SubSeq(Elems, to + 1, Len(Elems))
  <2>1. Elems' = SubSeq(memory, 1, from) \o SubSeq(memory, to + 1, l)
    BY <1>1, <1>3 DEF Elems
  <2>2. SubSeq(Elems, 1, from) = SubSeq(memory, 1, from)
    BY <1>5
  <2>3. SubSeq(Elems, to + 1, Len(Elems)) = SubSeq(memory, to + 1, l)
    BY <1>4, <1>5
  <2> QED
    BY <2>1, <2>2, <2>3
<1>7. Departing' = SubSeq(Elems, from + 1, to) /\ range'.from = from /\ Departing = <<>>
  BY <1>1, <1>2, <1>5 DEF Departing, WholeSeen
<1>8. Held' = Held /\ Lost' = Lost
  BY <1>1 DEF ledger, Held, Lost
<1>9. Promise!Drain(from, to)
  BY <1>6, <1>7, <1>8 DEF Promise!Drain, Elems, Departing, Held, Lost
<1> QED
  BY <1>1, <1>3, <1>4, <1>9

\* An IntoIter is a drain of the whole vector.
LEMMA IntoIterRefines ==
  ASSUME Good, Good', IntoIter
  PROVE  /\ 0 \in 0 .. Len(Elems) /\ Len(Elems) \in 0 .. Len(Elems) /\ 0 <= Len(Elems)
         /\ Promise!Drain(0, Len(Elems))
<1>1. /\ kind = "vec" /\ kind' = "into_iter" /\ UNCHANGED <<memory, len, ledger>>
      /\ range'.from = 0 /\ range'.lindex = 0 /\ range'.rindex = len
  BY DEF IntoIter, buffer, NoRange
<1>2. WholeSeen
  BY <1>1, WholeView DEF Good, Whole, Iterating
<1>3. PICK l \in Nat : l = Len(Elems)
  BY <1>2 DEF WholeSeen
<1>4. Elems \in Seq(Bits) /\ Elems = SubSeq(memory, 1, l) /\ l = len /\ Departing = <<>>
      /\ memory \in Seq(Bits) /\ l <= Len(memory) /\ range.from = 0
  BY <1>2, <1>3 DEF WholeSeen
<1>5. SubSeq(Elems, 1, 0) = <<>> /\ SubSeq(Elems, l + 1, l) = <<>>
  BY SubSeqEmpty
<1>6. Elems' = SubSeq(Elems, 1, 0) \o SubSeq(Elems, l + 1, l)
  <2>1. Elems' = <<>>
    BY <1>1 DEF Elems
  <2>2. <<>> \o <<>> = <<>>
    BY EmptySeq, ConcatEmptySeq
  <2> QED
    BY <1>5, <2>1, <2>2
<1>7. Departing' = SubSeq(Elems, 0 + 1, l)
  <2>1. SubSeq(Elems, 0 + 1, l) = SubSeq(memory, 0 + 1, l)
    BY <1>4, CutAgain
  <2> QED
    BY <1>1, <1>4, <2>1 DEF Departing
<1>8. Held' = Held /\ Lost' = Lost
  BY <1>1 DEF ledger, Held, Lost
<1>9. Promise!Drain(0, l)
  BY <1>1, <1>3, <1>4, <1>6, <1>7, <1>8 DEF Promise!Drain, Elems, Departing, Held, Lost
<1> QED
  BY <1>3, <1>9

\* What an iterator did not hand out yet.
LEMMA LeavingView ==
  SlotInv /\ Iterating
  => /\ memory \in Seq(Bits)
     /\ range.lindex \in Nat /\ range.rindex \in Nat
     /\ range.lindex <= range.rindex /\ range.rindex <= Len(memory)
     /\ (range.lindex + 1 .. range.rindex) \subseteq Live
<1> SUFFICES ASSUME SlotInv, Iterating
             PROVE  /\ memory \in Seq(Bits)
                    /\ range.lindex \in Nat /\ range.rindex \in Nat
                    /\ range.lindex <= range.rindex /\ range.rindex <= Len(memory)
                    /\ (range.lindex + 1 .. range.rindex) \subseteq Live
  OBVIOUS
<1>1. memory \in Seq(Bits) /\ range.lindex \in Nat /\ range.rindex \in Nat
  BY DEF SlotInv, Shape
<1>2. CASE kind = "into_iter"
  BY <1>1, <1>2 DEF SlotInv, Shape, IterInv, HasBuffer, Live, Leaving
<1>3. CASE kind \in {"drain", "double_ended"}
  BY <1>1, <1>3 DEF SlotInv, Shape, DrainInv, HasBuffer, Live, Leaving
<1> QED
  BY <1>2, <1>3 DEF Iterating

LEMMA HandOutRefines == ASSUME Good, Good', HandOut PROVE Promise!HandOut
<1> DEFINE i == range.lindex
           j == range.rindex
<1>1. /\ Iterating /\ i < j
      /\ held' = Account(held, i, i + 1)
      /\ range' = [range EXCEPT !.lindex = @ + 1]
      /\ UNCHANGED <<kind, memory, len, dropped, leaked>>
  BY DEF HandOut, Iterating, buffer
<1>2. /\ memory \in Seq(Bits) /\ i \in Nat /\ j \in Nat /\ i <= j /\ j <= Len(memory)
      /\ (i + 1 .. j) \subseteq Live
  BY <1>1, LeavingView DEF Good
<1>3. /\ range'.lindex = i + 1 /\ range'.rindex = j /\ range'.from = range.from
      /\ range'.to = range.to /\ range'.original_len = range.original_len
  BY <1>1 DEF Good, SlotInv, Shape
<1>4. Departing = SubSeq(memory, i + 1, j) /\ Departing' = SubSeq(memory, i + 1 + 1, j)
  BY <1>1, <1>3 DEF Departing
<1>5. Elems' = Elems
  BY <1>1, <1>3 DEF Elems
<1> HIDE DEF i, j
<1>6. i + 1 \in 1 .. Len(memory) /\ j \in i + 1 .. Len(memory)
  <2>1. PICK m \in Nat : m = Len(memory)
    BY <1>2
  <2> QED
    BY <1>1, <1>2, <2>1
<1>7. Head(Departing) = memory[i + 1] /\ Departing' = Tail(Departing)
  BY <1>2, <1>4, <1>6, HeadTailOfSubSeq
<1>8. Departing # <<>>
  <2>1. Len(Departing) = j - i /\ j - i # 0
    BY <1>1, <1>2, <1>4, Cut
  <2> QED
    BY <2>1, EmptySeq
<1>9. Held' = Held \cup {memory[i + 1]} /\ Lost' = Lost
  <2>1. i + 1 \in Live
    BY <1>1, <1>2
  <2> QED
    BY <1>1, <1>2, <2>1, TakeOutHeld DEF i
<1> QED
  BY <1>3, <1>5, <1>7, <1>8, <1>9 DEF Promise!HandOut, Elems, Departing, Held, Lost

LEMMA GapView ==
  ASSUME Good, Good', kind \in {"drain", "double_ended"}, NEW t \in Nat,
         range.from <= t, t <= range.original_len, CloseGap(t)
  PROVE  /\ Elems' = Front \o SubSeq(memory, t + 1, range.original_len)
         /\ Departing' = <<>> /\ range'.from = 0
<1> DEFINE o == range.original_len
           s == SubSeq(memory, t + 1, o)
<1>1. /\ ~Iterating'
      /\ len \in Nat /\ o \in Nat /\ len <= t
      /\ len' = len + (o - t)
      /\ \A k \in 1 .. len : memory'[k] = memory[k]
      /\ \A k \in 1 .. o - t : memory'[len + k] = memory[t + k]
  BY GapClosed DEF Good
<1>2. WholeSeen'
  BY <1>1, WholeViewNext DEF Good, Whole
<1>3. /\ Front \in Seq(Bits) /\ Len(Front) = len /\ \A k \in 1 .. len : Front[k] = memory[k]
      /\ memory \in Seq(Bits) /\ o <= Len(memory)
  BY DrainView DEF Good, DrainSeen
<1>4. t <= o
  OBVIOUS
<1> HIDE DEF o
<1>5. s \in Seq(Bits) /\ Len(s) = o - t /\ \A k \in 1 .. o - t : s[k] = memory[t + k]
  BY <1>1, <1>3, <1>4, Cut
<1> HIDE DEF s
<1>6. /\ Elems' \in Seq(Bits) /\ Len(Elems') = Len(Front) + Len(s)
      /\ \A k \in 1 .. len' : Elems'[k] = memory'[k]
  BY <1>1, <1>2, <1>3, <1>5 DEF WholeSeen
<1>7. ASSUME NEW k \in 1 .. Len(Front) PROVE Elems'[k] = Front[k]
  <2>1. k \in 1 .. len /\ k \in 1 .. len'
    BY <1>1, <1>3, <1>4
  <2> QED
    BY <1>1, <1>3, <1>6, <2>1
<1>8. ASSUME NEW k \in 1 .. Len(s) PROVE Elems'[Len(Front) + k] = s[k]
  <2>1. k \in 1 .. o - t /\ len + k \in 1 .. len'
    BY <1>1, <1>4, <1>5
  <2> QED
    BY <1>1, <1>3, <1>5, <1>6, <2>1
<1>9. Elems' = Front \o s
  BY <1>3, <1>5, <1>6, <1>7, <1>8, Joined
<1> QED
  BY <1>2, <1>9 DEF WholeSeen, s, o

\* The items of the range of a drain that is dropped are destroyed.
LEMMA DepartingItems ==
  ASSUME SlotInv, Iterating
  PROVE  Promise!ToSet(Departing) = Items(range.lindex, range.rindex)
<1> PICK i \in Nat, j \in Nat : i = range.lindex /\ j = range.rindex
  BY LeavingView
<1>1. memory \in Seq(Bits) /\ i <= j /\ j <= Len(memory)
  BY LeavingView
<1>2. Promise!ToSet(SubSeq(memory, i + 1, j)) = Items(i, j)
  BY <1>1, CutItems
<1> QED
  BY <1>2 DEF Departing

LEMMA DropDrainRefines == ASSUME Good, Good', DropDrain PROVE Promise!DropRest
<1> PICK i \in Nat, j \in Nat : i = range.lindex /\ j = range.rindex
  BY DrainLive DEF DropDrain, Good
<1>1. /\ kind \in {"drain", "double_ended"} /\ Iterating /\ range.to = j
      /\ range.from <= j /\ j <= range.original_len
      /\ CloseGap(j)
      /\ dropped' = Account(dropped, i, j) /\ UNCHANGED <<held, leaked>>
  BY DrainLive DEF DropDrain, Good, Iterating
<1>2. Elems' = Elems /\ Departing' = <<>> /\ range'.from = 0
  BY <1>1, GapView DEF Elems, Front
<1>3. Lost' = Lost \cup Promise!ToSet(Departing) /\ Held' = Held
  <2>1. (i + 1 .. j) \subseteq Live
    BY <1>1, LeavingView DEF Good
  <2> QED
    BY <1>1, <2>1, DepartingItems, LeaveLost DEF Good
<1> QED
  BY <1>2, <1>3 DEF Promise!DropRest, Elems, Departing, Held, Lost

LEMMA StopRefines == ASSUME Good, Good', Stop PROVE Promise!PutBack
<1>1. PICK i \in Nat, j \in Nat, o \in Nat, n \in Nat :
        /\ i = range.lindex /\ j = range.rindex /\ o = range.original_len /\ n = len
        /\ j = range.to /\ n = range.from /\ n <= i /\ i <= j /\ j <= o
  BY DrainLive DEF Stop, Good
<1>2. kind \in {"drain", "double_ended"} /\ CloseGap(i) /\ UNCHANGED ledger
  BY <1>1 DEF Stop
<1>3. /\ Elems' = Front \o SubSeq(memory, i + 1, o) /\ Departing' = <<>> /\ range'.from = 0
  <2>1. range.from <= i /\ i <= range.original_len
    BY <1>1
  <2> QED
    BY <1>1, <1>2, <2>1, GapView
<1>4. /\ Elems = Front \o Back /\ Front \in Seq(Bits) /\ Len(Front) = n
      /\ Departing \in Seq(Bits) /\ Departing = SubSeq(memory, i + 1, j)
      /\ Back \in Seq(Bits) /\ Back = SubSeq(memory, j + 1, o)
      /\ memory \in Seq(Bits) /\ o <= Len(memory) /\ Len(memory) \in Nat
  <2>1. /\ Elems = Front \o Back /\ Front \in Seq(Bits) /\ Len(Front) = len
        /\ Departing \in Seq(Bits) /\ Back \in Seq(Bits)
        /\ memory \in Seq(Bits) /\ range.original_len <= Len(memory)
    BY <1>2, DrainView DEF Good, DrainSeen
  <2>2. Departing = SubSeq(memory, i + 1, j) /\ Back = SubSeq(memory, j + 1, o)
    BY <1>1 DEF Departing, Back
  <2>3. Len(memory) \in Nat
    BY <2>1
  <2> QED
    BY <1>1, <2>1, <2>2, <2>3
<1>5. SubSeq(memory, i + 1, o) = Departing \o Back
  <2>1. i + 1 \in 1 .. Len(memory) + 1 /\ j \in (i + 1) - 1 .. Len(memory) /\ o \in j .. Len(memory)
    <3>1. PICK m \in Nat : m = Len(memory)
      BY <1>4
    <3>2. i <= j /\ j <= o /\ o <= m
      BY <1>1, <1>4, <3>1
    <3>3. i + 1 \in 1 .. m + 1 /\ j \in (i + 1) - 1 .. m /\ o \in j .. m
      BY <3>2
    <3> QED
      BY <3>1, <3>3
  <2>2. SubSeq(memory, i + 1, j) \o SubSeq(memory, j + 1, o) = SubSeq(memory, i + 1, o)
    BY <1>4, <2>1, ConcatAdjacentSubSeq
  <2> QED
    BY <1>4, <2>2
<1>6. SubSeq(Elems, 1, n) = Front /\ SubSeq(Elems, n + 1, Len(Elems)) = Back
  <2>1. /\ SubSeq(Front \o Back, 1, Len(Front)) = Front
        /\ SubSeq(Front \o Back, Len(Front) + 1, Len(Front \o Back)) = Back
    BY <1>4, Parts
  <2> QED
    BY <1>4, <2>1, Zenon
<1>7. Elems' = (SubSeq(Elems, 1, n) \o Departing) \o SubSeq(Elems, n + 1, Len(Elems))
  <2>1. (Front \o Departing) \o Back = Front \o (Departing \o Back)
    <3>1. Front \in Seq(Bits) /\ Departing \in Seq(Bits) /\ Back \in Seq(Bits)
      BY <1>4
    <3> QED
      BY <3>1, ConcatAssociative
  <2> QED
    BY <1>3, <1>5, <1>6, <2>1, Zenon
<1>8. Held' = Held /\ Lost' = Lost
  BY <1>2 DEF ledger, Held, Lost
<1>9. n = range.from
  BY <1>1
<1> QED
  BY <1>3, <1>7, <1>8, <1>9 DEF Promise!PutBack, Elems, Departing, Held, Lost

LEMMA ForgetRefines == ASSUME Good, Good', ForgetDrain PROVE Promise!Lose
<1> PICK i \in Nat, j \in Nat, o \in Nat :
      i = range.lindex /\ j = range.rindex /\ o = range.original_len
  BY DrainLive DEF ForgetDrain, Good
<1>1. /\ kind \in {"drain", "double_ended"} /\ kind' = "vec" /\ Whole' /\ Iterating
      /\ range.to = j /\ range.from = len
      /\ leaked' = [x \in Item |-> Account(leaked, i, j)[x] + InSlots(j, o, x)]
      /\ UNCHANGED <<memory, len, held, dropped>>
      /\ (i + 1 .. j) \subseteq Live /\ (j + 1 .. o) \subseteq Live /\ j <= o
  BY DrainLive DEF ForgetDrain, Good, Whole, Iterating, buffer, Leaving, Behind
<1>2. /\ Elems = Front \o Back /\ Front \in Seq(Bits) /\ Len(Front) = len
      /\ Back \in Seq(Bits) /\ Back = SubSeq(memory, j + 1, o)
      /\ memory \in Seq(Bits) /\ o <= Len(memory)
  BY <1>1, DrainView DEF Good, DrainSeen, Back
<1>3. SubSeq(Elems, 1, range.from) = Front /\ SubSeq(Elems, range.from + 1, Len(Elems)) = Back
  <2>1. /\ SubSeq(Front \o Back, 1, Len(Front)) = Front
        /\ SubSeq(Front \o Back, Len(Front) + 1, Len(Front \o Back)) = Back
    <3>1. Front \in Seq(Bits) /\ Back \in Seq(Bits)
      BY <1>2
    <3> QED
      BY <3>1, Parts
  <2>2. Elems = Front \o Back
    BY <1>2
  <2>3. SubSeq(Elems, 1, Len(Front)) = Front /\ SubSeq(Elems, Len(Front) + 1, Len(Elems)) = Back
    BY <2>1, <2>2, Zenon
  <2>4. Len(Front) = range.from
    BY <1>1, <1>2
  <2> QED
    BY <2>3, <2>4, Zenon
<1>4. Elems' = SubSeq(Elems, 1, range.from) /\ Departing' = <<>> /\ range'.from = 0
  <2>1. WholeSeen'
    BY <1>1, WholeViewNext DEF Good
  <2>2. Elems' = SubSeq(memory', 1, len')
    BY <2>1 DEF WholeSeen
  <2>3. Elems' = Front
    BY <1>1, <2>2 DEF Front
  <2> QED
    BY <1>3, <2>1, <2>3 DEF WholeSeen
<1>5. Promise!ToSet(Departing) = Items(i, j) /\ Promise!ToSet(Back) = Items(j, o)
  BY <1>1, <1>2, DepartingItems, CutItems DEF Good
<1>6. Lost' = Lost \cup Items(i, j) \cup Items(j, o)
  <2>1. (Items(i, j) \cup Items(j, o)) \subseteq Item
    BY <1>1, LiveSlotsHoldItems DEF Items, Good
  <2>2. \A x \in Item : Account(leaked, i, j)[x] = leaked[x] + IF x \in Items(i, j) THEN 1 ELSE 0
    <3>1. leaked \in [Item -> Nat] /\ SlotInv /\ OwnerInv
      BY DEF Good, OwnerInv, Ledgers
    <3> QED
      BY <1>1, <3>1, AccountedItems
  <2>3. \A x \in Item : InSlots(j, o, x) = IF x \in Items(j, o) THEN 1 ELSE 0
    <3> DEFINE none == [x \in Item |-> 0]
    <3>1. none \in [Item -> Nat] /\ \A x \in Item : none[x] = 0
      OBVIOUS
    <3>2. \A x \in Item : Account(none, j, o)[x] = none[x] + InSlots(j, o, x)
      BY DEF Account
    <3> HIDE DEF none
    <3>3. \A x \in Item : Account(none, j, o)[x] = none[x] + IF x \in Items(j, o) THEN 1 ELSE 0
      BY <1>1, <3>1, AccountedItems DEF Good
    <3>4. ASSUME NEW x \in Item PROVE InSlots(j, o, x) \in Nat
      <4>1. OneOwner(x)
        BY DEF Good, OwnerInv
      <4>2. InSlots(j, o, x) = IF Where(x) \cap (j + 1 .. o) = {} THEN 0 ELSE 1
        BY <1>1, <4>1, SlotsCount
      <4> QED
        BY <4>2
    <3> QED
      BY <3>1, <3>2, <3>3, <3>4
  <2>4. \A x \in Item : leaked'[x] = leaked[x] + (IF x \in Items(i, j) THEN 1 ELSE 0)
                                               + (IF x \in Items(j, o) THEN 1 ELSE 0)
    BY <1>1, <2>2, <2>3
  <2>5. \A x \in Item : dropped[x] \in Nat /\ leaked[x] \in Nat /\ dropped'[x] = dropped[x]
    BY <1>1 DEF Good, OwnerInv, Ledgers
  <2> QED
    BY <2>1, <2>4, <2>5 DEF Lost
<1>7. Held' = Held
  BY <1>1 DEF Held
<1> QED
  BY <1>3, <1>4, <1>5, <1>6, <1>7 DEF Promise!Lose, Elems, Departing, Held, Lost

LEMMA DropIntoIterRefines == ASSUME Good, Good', DropIntoIter PROVE Promise!DropRest
<1> PICK i \in Nat, j \in Nat : i = range.lindex /\ j = range.rindex
  BY LeavingView DEF DropIntoIter, Iterating, Good
<1>1. /\ kind = "into_iter" /\ Iterating /\ Whole' /\ j = len /\ len' = 0
      /\ dropped' = Account(dropped, i, j) /\ UNCHANGED <<held, leaked>>
  BY DEF DropIntoIter, Good, SlotInv, IterInv, Gone, Whole, Iterating
<1>2. Elems' = Elems /\ Departing' = <<>> /\ range'.from = 0
  <2>1. WholeSeen'
    BY <1>1, WholeViewNext DEF Good
  <2>2. Elems = <<>>
    BY <1>1 DEF Elems
  <2>3. Elems' = <<>>
    BY <1>1, <2>1, EmptySeq DEF WholeSeen
  <2> QED
    BY <2>1, <2>2, <2>3 DEF WholeSeen
<1>3. Lost' = Lost \cup Promise!ToSet(Departing) /\ Held' = Held
  <2>1. (i + 1 .. j) \subseteq Live
    BY <1>1, LeavingView DEF Good
  <2> QED
    BY <1>1, <2>1, DepartingItems, LeaveLost DEF Good
<1> QED
  BY <1>2, <1>3 DEF Promise!DropRest, Elems, Departing, Held, Lost

-----------------------------------------------------------------------------

LEMMA InitPromise == Init => Promise!Init
<1> SUFFICES ASSUME Init PROVE Promise!Init
  OBVIOUS
<1>1. SubSeq(<<>>, 1, 0) = <<>>
  BY SubSeqEmpty
<1>2. Elems = <<>> /\ Departing = <<>> /\ range.from = 0
  BY <1>1 DEF Init, Elems, Departing, NoRange
<1>3. Held = Item /\ Lost = {}
  BY DEF Init, Held, Lost
<1> QED
  BY <1>2, <1>3 DEF Promise!Init, Elems, Departing, Held, Lost

LEMMA QuietRefines ==
  ASSUME Good, Good',
         \/ UNCHANGED vars \/ PushFails \/ DoubleEnded \/ IntoBoxed \/ FromBoxed
         \/ \E n \in Nat \ {0} : TryReserve(n)
         \/ \E k \in {"vec", "single_or_vec"} : New(k)
  PROVE  UNCHANGED Promise!vars
<1>1. CASE UNCHANGED <<kind, memory, len, range, ledger>>
  <2>1. Elems' = Elems /\ Departing' = Departing /\ range'.from = range.from
    BY <1>1 DEF Elems, Departing
  <2>2. Held' = Held /\ Lost' = Lost
    BY <1>1 DEF ledger, Held, Lost
  <2> QED
    BY <2>1, <2>2 DEF Promise!vars, Elems, Departing, Held, Lost
<1>2. CASE DoubleEnded
  <2>1. Elems' = Elems /\ Departing' = Departing /\ range'.from = range.from
    BY <1>2 DEF DoubleEnded, buffer, Elems, Departing
  <2>2. Held' = Held /\ Lost' = Lost
    BY <1>2 DEF DoubleEnded, ledger, Held, Lost
  <2> QED
    BY <2>1, <2>2 DEF Promise!vars, Elems, Departing, Held, Lost
<1>3. CASE IntoBoxed \/ FromBoxed
  <2>1. Whole /\ Whole' /\ UNCHANGED <<len, ledger>>
    BY <1>3 DEF IntoBoxed, FromBoxed, Whole, Iterating
  <2>2. \A k \in 1 .. len : memory'[k] = memory[k]
    BY <1>3 DEF IntoBoxed, FromBoxed
  <2> QED
    BY <2>1, <2>2, QuietView DEF Good
<1>4. CASE \E n \in Nat \ {0} : TryReserve(n)
  <2> PICK n \in Nat \ {0} : TryReserve(n)
    BY <1>4
  <2>1. IsVec /\ memory' = Reserved(n) /\ UNCHANGED <<kind, len, ledger>>
    BY DEF TryReserve, Buffer
  <2>2. Whole /\ Whole'
    BY <2>1 DEF IsVec, Whole, Iterating
  <2>3. \A k \in 1 .. len : memory'[k] = memory[k]
    BY <2>1, ReservedSlots DEF Good, Keeps
  <2> QED
    BY <2>1, <2>2, <2>3, QuietView DEF Good
<1>5. CASE \E k \in {"vec", "single_or_vec"} : New(k)
  <2>1. Whole /\ Whole' /\ UNCHANGED <<memory, len, ledger>>
    BY <1>5 DEF New, Whole, Iterating, buffer
  <2> QED
    BY <2>1, QuietView DEF Good
<1> QED
  BY <1>1, <1>2, <1>3, <1>4, <1>5 DEF vars, PushFails, ledger

LEMMA NextRefines ==
  ASSUME Good, Good', ~PushDangling, [Next]_vars
  PROVE  [Promise!Next]_(Promise!vars)
<1>0. Index \subseteq Nat
  BY MaxAssumption DEF Index
<1>1. CASE \/ UNCHANGED vars \/ PushFails \/ DoubleEnded \/ IntoBoxed \/ FromBoxed
           \/ \E n \in 1 .. 2 : TryReserve(n)
           \/ \E k \in {"vec", "single_or_vec"} : New(k)
  <2>1. UNCHANGED Promise!vars
    BY <1>1, QuietRefines
  <2> QED
    BY <2>1
<1>2. ASSUME NEW x \in Item, TryPush(x) \/ BoxedPush(x) \/ PushSingle(x) \/ Spill(x)
      PROVE  Promise!Next
  BY <1>2, PushRefines DEF Promise!Next
<1>3. ASSUME NEW x \in Item, NEW y \in Item, Extend(x, y) PROVE Promise!Next
  BY <1>3, ExtendRefines DEF Promise!Next
<1>4. ASSUME NEW x \in Item, NEW y \in Item, PushPanics({x, y}) PROVE Promise!Next
  BY <1>4, PanicRefines DEF Promise!Next
<1>5. ASSUME NEW i \in Index, Remove(i) \/ SwapRemove(i) PROVE Promise!Next
  <2>1. i + 1 \in 1 .. Len(Elems) /\ (Promise!TakeOut(i + 1) \/ Promise!TakeOutSwapping(i + 1))
    BY <1>0, <1>5, RemoveRefines, SwapRemoveRefines
  <2> QED
    BY <2>1 DEF Promise!Next, Elems
<1>6. ASSUME NEW n \in Index, Truncate(n) PROVE Promise!Next
  <2>1. n \in 0 .. Len(Elems) /\ Promise!Truncate(n)
    BY <1>0, <1>6, TruncateRefines
  <2> QED
    BY <2>1 DEF Promise!Next, Elems
<1>7. CASE DropVec \/ DropBoxed \/ DropSingle
  <2>1. 0 \in 0 .. Len(Elems) /\ Promise!Truncate(0)
    BY <1>7, DropRefines
  <2> QED
    BY <2>1 DEF Promise!Next, Elems
<1>8. ASSUME NEW from \in Index, NEW to \in Index, Drain(from, to) PROVE Promise!Next
  <2>1. /\ from \in 0 .. Len(Elems) /\ to \in 0 .. Len(Elems) /\ from <= to
        /\ Promise!Drain(from, to)
    BY <1>0, <1>8, DrainRefines
  <2> QED
    BY <2>1 DEF Promise!Next, Elems
<1>9. CASE IntoIter
  <2>1. PICK n : n = Len(Elems)
    OBVIOUS
  <2>2. 0 \in 0 .. n /\ n \in 0 .. n /\ 0 <= n /\ Promise!Drain(0, n)
    BY <1>9, <2>1, IntoIterRefines
  <2> QED
    BY <2>1, <2>2 DEF Promise!Next, Elems
<1>10. CASE HandOut \/ DropDrain \/ DropIntoIter \/ Stop \/ ForgetDrain
  BY <1>10, HandOutRefines, DropDrainRefines, DropIntoIterRefines, StopRefines, ForgetRefines
     DEF Promise!Next
<1> QED
  BY <1>1, <1>2, <1>3, <1>4, <1>5, <1>6, <1>7, <1>8, <1>9, <1>10 DEF Next

\* To a program that pushes to no boxed slice without an allocation, a vector is a
\* sequence, whatever happens to its buffer: items come out in the order they went
\* in, a drain takes its range and no more, a stopped one puts back the rest of
\* it, a failed push changes nothing; for any number of items and any capacities.
THEOREM ContainersImplementSequence ==
  ASSUME ~PushDangling
  PROVE  Spec => ImplementsOwnedSequence
<1>1. Init => Good
  BY InitSlots, InitOwners, InitRange DEF Good
<1>2. Good /\ [Next]_vars => Good'
  BY NextSlots, NextOwners, NextRange DEF Good
<1>3. Good /\ Good' /\ [Next]_vars => [Promise!Next]_(Promise!vars)
  BY NextRefines
<1> QED
  BY <1>1, <1>2, <1>3, InitPromise, PTL DEF Spec, ImplementsOwnedSequence, Promise!Spec

-----------------------------------------------------------------------------
(* Blocks.  A block is what the allocator made of its start, as long as     *)
(* there is one; so what is given back is what was granted.                 *)

\* What the prefixes need no padding before.
NarrowElements == \A e \in Element : e.align \in {1, 2, 4, 8, 16, 32}

\* The prefix of the allocator, if it has one.
OwnPrefix == IF allocator = "RustAlloc" THEN 32 ELSE 0

\* The block of a container with n slots.
Granted(n) ==
  /\ block.start \in Base
  /\ block.layout = Requested(allocator, BufferLayout(element, n))
  /\ block.origin = block.start + OwnPrefix
  /\ block.ptr = block.start + OwnPrefix + 32
  /\ block.first = block.ptr

GrantInv ==
  /\ allocator \in {"LibcAlloc", "RustAlloc"} /\ element \in Element
  /\ asGranted
  /\ blocks = 0 => block = NoBlock
  /\ blocks = 1 => Granted(Len(memory))

LEMMA MatchingIsNext ==
  ASSUME NEW x \in Nat, NEW a \in Nat \ {0}
  PROVE  NextMatching(x, a) \in Nat /\ x <= NextMatching(x, a)
<1>1. x % a \in 0 .. a - 1
  OBVIOUS
<1> DEFINE r == x % a
<1> HIDE DEF r
<1>2. (a - r) % a \in 0 .. a - 1
  BY <1>1 DEF r
<1> DEFINE p == (a - r) % a
<1>3. NextMatching(x, a) = x + p
  BY DEF NextMatching, r
<1> HIDE DEF p
<1> QED
  BY <1>2, <1>3 DEF p

\* The prefixes are as long as any alignment, and end where an element may be.
LEMMA NothingIsPadded ==
  ASSUME NEW a \in {1, 2, 4, 8, 16, 32}, NEW x \in Nat, x % a = 0
  PROVE  NextMatching(x + 32, a) = x + 32 /\ NextMatching(x + 64, a) = x + 64
BY DEF NextMatching

LEMMA BufferFits ==
  ASSUME GrantInv, NEW n \in Nat
  PROVE  /\ BufferLayout(element, n).align = 8
         /\ BufferLayout(element, n).size \in Nat
         /\ 32 + n * element.size <= BufferLayout(element, n).size
<1> DEFINE need == element.size * n
<1>1. element.size \in Nat /\ element.align \in Nat \ {0}
  BY ElementAssumption DEF GrantInv
<1>2. need \in Nat /\ need = n * element.size
  BY <1>1
<1>3. PICK a \in Nat \ {0} : BufferLayout(element, n).size = NextMatching(32 + need, a)
  BY <1>1 DEF BufferLayout, Concat, AllocPrefix, Array, Layout
<1> HIDE DEF need
<1>4. 32 + need \in Nat
  BY <1>2
<1>5. NextMatching(32 + need, a) \in Nat /\ 32 + need <= NextMatching(32 + need, a)
  BY <1>4, MatchingIsNext
<1>6. BufferLayout(element, n).align = 8
  BY DEF BufferLayout, Concat, AllocPrefix, Array, Layout
<1> QED
  BY <1>2, <1>3, <1>5, <1>6

LEMMA RequestFits ==
  ASSUME GrantInv, NEW n \in Nat
  PROVE  LET layout == Requested(allocator, BufferLayout(element, n)) IN
         /\ layout.align = 8 /\ layout.size \in Nat
         /\ OwnPrefix + 32 + n * element.size <= layout.size
         /\ Shift(allocator, layout) = OwnPrefix
<1> DEFINE b == BufferLayout(element, n)
           need == n * element.size
<1>1. b.align = 8 /\ b.size \in Nat /\ 32 + need <= b.size
  BY BufferFits
<1>2. need \in Nat
  BY ElementAssumption DEF GrantInv
<1> HIDE DEF b, need
<1>3. CASE allocator = "LibcAlloc"
  BY <1>1, <1>2, <1>3 DEF Requested, Shift, OwnPrefix, b, need
<1>4. CASE allocator = "RustAlloc"
  <2>1. Requested(allocator, b) = Layout(NextMatching(32 + b.size, 8), 8)
    BY <1>1, <1>4 DEF Requested, Concat, RustAllocPrefix, Layout
  <2>2. /\ NextMatching(32 + b.size, 8) \in Nat
        /\ 32 + b.size <= NextMatching(32 + b.size, 8)
    BY <1>1, MatchingIsNext
  <2> QED
    BY <1>1, <1>2, <1>4, <2>1, <2>2 DEF Shift, RustAllocPrefix, OwnPrefix, Layout, b, need
<1> QED
  BY <1>3, <1>4 DEF GrantInv

\* Where AllocPtr::init puts the elements.
LEMMA PlacedBlock ==
  ASSUME GrantInv, NarrowElements, NEW n \in Nat, NEW start \in Base, NEW first
  PROVE  LET layout == Requested(allocator, BufferLayout(element, n))
             b == With(Initialised(allocator, element, start, layout), first)
         IN /\ b.start = start /\ b.layout = layout /\ b.first = first
            /\ b.origin = start + OwnPrefix /\ b.ptr = start + OwnPrefix + 32
<1> DEFINE layout == Requested(allocator, BufferLayout(element, n))
<1>1. Shift(allocator, layout) = OwnPrefix
  BY RequestFits
<1>2. start \in Nat /\ start % element.align = 0 /\ element.align \in {1, 2, 4, 8, 16, 32}
  BY BaseAssumption DEF GrantInv, NarrowElements
<1>3. /\ NextMatching(start + 32, element.align) = start + 32
      /\ NextMatching(start + 64, element.align) = start + 64
  BY <1>2, NothingIsPadded
<1> HIDE DEF layout
<1>4. NextMatching(start + OwnPrefix + 32, element.align) = start + OwnPrefix + 32
  <2>1. CASE allocator = "RustAlloc"
    <3>1. OwnPrefix = 32 /\ start + OwnPrefix + 32 = start + 64
      BY <1>2, <2>1 DEF OwnPrefix
    <3> QED
      BY <1>3, <3>1
  <2>2. CASE allocator # "RustAlloc"
    <3>1. OwnPrefix = 0 /\ start + OwnPrefix + 32 = start + 32
      BY <1>2, <2>2 DEF OwnPrefix
    <3> QED
      BY <1>3, <3>1
  <2> QED
    BY <2>1, <2>2
<1>5. Initialised(allocator, element, start, layout)
        = [start |-> start, layout |-> layout, origin |-> start + OwnPrefix,
           ptr |-> start + OwnPrefix + 32]
  BY <1>1, <1>4 DEF Initialised, AllocPrefix, Layout
<1> QED
  BY <1>5 DEF With, layout

\* Only a container that knows its capacity grows.
LEMMA GrowthKnowsCapacity ==
  ASSUME SlotInv, BlockInv, Next, blocks = 1, blocks' = 1, Len(memory') # Len(memory)
  PROVE  capacity = Len(memory)
<1>1. kind \notin {"single", "none"}
  BY DEF BlockInv, Empty, SlotInv, NoneInv
<1>2. ASSUME kind = "boxed" PROVE FALSE
  <2>1. len # 0 /\ memory \in Seq(Bits) /\ len \in Nat
    BY <1>2 DEF BlockInv, Empty, SlotInv, Shape
  <2>2. CASE UNCHANGED memory
    BY <2>2
  <2>3. CASE \E x \in Item : BoxedPush(x)
    BY <2>1, <2>3 DEF BoxedPush
  <2>4. CASE DropBoxed
    BY <2>1, <2>4 DEF DropBoxed, Gone
  <2> QED
    BY <1>2, <2>1, <2>2, <2>3, <2>4
       DEF Next, New, TryReserve, TryPush, PushSingle, Spill, Extend, PushPanics, PushFails, vars,
           buffer, Full, Remove, SwapRemove, Truncate, Drain, DoubleEnded, IntoIter, HandOut,
           DropDrain, Stop, ForgetDrain, IntoBoxed, FromBoxed, DropVec, DropIntoIter, DropSingle,
           IsVec
<1> QED
  BY <1>1, <1>2 DEF SlotInv, Shape, BlockInv, CapacityIsTrue, IsVec, Iterating, Kind

LEMMA InitGrants == BuffersInit => GrantInv
BY DEF BuffersInit, Init, AllocatorsInit, GrantInv

LEMMA AllocGrants ==
  ASSUME GrantInv, NarrowElements, NEW n \in Nat, AllocArray(n)
  PROVE  UNCHANGED <<allocator, element, asGranted>> /\ Granted(n)'
<1> DEFINE layout == Requested(allocator, BufferLayout(element, n))
<1>1. PICK start \in Base :
        LET b == Initialised(allocator, element, start, layout) IN block' = With(b, b.ptr)
  BY DEF AllocArray
<1> DEFINE b == Initialised(allocator, element, start, layout)
<1>2. /\ block'.start = start /\ block'.layout = layout /\ block'.first = b.ptr
      /\ block'.origin = start + OwnPrefix /\ block'.ptr = start + OwnPrefix + 32
  BY <1>1, PlacedBlock
<1>3. b.ptr = block'.ptr
  BY <1>1 DEF With
<1>4. UNCHANGED <<allocator, element, asGranted>>
  BY DEF AllocArray
<1> QED
  BY <1>2, <1>3, <1>4 DEF Granted, OwnPrefix

\* A reallocation gives back the block there is, and what was in it arrives where
\* the elements are.
LEMMA ReallocGrants ==
  ASSUME GrantInv, NarrowElements, NEW prev \in Nat, Granted(prev), NEW n \in Nat, Realloc(prev, n)
  PROVE  UNCHANGED <<allocator, element, asGranted>> /\ Granted(n)'
<1> DEFINE old == Requested(allocator, BufferLayout(element, prev))
           new == Requested(allocator, BufferLayout(element, n))
<1>1. old.align = 8 /\ Shift(allocator, old) = OwnPrefix
  BY RequestFits
<1>2. block.start \in Nat /\ OwnPrefix \in Nat
  BY BaseAssumption DEF Granted, GrantInv, OwnPrefix
<1>3. PrefixPtr(block) - Shift(allocator, block.layout) = block.start
  BY <1>1, <1>2 DEF Granted, PrefixPtr, AllocPrefix, Layout
<1>4. (IF allocator = "RustAlloc" THEN block.layout ELSE BufferLayout(element, prev)) = old
  BY DEF Granted, Requested
<1>5. [BufferLayout(element, n) EXCEPT !.align = old.align] = BufferLayout(element, n)
  BY <1>1 DEF BufferLayout, Concat, AllocPrefix, Layout
<1>6. PICK start \in Base :
        block' = With(Initialised(allocator, element, start, new),
                      start + (block.first - block.start))
  <2> HIDE DEF old
  <2> QED
    BY <1>3, <1>4, <1>5 DEF Realloc
<1>7. /\ block'.start = start /\ block'.layout = new
      /\ block'.first = start + (block.first - block.start)
      /\ block'.origin = start + OwnPrefix /\ block'.ptr = start + OwnPrefix + 32
  BY <1>6, PlacedBlock
<1>8. block'.first = block'.ptr
  <2>1. start \in Nat
    BY BaseAssumption DEF GrantInv
  <2> QED
    BY <1>2, <1>7, <2>1 DEF Granted
<1>9. GiveBack(block.start, old)
  <2> HIDE DEF old
  <2> QED
    BY <1>3, <1>4 DEF Realloc
<1>10. asGranted' = asGranted /\ UNCHANGED <<allocator, element>>
  BY <1>9 DEF GiveBack, Granted, GrantInv, Realloc
<1> QED
  BY <1>7, <1>8, <1>10 DEF Granted, OwnPrefix

LEMMA FreeGrants ==
  ASSUME GrantInv, NEW n \in Nat, Granted(n), Free
  PROVE  UNCHANGED <<allocator, element, asGranted>> /\ block' = NoBlock
<1>1. Shift(allocator, block.layout) = OwnPrefix
  BY RequestFits DEF Granted
<1>2. block.start \in Nat /\ OwnPrefix \in Nat
  BY BaseAssumption DEF Granted, GrantInv, OwnPrefix
<1>3. block.origin - Shift(allocator, block.layout) = block.start
  BY <1>1, <1>2 DEF Granted
<1> QED
  BY <1>3 DEF Free, GiveBack, GrantInv

LEMMA NextGrants ==
  ASSUME SlotInv, BlockInv, GrantInv, NarrowElements, ~BoxEmpty, ~PushDangling,
         [BuffersNext]_<<vars, allocation>>
  PROVE  GrantInv'
<1>1. SlotInv' /\ BlockInv' /\ blocks \in {0, 1} /\ blocks' \in {0, 1}
  <2>1. SlotInv' /\ BlockInv'
    BY NextSlots, NextBlocks DEF BuffersNext
  <2> QED
    BY <2>1 DEF BlockInv
<1>2. Len(memory) \in Nat /\ Len(memory') \in Nat
  <2>1. memory \in Seq(Bits) /\ memory' \in Seq(Bits)
    BY <1>1 DEF SlotInv, Shape
  <2> QED
    BY <2>1
<1>3. CASE UNCHANGED <<vars, allocation>>
  BY <1>3 DEF vars, allocation, GrantInv, Granted, OwnPrefix
<1>4. CASE BuffersNext /\ blocks = 0 /\ blocks' = 1
  <2>1. PICK n \in Nat : n = Len(memory')
    BY <1>2
  <2>2. AllocArray(n)
    BY <1>4, <2>1 DEF BuffersNext
  <2>3. UNCHANGED <<allocator, element, asGranted>> /\ Granted(n)'
    BY <2>2, AllocGrants
  <2> QED
    BY <1>4, <2>1, <2>3 DEF GrantInv
<1>5. CASE BuffersNext /\ blocks = 1 /\ blocks' = 0
  <2>1. Free
    BY <1>5 DEF BuffersNext
  <2>2. PICK n \in Nat : Granted(n)
    BY <1>2, <1>5 DEF GrantInv
  <2>3. UNCHANGED <<allocator, element, asGranted>> /\ block' = NoBlock
    BY <2>1, <2>2, FreeGrants
  <2> QED
    BY <1>5, <2>3 DEF GrantInv
<1>6. CASE BuffersNext /\ blocks = 1 /\ blocks' = 1 /\ Len(memory') # Len(memory)
  <2>1. PICK prev \in Nat : prev = Len(memory)
    BY <1>2
  <2>2. PICK n \in Nat : n = Len(memory')
    BY <1>2
  <2>3. Realloc(prev, n) /\ Granted(prev)
    BY <1>6, <2>1, <2>2, GrowthKnowsCapacity DEF BuffersNext, GrantInv
  <2>4. UNCHANGED <<allocator, element, asGranted>> /\ Granted(n)'
    BY <2>3, ReallocGrants
  <2> QED
    BY <1>6, <2>2, <2>4 DEF GrantInv
<1>7. CASE BuffersNext /\ blocks' = blocks /\ (blocks = 0 \/ Len(memory') = Len(memory))
  <2>1. UNCHANGED allocation
    BY <1>1, <1>7 DEF BuffersNext
  <2> QED
    BY <1>7, <2>1 DEF allocation, GrantInv, Granted, OwnPrefix
<1> QED
  BY <1>1, <1>3, <1>4, <1>5, <1>6, <1>7

LEMMA GrantsHold ==
  ASSUME SlotInv, BlockInv, GrantInv, NarrowElements
  PROVE  SlotsAreGranted
<1> SUFFICES ASSUME block # NoBlock
             PROVE  Holds(allocator, element, block, Len(memory)) /\ block.first = block.ptr
  BY DEF SlotsAreGranted, GrantInv
<1> DEFINE n == Len(memory)
           need == n * element.size
<1>1. n \in Nat
  BY DEF SlotInv, Shape
<1>2. Granted(n)
  BY DEF GrantInv, BlockInv
<1>3. OwnPrefix + 32 + need <= block.layout.size
  BY <1>1, <1>2, RequestFits DEF Granted
<1>4. /\ block.start \in Nat /\ block.start % element.align = 0
      /\ element.align \in {1, 2, 4, 8, 16, 32}
  BY <1>2, BaseAssumption DEF Granted, GrantInv, NarrowElements
<1>5. block.ptr % element.align = 0
  <2>1. block.ptr = block.start + 32 \/ block.ptr = block.start + 64
    BY <1>2, <1>4 DEF Granted, OwnPrefix
  <2> QED
    BY <1>4, <2>1
<1>6. need \in Nat /\ block.layout.size \in Nat
  BY <1>1, <1>2, RequestFits, ElementAssumption DEF GrantInv, Granted
<1> QED
  BY <1>2, <1>3, <1>4, <1>5, <1>6
     DEF Holds, Granted, OwnPrefix, PrefixPtr, AllocPrefix, RustAllocPrefix, Layout

\* Containers over blocks are containers: all of the above holds of them.
THEOREM BuffersImplementContainers == BuffersSpec => Spec
<1>1. [BuffersNext]_<<vars, allocation>> => [Next]_vars
  BY DEF BuffersNext
<1> QED
  BY <1>1, PTL DEF BuffersSpec, BuffersInit, Spec

\* With elements that need no more alignment than the prefixes have, in a program
\* that boxes no empty vector with a buffer and pushes to no boxed slice without
\* an allocation: each slot of a container is a place for an element inside of
\* the block that the allocator granted, through every reallocation, and each block goes back to the address and with the
\* layout it was granted with; for both allocators and wherever blocks are.
THEOREM SlotsAreGrantedTheorem ==
  ASSUME NarrowElements, ~BoxEmpty, ~PushDangling
  PROVE  BuffersSpec => []SlotsAreGranted
<1>1. BuffersInit => SlotInv /\ BlockInv /\ GrantInv
  BY InitSlots, InitBlocks, InitGrants DEF BuffersInit
<1>2. /\ SlotInv /\ BlockInv /\ GrantInv /\ [BuffersNext]_<<vars, allocation>>
      => SlotInv' /\ BlockInv' /\ GrantInv'
  <2> SUFFICES ASSUME SlotInv, BlockInv, GrantInv, [BuffersNext]_<<vars, allocation>>
               PROVE  SlotInv' /\ BlockInv' /\ GrantInv'
    OBVIOUS
  <2>1. [Next]_vars
    BY DEF BuffersNext
  <2> QED
    BY <2>1, NextSlots, NextBlocks, NextGrants
<1>3. SlotInv /\ BlockInv /\ GrantInv => SlotsAreGranted
  BY GrantsHold
<1> QED
  BY <1>1, <1>2, <1>3, PTL DEF BuffersSpec
=============================================================================
