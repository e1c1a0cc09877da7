----------------------------- MODULE StabbyVec -----------------------------
(***************************************************************************)
(* The containers over one prefixed buffer: Vec, its drains and IntoIter   *)
(* (stabby-abi/src/alloc/vec.rs), and BoxedSlice (alloc/boxed.rs).         *)
(*                                                                         *)
(* A slot of the buffer holds the bits of an item, or none.  Moving an     *)
(* item out leaves its bits behind, as ptr::read does, so who owns an item *)
(* is decided by len, the indices of a drain, and the counts of the items  *)
(* that were given back to the program, destroyed or leaked.  The program  *)
(* owns one container at a time; items are not zero-sized, and what        *)
(* destroys them does not panic.  Left out is DoubleEndedDrain::next_back, *)
(* which reads the slot behind the range; try_drain, which refuses every   *)
(* range that it should accept; and clone, which writes a buffer of its    *)
(* own.                                                                    *)
(***************************************************************************)
EXTENDS Integers, Sequences, FiniteSets

CONSTANTS
  Item,           \* the values the program stores
  Uninit,         \* what a slot holds before it is written
  FirstCapacity,  \* FIRST_CAPACITY: 1024 over the size of an item, from 1 to 8
  MaxCapacity,    \* the largest array the allocator has room for
  BoxEmpty,       \* whether the program boxes empty vectors that have a buffer
  PushDangling    \* whether it pushes to boxed slices that have no allocation

ASSUME UninitAssumption == Uninit \notin Item
ASSUME FirstAssumption == FirstCapacity \in 1 .. 8
ASSUME MaxAssumption == MaxCapacity \in Nat
ASSUME BoxAssumption == BoxEmpty \in BOOLEAN /\ PushDangling \in BOOLEAN

VARIABLES
  kind,      \* what owns the buffer
  memory,    \* its slots, none while the pointer to it dangles
  prefix,    \* AllocPrefix.capacity, 0 where there is no allocation
  len,       \* how many slots the container says hold its items
  capacity,  \* Vec's own notion of the number of slots
  range,     \* the fields of a Drain, DoubleEndedDrain or IntoIter
  blocks,    \* the allocations that were not freed
  held,      \* how often the program owns each item
  dropped,   \* how often each item was destroyed
  leaked     \* how often an item was leaked with a drain

vars == <<kind, memory, prefix, len, capacity, range, blocks, held, dropped, leaked>>
ledger == <<held, dropped, leaked>>
buffer == <<memory, prefix, capacity, blocks>>

\* What answers to Vec's methods: a Vec, and a SingleOrVec that holds one.
IsVec == kind \in {"vec", "single_or_vec"}
Kind == {"vec", "drain", "double_ended", "into_iter", "boxed", "none", "single_or_vec", "single"}
Index == 0 .. MaxCapacity
NoRange == [from |-> 0, to |-> 0, lindex |-> 0, rindex |-> 0, original_len |-> 0]

\* How often an item is in the slots i, ..., j - 1; destroying, giving back and
\* leaking them are the same step of three accounts.
InSlots(i, j, x) == Cardinality({k \in i + 1 .. j : memory[k] = x})
Account(of, i, j) == [x \in Item |-> of[x] + InSlots(i, j, x)]

Init ==
  /\ kind = "none" /\ memory = <<>> /\ prefix = 0
  /\ len = 0 /\ capacity = 0 /\ range = NoRange /\ blocks = 0
  /\ held = [x \in Item |-> 1]
  /\ dropped = [x \in Item |-> 0]
  /\ leaked = [x \in Item |-> 0]

\* The slots i, i + 1, ... are overwritten by the n slots from j on.
Copy(m, i, j, n) ==
  [k \in 1 .. Len(m) |-> IF k \in i + 1 .. i + n THEN m[k - i + j] ELSE m[k]]

-----------------------------------------------------------------------------
(* try_reserve and try_grow *)

\* The slots after a reallocation for n items: whoever has no capacity gets a
\* new array, the others an array with the same items in it.
Grown(n) ==
  [i \in 1 .. n |-> IF capacity # 0 /\ i <= Len(memory) THEN memory[i] ELSE Uninit]

\* The buffer becomes m, after a reallocation unless it is as long as before.
Buffer(m) ==
  /\ memory' = m
  /\ IF Len(m) = capacity
       THEN UNCHANGED <<prefix, capacity, blocks>>
       ELSE /\ prefix' = Len(m)
            /\ capacity' = Len(m)
            /\ blocks' = IF capacity = 0 THEN blocks + 1 ELSE blocks

\* The slots of a buffer that has room for additional items, if there is one.
Reserved(additional) ==
  IF capacity - len < additional THEN Grown(len + additional) ELSE memory
Fits(additional) == len + additional <= MaxCapacity

TryReserve(additional) ==
  /\ IsVec /\ Fits(additional)
  /\ Buffer(Reserved(additional))
  /\ UNCHANGED <<kind, len, range, ledger>>

\* try_grow asks for half the capacity more.
Growth ==
  IF capacity = 0 THEN FirstCapacity ELSE IF capacity < 4 THEN 1 ELSE capacity \div 2
Roomy == IF len = capacity THEN Reserved(Growth) ELSE memory
Room == len < capacity \/ Fits(Growth)

-----------------------------------------------------------------------------
(* Vec *)

Give(x) == held' = [held EXCEPT ![x] = @ - 1]

\* The items of xs move into the slots from len on.
Store(m, xs) ==
  /\ Buffer([k \in 1 .. Len(m) |-> IF k - len \in 1 .. Len(xs) THEN xs[k - len] ELSE m[k]])
  /\ len' = len + Len(xs)

\* A SingleOrVec only pushes to a vector that has a buffer.
TryPush(x) ==
  /\ kind = "vec" \/ (kind = "single_or_vec" /\ capacity # 0)
  /\ held[x] > 0 /\ Room
  /\ Store(Roomy, <<x>>)
  /\ Give(x)
  /\ UNCHANGED <<kind, range, dropped, leaked>>

\* push panics when the allocator fails, and the items go with the call; so do
\* the items of an iterator that extend cannot reserve room for.
PushPanics(xs) ==
  /\ IsVec \/ (kind = "single" /\ Cardinality(xs) = 1)
  /\ capacity - len < Cardinality(xs)
  /\ \A x \in xs : held[x] > 0
  /\ held' = [x \in Item |-> IF x \in xs THEN held[x] - 1 ELSE held[x]]
  /\ dropped' = [x \in Item |-> IF x \in xs THEN dropped[x] + 1 ELSE dropped[x]]
  /\ UNCHANGED <<kind, buffer, len, range, leaked>>

\* extend, with an iterator that yields as much as it says.
Extend(x, y) ==
  /\ kind = "vec" /\ x # y /\ held[x] > 0 /\ held[y] > 0 /\ Fits(2)
  /\ Store(Reserved(2), <<x, y>>)
  /\ held' = [held EXCEPT ![x] = @ - 1, ![y] = @ - 1]
  /\ UNCHANGED <<kind, range, dropped, leaked>>

\* remove shifts what follows; pop removes the last item.
RemoveShort(i) == \* mutant: shifts one item too few
  /\ kind = "vec" /\ i < len
  /\ held' = Account(held, i, i + 1)
  /\ memory' = Copy(memory, i, i + 1, len - (i + 2))
  /\ len' = len - 1
  /\ UNCHANGED <<kind, prefix, capacity, blocks, range, dropped, leaked>>

Remove(i) ==
  /\ kind = "vec" /\ i < len
  /\ held' = Account(held, i, i + 1)
  /\ memory' = Copy(memory, i, i + 1, len - (i + 1))
  /\ len' = len - 1
  /\ UNCHANGED <<kind, prefix, capacity, blocks, range, dropped, leaked>>

\* swap with the last item, and pop.
SwapRemove(i) ==
  /\ kind = "vec" /\ i < len
  /\ held' = Account(held, i, i + 1)
  /\ memory' = [memory EXCEPT ![i + 1] = memory[len], ![len] = memory[i + 1]]
  /\ len' = len - 1
  /\ UNCHANGED <<kind, prefix, capacity, blocks, range, dropped, leaked>>

Truncate(n) ==
  /\ IsVec /\ n <= len
  /\ dropped' = Account(dropped, n, len)
  /\ len' = n
  /\ UNCHANGED <<kind, buffer, range, held, leaked>>

\* The container goes, and its buffer with it if it is to be freed.
Gone(free) ==
  /\ blocks' = IF free THEN blocks - 1 ELSE blocks
  /\ kind' = "none" /\ memory' = <<>> /\ prefix' = 0 /\ len' = 0 /\ capacity' = 0
  /\ range' = NoRange

DropVecFull == \* mutant: frees the buffer only if there are items in it
  /\ IsVec
  /\ dropped' = Account(dropped, 0, len)
  /\ Gone(len # 0)
  /\ UNCHANGED <<held, leaked>>

DropVec ==
  /\ IsVec
  /\ dropped' = Account(dropped, 0, len)
  /\ Gone(capacity # 0)
  /\ UNCHANGED <<held, leaked>>

\* new does not allocate.
New(k) == kind = "none" /\ kind' = k /\ UNCHANGED <<buffer, len, range, ledger>>

-----------------------------------------------------------------------------
(* Drain, DoubleEndedDrain and IntoIter *)

\* drain hides everything from the start of its range on.
Drain(from, to) ==
  /\ kind = "vec" /\ from <= to /\ to <= len
  /\ range' = [from |-> from, to |-> to, lindex |-> from, rindex |-> to, original_len |-> len]
  /\ len' = from
  /\ kind' = "drain"
  /\ UNCHANGED <<buffer, ledger>>

DoubleEnded ==
  /\ kind = "drain" /\ kind' = "double_ended"
  /\ UNCHANGED <<buffer, len, range, ledger>>

\* An IntoIter owns the vector and ends where it does.
IntoIter ==
  /\ kind = "vec" /\ kind' = "into_iter"
  /\ range' = [NoRange EXCEPT !.rindex = len]
  /\ UNCHANGED <<buffer, len, ledger>>

\* next of all three.
HandOut ==
  /\ kind \in {"drain", "double_ended", "into_iter"} /\ range.lindex < range.rindex
  /\ held' = Account(held, range.lindex, range.lindex + 1)
  /\ range' = [range EXCEPT !.lindex = @ + 1]
  /\ UNCHANGED <<kind, buffer, len, dropped, leaked>>

\* The end of a drain whose range ends at to: what follows moves to its start.
CloseGap(to) ==
  /\ memory' = Copy(memory, range.from, to, range.original_len - to)
  /\ len' = range.original_len - to + range.from
  /\ kind' = "vec" /\ range' = NoRange
  /\ UNCHANGED <<prefix, capacity, blocks>>

\* Drop for Drain and DoubleEndedDrain destroys what was not handed out.
DropDrain ==
  /\ kind \in {"drain", "double_ended"}
  /\ dropped' = Account(dropped, range.lindex, range.rindex)
  /\ CloseGap(range.to)
  /\ UNCHANGED <<held, leaked>>

\* stop ends the range at the next item, and drops the drain.
Stop ==
  /\ kind = "drain"
  /\ CloseGap(range.lindex)
  /\ UNCHANGED ledger

\* The program forgets a drain: the vector stays as drain left it.
ForgetDrain ==
  /\ kind \in {"drain", "double_ended"}
  /\ leaked' = [x \in Item |-> Account(leaked, range.lindex, range.rindex)[x]
                              + InSlots(range.to, range.original_len, x)]
  /\ kind' = "vec" /\ range' = NoRange
  /\ UNCHANGED <<buffer, len, held, dropped>>

\* Drop for IntoIter, and then for its vector, which has no items any more.
DropIntoIter ==
  /\ kind = "into_iter"
  /\ dropped' = Account(dropped, range.lindex, len)
  /\ Gone(capacity # 0)
  /\ UNCHANGED <<held, leaked>>

-----------------------------------------------------------------------------
(* BoxedSlice: its capacity is the one in the prefix *)

IntoBoxed ==
  /\ kind = "vec" /\ (BoxEmpty \/ len # 0 \/ capacity = 0)
  /\ prefix' = IF capacity # 0 THEN capacity ELSE prefix
  /\ kind' = "boxed" /\ capacity' = 0
  /\ UNCHANGED <<memory, blocks, len, range, ledger>>

\* What try_push may find where the prefix should be.  In front of a dangling
\* pointer there is none: to read it is undefined, any number may be there.
PrefixReads == IF memory # <<>> THEN {prefix} ELSE IF PushDangling THEN Index ELSE {}

BoxedPushOver(x) == \* mutant: one item too many
  /\ kind = "boxed" /\ held[x] > 0
  /\ \E read \in PrefixReads : len <= read
  /\ memory' = [k \in 1 .. Len(memory) |-> IF k = len + 1 THEN x ELSE memory[k]]
  /\ len' = len + 1
  /\ Give(x)
  /\ UNCHANGED <<kind, prefix, capacity, blocks, range, dropped, leaked>>

\* The item is written behind the last one, wherever that is.
BoxedPush(x) ==
  /\ kind = "boxed" /\ held[x] > 0
  /\ \E read \in PrefixReads : len < read
  /\ memory' = [k \in 1 .. Len(memory) |-> IF k = len + 1 THEN x ELSE memory[k]]
  /\ len' = len + 1
  /\ Give(x)
  /\ UNCHANGED <<kind, prefix, capacity, blocks, range, dropped, leaked>>

\* into_raw_components says that an empty slice has no capacity; the vector
\* starts where the slice did, also if there is a buffer.
FromBoxed ==
  /\ kind = "boxed" /\ kind' = "vec"
  /\ capacity' = IF len = 0 THEN 0 ELSE prefix
  /\ UNCHANGED <<memory, prefix, blocks, len, range, ledger>>

DropBoxed ==
  /\ kind = "boxed"
  /\ dropped' = Account(dropped, 0, len)
  /\ Gone(len # 0)
  /\ UNCHANGED <<held, leaked>>
=============================================================================
