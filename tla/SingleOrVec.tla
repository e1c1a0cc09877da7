---------------------------- MODULE SingleOrVec ----------------------------
(***************************************************************************)
(* A program that stores items in vectors: in a Vec and what it turns      *)
(* into (StabbyVec), or in a SingleOrVec, which keeps one item in place    *)
(* of a vector (stabby-abi/src/alloc/single_or_vec.rs).                    *)
(*                                                                         *)
(* A single item is modelled as a slot that no allocation backs.  Left out *)
(* are try_reserve and truncate of a single item: they overwrite it with a *)
(* vector under a guard which then marks it as an item again.              *)
(***************************************************************************)
EXTENDS StabbyVec

CONSTANT SpillCapacity  \* the capacity for a second item: 8

ASSUME SpillAssumption == SpillCapacity \in Nat \ {0, 1}

\* try_push reads the container out of itself and writes it back in the end.
\* The first item takes the place of a vector that has no buffer.
PushSingle(x) ==
  /\ kind = "single_or_vec" /\ capacity = 0 /\ held[x] > 0
  /\ kind' = "single"
  /\ memory' = <<x>> /\ len' = 1 /\ capacity' = 1
  /\ Give(x)
  /\ UNCHANGED <<prefix, blocks, range, dropped, leaked>>

\* The second moves to a vector along with the first.
Spill(x) ==
  /\ kind = "single" /\ held[x] > 0 /\ SpillCapacity <= MaxCapacity
  /\ kind' = "single_or_vec"
  /\ memory' = [k \in 1 .. SpillCapacity |->
                  IF k = 1 THEN memory[1] ELSE IF k = 2 THEN x ELSE Uninit]
  /\ prefix' = SpillCapacity /\ capacity' = SpillCapacity
  /\ len' = 2 /\ blocks' = blocks + 1
  /\ Give(x)
  /\ UNCHANGED <<range, dropped, leaked>>

\* No memory: try_push forgets what it read and gives the new item back.
Full ==
  /\ len = capacity
  /\ kind \in {"vec", "single"} \/ (kind = "single_or_vec" /\ capacity # 0)

PushFailsDropping == \* mutant: what was read is destroyed, not forgotten
  /\ Full
  /\ dropped' = IF kind = "vec" THEN dropped ELSE Account(dropped, 0, len)
  /\ UNCHANGED <<kind, buffer, len, range, held, leaked>>

PushFails ==
  /\ Full
  /\ UNCHANGED vars

DropSingle ==
  /\ kind = "single"
  /\ dropped' = Account(dropped, 0, 1)
  /\ Gone(FALSE)
  /\ UNCHANGED <<held, leaked>>

-----------------------------------------------------------------------------

Next ==
  \/ \E k \in {"vec", "single_or_vec"} : New(k)
  \/ \E n \in 1 .. 2 : TryReserve(n)
  \/ \E x \in Item :
       TryPush(x) \/ BoxedPush(x) \/ PushSingle(x) \/ Spill(x) \/ \E y \in Item : Extend(x, y)
  \/ \E x, y \in Item : PushPanics({x, y})
  \/ PushFails
  \/ \E i \in Index : Remove(i) \/ SwapRemove(i) \/ Truncate(i)
  \/ \E from, to \in Index : Drain(from, to)
  \/ DoubleEnded \/ IntoIter \/ HandOut \/ DropDrain \/ Stop \/ ForgetDrain
  \/ IntoBoxed \/ FromBoxed
  \/ DropVec \/ DropIntoIter \/ DropBoxed \/ DropSingle

Spec == Init /\ [][Next]_vars

-----------------------------------------------------------------------------
(* Properties *)

\* The slots whose items are still somewhere in a container.
Iterating == kind \in {"drain", "double_ended", "into_iter"}
Leaving == range.lindex + 1 .. range.rindex
Behind == range.to + 1 .. range.original_len
Live ==
  CASE kind = "into_iter" -> Leaving
    [] kind \in {"drain", "double_ended"} -> (1 .. len) \cup Leaving \cup Behind
    [] OTHER -> 1 .. len

\* The prefix keeps the length of the allocation, whoever owns it, and "the
\* reconversion into a Vec keeps track of the capacity": so does a vector.
PrefixIsTrue == memory # <<>> /\ kind # "single" => prefix = Len(memory)
CapacityIsTrue == IsVec \/ Iterating => capacity = Len(memory)

\* What a container would destroy, hand out or show as a slice was written and
\* is inside the allocation.
LiveSlotsAreItems == \A k \in Live : k <= Len(memory) /\ memory[k] \in Item

\* Every item is in one slot of the container, or with the program, or was
\* destroyed or leaked, and that once: through drains that are dropped, stopped
\* or forgotten, conversions, and allocations that fail.
OwnedOnce == \A x \in Item :
  Cardinality({k \in Live : memory[k] = x}) + held[x] + dropped[x] + leaked[x] = 1

\* The only allocation is the buffer of the container: conversions and drops
\* neither lose nor keep one.
NoBlockIsLost == blocks = IF memory # <<>> /\ kind # "single" THEN 1 ELSE 0

Promise == INSTANCE OwnedSequence WITH
  elems <- CASE kind = "into_iter" -> <<>>
             [] kind \in {"drain", "double_ended"} ->
                  SubSeq(memory, 1, len) \o SubSeq(memory, range.to + 1, range.original_len)
             [] OTHER -> SubSeq(memory, 1, len),
  leaving <- SubSeq(memory, range.lindex + 1, range.rindex),
  at <- range.from,
  held <- {x \in Item : held[x] > 0},
  gone <- {x \in Item : dropped[x] + leaked[x] > 0}

\* Whatever happens to the buffer, the program sees a sequence: items come out
\* in the order they went in, a drain takes its range and no more, a stopped
\* one puts back the rest of it, and a failed push changes nothing.
ImplementsOwnedSequence == Promise!Spec
=============================================================================
