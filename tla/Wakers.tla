------------------------------- MODULE Wakers -------------------------------
(***************************************************************************)
(* Wakers of futures that are polled across a border                       *)
(* (stabby-abi/src/future.rs).  Each poll wraps the waker it is given in a *)
(* StableWaker on its stack, over which the future on the other side gets  *)
(* a waker of its own.  To clone that one clones what it is over into an   *)
(* Arc, for the future to keep, to wake, and to poll other futures with.   *)
(*                                                                         *)
(* One thread polls and clones while another drops what is kept; a clone   *)
(* and a drop go from waker to waker one step at a time.                   *)
(***************************************************************************)
EXTENDS Integers, Sequences, FiniteSets

CONSTANTS
  Slot,     \* where a future keeps its clones
  NoWaker,  \* what is in place of one
  Depth,    \* how many polls may be inside of one another
  Shared    \* the addresses of Arcs

ASSUME DepthAssumption == Depth \in Nat
ASSUME SharedAssumption == IsFiniteSet(Shared) /\ IsFiniteSet(Slot)

VARIABLES
  polls,   \* what the StableWakers on the stack are over
  clones,  \* the clones there are of the waker of the executor
  strong,  \* how often the SharedStableWaker at an address is counted
  over,    \* and what it is over
  kept,    \* kept[s]: a clone
  cloning, \* the clone in progress: of which waker, how many Arcs around it, to which slot
  hand     \* the waker that the clone and the drop in progress have

wakers == <<polls, clones, strong, over, kept, cloning, hand>>

\* A waker is the one of the executor, or over a poll, or a SharedStableWaker.
Executor == [of |-> "executor", at |-> 0]
OverPoll(n) == [of |-> "poll", at |-> n]
SharedWaker(a) == [of |-> "shared", at |-> a]
Waker == {Executor} \cup {OverPoll(n) : n \in 1 .. Depth} \cup {SharedWaker(a) : a \in Shared}

ASSUME NoWakerAssumption == NoWaker \notin Waker /\ NoWaker \notin Slot

Hand == {"clone", "drop"}
NoClone == [of |-> NoWaker, arcs |-> 0, slot |-> NoWaker]

WakersInit ==
  /\ polls = << >> /\ clones = 0
  /\ strong = [a \in Shared |-> 0]
  /\ over = [a \in Shared |-> NoWaker]
  /\ kept = [s \in Slot |-> NoWaker]
  /\ cloning = NoClone
  /\ hand = [c \in Hand |-> NoWaker]

Kept == {s \in Slot : kept[s] # NoWaker}
Borrowed == {polls[n] : n \in DOMAIN polls}

\* The waker a future was polled with, and those it kept.
Current == IF polls = << >> THEN Executor ELSE OverPoll(Len(polls))
AtHand == {Current} \cup {kept[s] : s \in Kept}

Unallocated == {a \in Shared : strong[a] = 0}
AtRest == polls = << >> /\ Kept = {} /\ cloning = NoClone /\ hand["drop"] = NoWaker

-----------------------------------------------------------------------------
(* Polls *)

\* StableWaker::from and with_waker, and the end of with_waker.
Poll(w) ==
  /\ cloning = NoClone
  /\ w \in AtHand /\ Len(polls) < Depth
  /\ polls' = Append(polls, w)
  /\ UNCHANGED <<clones, strong, over, kept, cloning, hand>>

Polled ==
  /\ cloning = NoClone
  /\ polls # << >> /\ polls' = SubSeq(polls, 1, Len(polls) - 1)
  /\ UNCHANGED <<clones, strong, over, kept, cloning, hand>>

-----------------------------------------------------------------------------
(* Clones *)

\* Waker::clone.  The number of Arcs that a clone may need is the bound on memory.
Keep(w, s) ==
  /\ cloning = NoClone
  /\ w \in AtHand /\ s \notin Kept
  /\ Cardinality(Unallocated) >= Len(polls)
  /\ cloning' = [of |-> w, arcs |-> 0, slot |-> s]
  /\ UNCHANGED <<polls, clones, strong, over, kept, hand>>

\* with_waker's clone is clone_borrowed of what the StableWaker is over.
CloneBorrowed ==
  /\ cloning.of # NoWaker /\ cloning.of.of = "poll"
  /\ cloning' = [cloning EXCEPT !.of = polls[@.at], !.arcs = @ + 1]
  /\ UNCHANGED <<polls, clones, strong, over, kept, hand>>

\* The clone of the executor's own, and SharedStableWaker::clone.
CloneExecutor ==
  /\ cloning.of = Executor
  /\ clones' = clones + 1
  /\ hand' = [hand EXCEPT !["clone"] = Executor]
  /\ cloning' = [cloning EXCEPT !.of = NoWaker]
  /\ UNCHANGED <<polls, strong, over, kept>>

CloneShared ==
  /\ cloning.of # NoWaker /\ cloning.of.of = "shared"
  /\ strong' = [strong EXCEPT ![cloning.of.at] = @ + 1]
  /\ hand' = [hand EXCEPT !["clone"] = cloning.of]
  /\ cloning' = [cloning EXCEPT !.of = NoWaker]
  /\ UNCHANGED <<polls, clones, over, kept>>

\* What clone_borrowed does with the clone: an Arc over it, and into_raw_waker.
MakeArc ==
  /\ hand["clone"] # NoWaker /\ cloning.arcs > 0
  /\ Unallocated # {}
  /\ LET a == CHOOSE b \in Unallocated : TRUE
     IN /\ strong' = [strong EXCEPT ![a] = 1]
        /\ over' = [over EXCEPT ![a] = hand["clone"]]
        /\ hand' = [hand EXCEPT !["clone"] = SharedWaker(a)]
  /\ cloning' = [cloning EXCEPT !.arcs = @ - 1]
  /\ UNCHANGED <<polls, clones, kept>>

Cloned ==
  /\ hand["clone"] # NoWaker /\ cloning.arcs = 0
  /\ kept' = [kept EXCEPT ![cloning.slot] = hand["clone"]]
  /\ hand' = [hand EXCEPT !["clone"] = NoWaker]
  /\ cloning' = NoClone
  /\ UNCHANGED <<polls, clones, strong, over>>

-----------------------------------------------------------------------------
(* Drops *)

\* drop, and wake, which wakes by reference before.  What a poll borrows stays where
\* it is, and what is being cloned; the executor keeps its own.
LetGo(s) ==
  /\ s \in Kept /\ hand["drop"] = NoWaker
  /\ kept[s] \in (Borrowed \cup {cloning.of}) \ {Executor} => \E r \in Kept \ {s} : kept[r] = kept[s]
  /\ hand' = [hand EXCEPT !["drop"] = kept[s]]
  /\ kept' = [kept EXCEPT ![s] = NoWaker]
  /\ UNCHANGED <<polls, clones, strong, over, cloning>>

DropExecutor ==
  /\ hand["drop"] = Executor
  /\ clones' = clones - 1
  /\ hand' = [hand EXCEPT !["drop"] = NoWaker]
  /\ UNCHANGED <<polls, strong, over, kept, cloning>>

\* SharedStableWaker::drop; StableWakerInner drops what the last one was over.
DropShared ==
  /\ hand["drop"] # NoWaker /\ hand["drop"].of = "shared"
  /\ LET a == hand["drop"].at IN
       /\ strong' = [strong EXCEPT ![a] = @ - 1]
       /\ IF strong[a] = 1
          THEN /\ over' = [over EXCEPT ![a] = NoWaker]
               /\ hand' = [hand EXCEPT !["drop"] = over[a]]
          ELSE /\ hand' = [hand EXCEPT !["drop"] = NoWaker]
               /\ UNCHANGED over
  /\ UNCHANGED <<polls, clones, kept, cloning>>

WakersNext ==
  \/ \E w \in AtHand : Poll(w) \/ \E s \in Slot : Keep(w, s)
  \/ Polled
  \/ CloneBorrowed \/ CloneExecutor \/ CloneShared \/ MakeArc \/ Cloned
  \/ \E s \in Slot : LetGo(s)
  \/ DropExecutor \/ DropShared

-----------------------------------------------------------------------------

\* The wakers that were not destroyed, and what they pass wake_by_ref on to.
Lives(w) ==
  \/ w.of = "poll" /\ w.at \in DOMAIN polls
  \/ w.of = "shared" /\ strong[w.at] > 0
Under(w) == IF w.of = "poll" THEN polls[w.at] ELSE over[w.at]

\* Whatever waker a future has, in the middle of a poll or long after it, leads
\* to the executor through wakers that were not destroyed: it is in every set
\* that has the executor's and each waker over another in the set.
WakersWake == \A W \in SUBSET Waker :
  Executor \in W /\ (\A w \in Waker : Lives(w) /\ Under(w) \in W => w \in W)
    => AtHand \cup Borrowed \subseteq W

\* The clones of the executor's waker are those that a future keeps, an Arc is
\* over, or a clone or a drop has in its hands, and so are the counts of the Arcs:
\* when the futures are gone, no clone is left.
Holding(f, w) == {x \in DOMAIN f : f[x] = w}
OwnersOf(w) ==
  Cardinality(Holding(kept, w)) + Cardinality(Holding(over, w)) + Cardinality(Holding(hand, w))
ClonesAreCounted ==
  /\ clones = OwnersOf(Executor)
  /\ \A a \in Shared : strong[a] = OwnersOf(SharedWaker(a))
=============================================================================
