--------------------------- MODULE OwnedSequence ---------------------------
(***************************************************************************)
(* What a vector promises, without memory: a sequence that owns each of    *)
(* its elements once, from which elements are handed out, destroyed or, if *)
(* the program forgets an iterator, lost.  A drain takes a range out of    *)
(* the sequence at once and then hands it out from either end.             *)
(***************************************************************************)
EXTENDS Sequences, SequencesExt

CONSTANT Item

VARIABLES
  elems,    \* the elements of the sequence
  leaving,  \* the elements that were taken out and not handed out yet
  at,       \* how many elements precede the range that was taken out
  held,     \* the items the program holds
  gone      \* the items that were destroyed or lost

vars == <<elems, leaving, at, held, gone>>

Init ==
  /\ elems = <<>> /\ leaving = <<>> /\ at = 0
  /\ held = Item /\ gone = {}

\* One item, or all that an iterator yields.
Push(xs) ==
  /\ ToSet(xs) \subseteq held
  /\ elems' = elems \o xs
  /\ held' = held \ ToSet(xs)
  /\ UNCHANGED <<leaving, at, gone>>

\* An element is handed out; the last one may take its place.
TakeOut(i) ==
  /\ elems' = RemoveAt(elems, i)
  /\ held' = held \cup {elems[i]}
  /\ UNCHANGED <<leaving, at, gone>>

TakeOutSwapping(i) ==
  /\ elems' = Front(ReplaceAt(elems, i, Last(elems)))
  /\ held' = held \cup {elems[i]}
  /\ UNCHANGED <<leaving, at, gone>>

Truncate(n) ==
  /\ elems' = SubSeq(elems, 1, n)
  /\ gone' = gone \cup ToSet(SubSeq(elems, n + 1, Len(elems)))
  /\ UNCHANGED <<leaving, at, held>>

\* Items that could not be stored are destroyed.
Refuse(xs) ==
  /\ xs \subseteq held
  /\ held' = held \ xs
  /\ gone' = gone \cup xs
  /\ UNCHANGED <<elems, leaving, at>>

Drain(from, to) ==
  /\ leaving = <<>>
  /\ elems' = SubSeq(elems, 1, from) \o SubSeq(elems, to + 1, Len(elems))
  /\ leaving' = SubSeq(elems, from + 1, to)
  /\ at' = from
  /\ UNCHANGED <<held, gone>>

HandOut ==
  /\ leaving # <<>>
  /\ leaving' = Tail(leaving)
  /\ held' = held \cup {Head(leaving)}
  /\ UNCHANGED <<elems, at, gone>>

\* The drain ends: what it did not hand out is destroyed, or put back.
DropRest ==
  /\ leaving' = <<>> /\ at' = 0
  /\ gone' = gone \cup ToSet(leaving)
  /\ UNCHANGED <<elems, held>>

PutBack ==
  /\ elems' = SubSeq(elems, 1, at) \o leaving \o SubSeq(elems, at + 1, Len(elems))
  /\ leaving' = <<>> /\ at' = 0
  /\ UNCHANGED <<held, gone>>

\* The drain is forgotten, and everything from its range on with it.
Lose ==
  /\ elems' = SubSeq(elems, 1, at)
  /\ gone' = gone \cup ToSet(leaving) \cup ToSet(SubSeq(elems, at + 1, Len(elems)))
  /\ leaving' = <<>> /\ at' = 0
  /\ UNCHANGED held

Next ==
  \/ \E x \in Item : Push(<<x>>) \/ \E y \in Item \ {x} : Push(<<x, y>>)
  \/ \E i \in 1 .. Len(elems) : TakeOut(i) \/ TakeOutSwapping(i)
  \/ \E n \in 0 .. Len(elems) : Truncate(n)
  \/ \E from, to \in 0 .. Len(elems) : from <= to /\ Drain(from, to)
  \/ \E x, y \in Item : Refuse({x, y})
  \/ HandOut \/ DropRest \/ PutBack \/ Lose

Spec == Init /\ [][Next]_vars
=============================================================================
