------------------------------ MODULE OwnMaps ------------------------------
(***************************************************************************)
(* What a copy-on-write map promises: the map of each owner is its own.    *)
(* Cloning a map shares everything and shows nothing of it: an insert into *)
(* one map changes that map alone, at one instant.                         *)
(***************************************************************************)
CONSTANTS Thread, Key, Value, None

VARIABLES
  held,      \* held[t]: the map that t owns, from keys to a value or None
  replace    \* whether an insert replaces the value of a key it finds

vars == <<held, replace>>

Empty == [k \in Key |-> None]

Init == held = [t \in Thread |-> Empty] /\ replace \in BOOLEAN

Insert(t, k, v) ==
  /\ held[t][k] = None \/ replace
  /\ held' = [held EXCEPT ![t][k] = v]
  /\ UNCHANGED replace

Clone(t, u) ==
  /\ held[t] = Empty
  /\ held' = [held EXCEPT ![t] = held[u]]
  /\ UNCHANGED replace

Drop(t) == held' = [held EXCEPT ![t] = Empty] /\ UNCHANGED replace

Next == \E t \in Thread :
  \/ \E k \in Key, v \in Value : Insert(t, k, v)
  \/ \E u \in Thread : Clone(t, u)
  \/ Drop(t)

Spec == Init /\ [][Next]_vars
=============================================================================
