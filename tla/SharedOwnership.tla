-------------------------- MODULE SharedOwnership --------------------------
(***************************************************************************)
(* What Arc and Weak promise, without counters: a value with a set of      *)
(* owners and a set of watchers.  The value lives exactly as long as it    *)
(* has owners, its storage as long as it has owners or watchers, a watcher *)
(* becomes an owner exactly when the value still lives, and exclusive      *)
(* access is given only to the one handle there is.                        *)
(***************************************************************************)
EXTENDS FiniteSets

CONSTANT Handle

VARIABLES
  owners,     \* the handles that keep the value alive
  watchers,   \* the handles that only keep the storage
  alive,      \* the value exists
  storage,    \* the storage exists
  exclusive,  \* the owner that may mutate the value or move it out
  refused     \* the upgrades that were told that the value is gone

vars == <<owners, watchers, alive, storage, exclusive, refused>>

Init ==
  /\ \E h \in Handle : owners = {h}
  /\ watchers = {} /\ exclusive = {} /\ refused = {}
  /\ alive = TRUE /\ storage = TRUE

\* A new owner: by sharing, or by an upgrade of a watcher.
Share(h) ==
  /\ alive /\ exclusive = {}
  /\ h \notin owners \cup watchers
  /\ owners' = owners \cup {h}
  /\ UNCHANGED <<watchers, alive, storage, exclusive, refused>>

\* A new watcher, of a value that lives or of what is left of it.
Watch(h) ==
  /\ storage /\ exclusive = {}
  /\ h \notin owners \cup watchers
  /\ watchers' = watchers \cup {h}
  /\ UNCHANGED <<owners, alive, storage, exclusive, refused>>

\* The value goes with its last owner.
Release(h) ==
  /\ h \in owners
  /\ owners' = owners \ {h}
  /\ alive' = (owners # {h})
  /\ exclusive' = exclusive \ {h}
  /\ UNCHANGED <<watchers, storage, refused>>

Unwatch(h) ==
  /\ h \in watchers
  /\ watchers' = watchers \ {h}
  /\ UNCHANGED <<owners, alive, storage, exclusive, refused>>

\* An upgrade fails only because the value is gone.
Refuse(h) ==
  /\ ~alive /\ watchers # {}
  /\ refused' = refused \cup {h}
  /\ UNCHANGED <<owners, watchers, alive, storage, exclusive>>

Forget(h) ==
  /\ h \in refused
  /\ refused' = refused \ {h}
  /\ UNCHANGED <<owners, watchers, alive, storage, exclusive>>

Borrow(h) ==
  /\ owners = {h} /\ watchers = {}
  /\ exclusive' = {h}
  /\ UNCHANGED <<owners, watchers, alive, storage, refused>>

Return(h) ==
  /\ exclusive = {h}
  /\ exclusive' = {}
  /\ UNCHANGED <<owners, watchers, alive, storage, refused>>

Reclaim ==
  /\ storage /\ ~alive /\ owners = {} /\ watchers = {}
  /\ storage' = FALSE
  /\ UNCHANGED <<owners, watchers, alive, exclusive, refused>>

Next ==
  \/ \E h \in Handle :
       \/ Share(h) \/ Watch(h) \/ Release(h) \/ Unwatch(h)
       \/ Refuse(h) \/ Forget(h) \/ Borrow(h) \/ Return(h)
  \/ Reclaim

Spec == Init /\ [][Next]_vars
=============================================================================
