------------------------------ MODULE Interner ------------------------------
(***************************************************************************)
(* What a v-table registry promises: a set of contents that only grows,    *)
(* each interned once, at one pointer that stays valid forever.  However   *)
(* many threads insert the same content, all of them get the same pointer. *)
(***************************************************************************)
CONSTANTS Thread, Content, Ref, None

VARIABLES
  table,    \* the pointer each content is interned at, None if it is not
  asked,    \* the content each thread is inserting, None if it is not
  answer    \* the pointer its insert is about to return, None if undecided

vars == <<table, asked, answer>>

Init ==
  /\ table = [c \in Content |-> None]
  /\ asked = [t \in Thread |-> None]
  /\ answer = [t \in Thread |-> None]

Ask(t, c) ==
  /\ asked[t] = None
  /\ asked' = [asked EXCEPT ![t] = c]
  /\ UNCHANGED <<table, answer>>

\* The content is already there.
Find(t) ==
  /\ asked[t] # None /\ answer[t] = None
  /\ table[asked[t]] # None
  /\ answer' = [answer EXCEPT ![t] = table[asked[t]]]
  /\ UNCHANGED <<table, asked>>

\* The content is not there: it is interned at a pointer nothing else uses.
Intern(t, r) ==
  /\ asked[t] # None /\ answer[t] = None
  /\ table[asked[t]] = None
  /\ \A c \in Content : table[c] # r
  /\ table' = [table EXCEPT ![asked[t]] = r]
  /\ answer' = [answer EXCEPT ![t] = r]
  /\ UNCHANGED asked

Return(t) ==
  /\ answer[t] # None
  /\ asked' = [asked EXCEPT ![t] = None]
  /\ answer' = [answer EXCEPT ![t] = None]
  /\ UNCHANGED table

Next == \E t \in Thread :
  \/ \E c \in Content : Ask(t, c)
  \/ Find(t)
  \/ \E r \in Ref : Intern(t, r)
  \/ Return(t)

Spec == Init /\ [][Next]_vars
=============================================================================
