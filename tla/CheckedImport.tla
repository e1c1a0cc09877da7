--------------------------- MODULE CheckedImport ---------------------------
(***************************************************************************)
(* A symbol imported from another library (CheckedImport in                *)
(* stabby-abi/src/checked_import.rs).  The first uses of it compare the    *)
(* type reports of both sides, through the checker that the other library  *)
(* exports, and one of them writes the result for all to borrow.           *)
(*                                                                         *)
(* The word `checked` is read with a Relaxed load.  On a machine that      *)
(* keeps loads in order a thread that reads VALIDATED sees the result too; *)
(* on the others it may read the result as it was before it was written.   *)
(***************************************************************************)
CONSTANTS Thread, Null

ASSUME NullAssumption == Null # "F"

VARIABLES
  inOrder,      \* the machine keeps loads in order
  compatible,   \* what the checker finds, and will always find
  checked,      \* the state of the import
  result,       \* what it holds: Null until it is written
  sees,         \* the threads that the write of result has reached
  pc,           \* where the as_ref of each thread stands
  got           \* what the last one returned, as long as the thread keeps it

import == <<inOrder, compatible, checked, result, sees>>
vars == <<import, pc, got>>

Checked == {"UNCHECKED", "VALIDATED", "INVALIDATED", "LOCKED"}
Step == {"load", "check", "lock", "write", "publish", "borrow", "invalidate", "report"}
Goto(t, l) == pc' = [pc EXCEPT ![t] = l]

TypeOK ==
  /\ inOrder \in BOOLEAN /\ compatible \in BOOLEAN
  /\ checked \in Checked
  /\ result \in {Null, "F"}
  /\ sees \subseteq Thread
  /\ pc \in [Thread -> Step \cup {"idle"}]
  /\ got \in [Thread -> {"nothing", "reference", "garbage", "mismatch"}]

Init ==
  /\ inOrder \in BOOLEAN /\ compatible \in BOOLEAN
  /\ checked = "UNCHECKED" /\ result = Null /\ sees = {}
  /\ pc = [t \in Thread |-> "idle"]
  /\ got = [t \in Thread |-> "nothing"]

-----------------------------------------------------------------------------
(* as_ref *)

Call(t) ==
  /\ pc[t] = "idle" /\ got[t] = "nothing"
  /\ Goto(t, "load")
  /\ UNCHANGED <<import, got>>

\* The head of the loop; LOCKED spins.
Load(t) ==
  /\ pc[t] = "load" /\ checked # "LOCKED"
  /\ Goto(t, CASE checked = "UNCHECKED"   -> "check"
               [] checked = "VALIDATED"   -> "borrow"
               [] checked = "INVALIDATED" -> "report")
  /\ sees' = IF inOrder /\ checked = "VALIDATED" THEN sees \cup {t} ELSE sees
  /\ UNCHANGED <<inOrder, compatible, checked, result, got>>

\* The write of result becomes visible to another thread.
Reach(t) ==
  /\ result # Null
  /\ sees' = sees \cup {t}
  /\ UNCHANGED <<inOrder, compatible, checked, result, pc, got>>

Check(t) ==
  /\ pc[t] = "check"
  /\ Goto(t, IF compatible THEN "lock" ELSE "invalidate")
  /\ UNCHANGED <<import, got>>

\* compare_exchange_weak(UNCHECKED, LOCKED).
LockAnyway(t) == \* mutant: whatever checked is by now
  /\ pc[t] = "lock"
  /\ checked' = "LOCKED"
  /\ Goto(t, "write")
  /\ UNCHANGED <<inOrder, compatible, result, sees, got>>

LockAsValid(t) == \* mutant: without a state of its own for the writing
  /\ pc[t] = "lock" /\ checked = "UNCHECKED"
  /\ checked' = "VALIDATED"
  /\ Goto(t, "write")
  /\ UNCHANGED <<inOrder, compatible, result, sees, got>>

Lock(t) ==
  /\ pc[t] = "lock" /\ checked = "UNCHECKED"
  /\ checked' = "LOCKED"
  /\ Goto(t, "write")
  /\ UNCHANGED <<inOrder, compatible, result, sees, got>>

\* It fails when checked has changed, and may do so when it has not.
FailToLock(t) ==
  /\ pc[t] = "lock"
  /\ Goto(t, "load")
  /\ UNCHANGED <<import, got>>

Write(t) ==
  /\ pc[t] = "write"
  /\ result' = "F" /\ sees' = {t}
  /\ Goto(t, "publish")
  /\ UNCHANGED <<inOrder, compatible, checked, got>>

PublishNothing(t) == \* mutant: returns without the store
  /\ pc[t] = "publish"
  /\ Goto(t, "borrow")
  /\ UNCHANGED <<import, got>>

Publish(t) ==
  /\ pc[t] = "publish"
  /\ checked' = "VALIDATED"
  /\ Goto(t, "borrow")
  /\ UNCHANGED <<inOrder, compatible, result, sees, got>>

Invalidate(t) ==
  /\ pc[t] = "invalidate"
  /\ checked' = "INVALIDATED"
  /\ Goto(t, "report")
  /\ UNCHANGED <<inOrder, compatible, result, sees, got>>

\* Ok(result.assume_init_ref()).
Borrow(t) ==
  /\ pc[t] = "borrow"
  /\ got' = [got EXCEPT ![t] = IF t \in sees THEN "reference" ELSE "garbage"]
  /\ Goto(t, "idle")
  /\ UNCHANGED import

\* Err(error_report()).
Report(t) ==
  /\ pc[t] = "report"
  /\ got' = [got EXCEPT ![t] = "mismatch"]
  /\ Goto(t, "idle")
  /\ UNCHANGED import

\* The caller is done with what it got.
Release(t) ==
  /\ pc[t] = "idle" /\ got[t] # "nothing"
  /\ got' = [got EXCEPT ![t] = "nothing"]
  /\ UNCHANGED <<import, pc>>

-----------------------------------------------------------------------------

\* The import goes out of scope, which nobody can be using, and drops what it
\* holds if it is VALIDATED; another import of the symbol takes its place.
DropUnread == \* mutant: whatever checked says
  /\ \A u \in Thread : pc[u] = "idle" /\ got[u] = "nothing"
  /\ checked' = "UNCHECKED"
  /\ sees' = {}
  /\ UNCHANGED <<inOrder, compatible, result, pc, got>>

Drop ==
  /\ \A t \in Thread : pc[t] = "idle" /\ got[t] = "nothing"
  /\ checked' = "UNCHECKED"
  /\ result' = IF checked = "VALIDATED" THEN Null ELSE result
  /\ sees' = {}
  /\ UNCHANGED <<inOrder, compatible, pc, got>>

Advance(t) ==
  \/ Load(t) \/ Check(t) \/ Lock(t) \/ FailToLock(t) \/ Write(t) \/ Publish(t)
  \/ Invalidate(t) \/ Borrow(t) \/ Report(t)

Next == Drop \/ \E t \in Thread : Call(t) \/ Advance(t) \/ Reach(t) \/ Release(t)

\* Threads go on, and an exchange that may fail for no reason does not always.
Spec == Init /\ [][Next]_vars /\ \A t \in Thread : WF_vars(Advance(t)) /\ SF_vars(Lock(t))

-----------------------------------------------------------------------------
(* Properties *)

Writing(t) == pc[t] \in {"write", "publish"}
HasResult(t) == pc[t] = "borrow" \/ got[t] \in {"reference", "garbage"}

\* One use at a time writes the result, and nobody borrows it meanwhile: not
\* those that had found it unchecked before, nor those that come later.
WrittenAlone == \A t, u \in Thread :
  Writing(t) => ~HasResult(u) /\ (Writing(u) => u = t)

\* Whoever borrows the result finds it written, as long as loads stay in order.
ReadsTheResult == \A t \in Thread :
  /\ HasResult(t) => result # Null
  /\ inOrder => got[t] # "garbage"

\* What an import holds is dropped with it: another starts with nothing.
HoldsIfValidated == checked \in {"UNCHECKED", "INVALIDATED"} => result = Null

\* Every use returns, although uses wait for another to write the result.
AsRefReturns == \A t \in Thread : pc[t] # "idle" ~> pc[t] = "idle"
=============================================================================
