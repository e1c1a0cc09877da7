------------------------------ MODULE ArcWeak ------------------------------
(***************************************************************************)
(* The reference counts of one allocation shared by stabby's Arc and Weak  *)
(* (stabby-abi/src/alloc/sync.rs).  The prefix of the allocation holds two *)
(* atomic counters, strong and weak.  All Arcs together own one implicit   *)
(* Weak; the value is destroyed by the Arc that takes strong to 0, the     *)
(* memory is freed by the Weak that takes weak to 0.  An upgrade marks     *)
(* strong with USIZE_TOP_BIT while it is in progress.                      *)
(*                                                                         *)
(* A handle is one Arc or Weak value.  A thread is whatever code works on  *)
(* a handle: handles move freely between threads, so the operations of     *)
(* distinct handles interleave at the granularity of one atomic access,    *)
(* and Rust's borrow rules are the guards (an operation that takes &mut    *)
(* self or self by value has the handle to itself, one that takes &self    *)
(* only keeps it from being dropped).                                      *)
(***************************************************************************)
EXTENDS Integers, FiniteSets

CONSTANTS
  Handle,        \* identities of the Arc and Weak values that may coexist
  TOP,           \* USIZE_TOP_BIT: a usize ranges over 0 .. 2*TOP-1
  MaxUpgrades,   \* bound on the upgrades in progress at the same time
  UniqueOps,     \* the operations built on is_unique that the program calls
  DynWeak        \* whether Weak handles are also dropped as Dyn<Weak>

ASSUME HandleAssumption == IsFiniteSet(Handle) /\ Cardinality(Handle) + 2 < TOP
ASSUME TopAssumption == TOP \in Nat
ASSUME UpgradeAssumption == MaxUpgrades \in Nat
ASSUME UniqueAssumption == UniqueOps \subseteq {"get_mut", "make_mut", "try_into_inner"}
ASSUME DynAssumption == DynWeak \in BOOLEAN

VARIABLES
  strong,   \* AllocPrefix.strong
  weak,     \* AllocPrefix.weak
  value,    \* the pointee: "live", "dropped" or "moved" out
  memory,   \* the allocation: "allocated", or "freed"
  st,       \* what each handle is and where its operation stands
  from      \* from[h]: the Weak an upgrade to h borrows, h itself if none

vars == <<strong, weak, value, memory, st, from>>

\* The handles that the strong counter counts once they are complete.
Checking == {"get_mut", "make_mut", "try_into_inner"}
Owning == {"arc", "mut", "take", "clone", "up_and"} \cup Checking
Upgrading == {"up_fail", "up_add", "up_and"}
Dropping == {"drop_value", "drop_weak", "dyn_drop", "free"}
State == {"none", "weak"} \cup Owning \cup Upgrading \cup Dropping

In(S) == {h \in Handle : st[h] \in S}
Set(h, s) == st' = [st EXCEPT ![h] = s]
Borrowed(h) == \E g \in Handle : g # h /\ from[g] = h

\* fetch_add(1) and fetch_sub(1) on a usize, and the top-bit operations.
Inc(n) == IF n = 2 * TOP - 1 THEN 0 ELSE n + 1
Dec(n) == IF n = 0 THEN 2 * TOP - 1 ELSE n - 1
OrTop(n) == IF n >= TOP THEN n ELSE n + TOP
AndNotTopForgotten(n) == n \* mutant
AndNotTop(n) == IF n >= TOP THEN n - TOP ELSE n

Init ==
  \E h \in Handle :
    /\ strong = 1
    /\ weak = 1
    /\ value = "live"
    /\ memory = "allocated"
    /\ st = [g \in Handle |-> IF g = h THEN "arc" ELSE "none"]
    /\ from = [g \in Handle |-> g]

-----------------------------------------------------------------------------
(* Arc *)

\* Arc::clone
Clone(a, h) ==
  /\ st[a] = "arc" /\ st[h] = "none"
  /\ strong' = Inc(strong)
  /\ Set(h, "arc")
  /\ UNCHANGED <<weak, value, memory, from>>

\* Arc::downgrade, through From<&Arc> for Weak
DowngradeUncounted(a, h) == \* mutant: no fetch_add
  /\ st[a] = "arc" /\ st[h] = "none"
  /\ Set(h, "weak")
  /\ UNCHANGED <<strong, weak, value, memory, from>>

Downgrade(a, h) ==
  /\ st[a] = "arc" /\ st[h] = "none"
  /\ weak' = Inc(weak)
  /\ Set(h, "weak")
  /\ UNCHANGED <<strong, value, memory, from>>

\* The first half of Drop for Arc: whoever saw 1 goes on to destroy the value.
ReleaseStrongLate(h) == \* mutant: compares the new count with 1
  /\ strong' = Dec(strong)
  /\ Set(h, IF strong' = 1 THEN "drop_value" ELSE "none")
  /\ UNCHANGED <<weak, value, memory, from>>

ReleaseStrongNever(h) == \* mutant: compares the old count with 0
  /\ strong' = Dec(strong)
  /\ Set(h, IF strong = 0 THEN "drop_value" ELSE "none")
  /\ UNCHANGED <<weak, value, memory, from>>

ReleaseStrong(h) ==
  /\ strong' = Dec(strong)
  /\ Set(h, IF strong = 1 THEN "drop_value" ELSE "none")
  /\ UNCHANGED <<weak, value, memory, from>>

Drop(h) == st[h] = "arc" /\ ReleaseStrong(h)

\* drop_in_place of the pointee, before the implicit Weak is dropped.
DropValue(h) ==
  /\ st[h] = "drop_value"
  /\ value' = "dropped"
  /\ Set(h, "drop_weak")
  /\ UNCHANGED <<strong, weak, memory, from>>

-----------------------------------------------------------------------------
(* is_unique loads strong, then weak; its callers hold the Arc exclusively *)

\* What a caller of is_unique does when it answers false: get_mut returns
\* None, try_into_inner returns Err(this), make_mut clones the value.
NotUnique(h, operation) == Set(h, IF operation = "make_mut" THEN "clone" ELSE "arc")

StrongUnchecked(h, operation) == \* mutant: only weak is compared with 1
  /\ st[h] = "arc"
  /\ Set(h, operation)
  /\ UNCHANGED <<strong, weak, value, memory, from>>

StrongIsOne(h, operation) ==
  /\ st[h] = "arc"
  /\ IF strong = 1 THEN Set(h, operation) ELSE NotUnique(h, operation)
  /\ UNCHANGED <<strong, weak, value, memory, from>>

WeakUnchecked(h) == \* mutant: only strong is compared with 1
  /\ st[h] \in Checking
  /\ Set(h, IF st[h] = "try_into_inner" THEN "take" ELSE "mut")
  /\ UNCHANGED <<strong, weak, value, memory, from>>

WeakIsOne(h) ==
  /\ st[h] \in Checking
  /\ IF weak = 1
       THEN Set(h, IF st[h] = "try_into_inner" THEN "take" ELSE "mut")
       ELSE NotUnique(h, st[h])
  /\ UNCHANGED <<strong, weak, value, memory, from>>

\* The &mut T that get_mut or make_mut returned goes out of scope.
EndMut(h) ==
  /\ st[h] = "mut"
  /\ Set(h, "arc")
  /\ UNCHANGED <<strong, weak, value, memory, from>>

\* make_mut on a shared value: the clone moved into a new allocation replaces
\* *self, which drops the old Arc.
Replace(h) == st[h] = "clone" /\ ReleaseStrong(h)

\* try_into_inner reads the value out and drops the Arc as a mere Weak: the
\* strong counter stays at 1.
TakeForgets(h) == \* mutant: the Arc is forgotten instead of dropped as a Weak
  /\ st[h] = "take"
  /\ value' = "moved"
  /\ Set(h, "none")
  /\ UNCHANGED <<strong, weak, memory, from>>

Take(h) ==
  /\ st[h] = "take"
  /\ value' = "moved"
  /\ Set(h, "drop_weak")
  /\ UNCHANGED <<strong, weak, memory, from>>

-----------------------------------------------------------------------------
(* Weak *)

\* Weak::clone
CloneWeak(w, h) ==
  /\ st[w] = "weak" /\ st[h] = "none"
  /\ weak' = Inc(weak)
  /\ Set(h, "weak")
  /\ UNCHANGED <<strong, value, memory, from>>

\* Drop for Weak: of a Weak handle, of the Weak that all Arcs share, or of the
\* Weak that the drop of a Dyn<Weak> made up.
DropWeak(h) ==
  /\ st[h] \in {"weak", "drop_weak", "dyn_drop"} /\ ~Borrowed(h)
  /\ weak' = Dec(weak)
  /\ Set(h, IF weak = 1 THEN "free" ELSE "none")
  /\ UNCHANGED <<strong, value, memory, from>>

\* IPtrOwned::drop for Weak, which a Dyn<Weak> calls when it is dropped: it
\* takes one off the counter, then drops a Weak if that was the last one.
DropDynWeak(h) ==
  /\ DynWeak
  /\ st[h] = "weak" /\ ~Borrowed(h)
  /\ weak' = Dec(weak)
  /\ Set(h, IF weak = 1 THEN "dyn_drop" ELSE "none")
  /\ UNCHANGED <<strong, value, memory, from>>

\* The Weak that took the counter to 0 returns the memory.
Free(h) ==
  /\ st[h] = "free"
  /\ memory' = "freed"
  /\ Set(h, "none")
  /\ UNCHANGED <<strong, weak, value, from>>

-----------------------------------------------------------------------------
(* Weak::upgrade: fetch_or, then store(0) or fetch_add and fetch_and *)

UpgradeLoad(w, h) == \* mutant: a plain load instead of fetch_or
  /\ st[w] = "weak" /\ st[h] = "none"
  /\ Cardinality(In(Upgrading)) < MaxUpgrades
  /\ Set(h, IF strong \in {0, TOP} THEN "up_fail" ELSE "up_add")
  /\ from' = [from EXCEPT ![h] = w]
  /\ UNCHANGED <<strong, weak, value, memory>>

UpgradeOr(w, h) ==
  /\ st[w] = "weak" /\ st[h] = "none"
  /\ Cardinality(In(Upgrading)) < MaxUpgrades
  /\ strong' = OrTop(strong)
  /\ Set(h, IF strong \in {0, TOP} THEN "up_fail" ELSE "up_add")
  /\ from' = [from EXCEPT ![h] = w]
  /\ UNCHANGED <<weak, value, memory>>

UpgradeRetries(h) == \* mutant: tries again instead of returning None
  /\ st[h] = "up_fail"
  /\ strong' = TOP
  /\ UNCHANGED <<weak, value, memory, st, from>>

UpgradeFail(h) ==
  /\ st[h] = "up_fail"
  /\ strong' = 0
  /\ Set(h, "none")
  /\ from' = [from EXCEPT ![h] = h]
  /\ UNCHANGED <<weak, value, memory>>

UpgradeAdd(h) ==
  /\ st[h] = "up_add"
  /\ strong' = Inc(strong)
  /\ Set(h, "up_and")
  /\ UNCHANGED <<weak, value, memory, from>>

UpgradeAnd(h) ==
  /\ st[h] = "up_and"
  /\ strong' = AndNotTop(strong)
  /\ Set(h, "arc")
  /\ from' = [from EXCEPT ![h] = h]
  /\ UNCHANGED <<weak, value, memory>>

-----------------------------------------------------------------------------

\* The steps of an operation that was already called.
Finish(h) ==
  \/ DropValue(h) \/ Replace(h) \/ WeakIsOne(h) \/ Take(h) \/ Free(h)
  \/ st[h] # "weak" /\ DropWeak(h)
  \/ UpgradeFail(h) \/ UpgradeAdd(h) \/ UpgradeAnd(h)

\* The calls a program may make.
Call(h) ==
  \/ \E a \in Handle :
       Clone(a, h) \/ Downgrade(a, h) \/ CloneWeak(a, h) \/ UpgradeOr(a, h)
  \/ Drop(h) \/ EndMut(h) \/ DropDynWeak(h)
  \/ st[h] = "weak" /\ DropWeak(h)
  \/ \E operation \in UniqueOps : StrongIsOne(h, operation)

Next == \E h \in Handle : Finish(h) \/ Call(h)

\* A thread that entered an operation runs it to its end: no step of one waits
\* for another handle.
Fairness == \A h \in Handle : WF_vars(Finish(h))

Spec == Init /\ [][Next]_vars /\ Fairness

-----------------------------------------------------------------------------
(* Properties *)

TypeOK ==
  /\ strong \in 0 .. 2 * TOP - 1
  /\ weak \in 0 .. 2 * TOP - 1
  /\ value \in {"live", "dropped", "moved"}
  /\ memory \in {"allocated", "freed"}
  /\ st \in [Handle -> State]
  /\ from \in [Handle -> Handle]

\* An Arc always points to a live value in memory that was not freed, whatever
\* the interleaving of drops and upgrades: the value is destroyed only by the
\* last Arc, and no upgrade revives a value that is being destroyed.
ArcsPointToLiveValue ==
  In(Owning \cup {"drop_value"}) # {} => value = "live" /\ memory = "allocated"

\* Whoever still touches the counters (a Weak, an upgrade or a drop in
\* progress) does so before the memory is freed, and at most one of them frees
\* it: no use after free, no double free.
MemoryOutlivesHandles ==
  /\ memory = "freed" => In(State \ {"none"}) = {}
  /\ \A g, h \in Handle : st[g] = "free" /\ st[h] # "none" => g = h

\* The &mut T of get_mut and make_mut, and the value try_into_inner moves out,
\* belong to the only handle of the allocation: "whether or not this is the
\* sole owner of its data, including weak owners".
ExclusiveIsAlone ==
  \A g, h \in Handle : st[h] \in {"mut", "take"} /\ st[g] # "none" => g = h

\* When the last handle is gone and no operation is in progress, the value was
\* destroyed or moved out and the memory was freed.
NothingLeaks == In(State \ {"none"}) = {} => value # "live" /\ memory = "freed"

\* Once no Arc exists and none is being made, the value is eventually destroyed,
\* without any further call.
LastArcDestroysValue ==
  (In(Owning \cup {"up_add"}) = {}) ~> (value # "live" \/ In(Owning) # {})

\* An upgrade that was called is eventually answered.
UpgradeTerminates ==
  \A h \in Handle : (st[h] \in Upgrading) ~> (st[h] \notin Upgrading)

\* A value that was destroyed or moved out never comes back, freed memory stays
\* freed, and the value goes only while no other Arc owns it.
ValueGoesOnce ==
  [][/\ value # "live" => value' = value
     /\ memory = "freed" => memory' = "freed"
     /\ value' # value => \E h \in Handle : In(Owning \cup {"drop_value"}) = {h}]_vars

-----------------------------------------------------------------------------
(* The counters implement shared ownership *)

\* An upgrade owns the value from its fetch_or on, a drop gives it up with its
\* fetch_sub; the value counts as gone when its destruction was decided.
Promise == INSTANCE SharedOwnership WITH
  owners <- In(Owning \cup {"up_add"}),
  watchers <- In({"weak"}),
  alive <- value = "live" /\ In({"drop_value"}) = {},
  storage <- memory = "allocated",
  exclusive <- In({"mut", "take"}),
  refused <- In({"up_fail"})

\* Every interleaving of clones, drops, downgrades, upgrades and exclusive
\* accesses is one that the abstract owners and watchers allow.
ImplementsSharedOwnership == Promise!Spec

-----------------------------------------------------------------------------
(* The inductive invariant behind the safety properties.  It holds of      *)
(* programs whose upgrades do not overlap, as long as an upgrade does not  *)
(* race with try_into_inner either (ArcConcurrentUpgrades and ArcUniqueRace *)
(* show what happens otherwise).                                           *)

SerialUse ==
  /\ MaxUpgrades <= 1
  /\ MaxUpgrades = 0 \/ "try_into_inner" \notin UniqueOps

\* Every complete or half-made Arc is counted once; a value that was moved out
\* leaves its count behind.
StrongCounts ==
  AndNotTop(strong) = Cardinality(In(Owning)) + IF value = "moved" THEN 1 ELSE 0

\* The Weak that all Arcs share, until the drop of the last Arc released it.
SharedWeak == IF value = "live" \/ \E h \in Handle : st[h] = "drop_weak" THEN 1 ELSE 0

\* Every Weak is counted once; a counter that went below 0 has no handle left.
WeakCounts ==
  \/ weak = Cardinality(In({"weak"})) + SharedWeak
  \/ /\ DynWeak /\ weak = 2 * TOP - 1 /\ value # "live" /\ memory = "allocated"
     /\ \A h \in Handle : st[h] = "none"

\* The top bit is set exactly while the one upgrade is in progress, and that
\* upgrade keeps the Weak it started from.
TopBitMarksUpgrade ==
  /\ strong >= TOP <=> \E h \in Handle : st[h] \in Upgrading
  /\ \A g, h \in Handle : st[g] \in Upgrading /\ st[h] \in Upgrading => g = h
  /\ \A h \in Handle :
       IF st[h] \in Upgrading THEN st[from[h]] = "weak" ELSE from[h] = h

\* The value lives while someone owns it or is about to destroy it, and nobody
\* owns it while it is destroyed, while the shared Weak or the memory goes, or
\* while an upgrade fails.
ValueLives ==
  /\ value = "live" <=>
       \E h \in Handle : st[h] \in Owning \cup {"up_add", "drop_value"}
  /\ \A g, h \in Handle :
       st[g] \in Dropping /\ st[h] \in Owning \cup Dropping \cup {"up_add"} => g = h
  /\ \A g, h \in Handle :
       ~(st[g] = "up_fail" /\ st[h] \in Owning \cup {"up_add"})

\* The memory is freed by the last handle of all, and only then.
FreedLast ==
  /\ \A g, h \in Handle : st[g] \in {"free", "dyn_drop"} /\ st[h] # "none" => g = h
  /\ memory = "freed" => \A h \in Handle : st[h] = "none"
  /\ weak = 0 <=> memory = "freed" \/ \E h \in Handle : st[h] \in {"free", "dyn_drop"}
  /\ DynWeak \/ \A h \in Handle : st[h] # "dyn_drop"

\* Without upgrades, a strong count of 1 stays 1 while is_unique loads the weak
\* count, so exclusive access is exclusive; with upgrades nothing is moved out.
ExclusiveUse ==
  /\ MaxUpgrades = 0 =>
       /\ \A h \in Handle : st[h] \notin Upgrading
       /\ \A g, h \in Handle :
            st[g] \in Checking /\ st[h] \notin {"none", "weak"} => g = h
       /\ \A g, h \in Handle : st[g] \in {"mut", "take"} /\ st[h] # "none" => g = h
       /\ value = "moved" =>
            \A h \in Handle : st[h] \in {"none", "drop_weak", "free"}
  /\ MaxUpgrades # 0 =>
       value # "moved" /\ \A h \in Handle : st[h] \notin {"take", "try_into_inner"}
  /\ UniqueOps = {} => \A h \in Handle : st[h] \notin Checking \cup {"mut", "take"}

IInv ==
  /\ TypeOK
  /\ StrongCounts
  /\ WeakCounts
  /\ TopBitMarksUpgrade
  /\ ValueLives
  /\ FreedLast
  /\ ExclusiveUse
=============================================================================
