--------------------------- MODULE ArcWeakProofs ---------------------------
(***************************************************************************)
(* Proofs about ArcWeak for every set of handles and every width of usize: *)
(* as long as upgrades do not overlap, Arcs point to live values and the   *)
(* memory outlives every handle, and ArcWeak implements SharedOwnership:   *)
(* every step of the counters is a step of the owners and watchers.        *)
(***************************************************************************)
EXTENDS ArcWeak, FiniteSetTheorems, TLAPS

\* The handles of a kind are finitely many, and there are none of that kind
\* exactly if their number is 0.
LEMMA CountType ==
  ASSUME NEW S
  PROVE  /\ IsFiniteSet(In(S))
         /\ Cardinality(In(S)) \in Nat
         /\ Cardinality(In(S)) <= Cardinality(Handle)
         /\ Cardinality(In(S)) = 0 <=> \A h \in Handle : st[h] \notin S
<1>1. In(S) \in SUBSET Handle
  BY DEF In
<1>2. IsFiniteSet(Handle)
  BY HandleAssumption
<1>3. /\ IsFiniteSet(In(S))
      /\ Cardinality(In(S)) <= Cardinality(Handle)
  BY <1>1, <1>2, FS_Subset
<1>4. Cardinality(In(S)) \in Nat
  BY <1>3, FS_CardinalityType
<1>5. Cardinality(In(S)) = 0 <=> In(S) = {}
  BY <1>3, FS_EmptySet
<1>6. In(S) = {} <=> \A h \in Handle : st[h] \notin S
  BY DEF In
<1> QED
  BY <1>3, <1>4, <1>5, <1>6

\* Moving one handle to state s changes the number of handles of a kind by
\* one at most.
LEMMA CountStep ==
  ASSUME TypeOK, NEW h \in Handle, NEW s, Set(h, s), NEW S
  PROVE  Cardinality(In(S))' =
           Cardinality(In(S)) - (IF st[h] \in S THEN 1 ELSE 0)
                              + (IF s \in S THEN 1 ELSE 0)
<1> DEFINE A == In(S)
<1> DEFINE B == In(S)'
<1>1. IsFiniteSet(A) /\ Cardinality(A) \in Nat
  BY CountType
<1>2. h \in A <=> st[h] \in S
  BY DEF In
<1>3. B = IF s \in S THEN A \cup {h} ELSE A \ {h}
  BY DEF In, Set, TypeOK
<1>4. Cardinality(B) = Cardinality(A) - (IF h \in A THEN 1 ELSE 0)
                                    + (IF s \in S THEN 1 ELSE 0)
  <2> HIDE DEF A, B
  <2>1. CASE s \in S
    BY <1>1, <1>3, <2>1, FS_AddElement
  <2>2. CASE s \notin S
    <3>1. B = A \ {h}
      BY <1>3, <2>2
    <3>2. Cardinality(A \ {h}) = IF h \in A THEN Cardinality(A) - 1 ELSE Cardinality(A)
      BY <1>1, FS_RemoveElement
    <3> QED
      BY <1>1, <2>2, <3>1, <3>2
  <2> QED
    BY <2>1, <2>2
<1> QED
  BY <1>2, <1>4

\* A handle of a kind is the only one exactly if their number is 1.
LEMMA CountOthers ==
  ASSUME NEW S, NEW h \in Handle, st[h] \in S
  PROVE  Cardinality(In(S)) = 1 <=> \A g \in Handle : st[g] \in S => g = h
<1>1. IsFiniteSet(In(S)) /\ h \in In(S)
  BY CountType DEF In
<1>2. Cardinality(In(S)) = 1 <=> \E x : In(S) = {x}
  BY <1>1, FS_Singleton
<1>3. (\E x : In(S) = {x}) <=> In(S) = {h}
  BY <1>1
<1>4. In(S) = {h} <=> \A g \in Handle : st[g] \in S => g = h
  BY <1>1 DEF In
<1> QED
  BY <1>2, <1>3, <1>4

\* What Set does, one handle at a time.
LEMMA SetStep ==
  ASSUME TypeOK, NEW h \in Handle, NEW s \in State, Set(h, s)
  PROVE  /\ st' \in [Handle -> State]
         /\ st'[h] = s
         /\ \A g \in Handle : g # h => st'[g] = st[g]
BY DEF Set, TypeOK

-----------------------------------------------------------------------------

LEMMA InitInv == Init => IInv
<1> SUFFICES ASSUME NEW h \in Handle,
                    strong = 1, weak = 1, value = "live", memory = "allocated",
                    st = [g \in Handle |-> IF g = h THEN "arc" ELSE "none"],
                    from = [g \in Handle |-> g]
             PROVE  IInv
  BY DEF Init
<1>t. TOP \in Nat /\ TOP > 2
  <2>1. Cardinality(Handle) \in Nat /\ Cardinality(Handle) # 0
    BY HandleAssumption, FS_CardinalityType, FS_EmptySet
  <2> QED
    BY <2>1, HandleAssumption, TopAssumption
<1>1. TypeOK
  <2>1. st \in [Handle -> State] /\ from \in [Handle -> Handle]
    BY DEF State, Owning
  <2>2. /\ strong \in 0 .. 2 * TOP - 1 /\ weak \in 0 .. 2 * TOP - 1
        /\ value \in {"live", "dropped", "moved"} /\ memory \in {"allocated", "freed"}
    BY <1>t
  <2> QED
    BY <2>1, <2>2 DEF TypeOK
<1>2. Cardinality(In(Owning)) = 1
  <2>1. In(Owning) = {h}
    BY DEF In, Owning, Checking
  <2> QED
    BY <2>1, FS_Singleton
<1>3. Cardinality(In({"weak"})) = 0
  BY CountType
<1>4. StrongCounts
  BY <1>t, <1>2 DEF StrongCounts, AndNotTop
<1>5. WeakCounts
  BY <1>3 DEF WeakCounts, SharedWeak
<1>6. TopBitMarksUpgrade /\ ValueLives /\ FreedLast /\ ExclusiveUse
  BY <1>t DEF TopBitMarksUpgrade, ValueLives, FreedLast, ExclusiveUse,
              Owning, Upgrading, Dropping, Checking
<1> QED
  BY <1>1, <1>4, <1>5, <1>6 DEF IInv

-----------------------------------------------------------------------------

\* What every step may use: neither counter is near its bounds, unless weak
\* went below 0, and then there is no handle left.
LEMMA Bounds ==
  ASSUME IInv
  PROVE  /\ TOP \in Nat /\ strong \in 0 .. 2 * TOP - 1 /\ weak \in 0 .. 2 * TOP - 1
         /\ Cardinality(In(Owning)) \in Nat /\ Cardinality(In({"weak"})) \in Nat
         /\ AndNotTop(strong) + 1 < TOP
         /\ (\E h \in Handle : st[h] # "none") =>
              weak = Cardinality(In({"weak"})) + SharedWeak /\ weak + 1 < TOP
<1>1. Cardinality(Handle) \in Nat /\ Cardinality(Handle) + 2 < TOP /\ TOP \in Nat
  BY HandleAssumption, TopAssumption, FS_CardinalityType
<1>2. /\ Cardinality(In(Owning)) \in Nat
      /\ Cardinality(In(Owning)) <= Cardinality(Handle)
      /\ Cardinality(In({"weak"})) \in Nat
      /\ Cardinality(In({"weak"})) <= Cardinality(Handle)
  BY CountType
<1>3. SharedWeak \in {0, 1}
  BY DEF SharedWeak
<1> QED
  BY <1>1, <1>2, <1>3 DEF IInv, TypeOK, StrongCounts, WeakCounts

\* A clone of an Arc finds the value alive and is counted.

\* A clone of an Arc finds the value alive and is counted.

\* A clone of an Arc finds the value alive and is counted.

\* A clone of an Arc finds the value alive and is counted.
LEMMA CloneInv ==
  ASSUME IInv, NEW a \in Handle, NEW h \in Handle, Clone(a, h)
  PROVE  IInv'
<1> USE DEF Owning, Upgrading, Dropping, Checking
<1>1. /\ st' \in [Handle -> State] /\ st'[h] = "arc"
      /\ \A g \in Handle : g # h => st'[g] = st[g]
  BY SetStep DEF IInv, State, Clone
<1>2. /\ Cardinality(In(Owning))' = Cardinality(In(Owning)) + 1
      /\ Cardinality(In({"weak"}))' = Cardinality(In({"weak"}))
  BY CountStep, Bounds DEF IInv, Clone
<1>3. TypeOK'
  BY <1>1, Bounds DEF IInv, TypeOK, Clone, Inc
<1>4. StrongCounts'
  BY <1>1, <1>2, Bounds DEF IInv, StrongCounts, AndNotTop, ValueLives, Clone, Inc
<1>5. WeakCounts'
  BY <1>1, <1>2, Bounds DEF IInv, WeakCounts, SharedWeak, ValueLives, Clone, Inc
<1>6. TopBitMarksUpgrade'
  <2>1. strong' >= TOP <=> strong >= TOP
    BY Bounds DEF AndNotTop, Inc, Clone
  <2> QED
    BY <1>1, <2>1 DEF IInv, TypeOK, TopBitMarksUpgrade, Clone
<1>7. ValueLives'
  BY <1>1 DEF IInv, ValueLives, Clone
<1>8. FreedLast'
  BY <1>1, Bounds DEF IInv, FreedLast, Clone, Inc
<1>9. ExclusiveUse'
  BY <1>1 DEF IInv, ExclusiveUse, ValueLives, Clone
<1> QED
  BY <1>3, <1>4, <1>5, <1>6, <1>7, <1>8, <1>9 DEF IInv

\* A downgrade adds one Weak next to the one that all Arcs share.
LEMMA DowngradeInv ==
  ASSUME IInv, NEW a \in Handle, NEW h \in Handle, Downgrade(a, h)
  PROVE  IInv'
<1> USE DEF Owning, Upgrading, Dropping, Checking
<1>1. /\ st' \in [Handle -> State] /\ st'[h] = "weak"
      /\ \A g \in Handle : g # h => st'[g] = st[g]
  BY SetStep DEF IInv, State, Downgrade
<1>2. /\ Cardinality(In(Owning))' = Cardinality(In(Owning))
      /\ Cardinality(In({"weak"}))' = Cardinality(In({"weak"})) + 1
  BY CountStep, Bounds DEF IInv, Downgrade
<1>3. TypeOK'
  BY <1>1, Bounds DEF IInv, TypeOK, Downgrade, Inc
<1>4. StrongCounts'
  BY <1>1, <1>2, Bounds DEF IInv, StrongCounts, AndNotTop, ValueLives, Downgrade, Inc
<1>5. WeakCounts'
  BY <1>1, <1>2, Bounds DEF IInv, WeakCounts, SharedWeak, ValueLives, Downgrade, Inc
<1>6. TopBitMarksUpgrade'
  BY <1>1 DEF IInv, TypeOK, TopBitMarksUpgrade, Downgrade
<1>7. ValueLives'
  BY <1>1 DEF IInv, ValueLives, Downgrade
<1>8. FreedLast'
  BY <1>1, Bounds DEF IInv, FreedLast, Downgrade, Inc
<1>9. ExclusiveUse'
  BY <1>1 DEF IInv, ExclusiveUse, ValueLives, Downgrade
<1> QED
  BY <1>3, <1>4, <1>5, <1>6, <1>7, <1>8, <1>9 DEF IInv

\* A clone of a Weak adds one Weak.
LEMMA CloneWeakInv ==
  ASSUME IInv, NEW a \in Handle, NEW h \in Handle, CloneWeak(a, h)
  PROVE  IInv'
<1> USE DEF Owning, Upgrading, Dropping, Checking
<1>1. /\ st' \in [Handle -> State] /\ st'[h] = "weak"
      /\ \A g \in Handle : g # h => st'[g] = st[g]
  BY SetStep DEF IInv, State, CloneWeak
<1>2. /\ Cardinality(In(Owning))' = Cardinality(In(Owning))
      /\ Cardinality(In({"weak"}))' = Cardinality(In({"weak"})) + 1
  BY CountStep, Bounds DEF IInv, CloneWeak
<1>3. TypeOK'
  BY <1>1, Bounds DEF IInv, TypeOK, CloneWeak, Inc
<1>4. StrongCounts'
  BY <1>1, <1>2, Bounds DEF IInv, StrongCounts, AndNotTop, ValueLives, CloneWeak, Inc
<1>5. WeakCounts'
  BY <1>1, <1>2, Bounds DEF IInv, WeakCounts, SharedWeak, ValueLives, CloneWeak, Inc
<1>6. TopBitMarksUpgrade'
  BY <1>1 DEF IInv, TypeOK, TopBitMarksUpgrade, CloneWeak
<1>7. ValueLives'
  BY <1>1 DEF IInv, ValueLives, CloneWeak
<1>8. FreedLast'
  BY <1>1, Bounds DEF IInv, FreedLast, CloneWeak, Inc
<1>9. ExclusiveUse'
  BY <1>1 DEF IInv, ExclusiveUse, ValueLives, CloneWeak
<1> QED
  BY <1>3, <1>4, <1>5, <1>6, <1>7, <1>8, <1>9 DEF IInv

\* Destroying the value leaves the shared Weak to be dropped.
LEMMA DropValueInv ==
  ASSUME IInv, NEW h \in Handle, DropValue(h)
  PROVE  IInv'
<1> USE DEF Owning, Upgrading, Dropping, Checking
<1>1. /\ st' \in [Handle -> State] /\ st'[h] = "drop_weak"
      /\ \A g \in Handle : g # h => st'[g] = st[g]
  BY SetStep DEF IInv, State, DropValue
<1>2. /\ Cardinality(In(Owning))' = Cardinality(In(Owning))
      /\ Cardinality(In({"weak"}))' = Cardinality(In({"weak"}))
  BY CountStep, Bounds DEF IInv, DropValue
<1>3. TypeOK'
  BY <1>1, Bounds DEF IInv, TypeOK, DropValue
<1>4. StrongCounts'
  BY <1>1, <1>2, Bounds DEF IInv, StrongCounts, AndNotTop, ValueLives, DropValue
<1>5. WeakCounts'
  BY <1>1, <1>2, Bounds DEF IInv, WeakCounts, SharedWeak, ValueLives, DropValue
<1>6. TopBitMarksUpgrade'
  BY <1>1 DEF IInv, TypeOK, TopBitMarksUpgrade, DropValue
<1>7. ValueLives'
  BY <1>1 DEF IInv, ValueLives, DropValue
<1>8. FreedLast'
  BY <1>1, Bounds DEF IInv, FreedLast, DropValue
<1>9. ExclusiveUse'
  BY <1>1 DEF IInv, ExclusiveUse, ValueLives, DropValue
<1> QED
  BY <1>3, <1>4, <1>5, <1>6, <1>7, <1>8, <1>9 DEF IInv

\* The end of an exclusive borrow leaves an Arc.
LEMMA EndMutInv ==
  ASSUME IInv, NEW h \in Handle, EndMut(h)
  PROVE  IInv'
<1> USE DEF Owning, Upgrading, Dropping, Checking
<1>1. /\ st' \in [Handle -> State] /\ st'[h] = "arc"
      /\ \A g \in Handle : g # h => st'[g] = st[g]
  BY SetStep DEF IInv, State, EndMut
<1>2. /\ Cardinality(In(Owning))' = Cardinality(In(Owning))
      /\ Cardinality(In({"weak"}))' = Cardinality(In({"weak"}))
  BY CountStep, Bounds DEF IInv, EndMut
<1>3. TypeOK'
  BY <1>1, Bounds DEF IInv, TypeOK, EndMut
<1>4. StrongCounts'
  BY <1>1, <1>2, Bounds DEF IInv, StrongCounts, AndNotTop, ValueLives, EndMut
<1>5. WeakCounts'
  BY <1>1, <1>2, Bounds DEF IInv, WeakCounts, SharedWeak, ValueLives, EndMut
<1>6. TopBitMarksUpgrade'
  BY <1>1 DEF IInv, TypeOK, TopBitMarksUpgrade, EndMut
<1>7. ValueLives'
  BY <1>1 DEF IInv, ValueLives, EndMut
<1>8. FreedLast'
  BY <1>1, Bounds DEF IInv, FreedLast, EndMut
<1>9. ExclusiveUse'
  BY <1>1 DEF IInv, ExclusiveUse, ValueLives, EndMut
<1> QED
  BY <1>3, <1>4, <1>5, <1>6, <1>7, <1>8, <1>9 DEF IInv

\* Moving the value out leaves its strong count behind.
LEMMA TakeInv ==
  ASSUME IInv, NEW h \in Handle, Take(h)
  PROVE  IInv'
<1> USE DEF Owning, Upgrading, Dropping, Checking
<1>e. MaxUpgrades = 0 /\ \A g \in Handle : g # h => st[g] = "none"
  BY UpgradeAssumption DEF IInv, ExclusiveUse, Take
<1>1. /\ st' \in [Handle -> State] /\ st'[h] = "drop_weak"
      /\ \A g \in Handle : g # h => st'[g] = st[g]
  BY SetStep DEF IInv, State, Take
<1>2. /\ Cardinality(In(Owning))' = Cardinality(In(Owning)) - 1
      /\ Cardinality(In({"weak"}))' = Cardinality(In({"weak"}))
  BY CountStep, Bounds DEF IInv, Take
<1>3. TypeOK'
  BY <1>1, Bounds DEF IInv, TypeOK, Take
<1>4. StrongCounts'
  BY CountType, <1>1, <1>2, Bounds DEF IInv, StrongCounts, AndNotTop, ValueLives, Take
<1>5. WeakCounts'
  BY <1>1, <1>2, Bounds DEF IInv, WeakCounts, SharedWeak, ValueLives, Take
<1>6. TopBitMarksUpgrade'
  BY <1>1 DEF IInv, TypeOK, TopBitMarksUpgrade, Take
<1>7. ValueLives'
  BY <1>e, <1>1 DEF IInv, ValueLives, Take
<1>8. FreedLast'
  BY <1>1, Bounds DEF IInv, FreedLast, Take
<1>9. ExclusiveUse'
  BY <1>e, <1>1 DEF IInv, ExclusiveUse, ValueLives, Take
<1> QED
  BY <1>3, <1>4, <1>5, <1>6, <1>7, <1>8, <1>9 DEF IInv

\* Freeing the memory is the last thing that happens to it.
LEMMA FreeInv ==
  ASSUME IInv, NEW h \in Handle, Free(h)
  PROVE  IInv'
<1> USE DEF Owning, Upgrading, Dropping, Checking
<1>e. weak = 0 /\ \A g \in Handle : g # h => st[g] = "none"
  BY DEF IInv, FreedLast, Free
<1>1. /\ st' \in [Handle -> State] /\ st'[h] = "none"
      /\ \A g \in Handle : g # h => st'[g] = st[g]
  BY SetStep DEF IInv, State, Free
<1>2. /\ Cardinality(In(Owning))' = Cardinality(In(Owning))
      /\ Cardinality(In({"weak"}))' = Cardinality(In({"weak"}))
  BY CountStep, Bounds DEF IInv, Free
<1>3. TypeOK'
  BY <1>1, Bounds DEF IInv, TypeOK, Free
<1>4. StrongCounts'
  BY <1>1, <1>2, Bounds DEF IInv, StrongCounts, AndNotTop, ValueLives, Free
<1>5. WeakCounts'
  BY <1>1, <1>2, Bounds DEF IInv, WeakCounts, SharedWeak, ValueLives, Free
<1>6. TopBitMarksUpgrade'
  BY <1>1 DEF IInv, TypeOK, TopBitMarksUpgrade, Free
<1>7. ValueLives'
  BY <1>1 DEF IInv, ValueLives, Free
<1>8. FreedLast'
  BY <1>e, <1>1, Bounds DEF IInv, FreedLast, Free
<1>9. ExclusiveUse'
  BY <1>1 DEF IInv, ExclusiveUse, ValueLives, Free
<1> QED
  BY <1>3, <1>4, <1>5, <1>6, <1>7, <1>8, <1>9 DEF IInv

\* A failing upgrade restores the 0 it found.
LEMMA UpgradeFailInv ==
  ASSUME IInv, NEW h \in Handle, UpgradeFail(h)
  PROVE  IInv'
<1> USE DEF Owning, Upgrading, Dropping, Checking
<1>e. Cardinality(In(Owning)) = 0 /\ value # "moved"
  BY CountType, UpgradeAssumption DEF IInv, ValueLives, ExclusiveUse, UpgradeFail
<1>1. /\ st' \in [Handle -> State] /\ st'[h] = "none"
      /\ \A g \in Handle : g # h => st'[g] = st[g]
  BY SetStep DEF IInv, State, UpgradeFail
<1>2. /\ Cardinality(In(Owning))' = Cardinality(In(Owning))
      /\ Cardinality(In({"weak"}))' = Cardinality(In({"weak"}))
  BY CountStep, Bounds DEF IInv, UpgradeFail
<1>3. TypeOK'
  <2>1. from' \in [Handle -> Handle]
    BY DEF IInv, TypeOK, UpgradeFail
  <2> QED
    BY <1>1, <2>1, Bounds DEF IInv, TypeOK, AndNotTop, UpgradeFail
<1>4. StrongCounts'
  BY <1>e, <1>1, <1>2, Bounds DEF IInv, StrongCounts, AndNotTop, ValueLives, UpgradeFail
<1>5. WeakCounts'
  BY <1>1, <1>2, Bounds DEF IInv, WeakCounts, SharedWeak, ValueLives, UpgradeFail
<1>6. TopBitMarksUpgrade'
  BY <1>1, Bounds DEF IInv, TypeOK, TopBitMarksUpgrade, UpgradeFail
<1>7. ValueLives'
  BY <1>1 DEF IInv, ValueLives, UpgradeFail
<1>8. FreedLast'
  BY <1>1, Bounds DEF IInv, FreedLast, UpgradeFail
<1>9. ExclusiveUse'
  BY <1>1 DEF IInv, ExclusiveUse, ValueLives, UpgradeFail
<1> QED
  BY <1>3, <1>4, <1>5, <1>6, <1>7, <1>8, <1>9 DEF IInv

\* A succeeding upgrade is counted under the top bit.
LEMMA UpgradeAddInv ==
  ASSUME IInv, NEW h \in Handle, UpgradeAdd(h)
  PROVE  IInv'
<1> USE DEF Owning, Upgrading, Dropping, Checking
<1>1. /\ st' \in [Handle -> State] /\ st'[h] = "up_and"
      /\ \A g \in Handle : g # h => st'[g] = st[g]
  BY SetStep DEF IInv, State, UpgradeAdd
<1>2. /\ Cardinality(In(Owning))' = Cardinality(In(Owning)) + 1
      /\ Cardinality(In({"weak"}))' = Cardinality(In({"weak"}))
  BY CountStep, Bounds DEF IInv, UpgradeAdd
<1>3. TypeOK'
  BY <1>1, Bounds DEF IInv, TypeOK, UpgradeAdd, Inc
<1>4. StrongCounts'
  BY <1>1, <1>2, Bounds DEF IInv, StrongCounts, AndNotTop, ValueLives, UpgradeAdd, Inc
<1>5. WeakCounts'
  BY <1>1, <1>2, Bounds DEF IInv, WeakCounts, SharedWeak, ValueLives, UpgradeAdd, Inc
<1>6. TopBitMarksUpgrade'
  <2>1. strong' >= TOP <=> strong >= TOP
    BY Bounds DEF AndNotTop, Inc, UpgradeAdd
  <2> QED
    BY <1>1, <2>1 DEF IInv, TypeOK, TopBitMarksUpgrade, UpgradeAdd
<1>7. ValueLives'
  BY <1>1 DEF IInv, ValueLives, UpgradeAdd
<1>8. FreedLast'
  BY <1>1, Bounds DEF IInv, FreedLast, UpgradeAdd, Inc
<1>9. ExclusiveUse'
  BY <1>1 DEF IInv, ExclusiveUse, ValueLives, UpgradeAdd
<1> QED
  BY <1>3, <1>4, <1>5, <1>6, <1>7, <1>8, <1>9 DEF IInv

\* A succeeding upgrade ends by clearing the top bit.
LEMMA UpgradeAndInv ==
  ASSUME IInv, NEW h \in Handle, UpgradeAnd(h)
  PROVE  IInv'
<1> USE DEF Owning, Upgrading, Dropping, Checking
<1>1. /\ st' \in [Handle -> State] /\ st'[h] = "arc"
      /\ \A g \in Handle : g # h => st'[g] = st[g]
  BY SetStep DEF IInv, State, UpgradeAnd
<1>2. /\ Cardinality(In(Owning))' = Cardinality(In(Owning))
      /\ Cardinality(In({"weak"}))' = Cardinality(In({"weak"}))
  BY CountStep, Bounds DEF IInv, UpgradeAnd
<1>3. TypeOK'
  <2>1. from' \in [Handle -> Handle]
    BY DEF IInv, TypeOK, UpgradeAnd
  <2> QED
    BY <1>1, <2>1, Bounds DEF IInv, TypeOK, AndNotTop, UpgradeAnd
<1>4. StrongCounts'
  BY <1>1, <1>2, Bounds DEF IInv, StrongCounts, AndNotTop, ValueLives, UpgradeAnd, AndNotTop
<1>5. WeakCounts'
  BY <1>1, <1>2, Bounds DEF IInv, WeakCounts, SharedWeak, ValueLives, UpgradeAnd, AndNotTop
<1>6. TopBitMarksUpgrade'
  BY <1>1, Bounds DEF IInv, TypeOK, TopBitMarksUpgrade, AndNotTop, UpgradeAnd
<1>7. ValueLives'
  BY <1>1 DEF IInv, ValueLives, UpgradeAnd
<1>8. FreedLast'
  BY <1>1, Bounds DEF IInv, FreedLast, UpgradeAnd, AndNotTop
<1>9. ExclusiveUse'
  BY <1>1 DEF IInv, ExclusiveUse, ValueLives, UpgradeAnd
<1> QED
  BY <1>3, <1>4, <1>5, <1>6, <1>7, <1>8, <1>9 DEF IInv

\* The drop of an Arc finds a count of exactly 1 if no other Arc exists and no
\* upgrade is under way to make one.
LEMMA LastArc ==
  ASSUME IInv, NEW h \in Handle, st[h] \in {"arc", "clone"}
  PROVE  /\ value = "live" /\ AndNotTop(strong) = Cardinality(In(Owning))
         /\ AndNotTop(strong) > 0
         /\ strong = 1 <=>
              \A g \in Handle : g # h => st[g] \notin Owning \cup {"up_add"}
<1> USE DEF Owning, Upgrading, Dropping, Checking
<1>1. /\ value = "live" /\ AndNotTop(strong) = Cardinality(In(Owning))
      /\ AndNotTop(strong) > 0
  <2>1. Cardinality(In(Owning)) # 0
    BY CountType
  <2> QED
    BY <2>1, Bounds DEF IInv, ValueLives, StrongCounts
<1>2. AndNotTop(strong) = 1 <=> \A g \in Handle : st[g] \in Owning => g = h
  BY <1>1, CountOthers
<1>3. strong >= TOP => \E g \in Handle : g # h /\ st[g] \in {"up_add", "up_and"}
  BY DEF IInv, TopBitMarksUpgrade, ValueLives
<1>4. strong < TOP => \A g \in Handle : st[g] # "up_add"
  BY Bounds DEF IInv, TopBitMarksUpgrade
<1> QED
  BY <1>1, <1>2, <1>3, <1>4, Bounds DEF AndNotTop

\* The first half of the drop of an Arc: it becomes the dropper exactly if it
\* was the last one.
LEMMA ReleaseStrongInv ==
  ASSUME IInv, NEW h \in Handle, st[h] \in {"arc", "clone"}, ReleaseStrong(h)
  PROVE  IInv'
<1> USE DEF Owning, Upgrading, Dropping, Checking
<1>1. /\ st' \in [Handle -> State]
      /\ st'[h] = IF strong = 1 THEN "drop_value" ELSE "none"
      /\ \A g \in Handle : g # h => st'[g] = st[g]
  BY SetStep DEF IInv, State, ReleaseStrong
<1>2. /\ Cardinality(In(Owning))' = Cardinality(In(Owning)) - 1
      /\ Cardinality(In({"weak"}))' = Cardinality(In({"weak"}))
  BY CountStep, Bounds DEF IInv, ReleaseStrong
<1>3. /\ value = "live" /\ AndNotTop(strong) = Cardinality(In(Owning))
      /\ AndNotTop(strong) > 0
      /\ strong = 1 <=>
           \A g \in Handle : g # h => st[g] \notin Owning \cup {"up_add"}
  BY LastArc
<1>4. /\ strong' = strong - 1
      /\ AndNotTop(strong') = AndNotTop(strong) - 1
      /\ strong' >= TOP <=> strong >= TOP
  BY <1>3, Bounds DEF ReleaseStrong, Dec, AndNotTop
<1>5. TypeOK'
  BY <1>1, <1>3, <1>4, Bounds DEF IInv, TypeOK, ReleaseStrong, AndNotTop
<1>6. StrongCounts'
  BY <1>2, <1>3, <1>4, Bounds DEF StrongCounts, ReleaseStrong
<1>7. WeakCounts'
  BY <1>1, <1>2, <1>3, Bounds DEF IInv, WeakCounts, SharedWeak, ValueLives, ReleaseStrong
<1>8. TopBitMarksUpgrade'
  BY <1>1, <1>4 DEF IInv, TypeOK, TopBitMarksUpgrade, ReleaseStrong
<1>9. ValueLives'
  BY <1>1, <1>3 DEF IInv, ValueLives, ReleaseStrong
<1>10. FreedLast'
  BY <1>1, Bounds DEF IInv, FreedLast, ReleaseStrong
<1>11. ExclusiveUse'
  BY <1>1, <1>3 DEF IInv, ExclusiveUse, ValueLives, ReleaseStrong
<1> QED
  BY <1>5, <1>6, <1>7, <1>8, <1>9, <1>10, <1>11 DEF IInv

\* is_unique reads strong: without upgrades, a 1 means that no other Arc is left.
LEMMA StrongIsOneInv ==
  ASSUME IInv, SerialUse, NEW h \in Handle, NEW operation \in UniqueOps,
         StrongIsOne(h, operation)
  PROVE  IInv'
<1> USE DEF Owning, Upgrading, Dropping, Checking
<1>o. operation \in Checking
  BY UniqueAssumption
<1>1. /\ st' \in [Handle -> State]
      /\ st'[h] \in {"arc", "clone", operation}
      /\ st'[h] = operation => strong = 1
      /\ \A g \in Handle : g # h => st'[g] = st[g]
  BY <1>o, SetStep DEF IInv, State, StrongIsOne, NotUnique
<1>2. /\ Cardinality(In(Owning))' = Cardinality(In(Owning))
      /\ Cardinality(In({"weak"}))' = Cardinality(In({"weak"}))
  BY <1>o, CountStep, Bounds DEF IInv, StrongIsOne, NotUnique
<1>3. TypeOK'
  BY <1>1 DEF IInv, TypeOK, StrongIsOne
<1>4. StrongCounts'
  BY <1>2 DEF IInv, StrongCounts, StrongIsOne
<1>5. WeakCounts'
  BY <1>o, <1>1, <1>2 DEF IInv, WeakCounts, SharedWeak, StrongIsOne
<1>6. TopBitMarksUpgrade'
  BY <1>o, <1>1 DEF IInv, TypeOK, TopBitMarksUpgrade, StrongIsOne
<1>7. ValueLives'
  BY <1>o, <1>1 DEF IInv, ValueLives, StrongIsOne
<1>8. FreedLast'
  BY <1>o, <1>1 DEF IInv, FreedLast, StrongIsOne
<1>9. ExclusiveUse'
  <2>1. strong = 1 /\ value = "live" => \A g \in Handle : st[g] \in Owning => g = h
    BY CountOthers, Bounds DEF IInv, StrongCounts, AndNotTop, StrongIsOne
  <2>2. value = "live"
    BY DEF IInv, ValueLives, StrongIsOne
  <2>3. MaxUpgrades = 0 => \A g, k \in Handle :
          st'[g] \in Checking /\ st'[k] \notin {"none", "weak"} => g = k
    BY <1>o, <1>1, <2>1, <2>2 DEF IInv, ExclusiveUse, ValueLives, TypeOK, State, StrongIsOne
  <2> QED
    BY <1>o, <1>1, <2>2, <2>3 DEF IInv, ExclusiveUse, SerialUse, StrongIsOne
<1> QED
  BY <1>3, <1>4, <1>5, <1>6, <1>7, <1>8, <1>9 DEF IInv

\* is_unique reads weak: a 1 is the Weak that all Arcs share, so there is no other.
LEMMA WeakIsOneInv ==
  ASSUME IInv, NEW h \in Handle, WeakIsOne(h)
  PROVE  IInv'
<1> USE DEF Owning, Upgrading, Dropping, Checking
<1>1. /\ st' \in [Handle -> State]
      /\ st'[h] \in {"arc", "clone", "mut", "take"}
      /\ st'[h] = "take" => st[h] = "try_into_inner"
      /\ st'[h] \in {"mut", "take"} => weak = 1
      /\ \A g \in Handle : g # h => st'[g] = st[g]
  BY SetStep DEF IInv, State, WeakIsOne, NotUnique
<1>2. /\ Cardinality(In(Owning))' = Cardinality(In(Owning))
      /\ Cardinality(In({"weak"}))' = Cardinality(In({"weak"}))
  BY CountStep, Bounds DEF IInv, WeakIsOne, NotUnique
<1>3. TypeOK'
  BY <1>1 DEF IInv, TypeOK, WeakIsOne
<1>4. StrongCounts'
  BY <1>2 DEF IInv, StrongCounts, WeakIsOne
<1>5. WeakCounts'
  BY <1>1, <1>2 DEF IInv, WeakCounts, SharedWeak, WeakIsOne
<1>6. TopBitMarksUpgrade'
  BY <1>1 DEF IInv, TypeOK, TopBitMarksUpgrade, WeakIsOne
<1>7. ValueLives'
  BY <1>1 DEF IInv, ValueLives, WeakIsOne
<1>8. FreedLast'
  BY <1>1 DEF IInv, FreedLast, WeakIsOne
<1>9. ExclusiveUse'
  <2>1. value = "live"
    BY DEF IInv, ValueLives, WeakIsOne
  <2>2. weak = 1 => Cardinality(In({"weak"})) = 0
    BY <2>1, Bounds DEF SharedWeak, WeakIsOne
  <2>3. weak = 1 => \A g \in Handle : st[g] # "weak"
    BY <2>2, CountType
  <2> QED
    BY <1>1, <2>1, <2>3 DEF IInv, ExclusiveUse, WeakIsOne
<1> QED
  BY <1>3, <1>4, <1>5, <1>6, <1>7, <1>8, <1>9 DEF IInv

\* The drop of a Weak frees the memory exactly if no other handle is left.
LEMMA DropWeakInv ==
  ASSUME IInv, NEW h \in Handle, DropWeak(h)
  PROVE  IInv'
<1> USE DEF Owning, Upgrading, Dropping, Checking
<1>1. /\ st' \in [Handle -> State]
      /\ st'[h] = IF weak = 1 THEN "free" ELSE "none"
      /\ \A g \in Handle : g # h => st'[g] = st[g]
  BY SetStep DEF IInv, State, DropWeak
<1>2. /\ Cardinality(In(Owning))' = Cardinality(In(Owning))
      /\ Cardinality(In({"weak"}))' =
           Cardinality(In({"weak"})) - IF st[h] = "weak" THEN 1 ELSE 0
  BY CountStep, Bounds DEF IInv, DropWeak
<1>3. \A g \in Handle : st[g] \in Upgrading => st[from[g]] = "weak" /\ from[g] # h
  BY DEF IInv, TypeOK, TopBitMarksUpgrade, Borrowed, DropWeak
<1>4. weak = 0 <=> st[h] = "dyn_drop"
  BY DEF IInv, FreedLast, DropWeak
<1>5. weak = Cardinality(In({"weak"})) + SharedWeak /\ weak + 1 < TOP
  BY Bounds DEF DropWeak
<1>6. weak = 1 => \A g \in Handle : g # h => st[g] = "none"
  <2> SUFFICES ASSUME weak = 1
               PROVE  \A g \in Handle : g # h => st[g] = "none"
    OBVIOUS
  <2>1. \A g \in Handle : g # h => st[g] # "weak"
    <3>1. CASE st[h] = "weak"
      BY <1>5, <3>1, CountOthers, CountType, Bounds DEF SharedWeak
    <3>2. CASE st[h] = "drop_weak"
      <4>1. Cardinality(In({"weak"})) = 0
        BY <1>5, <3>2, Bounds DEF SharedWeak
      <4> QED
        BY <4>1, CountType
    <3> QED
      BY <1>4, <3>1, <3>2 DEF DropWeak
  <2>2. SharedWeak = IF st[h] = "weak" THEN 0 ELSE 1
    <3>1. st[h] = "weak" => Cardinality(In({"weak"})) # 0
      BY CountType
    <3> QED
      BY <1>4, <1>5, <3>1, Bounds DEF SharedWeak, DropWeak
  <2>3. \A g \in Handle : g # h => st[g] \notin Owning \cup Dropping \cup {"up_add"}
    BY <1>4, <2>2 DEF IInv, ValueLives, FreedLast, SharedWeak, DropWeak
  <2>4. \A g \in Handle : st[g] \notin Upgrading
    BY <1>3, <2>1 DEF IInv, TypeOK
  <2> QED
    BY <2>1, <2>3, <2>4 DEF IInv, TypeOK, State
<1>7. weak' = IF weak = 0 THEN 2 * TOP - 1 ELSE weak - 1
  BY DEF DropWeak, Dec
<1>8. TypeOK'
  BY <1>1, <1>7, Bounds DEF IInv, TypeOK, DropWeak
<1>9. StrongCounts'
  BY <1>2 DEF IInv, StrongCounts, DropWeak
<1>10. WeakCounts'
  <2>1. CASE weak = 0
    BY <1>1, <1>4, <1>7, <2>1 DEF IInv, WeakCounts, ValueLives, FreedLast, TypeOK, DropWeak
  <2>2. CASE weak # 0
    <3>1. st[h] = "weak" => SharedWeak' = SharedWeak
      BY <1>1 DEF SharedWeak, DropWeak
    <3>2. st[h] = "drop_weak" => SharedWeak = 1 /\ SharedWeak' = 0
      BY <1>1 DEF IInv, ValueLives, SharedWeak, DropWeak
    <3>3. st[h] \in {"weak", "drop_weak"} /\ SharedWeak \in {0, 1}
      BY <1>4, <2>2 DEF SharedWeak, DropWeak
    <3>4. weak' = Cardinality(In({"weak"}))' + SharedWeak'
      BY <1>2, <1>5, <1>7, <2>2, <3>1, <3>2, <3>3, Bounds
    <3> QED
      BY <3>4 DEF WeakCounts
  <2> QED
    BY <2>1, <2>2
<1>11. TopBitMarksUpgrade'
  BY <1>1, <1>3 DEF IInv, TypeOK, TopBitMarksUpgrade, DropWeak
<1>12. ValueLives'
  BY <1>1, <1>6 DEF IInv, ValueLives, DropWeak
<1>13. FreedLast'
  BY <1>1, <1>4, <1>5, <1>6, <1>7, Bounds DEF IInv, FreedLast, TypeOK, DropWeak
<1>14. ExclusiveUse'
  BY <1>1, <1>6 DEF IInv, ExclusiveUse, DropWeak
<1> QED
  BY <1>8, <1>9, <1>10, <1>11, <1>12, <1>13, <1>14 DEF IInv

\* The drop of a Dyn<Weak> drops a second Weak exactly if no other handle is left.
LEMMA DropDynWeakInv ==
  ASSUME IInv, NEW h \in Handle, DropDynWeak(h)
  PROVE  IInv'
<1> USE DEF Owning, Upgrading, Dropping, Checking
<1>1. /\ st' \in [Handle -> State]
      /\ st'[h] = IF weak = 1 THEN "dyn_drop" ELSE "none"
      /\ \A g \in Handle : g # h => st'[g] = st[g]
  BY SetStep DEF IInv, State, DropDynWeak
<1>2. /\ Cardinality(In(Owning))' = Cardinality(In(Owning))
      /\ Cardinality(In({"weak"}))' =
           Cardinality(In({"weak"})) - IF st[h] = "weak" THEN 1 ELSE 0
  BY CountStep, Bounds DEF IInv, DropDynWeak
<1>3. \A g \in Handle : st[g] \in Upgrading => st[from[g]] = "weak" /\ from[g] # h
  BY DEF IInv, TypeOK, TopBitMarksUpgrade, Borrowed, DropDynWeak
<1>4. weak = 0 <=> st[h] = "dyn_drop"
  BY DEF IInv, FreedLast, DropDynWeak
<1>5. weak = Cardinality(In({"weak"})) + SharedWeak /\ weak + 1 < TOP
  BY Bounds DEF DropDynWeak
<1>6. weak = 1 => \A g \in Handle : g # h => st[g] = "none"
  <2> SUFFICES ASSUME weak = 1
               PROVE  \A g \in Handle : g # h => st[g] = "none"
    OBVIOUS
  <2>1. \A g \in Handle : g # h => st[g] # "weak"
    <3>1. CASE st[h] = "weak"
      BY <1>5, <3>1, CountOthers, CountType, Bounds DEF SharedWeak
    <3>2. CASE st[h] = "drop_weak"
      <4>1. Cardinality(In({"weak"})) = 0
        BY <1>5, <3>2, Bounds DEF SharedWeak
      <4> QED
        BY <4>1, CountType
    <3> QED
      BY <1>4, <3>1, <3>2 DEF DropDynWeak
  <2>2. SharedWeak = IF st[h] = "weak" THEN 0 ELSE 1
    <3>1. st[h] = "weak" => Cardinality(In({"weak"})) # 0
      BY CountType
    <3> QED
      BY <1>4, <1>5, <3>1, Bounds DEF SharedWeak, DropDynWeak
  <2>3. \A g \in Handle : g # h => st[g] \notin Owning \cup Dropping \cup {"up_add"}
    BY <1>4, <2>2 DEF IInv, ValueLives, FreedLast, SharedWeak, DropDynWeak
  <2>4. \A g \in Handle : st[g] \notin Upgrading
    BY <1>3, <2>1 DEF IInv, TypeOK
  <2> QED
    BY <2>1, <2>3, <2>4 DEF IInv, TypeOK, State
<1>7. weak' = IF weak = 0 THEN 2 * TOP - 1 ELSE weak - 1
  BY DEF DropDynWeak, Dec
<1>8. TypeOK'
  BY <1>1, <1>7, Bounds DEF IInv, TypeOK, DropDynWeak
<1>9. StrongCounts'
  BY <1>2 DEF IInv, StrongCounts, DropDynWeak
<1>10. WeakCounts'
  <2>1. CASE weak = 0
    BY <1>1, <1>4, <1>7, <2>1 DEF IInv, WeakCounts, ValueLives, FreedLast, TypeOK, DropDynWeak
  <2>2. CASE weak # 0
    <3>1. st[h] = "weak" => SharedWeak' = SharedWeak
      BY <1>1 DEF SharedWeak, DropDynWeak
    <3>2. st[h] = "drop_weak" => SharedWeak = 1 /\ SharedWeak' = 0
      BY <1>1 DEF IInv, ValueLives, SharedWeak, DropDynWeak
    <3>3. st[h] \in {"weak", "drop_weak"} /\ SharedWeak \in {0, 1}
      BY <1>4, <2>2 DEF SharedWeak, DropDynWeak
    <3>4. weak' = Cardinality(In({"weak"}))' + SharedWeak'
      BY <1>2, <1>5, <1>7, <2>2, <3>1, <3>2, <3>3, Bounds
    <3> QED
      BY <3>4 DEF WeakCounts
  <2> QED
    BY <2>1, <2>2
<1>11. TopBitMarksUpgrade'
  BY <1>1, <1>3 DEF IInv, TypeOK, TopBitMarksUpgrade, DropDynWeak
<1>12. ValueLives'
  BY <1>1, <1>6 DEF IInv, ValueLives, DropDynWeak
<1>13. FreedLast'
  BY <1>1, <1>4, <1>5, <1>6, <1>7, Bounds DEF IInv, FreedLast, TypeOK, DropDynWeak
<1>14. ExclusiveUse'
  BY <1>1, <1>6 DEF IInv, ExclusiveUse, DropDynWeak
<1> QED
  BY <1>8, <1>9, <1>10, <1>11, <1>12, <1>13, <1>14 DEF IInv

\* An upgrade that starts alone finds a count without the top bit, which is 0
\* exactly if no Arc owns the value.
LEMMA UpgradeStartsAlone ==
  ASSUME IInv, SerialUse, NEW w \in Handle, NEW h \in Handle, UpgradeOr(w, h)
  PROVE  /\ \A g \in Handle : st[g] \notin Upgrading
         /\ MaxUpgrades = 1 /\ w # h
         /\ strong < TOP /\ strong' = strong + TOP
         /\ strong = Cardinality(In(Owning)) /\ value # "moved"
         /\ strong = 0 <=> \A g \in Handle : st[g] \notin Owning
<1> USE DEF Upgrading
<1>1. /\ \A g \in Handle : st[g] \notin Upgrading
      /\ MaxUpgrades = 1 /\ w # h
  <2>1. Cardinality(In(Upgrading)) = 0 /\ MaxUpgrades = 1
    BY CountType, UpgradeAssumption DEF UpgradeOr, SerialUse
  <2> QED
    BY <2>1, CountType DEF UpgradeOr
<1>2. /\ strong < TOP /\ strong' = strong + TOP
      /\ strong = Cardinality(In(Owning)) /\ value # "moved"
  BY <1>1, Bounds DEF IInv, TopBitMarksUpgrade, ExclusiveUse, StrongCounts,
                      AndNotTop, OrTop, UpgradeOr
<1>3. strong = 0 <=> \A g \in Handle : st[g] \notin Owning
  BY <1>2, CountType
<1> QED
  BY <1>1, <1>2, <1>3

\* An upgrade that starts alone goes on to succeed exactly if an Arc is left.
LEMMA UpgradeOrInv ==
  ASSUME IInv, SerialUse, NEW w \in Handle, NEW h \in Handle, UpgradeOr(w, h)
  PROVE  IInv'
<1> USE DEF Owning, Upgrading, Dropping, Checking
<1>1. /\ \A g \in Handle : st[g] \notin Upgrading
      /\ MaxUpgrades = 1 /\ w # h
  BY UpgradeStartsAlone
<1>2. /\ strong < TOP /\ strong' = strong + TOP
      /\ strong = Cardinality(In(Owning)) /\ value # "moved"
  BY UpgradeStartsAlone
<1>3. /\ st' \in [Handle -> State]
      /\ st'[h] = IF strong = 0 THEN "up_fail" ELSE "up_add"
      /\ \A g \in Handle : g # h => st'[g] = st[g]
  BY <1>2, SetStep, Bounds DEF IInv, State, UpgradeOr
<1>4. /\ Cardinality(In(Owning))' = Cardinality(In(Owning))
      /\ Cardinality(In({"weak"}))' = Cardinality(In({"weak"}))
  BY CountStep, Bounds DEF IInv, UpgradeOr
<1>5. strong = 0 <=> \A g \in Handle : st[g] \notin Owning
  BY UpgradeStartsAlone
<1>6. /\ from' \in [Handle -> Handle] /\ from'[h] = w
      /\ \A g \in Handle : g # h => from'[g] = from[g]
  BY DEF IInv, TypeOK, UpgradeOr
<1>7. TypeOK'
  BY <1>2, <1>3, <1>6, Bounds DEF IInv, TypeOK, UpgradeOr
<1>8. StrongCounts'
  BY <1>2, <1>4, Bounds DEF IInv, StrongCounts, AndNotTop, UpgradeOr
<1>9. WeakCounts'
  BY <1>3, <1>4, Bounds DEF IInv, WeakCounts, SharedWeak, UpgradeOr
<1>10. TopBitMarksUpgrade'
  BY <1>1, <1>2, <1>3, <1>6, Bounds DEF IInv, TypeOK, TopBitMarksUpgrade, UpgradeOr
<1>11. ValueLives'
  BY <1>1, <1>3, <1>5 DEF IInv, ValueLives, UpgradeOr
<1>12. FreedLast'
  BY <1>3 DEF IInv, FreedLast, UpgradeOr
<1>13. ExclusiveUse'
  BY <1>1, <1>2, <1>3 DEF IInv, ExclusiveUse, UpgradeOr
<1> QED
  BY <1>7, <1>8, <1>9, <1>10, <1>11, <1>12, <1>13 DEF IInv

-----------------------------------------------------------------------------

LEMMA NextInv ==
  ASSUME SerialUse, IInv, [Next]_vars
  PROVE  IInv'
<1>1. ASSUME NEW h \in Handle, Finish(h)
      PROVE  IInv'
  BY <1>1, DropValueInv, ReleaseStrongInv, WeakIsOneInv, TakeInv, FreeInv,
     DropWeakInv, UpgradeFailInv, UpgradeAddInv, UpgradeAndInv DEF Finish, Replace
<1>2. ASSUME NEW h \in Handle, Call(h)
      PROVE  IInv'
  BY <1>2, CloneInv, DowngradeInv, CloneWeakInv, UpgradeOrInv, ReleaseStrongInv,
     EndMutInv, DropDynWeakInv, DropWeakInv, StrongIsOneInv DEF Call, Drop
<1>3. CASE UNCHANGED vars
  BY <1>3 DEF vars, IInv, TypeOK, StrongCounts, WeakCounts, SharedWeak,
              TopBitMarksUpgrade, ValueLives, FreedLast, ExclusiveUse, In
<1> QED
  BY <1>1, <1>2, <1>3 DEF Next

THEOREM Invariance == SerialUse => (Spec => []IInv)
<1> SUFFICES ASSUME SerialUse
             PROVE  Spec => []IInv
  OBVIOUS
<1>1. IInv /\ [Next]_vars => IInv'
  BY NextInv
<1> QED
  BY <1>1, InitInv, PTL DEF Spec

\* Type correctness needs no assumption on the program: even a counter that a
\* race corrupted is a usize, and no operation leaves a handle in limbo.
THEOREM TypeCorrect == Spec => []TypeOK
<1>1. Init => TypeOK
  BY InitInv DEF IInv
<1>2. ASSUME TypeOK, [Next]_vars
      PROVE  TypeOK'
  <2> USE <1>2
  <2>1. TOP \in Nat /\ TOP > 0
    BY HandleAssumption, TopAssumption, FS_CardinalityType
  <2>2. /\ Inc(strong) \in 0 .. 2 * TOP - 1 /\ Dec(strong) \in 0 .. 2 * TOP - 1
        /\ Inc(weak) \in 0 .. 2 * TOP - 1 /\ Dec(weak) \in 0 .. 2 * TOP - 1
        /\ OrTop(strong) \in 0 .. 2 * TOP - 1 /\ AndNotTop(strong) \in 0 .. 2 * TOP - 1
        /\ 0 \in 0 .. 2 * TOP - 1
    BY <2>1 DEF TypeOK, Inc, Dec, OrTop, AndNotTop
  <2>3. ASSUME NEW h \in Handle, Finish(h)
        PROVE  TypeOK'
    <3> USE <2>2, <2>3 DEF Set, NotUnique, TypeOK, State, Owning, Upgrading, Dropping, Checking
    <3>1. CASE DropValue(h) \/ Replace(h) \/ WeakIsOne(h) \/ Take(h)
      BY <3>1 DEF DropValue, Replace, ReleaseStrong, WeakIsOne, Take
    <3>2. CASE Free(h) \/ DropWeak(h)
      BY <3>2 DEF Free, DropWeak
    <3>3. CASE UpgradeFail(h) \/ UpgradeAdd(h) \/ UpgradeAnd(h)
      BY <3>3 DEF UpgradeFail, UpgradeAdd, UpgradeAnd
    <3> QED
      BY <3>1, <3>2, <3>3 DEF Finish
  <2>4. ASSUME NEW h \in Handle, Call(h)
        PROVE  TypeOK'
    <3> USE <2>2, <2>4, UniqueAssumption DEF Set, NotUnique, TypeOK, State, Owning, Upgrading, Dropping, Checking
    <3>1. ASSUME NEW a \in Handle,
                 Clone(a, h) \/ Downgrade(a, h) \/ CloneWeak(a, h) \/ UpgradeOr(a, h)
          PROVE  TypeOK'
      BY <3>1 DEF Clone, Downgrade, CloneWeak, UpgradeOr
    <3>2. CASE Drop(h) \/ EndMut(h) \/ DropDynWeak(h) \/ DropWeak(h)
      BY <3>2 DEF Drop, ReleaseStrong, EndMut, DropDynWeak, DropWeak
    <3>3. ASSUME NEW operation \in UniqueOps, StrongIsOne(h, operation)
          PROVE  TypeOK'
      BY <3>3 DEF StrongIsOne
    <3> QED
      BY <3>1, <3>2, <3>3 DEF Call
  <2> QED
    BY <2>3, <2>4 DEF Next, vars, TypeOK
<1> QED
  BY <1>1, <1>2, PTL DEF Spec

\* As long as upgrades do not overlap, an Arc always points to a live value.
THEOREM ArcsStayValid == SerialUse => (Spec => []ArcsPointToLiveValue)
<1>1. IInv => ArcsPointToLiveValue
  BY DEF IInv, TypeOK, ValueLives, FreedLast, ArcsPointToLiveValue, In, Owning, Checking
<1> QED
  BY <1>1, Invariance, PTL

\* As long as upgrades do not overlap, nothing touches freed memory, and it is
\* freed once.
THEOREM MemoryStaysValid == SerialUse => (Spec => []MemoryOutlivesHandles)
<1>1. IInv => MemoryOutlivesHandles
  BY DEF IInv, FreedLast, MemoryOutlivesHandles, In
<1> QED
  BY <1>1, Invariance, PTL

\* Without upgrades, is_unique tells the truth although it loads two counters:
\* what get_mut, make_mut and try_into_inner give out is exclusive.
THEOREM ExclusiveAccess == MaxUpgrades = 0 => (Spec => []ExclusiveIsAlone)
<1> SUFFICES ASSUME MaxUpgrades = 0
             PROVE  Spec => []ExclusiveIsAlone
  OBVIOUS
<1>1. Spec => []IInv
  BY Invariance DEF SerialUse
<1>2. IInv => ExclusiveIsAlone
  BY DEF IInv, ExclusiveUse, ExclusiveIsAlone
<1> QED
  BY <1>1, <1>2, PTL

\* Unless a Weak was dropped as a Dyn<Weak>, everything is freed in the end.
THEOREM NoLeak == SerialUse /\ ~DynWeak => (Spec => []NothingLeaks)
<1> SUFFICES ASSUME SerialUse, ~DynWeak
             PROVE  Spec => []NothingLeaks
  OBVIOUS
<1>1. IInv => NothingLeaks
  <2> SUFFICES ASSUME IInv, In(State \ {"none"}) = {}
               PROVE  value # "live" /\ memory = "freed"
    BY DEF NothingLeaks
  <2>1. \A h \in Handle : st[h] = "none"
    BY DEF In, IInv, TypeOK
  <2>2. value # "live"
    BY <2>1 DEF IInv, ValueLives, Owning, Checking
  <2>3. weak = 0
    <3>1. Cardinality(In({"weak"})) = 0
      BY <2>1, CountType
    <3> QED
      BY <2>1, <2>2, <3>1 DEF IInv, WeakCounts, SharedWeak
  <2> QED
    BY <2>1, <2>2, <2>3 DEF IInv, FreedLast
<1>2. Spec => []IInv
  BY Invariance
<1> QED
  BY <1>1, <1>2, PTL

\* As long as upgrades do not overlap, the value is destroyed or moved out once,
\* by the last Arc, and freed memory stays freed.
THEOREM ValueIsDestroyedOnce == SerialUse => (Spec => ValueGoesOnce)
<1> DEFINE Once ==
      /\ value # "live" => value' = value
      /\ memory = "freed" => memory' = "freed"
      /\ value' # value => \E h \in Handle : In(Owning \cup {"drop_value"}) = {h}
<1> SUFFICES ASSUME SerialUse
             PROVE  Spec => ValueGoesOnce
  OBVIOUS
<1>1. Spec => []IInv
  BY Invariance
<1>2. ASSUME IInv, [Next]_vars
      PROVE  [Once]_vars
  <2> USE <1>2
  <2>1. CASE UNCHANGED vars
    BY <2>1
  <2>2. ASSUME NEW h \in Handle, Finish(h) \/ Call(h)
        PROVE  Once
    <3>1. CASE DropValue(h) \/ Take(h)
      <4>1. value = "live"
        BY <3>1 DEF IInv, ValueLives, DropValue, Take, Owning
      <4>2. In(Owning \cup {"drop_value"}) = {h}
        <5>1. CASE DropValue(h)
          BY <5>1 DEF IInv, ValueLives, DropValue, In, Dropping
        <5>2. CASE Take(h)
          <6>1. MaxUpgrades = 0
            BY <5>2 DEF IInv, ExclusiveUse, Take
          <6> QED
            BY <5>2, <6>1 DEF IInv, ExclusiveUse, Take, In, Owning
        <5> QED
          BY <3>1, <5>1, <5>2
      <4> QED
        BY <3>1, <4>1, <4>2 DEF DropValue, Take
    <3>2. CASE Free(h)
      BY <3>2 DEF Free
    <3>3. CASE UNCHANGED <<value, memory>>
      BY <3>3
    <3> QED
      BY <2>2, <3>1, <3>2, <3>3
         DEF Finish, Call, Replace, Drop, ReleaseStrong, WeakIsOne, StrongIsOne,
             DropWeak, DropDynWeak, UpgradeOr, UpgradeFail, UpgradeAdd, UpgradeAnd,
             Clone, Downgrade, CloneWeak, EndMut
  <2> QED
    BY <2>1, <2>2 DEF Next
<1> QED
  BY <1>1, <1>2, PTL DEF Spec, ValueGoesOnce

-----------------------------------------------------------------------------
(* Refinement *)

\* Programs whose upgrades neither overlap nor race with is_unique.
DisciplinedUse == MaxUpgrades = 0 \/ (MaxUpgrades = 1 /\ UniqueOps = {})

Owners == In(Owning \cup {"up_add"})
Doomed == In({"drop_value"})
Exclusive == In({"mut", "take"})

\* Moving one handle to state s moves it in and out of each abstract set.
LEMMA AbstractSets ==
  ASSUME IInv, NEW h \in Handle, NEW s \in State, Set(h, s)
  PROVE  /\ Owners' = IF s \in Owning \cup {"up_add"} THEN Owners \cup {h} ELSE Owners \ {h}
         /\ Doomed' = IF s = "drop_value" THEN Doomed \cup {h} ELSE Doomed \ {h}
         /\ Exclusive' = IF s \in {"mut", "take"} THEN Exclusive \cup {h} ELSE Exclusive \ {h}
         /\ In({"weak"})' = IF s = "weak" THEN In({"weak"}) \cup {h} ELSE In({"weak"}) \ {h}
         /\ In({"up_fail"})' = IF s = "up_fail" THEN In({"up_fail"}) \cup {h} ELSE In({"up_fail"}) \ {h}
<1> USE DEF IInv, Set, TypeOK
<1>1. ASSUME NEW S
      PROVE  In(S)' = IF s \in S THEN In(S) \cup {h} ELSE In(S) \ {h}
  BY DEF In
<1> QED
  BY <1>1 DEF Owners, Doomed, Exclusive

LEMMA InitRefines == Init => Promise!Init
<1> SUFFICES ASSUME NEW h \in Handle,
                    value = "live", memory = "allocated",
                    st = [g \in Handle |-> IF g = h THEN "arc" ELSE "none"]
             PROVE  Promise!Init
  BY DEF Init
<1>1. /\ Owners = {h} /\ Doomed = {} /\ Exclusive = {}
      /\ In({"weak"}) = {} /\ In({"up_fail"}) = {}
  BY DEF Owners, Doomed, Exclusive, In, Owning, Checking
<1> QED
  BY <1>1 DEF Promise!Init, Owners, Doomed, Exclusive

\* Which abstract sets a handle is in, and that the value lives exactly as long
\* as it has owners.
LEMMA Abstraction ==
  ASSUME IInv
  PROVE  /\ \A h \in Handle :
              /\ h \in Owners <=> st[h] \in Owning \cup {"up_add"}
              /\ h \in Exclusive <=> st[h] \in {"mut", "take"}
              /\ h \in In({"weak"}) <=> st[h] = "weak"
              /\ h \in In({"up_fail"}) <=> st[h] = "up_fail"
         /\ Owners \subseteq Handle /\ Exclusive \subseteq Handle
         /\ In({"weak"}) \subseteq Handle /\ In({"up_fail"}) \subseteq Handle
         /\ (value = "live" /\ Doomed = {}) <=> Owners # {}
  BY DEF IInv, ValueLives, Owners, Doomed, Exclusive, In, Owning, Dropping, Checking

\* Exclusive access excludes every other handle.
LEMMA ExclusiveAlone ==
  ASSUME IInv, DisciplinedUse, NEW g \in Exclusive, NEW h \in Handle, st[h] # "none"
  PROVE  g = h
  BY DEF IInv, DisciplinedUse, ExclusiveUse, Exclusive, In

\* What a step of the counters that is none of the abstract sets keeps.
Kept == UNCHANGED <<Owners, In({"weak"}), Exclusive, In({"up_fail"})>>

LEMMA Stutter ==
  ASSUME IInv, IInv', Kept, memory' = memory
  PROVE  UNCHANGED Promise!vars
<1>1. (value = "live" /\ Doomed = {}) <=> Owners # {}
  BY Abstraction
<1>2. ((value = "live" /\ Doomed = {}) <=> Owners # {})'
  BY Abstraction, PTL
<1> QED
  BY <1>1, <1>2 DEF Kept, Promise!vars, Owners, Doomed, Exclusive

\* A step of one handle that moves it between the abstract sets.
Moves(set, before, after, h) ==
  /\ after => set' = set \cup {h}
  /\ ~after => set' = set \ {h}
  /\ (after <=> before) => set' = set
  /\ h \in set <=> before

LEMMA AbstractStep ==
  ASSUME IInv, IInv', DisciplinedUse, NEW h \in Handle, NEW s \in State, Set(h, s)
  PROVE  /\ Moves(Owners, st[h] \in Owning \cup {"up_add"}, s \in Owning \cup {"up_add"}, h)
         /\ Moves(In({"weak"}), st[h] = "weak", s = "weak", h)
         /\ Moves(Exclusive, st[h] \in {"mut", "take"}, s \in {"mut", "take"}, h)
         /\ Moves(In({"up_fail"}), st[h] = "up_fail", s = "up_fail", h)
         /\ (value = "live" /\ Doomed = {}) <=> Owners # {}
         /\ (value' = "live" /\ Doomed' = {}) <=> Owners' # {}
<1>1. ((value = "live" /\ Doomed = {}) <=> Owners # {})'
  BY Abstraction, PTL
<1>2. Moves(Owners, st[h] \in Owning \cup {"up_add"}, s \in Owning \cup {"up_add"}, h)
  <2>1. /\ Owners' = IF s \in Owning \cup {"up_add"} THEN Owners \cup {h} ELSE Owners \ {h}
        /\ h \in Owners <=> st[h] \in Owning \cup {"up_add"}
    BY AbstractSets, Abstraction
  <2> QED
    BY <2>1 DEF Moves
<1>3. Moves(In({"weak"}), st[h] = "weak", s = "weak", h)
  <2>1. /\ In({"weak"})' = IF s = "weak" THEN In({"weak"}) \cup {h} ELSE In({"weak"}) \ {h}
        /\ h \in In({"weak"}) <=> st[h] = "weak"
    BY AbstractSets, Abstraction
  <2> QED
    BY <2>1 DEF Moves
<1>4. Moves(Exclusive, st[h] \in {"mut", "take"}, s \in {"mut", "take"}, h)
  <2>1. /\ Exclusive' = IF s \in {"mut", "take"} THEN Exclusive \cup {h} ELSE Exclusive \ {h}
        /\ h \in Exclusive <=> st[h] \in {"mut", "take"}
    BY AbstractSets, Abstraction
  <2> QED
    BY <2>1 DEF Moves
<1>5. Moves(In({"up_fail"}), st[h] = "up_fail", s = "up_fail", h)
  <2>1. /\ In({"up_fail"})' = IF s = "up_fail" THEN In({"up_fail"}) \cup {h} ELSE In({"up_fail"}) \ {h}
        /\ h \in In({"up_fail"}) <=> st[h] = "up_fail"
    BY AbstractSets, Abstraction
  <2> QED
    BY <2>1 DEF Moves
<1> QED
  BY <1>1, <1>2, <1>3, <1>4, <1>5, Abstraction

\* The steps that finish an operation.
LEMMA FinishRefines ==
  ASSUME IInv, DisciplinedUse, NEW h \in Handle, Finish(h)
  PROVE  [Promise!Next]_Promise!vars
<1> USE DEF State, Owning, Upgrading, Dropping, Checking
<1>i. IInv'
  BY NextInv DEF Next, DisciplinedUse, SerialUse
<1>1. CASE DropValue(h)
  <2>1. Kept /\ memory' = memory
    BY <1>1, <1>i, AbstractStep DEF DropValue, Kept, Moves
  <2> QED
    BY <1>i, <2>1, Stutter
<1>2. CASE Replace(h)
  <2>1. Promise!Release(h)
    BY <1>2, <1>i, LastArc, AbstractStep
       DEF Replace, ReleaseStrong, Moves, Promise!Release, Owners, Doomed, Exclusive
  <2> QED
    BY <2>1 DEF Promise!Next
<1>3. CASE WeakIsOne(h)
  <2>1. CASE weak = 1
    <3>1. \A g \in Handle : g # h => st'[g] = st[g] /\ st'[g] = "none"
      BY <1>3, <1>i, <2>1 DEF WeakIsOne, Set, IInv, TypeOK, ExclusiveUse, DisciplinedUse
    <3>2. Owners = {h} /\ In({"weak"}) = {} /\ Exclusive = {}
      BY <1>3, <3>1, Abstraction DEF WeakIsOne
    <3>3. Promise!Borrow(h)
      BY <1>3, <1>i, <2>1, <3>2, AbstractStep
         DEF WeakIsOne, Moves, Promise!Borrow, Owners, Doomed, Exclusive
    <3> QED
      BY <3>3 DEF Promise!Next
  <2>2. CASE weak # 1
    <3>1. Kept /\ memory' = memory
      BY <1>3, <1>i, <2>2, AbstractStep DEF WeakIsOne, NotUnique, Kept, Moves
    <3> QED
      BY <1>i, <3>1, Stutter
  <2> QED
    BY <2>1, <2>2
<1>4. CASE Take(h)
  <2>1. Promise!Release(h)
    BY <1>4, <1>i, ExclusiveAlone, Abstraction, AbstractStep
       DEF Take, Moves, Promise!Release, Owners, Doomed, Exclusive
  <2> QED
    BY <2>1 DEF Promise!Next
<1>5. CASE Free(h)
  <2>1. /\ Owners = {} /\ In({"weak"}) = {} /\ h \notin Exclusive /\ h \notin In({"up_fail"})
    BY <1>5, Abstraction DEF IInv, FreedLast, Free
  <2>2. Kept
    BY <1>5, <1>i, <2>1, AbstractStep DEF Free, Kept, Moves
  <2>3. Promise!Reclaim
    BY <1>5, <2>1, <2>2, Abstraction, <1>i, AbstractStep
       DEF Free, Kept, Moves, IInv, FreedLast, TypeOK, Promise!Reclaim, Owners, Doomed, Exclusive
  <2> QED
    BY <2>3 DEF Promise!Next
<1>6. CASE st[h] # "weak" /\ DropWeak(h)
  <2>1. Kept /\ memory' = memory
    BY <1>6, <1>i, AbstractStep DEF DropWeak, Kept, Moves
  <2> QED
    BY <1>i, <2>1, Stutter
<1>7. CASE UpgradeFail(h)
  <2>1. Promise!Forget(h)
    BY <1>7, <1>i, AbstractStep
       DEF UpgradeFail, Moves, Promise!Forget, Owners, Doomed, Exclusive
  <2> QED
    BY <2>1 DEF Promise!Next
<1>8. CASE UpgradeAdd(h)
  <2>1. Kept /\ memory' = memory
    BY <1>8, <1>i, AbstractStep DEF UpgradeAdd, Kept, Moves
  <2> QED
    BY <1>i, <2>1, Stutter
<1>9. CASE UpgradeAnd(h)
  <2>1. Kept /\ memory' = memory
    BY <1>9, <1>i, AbstractStep DEF UpgradeAnd, Kept, Moves
  <2> QED
    BY <1>i, <2>1, Stutter
<1> QED
  BY <1>1, <1>2, <1>3, <1>4, <1>5, <1>6, <1>7, <1>8, <1>9 DEF Finish

\* The calls.
LEMMA CallRefines ==
  ASSUME IInv, DisciplinedUse, NEW h \in Handle, Call(h)
  PROVE  [Promise!Next]_Promise!vars
<1> USE DEF State, Owning, Upgrading, Dropping, Checking
<1>i. IInv'
  BY NextInv DEF Next, DisciplinedUse, SerialUse
<1>1. ASSUME NEW a \in Handle, Clone(a, h)
      PROVE  [Promise!Next]_Promise!vars
  <2>1. Exclusive = {}
    BY <1>1, ExclusiveAlone, Abstraction DEF Clone
  <2>2. Promise!Share(h)
    BY <1>1, <1>i, <2>1, AbstractStep, Abstraction
       DEF Clone, Moves, Promise!Share, Owners, Doomed, Exclusive
  <2> QED
    BY <2>2 DEF Promise!Next
<1>2. ASSUME NEW a \in Handle, Downgrade(a, h)
      PROVE  [Promise!Next]_Promise!vars
  <2>1. Exclusive = {}
    BY <1>2, ExclusiveAlone, Abstraction DEF Downgrade
  <2>2. Promise!Watch(h)
    BY <1>2, <1>i, <2>1, AbstractStep, Abstraction
       DEF Downgrade, IInv, FreedLast, TypeOK, Moves, Promise!Watch, Owners, Doomed, Exclusive
  <2> QED
    BY <2>2 DEF Promise!Next
<1>3. ASSUME NEW a \in Handle, CloneWeak(a, h)
      PROVE  [Promise!Next]_Promise!vars
  <2>1. Exclusive = {}
    BY <1>3, ExclusiveAlone, Abstraction DEF CloneWeak
  <2>2. Promise!Watch(h)
    BY <1>3, <1>i, <2>1, AbstractStep, Abstraction
       DEF CloneWeak, IInv, FreedLast, TypeOK, Moves, Promise!Watch, Owners, Doomed, Exclusive
  <2> QED
    BY <2>2 DEF Promise!Next
<1>4. ASSUME NEW w \in Handle, UpgradeOr(w, h)
      PROVE  [Promise!Next]_Promise!vars
  <2>1. Exclusive = {} /\ w \in In({"weak"})
    BY <1>4, ExclusiveAlone, Abstraction DEF UpgradeOr
  <2>2. strong \in {0, TOP} <=> Owners = {}
    <3>1. /\ strong < TOP /\ \A g \in Handle : st[g] # "up_add"
          /\ strong = 0 <=> \A g \in Handle : st[g] \notin Owning
      BY <1>4, UpgradeStartsAlone DEF DisciplinedUse, SerialUse
    <3>2. Owners = {} <=> \A g \in Handle : st[g] \notin Owning
      BY <3>1, Abstraction
    <3> QED
      BY <3>1, <3>2, Bounds
  <2>3. CASE Owners = {}
    <3>1. Promise!Refuse(h)
      BY <1>4, <1>i, <2>1, <2>2, <2>3, AbstractStep
         DEF UpgradeOr, Moves, Promise!Refuse, Owners, Doomed, Exclusive
    <3> QED
      BY <3>1 DEF Promise!Next
  <2>4. CASE Owners # {}
    <3>1. Promise!Share(h)
      BY <1>4, <1>i, <2>1, <2>2, <2>4, AbstractStep
         DEF UpgradeOr, Moves, Promise!Share, Owners, Doomed, Exclusive
    <3> QED
      BY <3>1 DEF Promise!Next
  <2> QED
    BY <2>3, <2>4
<1>5. CASE Drop(h)
  <2>1. Promise!Release(h)
    BY <1>5, <1>i, LastArc, AbstractStep
       DEF Drop, ReleaseStrong, Moves, Promise!Release, Owners, Doomed, Exclusive
  <2> QED
    BY <2>1 DEF Promise!Next
<1>6. CASE EndMut(h)
  <2>1. Promise!Return(h)
    BY <1>6, <1>i, ExclusiveAlone, Abstraction, AbstractStep
       DEF EndMut, Moves, Promise!Return, Owners, Doomed, Exclusive
  <2> QED
    BY <2>1 DEF Promise!Next
<1>7. CASE DropDynWeak(h)
  <2>1. Promise!Unwatch(h)
    BY <1>7, <1>i, AbstractStep
       DEF DropDynWeak, Moves, Promise!Unwatch, Owners, Doomed, Exclusive
  <2> QED
    BY <2>1 DEF Promise!Next
<1>8. CASE st[h] = "weak" /\ DropWeak(h)
  <2>1. Promise!Unwatch(h)
    BY <1>8, <1>i, AbstractStep
       DEF DropWeak, Moves, Promise!Unwatch, Owners, Doomed, Exclusive
  <2> QED
    BY <2>1 DEF Promise!Next
<1>9. ASSUME NEW operation \in UniqueOps, StrongIsOne(h, operation)
      PROVE  [Promise!Next]_Promise!vars
  <2>1. operation \in Checking
    BY UniqueAssumption
  <2>2. Kept /\ memory' = memory
    BY <1>9, <1>i, <2>1, AbstractStep DEF StrongIsOne, NotUnique, Kept, Moves
  <2> QED
    BY <1>i, <2>2, Stutter
<1> QED
  BY <1>1, <1>2, <1>3, <1>4, <1>5, <1>6, <1>7, <1>8, <1>9 DEF Call

-----------------------------------------------------------------------------

\* As long as upgrades neither overlap nor race with is_unique, the counters
\* keep the promise of shared ownership.
THEOREM Refinement == DisciplinedUse => (Spec => ImplementsSharedOwnership)
<1> SUFFICES ASSUME DisciplinedUse
             PROVE  Spec => ImplementsSharedOwnership
  OBVIOUS
<1>1. Spec => []IInv
  BY Invariance, UpgradeAssumption DEF DisciplinedUse, SerialUse
<1>2. ASSUME IInv, [Next]_vars
      PROVE  [Promise!Next]_Promise!vars
  <2>1. CASE UNCHANGED vars
    BY <2>1 DEF vars, Promise!vars, In
  <2>2. CASE Next
    BY <1>2, <2>2, FinishRefines, CallRefines DEF Next
  <2> QED
    BY <1>2, <2>1, <2>2
<1> QED
  BY <1>1, <1>2, InitRefines, PTL DEF Spec, ImplementsSharedOwnership, Promise!Spec
=============================================================================
