--------------------------- MODULE ArcCellProofs ---------------------------
(***************************************************************************)
(* Proofs about ArcCell and AtomicArc for every number of threads, slots   *)
(* and addresses.  Nothing goes wrong but between reading the pointer and  *)
(* counting oneself; and there, only if the pointer is swapped meanwhile   *)
(* by a compare_exchange.  The counts follow for whole loads.              *)
(***************************************************************************)
EXTENDS AtomicArc, FiniteSetTheorems, TLAPS

\* The places where f holds b; Holders(b) counts those of arc.
Held(f, b) == {q \in Place : f[q] = b}

LEMMA PlaceFinite == IsFiniteSet(Place)
BY PlaceAssumption, FS_Product DEF Place

\* The places that hold b are finitely many, none of them exactly if there are
\* 0, and a place is the only one if there is 1.
LEMMA HeldCount ==
  ASSUME NEW f \in [Place -> Pointer], NEW b
  PROVE  /\ IsFiniteSet(Held(f, b))
         /\ Cardinality(Held(f, b)) \in Nat
         /\ \A p \in Place : f[p] = b => Cardinality(Held(f, b)) # 0
         /\ \A p, q \in Place :
              f[p] = b /\ f[q] = b /\ Cardinality(Held(f, b)) = 1 => p = q
<1>1. IsFiniteSet(Held(f, b)) /\ Cardinality(Held(f, b)) \in Nat
  BY PlaceFinite, FS_Subset, FS_CardinalityType DEF Held
<1>2. ASSUME NEW p \in Place, f[p] = b
      PROVE  Cardinality(Held(f, b)) # 0
  BY <1>1, <1>2, FS_EmptySet DEF Held
<1>3. ASSUME NEW p \in Place, NEW q \in Place, f[p] = b, f[q] = b,
             Cardinality(Held(f, b)) = 1
      PROVE  p = q
  <2>1. PICK x : Held(f, b) = {x}
    BY <1>1, <1>3, FS_Singleton
  <2> QED
    BY <1>3, <2>1 DEF Held
<1> QED
  BY <1>1, <1>2, <1>3

\* 1 if the pointer x is b.
Hit(x, b) == IF x = b THEN 1 ELSE 0

\* The count n of the places that hold b, after one changed from w to v.
Moved(n, w, v, b) == n - Hit(w, b) + Hit(v, b)

\* Changing what one place holds changes the count by one at most.
LEMMA HeldStep ==
  ASSUME NEW f \in [Place -> Pointer], NEW g \in [Place -> Pointer], NEW p \in Place,
         \A q \in Place \ {p} : g[q] = f[q], NEW b
  PROVE  Cardinality(Held(g, b)) = Moved(Cardinality(Held(f, b)), f[p], g[p], b)
<1> DEFINE A == Held(f, b)
<1> DEFINE B == Held(g, b)
<1>1. IsFiniteSet(A) /\ Cardinality(A) \in Nat
  BY HeldCount
<1>2. p \in A <=> f[p] = b
  BY DEF Held
<1>3. B = IF g[p] = b THEN A \cup {p} ELSE A \ {p}
  BY DEF Held
<1>4. Cardinality(B) = Cardinality(A) - (IF p \in A THEN 1 ELSE 0)
                                    + (IF g[p] = b THEN 1 ELSE 0)
  <2> HIDE DEF A, B
  <2>1. CASE g[p] = b
    <3>1. Cardinality(A \cup {p}) = IF p \in A THEN Cardinality(A) ELSE Cardinality(A) + 1
      BY <1>1, FS_AddElement
    <3> QED
      BY <1>1, <1>3, <2>1, <3>1
  <2>2. CASE g[p] # b
    <3>1. Cardinality(A \ {p}) = IF p \in A THEN Cardinality(A) - 1 ELSE Cardinality(A)
      BY <1>1, FS_RemoveElement
    <3> QED
      BY <1>1, <1>3, <2>2, <3>1
  <2> QED
    BY <2>1, <2>2
<1> QED
  BY <1>2, <1>4 DEF Hit, Moved

\* In terms of the owners of an allocation, when one slot changes.
LEMMA OwnersStep ==
  ASSUME CellTypeOK, CellTypeOK', NEW p \in Place,
         \A q \in Place \ {p} : arc'[q] = arc[q], NEW a
  PROVE  /\ Owners(a) \in Nat
         /\ Owners(a)' = Owners(a) - Hit(arc[p], a) + Hit(arc'[p], a)
                                   - Hit(cell, a) + Hit(cell', a)
<1>1. arc \in [Place -> Pointer] /\ arc' \in [Place -> Pointer]
  BY DEF CellTypeOK
<1>2. Holders(a) = Cardinality(Held(arc, a)) /\ Holders(a) \in Nat
  BY <1>1, HeldCount DEF Holders, Held
<1>3. Holders(a)' = Cardinality(Held(arc', a))
  BY DEF Holders, Held
<1>4. Cardinality(Held(arc', a)) = Moved(Cardinality(Held(arc, a)), arc[p], arc'[p], a)
  BY <1>1, HeldStep
<1>5. /\ Owners(a) = Holders(a) + Hit(cell, a)
      /\ Owners(a)' = Holders(a)' + Hit(cell', a)
  BY DEF Owners, Hit
<1>6. /\ Hit(arc[p], a) \in {0, 1} /\ Hit(arc'[p], a) \in {0, 1}
      /\ Hit(cell, a) \in {0, 1} /\ Hit(cell', a) \in {0, 1}
  BY DEF Hit
<1> QED
  BY <1>2, <1>3, <1>4, <1>5, <1>6 DEF Moved

\* Whoever owns an Arc is counted, and the last one to be counted is alone.
LEMMA LastOwner ==
  ASSUME CellInv, NEW p \in Place, arc[p] # Null
  PROVE  /\ arc[p] \in Addr
         /\ strong[arc[p]] >= 1
         /\ strong[arc[p]] = 1 => cell # arc[p] /\ \A q \in Place : arc[q] = arc[p] => q = p
<1> DEFINE a == arc[p]
<1>1. a \in Addr /\ memory[a] = "live" /\ arc \in [Place -> Pointer]
  BY DEF CellInv, CellTypeOK, Pointer, OwnedArcsAreLive
<1>2. strong[a] >= Owners(a) /\ strong[a] \in Nat
  BY <1>1 DEF CellInv, CellTypeOK, CountsOwners
<1>3. Holders(a) = Cardinality(Held(arc, a))
  BY DEF Holders, Held
<1>4. Holders(a) \in Nat /\ Holders(a) # 0
  BY <1>1, <1>3, HeldCount
<1>5. strong[a] >= 1
  BY <1>2, <1>4 DEF Owners
<1>6. ASSUME strong[a] = 1
      PROVE  cell # a /\ Holders(a) = 1
  BY <1>2, <1>4, <1>6 DEF Owners
<1>7. ASSUME Holders(a) = 1, NEW q \in Place, arc[q] = a
      PROVE  q = p
  BY <1>1, <1>3, <1>7, HeldCount
<1> QED
  BY <1>1, <1>5, <1>6, <1>7

\* Who holds an Arc is one of its owners.
LEMMA HolderOwns ==
  ASSUME CellTypeOK, NEW p \in Place
  PROVE  Owners(arc[p]) \in Nat /\ Owners(arc[p]) # 0
<1> DEFINE a == arc[p]
<1>1. Holders(a) = Cardinality(Held(arc, a)) /\ arc \in [Place -> Pointer]
  BY DEF Holders, Held, CellTypeOK
<1>2. Holders(a) \in Nat /\ Holders(a) # 0
  BY <1>1, HeldCount
<1> QED
  BY <1>2 DEF Owners

-----------------------------------------------------------------------------
(* Each step on the cell preserves CellInv; Alone is what Quiet gives the    *)
(* thread t that takes it, between two calls of its own.                     *)

Alone(t) == Overlap \/ \A u \in Thread : seen[u] = Null

LEMMA InitCell == CellInit => CellInv
<1> SUFFICES ASSUME CellInit PROVE CellInv
  OBVIOUS
<1>1. CellTypeOK
  BY DEF CellInit, CellTypeOK, Pointer
<1>2. OwnedArcsAreLive /\ SeenIsCurrent
  BY DEF CellInit, OwnedArcsAreLive, SeenIsCurrent
<1>3. CountsOwners
  BY DEF CellInit, CountsOwners
<1> QED
  BY <1>1, <1>2, <1>3 DEF CellInv

LEMMA NewInv ==
  ASSUME CellInv, NEW t \in Thread, NEW s \in Slot, NEW a \in Addr, New(t, s, a)
  PROVE  CellInv'
<1> DEFINE p == <<t, s>>
<1>0. p \in Place /\ a \in Pointer
  BY DEF Place, Pointer
<1> HIDE DEF p
<1>n. /\ arc[p] = Null /\ memory[a] = "free"
      /\ arc' = [arc EXCEPT ![p] = a]
      /\ strong' = [strong EXCEPT ![a] = 1]
      /\ memory' = [memory EXCEPT ![a] = "live"]
      /\ cell' = cell /\ seen' = seen
  BY DEF New, p
<1>1. CellTypeOK'
  BY <1>0, <1>n DEF CellInv, CellTypeOK
<1>2. OwnedArcsAreLive'
  BY <1>0, <1>n DEF CellInv, CellTypeOK, OwnedArcsAreLive, Pointer
<1>3. SeenIsCurrent'
  BY <1>n DEF CellInv, SeenIsCurrent
<1>4. CountsOwners'
  <2> SUFFICES ASSUME NEW b \in Addr, memory'[b] = "live"
               PROVE  strong'[b] >= Owners(b)'
    BY DEF CountsOwners
  <2>0. /\ Owners(b) \in Nat
        /\ Owners(b)' = Owners(b) - Hit(arc[p], b) + Hit(arc'[p], b)
                                  - Hit(cell, b) + Hit(cell', b)
    <3>1. CellTypeOK /\ \A q \in Place \ {p} : arc'[q] = arc[q]
      BY <1>n DEF CellInv, CellTypeOK
    <3> QED
      BY <1>0, <1>1, <3>1, OwnersStep
  <2>1. /\ Owners(b) \in Nat
        /\ Owners(b)' = Owners(b) + (IF a = b THEN 1 ELSE 0)
    BY <1>0, <1>n, <2>0, NullAssumption DEF Hit, CellInv, CellTypeOK
  <2>2. CASE b # a
    BY <1>n, <2>1, <2>2 DEF CellInv, CellTypeOK, CountsOwners
  <2>3. CASE b = a
    <3>1. cell # a /\ \A q \in Place : arc[q] # a
      BY <1>n, NullAssumption DEF CellInv, OwnedArcsAreLive
    <3>2. Held(arc, a) = {}
      BY <3>1 DEF Held
    <3>3. Owners(a) = 0
      BY <3>1, <3>2, FS_EmptySet DEF Owners, Holders, Held
    <3> QED
      BY <1>n, <2>1, <2>3, <3>3 DEF CellInv, CellTypeOK
  <2> QED
    BY <2>2, <2>3
<1> QED
  BY <1>1, <1>2, <1>3, <1>4 DEF CellInv

LEMMA ReleaseInv ==
  ASSUME CellInv, NEW t \in Thread, NEW s \in Slot, Release(t, s)
  PROVE  CellInv'
<1> DEFINE p == <<t, s>>
<1> DEFINE a == arc[p]
<1>0. p \in Place /\ Null \in Pointer
  BY DEF Place, Pointer
<1> HIDE DEF p
<1>n. /\ a # Null
      /\ arc' = [arc EXCEPT ![p] = Null]
      /\ strong' = [strong EXCEPT ![a] = @ - 1]
      /\ memory' = [memory EXCEPT ![a] = IF strong[a] = 1 THEN "free" ELSE @]
      /\ cell' = cell /\ seen' = seen
  BY DEF Release, p
<1>l. /\ a \in Addr /\ strong[a] >= 1
      /\ strong[a] = 1 => cell # a /\ \A q \in Place : arc[q] = a => q = p
  BY <1>0, <1>n, LastOwner
<1> HIDE DEF a
<1>a. arc[p] = a
  BY DEF a
<1>1. CellTypeOK'
  BY <1>0, <1>n, <1>l DEF CellInv, CellTypeOK
<1>2. OwnedArcsAreLive'
  BY <1>0, <1>a, <1>n, <1>l DEF CellInv, CellTypeOK, OwnedArcsAreLive, Pointer
<1>3. SeenIsCurrent'
  BY <1>n DEF CellInv, SeenIsCurrent
<1>4. CountsOwners'
  <2> SUFFICES ASSUME NEW b \in Addr, memory'[b] = "live"
               PROVE  strong'[b] >= Owners(b)'
    BY DEF CountsOwners
  <2>0. /\ Owners(b) \in Nat
        /\ Owners(b)' = Owners(b) - Hit(arc[p], b) + Hit(arc'[p], b)
                                  - Hit(cell, b) + Hit(cell', b)
    <3>1. CellTypeOK /\ \A q \in Place \ {p} : arc'[q] = arc[q]
      BY <1>n DEF CellInv, CellTypeOK
    <3> QED
      BY <1>0, <1>1, <3>1, OwnersStep
  <2>1. /\ Owners(b) \in Nat
        /\ Owners(b)' = Owners(b) - (IF a = b THEN 1 ELSE 0)
    BY <1>0, <1>a, <1>n, <2>0, NullAssumption DEF Hit, CellInv, CellTypeOK
  <2>2. memory[b] = "live" /\ strong[b] \in Nat
    BY <1>l, <1>n DEF CellInv, CellTypeOK
  <2>3. strong[b] >= Owners(b)
    BY <2>2 DEF CellInv, CountsOwners
  <2>4. strong'[b] = strong[b] - (IF a = b THEN 1 ELSE 0)
    BY <1>l, <1>n DEF CellInv, CellTypeOK
  <2> QED
    BY <2>1, <2>2, <2>3, <2>4
<1> QED
  BY <1>1, <1>2, <1>3, <1>4 DEF CellInv

\* An assignment drops one owner, the one that the variable was.
LEMMA AssignOwners ==
  ASSUME CellTypeOK, NEW t \in Thread, NEW old \in Slot, NEW new \in Slot,
         Assign(t, old, new), NEW b \in Addr
  PROVE  Owners(b) \in Nat /\ Owners(b)' = Owners(b) - Hit(arc[<<t, old>>], b)
<1> DEFINE p == <<t, old>>
<1> DEFINE q == <<t, new>>
<1> DEFINE a == arc[p]
<1> DEFINE v == arc[q]
<1>0. p \in Place /\ q \in Place /\ p # q /\ Null \in Pointer
  BY DEF Place, Pointer, Assign
<1> HIDE DEF p, q
<1>n. arc' = [arc EXCEPT ![p] = arc[q], ![q] = Null] /\ cell' = cell
  BY DEF Assign, p, q
<1>t. arc \in [Place -> Pointer] /\ a \in Pointer /\ v \in Pointer
  BY <1>0 DEF CellTypeOK
<1> HIDE DEF a, v
<1>a. arc[p] = a /\ arc[q] = v
  BY DEF a, v
<1> DEFINE f == [arc EXCEPT ![p] = v]
<1>1. f \in [Place -> Pointer] /\ f[q] = v
  BY <1>0, <1>t, <1>a
<1>3. /\ f[p] = v /\ \A r \in Place \ {p} : f[r] = arc[r]
      /\ arc' \in [Place -> Pointer] /\ arc'[q] = Null
      /\ \A r \in Place \ {q} : arc'[r] = f[r]
  BY <1>0, <1>t, <1>a, <1>n
<1> HIDE DEF f
<1>2. Cardinality(Held(f, b)) = Moved(Cardinality(Held(arc, b)), a, v, b)
  <2>1. Cardinality(Held(f, b)) = Moved(Cardinality(Held(arc, b)), arc[p], f[p], b)
    BY <1>0, <1>t, <1>1, <1>3, HeldStep
  <2> QED
    BY <1>a, <1>3, <2>1
<1>4. Cardinality(Held(arc', b)) = Moved(Cardinality(Held(f, b)), v, Null, b)
  <2>1. Cardinality(Held(arc', b)) = Moved(Cardinality(Held(f, b)), f[q], arc'[q], b)
    BY <1>0, <1>1, <1>3, HeldStep
  <2> QED
    BY <1>1, <1>3, <2>1
<1>5. Cardinality(Held(arc, b)) \in Nat /\ Cardinality(Held(f, b)) \in Nat
  BY <1>t, <1>1, HeldCount
<1>6. /\ Owners(b) = Cardinality(Held(arc, b)) + (IF cell = b THEN 1 ELSE 0)
      /\ Owners(b)' = Cardinality(Held(arc', b)) + (IF cell = b THEN 1 ELSE 0)
  BY <1>n DEF Owners, Holders, Held
<1>7. Owners(b) \in Nat /\ Owners(b)' = Owners(b) - Hit(a, b)
  BY <1>2, <1>4, <1>5, <1>6, NullAssumption DEF Hit, Moved
<1> QED
  BY <1>7 DEF a, p

LEMMA AssignInv ==
  ASSUME CellInv, NEW t \in Thread, NEW old \in Slot, NEW new \in Slot, Assign(t, old, new)
  PROVE  CellInv'
<1> DEFINE p == <<t, old>>
<1> DEFINE q == <<t, new>>
<1> DEFINE a == arc[p]
<1> DEFINE v == arc[q]
<1>0. p \in Place /\ q \in Place /\ p # q /\ Null \in Pointer
  BY DEF Place, Pointer, Assign
<1> HIDE DEF p, q
<1>n. /\ arc' = [arc EXCEPT ![p] = arc[q], ![q] = Null]
      /\ strong' = [b \in Addr |-> IF b = a THEN strong[b] - 1 ELSE strong[b]]
      /\ memory' = [b \in Addr |-> IF b = a /\ strong[b] = 1 THEN "free" ELSE memory[b]]
      /\ cell' = cell /\ seen' = seen
  BY DEF Assign, p, q
<1>t. arc \in [Place -> Pointer] /\ a \in Pointer /\ v \in Pointer
  BY <1>0 DEF CellInv, CellTypeOK
<1>l. a # Null => /\ a \in Addr /\ strong[a] >= 1
                  /\ strong[a] = 1 => cell # a /\ \A r \in Place : arc[r] = a => r = p
  BY <1>0, LastOwner
<1> HIDE DEF a, v
<1>a. arc[p] = a /\ arc[q] = v
  BY DEF a, v
<1>1. CellTypeOK'
  <2>1. arc' \in [Place -> Pointer]
    BY <1>0, <1>n, <1>t, <1>a
  <2>2. strong' \in [Addr -> Nat]
    BY <1>n, <1>l, NullAssumption DEF CellInv, CellTypeOK
  <2> QED
    BY <1>n, <2>1, <2>2 DEF CellInv, CellTypeOK
<1>2. OwnedArcsAreLive'
  <2>1. ASSUME cell' # Null
        PROVE  memory'[cell'] = "live"
    BY <1>n, <1>l, <2>1 DEF CellInv, CellTypeOK, OwnedArcsAreLive, Pointer
  <2>2. ASSUME NEW r \in Place, arc'[r] # Null
        PROVE  memory'[arc'[r]] = "live"
    <3>1. \/ r = p /\ arc'[r] = arc[q]
          \/ r # p /\ r # q /\ arc'[r] = arc[r]
      BY <1>0, <1>n, <1>t, <2>2
    <3>2. PICK o \in Place : o # p /\ arc'[r] = arc[o]
      BY <1>0, <3>1
    <3>3. arc[o] \in Addr /\ memory[arc[o]] = "live"
      BY <1>t, <2>2, <3>2 DEF CellInv, OwnedArcsAreLive, Pointer
    <3>4. ~(arc[o] = a /\ strong[a] = 1)
      BY <1>l, <2>2, <3>2
    <3> QED
      BY <1>n, <3>2, <3>3, <3>4
  <2> QED
    BY <2>1, <2>2 DEF OwnedArcsAreLive
<1>3. SeenIsCurrent'
  BY <1>n DEF CellInv, SeenIsCurrent
<1>4. CountsOwners'
  <2> SUFFICES ASSUME NEW b \in Addr, memory'[b] = "live"
               PROVE  strong'[b] >= Owners(b)'
    BY DEF CountsOwners
  <2>1. Owners(b) \in Nat /\ Owners(b)' = Owners(b) - Hit(a, b)
    BY AssignOwners DEF CellInv, a, p
  <2>2. /\ memory[b] = "live" /\ strong[b] \in Nat
        /\ strong'[b] = strong[b] - Hit(a, b)
    BY <1>n DEF CellInv, CellTypeOK, Hit
  <2>3. strong[b] >= Owners(b)
    BY <2>2 DEF CellInv, CountsOwners
  <2>4. Hit(a, b) \in {0, 1}
    BY DEF Hit
  <2> QED
    BY <2>1, <2>2, <2>3, <2>4
<1> QED
  BY <1>1, <1>2, <1>3, <1>4 DEF CellInv

\* The count of the Arcs' owners in AtomicArc.store and compare_exchange, which
\* move Arcs between the cell and one slot without touching any count.
LEMMA MoveInv ==
  ASSUME CellInv, NEW p \in Place, NEW v \in Pointer,
         arc' = [arc EXCEPT ![p] = v], v \in {Null, cell}, cell' \in {cell, arc[p]},
         cell' = cell => v = Null,
         strong' = strong, memory' = memory,
         CellTypeOK', SeenIsCurrent'
  PROVE  CellInv'
<1>1. OwnedArcsAreLive'
  BY DEF CellInv, CellTypeOK, OwnedArcsAreLive
<1>2. CountsOwners'
  <2> SUFFICES ASSUME NEW b \in Addr, memory'[b] = "live"
               PROVE  strong'[b] >= Owners(b)'
    BY DEF CountsOwners
  <2>1. CellTypeOK /\ (\A q \in Place \ {p} : arc'[q] = arc[q]) /\ arc'[p] = v
    BY DEF CellInv, CellTypeOK
  <2>2. /\ Owners(b) \in Nat
        /\ Owners(b)' = Owners(b) - Hit(arc[p], b) + Hit(arc'[p], b)
                                  - Hit(cell, b) + Hit(cell', b)
    BY <2>1, OwnersStep
  <2>3. strong[b] \in Nat /\ strong[b] >= Owners(b)
    BY <2>1 DEF CellInv, CellTypeOK, CountsOwners
  <2>4. Owners(b)' \in Int /\ Owners(b)' <= Owners(b)
    BY <2>1, <2>2, NullAssumption DEF Hit
  <2>5. strong'[b] = strong[b]
    OBVIOUS
  <2> QED
    BY <2>2, <2>3, <2>4, <2>5
<1> QED
  BY <1>1, <1>2 DEF CellInv

LEMMA ReadCellInv ==
  ASSUME CellInv, NEW t \in Thread, ReadCell(t)
  PROVE  CellInv'
<1>1. CellTypeOK' /\ SeenIsCurrent'
  BY DEF CellInv, CellTypeOK, SeenIsCurrent, ReadCell
<1>2. OwnedArcsAreLive'
  BY DEF CellInv, OwnedArcsAreLive, ReadCell
<1>3. CountsOwners'
  BY DEF CellInv, CountsOwners, Owners, Holders, ReadCell
<1> QED
  BY <1>1, <1>2, <1>3 DEF CellInv

LEMMA IncrementInv ==
  ASSUME CellInv, LoadedArcsAreLive, NEW t \in Thread, NEW s \in Slot, Increment(t, s)
  PROVE  CellInv'
<1> DEFINE p == <<t, s>>
<1> DEFINE a == seen[t]
<1>0. p \in Place
  BY DEF Place
<1> HIDE DEF p
<1>n. /\ a # Null /\ arc[p] = Null
      /\ strong' = [strong EXCEPT ![a] = @ + 1]
      /\ arc' = [arc EXCEPT ![p] = a]
      /\ seen' = [seen EXCEPT ![t] = Null]
      /\ cell' = cell /\ memory' = memory
  BY DEF Increment, p
<1>l. a \in Addr /\ memory[a] = "live"
  BY <1>n DEF CellInv, CellTypeOK, LoadedArcsAreLive, Pointer
<1> HIDE DEF a
<1>1. CellTypeOK'
  BY <1>0, <1>n, <1>l DEF CellInv, CellTypeOK, Pointer
<1>2. OwnedArcsAreLive'
  BY <1>0, <1>n, <1>l DEF CellInv, CellTypeOK, OwnedArcsAreLive
<1>3. SeenIsCurrent'
  BY <1>n DEF CellInv, CellTypeOK, SeenIsCurrent
<1>4. CountsOwners'
  <2> SUFFICES ASSUME NEW b \in Addr, memory'[b] = "live"
               PROVE  strong'[b] >= Owners(b)'
    BY DEF CountsOwners
  <2>0. /\ Owners(b) \in Nat
        /\ Owners(b)' = Owners(b) - Hit(arc[p], b) + Hit(arc'[p], b)
                                  - Hit(cell, b) + Hit(cell', b)
    <3>1. CellTypeOK /\ \A q \in Place \ {p} : arc'[q] = arc[q]
      BY <1>n DEF CellInv, CellTypeOK
    <3> QED
      BY <1>0, <1>1, <3>1, OwnersStep
  <2>1. /\ Owners(b) \in Nat
        /\ Owners(b)' = Owners(b) + (IF a = b THEN 1 ELSE 0)
    BY <1>0, <1>n, <2>0, NullAssumption DEF Hit, CellInv, CellTypeOK
  <2>2. memory[b] = "live" /\ strong[b] \in Nat
    BY <1>n DEF CellInv, CellTypeOK
  <2>3. strong[b] >= Owners(b)
    BY <2>2 DEF CellInv, CountsOwners
  <2>4. strong'[b] = strong[b] + (IF a = b THEN 1 ELSE 0)
    BY <1>l, <1>n DEF CellInv, CellTypeOK
  <2> QED
    BY <2>1, <2>2, <2>3, <2>4
<1> QED
  BY <1>1, <1>2, <1>3, <1>4 DEF CellInv

LEMMA StoreInv ==
  ASSUME CellInv, NEW t \in Thread, NEW s \in Slot, Alone(t), Store(t, s)
  PROVE  CellInv'
<1> DEFINE p == <<t, s>>
<1>0. p \in Place /\ Null \in Pointer
  BY DEF Place, Pointer
<1> HIDE DEF p
<1>n. /\ cell' = arc[p] /\ arc' = [arc EXCEPT ![p] = Null]
      /\ seen' = seen /\ strong' = strong /\ memory' = memory
  BY DEF Store, p
<1>1. CellTypeOK' /\ SeenIsCurrent'
  BY <1>0, <1>n DEF CellInv, CellTypeOK, SeenIsCurrent, Alone
<1> QED
  BY <1>0, <1>1, <1>n, MoveInv

LEMMA ExchangeInv ==
  ASSUME CellInv, NEW t \in Thread, NEW s \in Slot, Alone(t), Exchange(t, s)
  PROVE  CellInv'
<1> DEFINE p == <<t, s>>
<1>0. p \in Place /\ cell \in Pointer
  BY DEF Place, CellInv, CellTypeOK
<1>n. /\ cell' = arc[p] /\ arc' = [arc EXCEPT ![p] = cell]
      /\ seen' = seen /\ strong' = strong /\ memory' = memory
  BY DEF Exchange, p
<1> HIDE DEF p
<1>1. CellTypeOK' /\ SeenIsCurrent'
  BY <1>0, <1>n DEF CellInv, CellTypeOK, SeenIsCurrent, Alone
<1>2. CASE cell' = cell
  <2>1. arc' = arc
    BY <1>0, <1>n, <1>2 DEF CellInv, CellTypeOK
  <2> QED
    BY <1>n, <1>1, <1>2, <2>1
       DEF CellInv, OwnedArcsAreLive, CountsOwners, Owners, Holders
<1>3. CASE cell' # cell
  BY <1>0, <1>n, <1>1, <1>3, MoveInv
<1> QED
  BY <1>2, <1>3

LEMMA CompareExchangeInv ==
  ASSUME CellInv, NEW t \in Thread, NEW current \in Slot, NEW s \in Slot,
         Alone(t), CompareExchange(t, current, s)
  PROVE  CellInv'
<1> DEFINE p == <<t, s>>
<1>0. p \in Place /\ Null \in Pointer /\ cell \in Pointer
  BY DEF Place, Pointer, CellInv, CellTypeOK
<1>1. CASE cell = arc[<<t, current>>]
  BY <1>1, ExchangeInv DEF CompareExchange
<1>2. CASE cell # arc[<<t, current>>]
  <2>n. /\ arc' = [arc EXCEPT ![p] = Null] /\ seen' = [seen EXCEPT ![t] = cell]
        /\ cell' = cell /\ strong' = strong /\ memory' = memory
    BY <1>2 DEF CompareExchange, p
  <2> HIDE DEF p
  <2>1. CellTypeOK' /\ SeenIsCurrent'
    BY <1>0, <2>n DEF CellInv, CellTypeOK, SeenIsCurrent
  <2> QED
    BY <1>0, <2>n, <2>1, MoveInv
<1> QED
  BY <1>1, <1>2

LEMMA DropCellInv ==
  ASSUME CellInv, DropCell
  PROVE  CellInv'
<1> DEFINE a == cell
<1>n. /\ a # Null /\ cell' = Null
      /\ strong' = [strong EXCEPT ![a] = @ - 1]
      /\ memory' = [memory EXCEPT ![a] = IF strong[a] = 1 THEN "free" ELSE @]
      /\ arc' = arc /\ seen' = seen /\ \A t \in Thread : seen[t] = Null
  BY DEF DropCell
<1>t. /\ a \in Addr /\ memory[a] = "live"
      /\ strong[a] \in Nat /\ strong[a] >= Owners(a)
  BY <1>n DEF CellInv, CellTypeOK, OwnedArcsAreLive, CountsOwners, Pointer
<1>h. ASSUME NEW b \in Addr
      PROVE  /\ Holders(b) \in Nat
             /\ Holders(b) = 0 => \A q \in Place : arc[q] # b
  BY HeldCount DEF CellInv, CellTypeOK, Holders, Held
<1>l. /\ strong[a] >= 1
      /\ strong[a] = 1 => \A q \in Place : arc[q] # a
  <2>1. Owners(a) = Holders(a) + 1
    BY DEF Owners
  <2> QED
    BY <1>t, <1>h, <2>1
<1>1. CellTypeOK'
  BY <1>n, <1>t, <1>l DEF CellInv, CellTypeOK, Pointer
<1>2. OwnedArcsAreLive'
  BY <1>n, <1>t, <1>l DEF CellInv, CellTypeOK, OwnedArcsAreLive, Pointer
<1>3. SeenIsCurrent'
  BY <1>n DEF SeenIsCurrent
<1>4. CountsOwners'
  <2> SUFFICES ASSUME NEW b \in Addr, memory'[b] = "live"
               PROVE  strong'[b] >= Owners(b)'
    BY DEF CountsOwners
  <2>1. Owners(b)' = Holders(b) /\ Owners(b) = Holders(b) + Hit(a, b)
    <3>1. Holders(b)' = Holders(b)
      BY <1>n DEF Holders
    <3>2. cell' # b
      BY <1>n, NullAssumption
    <3> QED
      BY <1>h, <3>1, <3>2 DEF Owners, Hit
  <2>2. memory[b] = "live" /\ strong[b] \in Nat
    BY <1>n, <1>t DEF CellInv, CellTypeOK
  <2>3. strong[b] >= Owners(b)
    BY <2>2 DEF CellInv, CountsOwners
  <2>4. strong'[b] = strong[b] - Hit(a, b)
    BY <1>n, <1>t, <2>2 DEF CellInv, CellTypeOK, Hit
  <2>5. Hit(a, b) \in {0, 1}
    BY DEF Hit
  <2> QED
    BY <1>h, <2>1, <2>2, <2>3, <2>4, <2>5
<1> QED
  BY <1>1, <1>2, <1>3, <1>4 DEF CellInv

-----------------------------------------------------------------------------

LEMMA NextInv ==
  ASSUME CellInv, LoadedArcsAreLive, [Next]_cellVars
  PROVE  CellInv'
<1>1. CASE UNCHANGED cellVars
  BY <1>1 DEF cellVars, CellInv, CellTypeOK, OwnedArcsAreLive, CountsOwners,
              Owners, Holders, SeenIsCurrent
<1>2. CASE DropCell
  BY <1>2, DropCellInv
<1>3. ASSUME NEW t \in Thread, Quiet(t), Resume(t)
      PROVE  CellInv'
  BY <1>3, IncrementInv DEF Resume
<1>4. ASSUME NEW t \in Thread, Quiet(t), Call(t)
      PROVE  CellInv'
  <2>1. Alone(t)
    BY <1>4 DEF Alone, Quiet, Call
  <2>2. \/ ReadCell(t)
        \/ UNCHANGED cellVars
        \/ \E s \in Slot : Store(t, s)
        \/ \E current, s \in Slot : CompareExchange(t, current, s)
        \/ \E s \in Slot, a \in Addr : New(t, s, a)
        \/ \E s \in Slot : Release(t, s)
        \/ \E old, new \in Slot : Assign(t, old, new)
    BY <1>4 DEF Call, Is
  <2> QED
    BY <1>1, <2>1, <2>2, ReadCellInv, StoreInv, CompareExchangeInv, NewInv,
       ReleaseInv, AssignInv
<1> QED
  BY <1>1, <1>2, <1>3, <1>4 DEF Next

\* Whole loads count themselves in a live Arc.
LEMMA WholeLoads ==
  ASSUME ~Overlap
  PROVE  CellInv => LoadedArcsAreLive
BY DEF CellInv, CellTypeOK, SeenIsCurrent, OwnedArcsAreLive, LoadedArcsAreLive, Pointer

\* What a program holds of an AtomicArc is live and counted, in every reachable
\* state, for any number of threads, slots and addresses, as long as no thread is
\* interrupted inside load, is or a failing compare_exchange.
THEOREM CellTheorem ==
  ASSUME ~Overlap
  PROVE  Spec => []CellInv
<1>1. Init => CellInv
  BY InitCell DEF Init
<1>2. CellInv /\ [Next]_cellVars => CellInv'
  BY NextInv, WholeLoads
<1> QED
  BY <1>1, <1>2, PTL DEF Spec

\* However threads interleave, also inside of load, is and compare_exchange: as
\* long as none is about to count itself in freed memory, no Arc in a variable or
\* in the cell points to freed memory, and no owner is uncounted.  Arc::new,
\* clone, drop, store and compare_exchange add no way to go wrong of their own.
THEOREM OwnedArcsAreLiveTheorem ==
  Spec /\ []LoadedArcsAreLive => [](OwnedArcsAreLive /\ CountsOwners)
<1>1. Init => CellInv
  BY InitCell DEF Init
<1>2. CellInv /\ LoadedArcsAreLive /\ [Next]_cellVars => CellInv'
  BY NextInv
<1>3. CellInv => OwnedArcsAreLive /\ CountsOwners
  BY DEF CellInv
<1> QED
  BY <1>1, <1>2, <1>3, PTL DEF Spec

-----------------------------------------------------------------------------
(* What may happen inside of a load: the Arc behind a pointer that was read  *)
(* stays counted, in the cell or as one that store forgot.                   *)

Kept(b) == cell = b \/ strong[b] > Owners(b)
SeenIsKept == \A t \in Thread : seen[t] # Null => Kept(seen[t])

\* A step that moves at most one Arc in or out of a slot, with its count.
LEMMA KeptStep ==
  ASSUME CellInv, CellTypeOK', NEW p \in Place, \A q \in Place \ {p} : arc'[q] = arc[q],
         NEW b \in Addr, Kept(b),
         strong'[b] - strong[b] >= Hit(arc'[p], b) - Hit(arc[p], b),
         cell' = cell \/ (cell' = arc[p] /\ strong' = strong /\ Hit(arc'[p], b) = 0)
  PROVE  Kept(b)'
<1>1. CellTypeOK /\ strong[b] \in Nat /\ strong'[b] \in Nat
  BY DEF CellInv, CellTypeOK
<1>2. /\ Owners(b) \in Nat
      /\ Owners(b)' = Owners(b) - Hit(arc[p], b) + Hit(arc'[p], b)
                                - Hit(cell, b) + Hit(cell', b)
  BY <1>1, OwnersStep
<1>3. /\ Hit(arc[p], b) \in {0, 1} /\ Hit(arc'[p], b) \in {0, 1}
      /\ Hit(cell, b) \in {0, 1} /\ Hit(cell', b) \in {0, 1}
      /\ (Hit(cell', b) = 1 <=> cell' = b) /\ (Hit(cell, b) = 1 <=> cell = b)
  BY DEF Hit
<1>4. CASE cell' = cell
  BY <1>1, <1>2, <1>3, <1>4 DEF Kept
<1>5. CASE cell' = arc[p] /\ strong' = strong /\ Hit(arc'[p], b) = 0
  <2>1. CASE cell' = b
    BY <2>1 DEF Kept
  <2>2. CASE cell' # b
    <3>1. Hit(cell', b) = 0 /\ Hit(arc[p], b) = 0
      BY <1>5, <2>2 DEF Hit
    <3>2. Owners(b)' = Owners(b) - Hit(cell, b)
      BY <1>2, <1>3, <1>5, <3>1
    <3>3. CASE cell = b
      <4>1. memory[b] = "live"
        BY <3>3, NullAssumption DEF CellInv, OwnedArcsAreLive
      <4>2. strong[b] >= Owners(b) /\ Owners(b)' = Owners(b) - 1
        BY <1>3, <3>2, <3>3, <4>1 DEF CellInv, CountsOwners
      <4> QED
        BY <1>1, <1>2, <1>5, <4>2 DEF Kept
    <3>4. CASE cell # b
      BY <1>1, <1>2, <1>3, <1>5, <3>2, <3>4 DEF Kept
    <3> QED
      BY <3>3, <3>4
  <2> QED
    BY <2>1, <2>2
<1> QED
  BY <1>4, <1>5

\* What every step does to an allocation that is kept.
StaysKept(b) == memory'[b] = "live" /\ Kept(b)'

LEMMA NewKeeps ==
  ASSUME CellInv, CellInv', NEW t \in Thread, NEW s \in Slot, NEW a \in Addr, New(t, s, a),
         NEW b \in Addr, memory[b] = "live", Kept(b)
  PROVE  StaysKept(b)
<1> DEFINE p == <<t, s>>
<1>0. p \in Place
  BY DEF Place
<1> HIDE DEF p
<1>t. CellTypeOK /\ CellTypeOK'
  BY DEF CellInv
<1>n. /\ arc[p] = Null /\ memory[a] = "free" /\ cell' = cell
      /\ arc' = [arc EXCEPT ![p] = a]
      /\ strong' = [strong EXCEPT ![a] = 1]
      /\ memory' = [memory EXCEPT ![a] = "live"]
  BY DEF New, p
<1>1. arc'[p] = a /\ \A q \in Place \ {p} : arc'[q] = arc[q]
  BY <1>0, <1>n, <1>t DEF CellTypeOK
<1>2. b # a /\ strong'[b] = strong[b] /\ memory'[b] = "live" /\ strong[b] \in Nat
  BY <1>n, <1>t DEF CellTypeOK
<1>3. Hit(arc[p], b) = 0 /\ Hit(arc'[p], b) = 0
  BY <1>n, <1>1, <1>2, NullAssumption DEF Hit
<1> QED
  BY <1>0, <1>n, <1>t, <1>1, <1>2, <1>3, KeptStep DEF StaysKept

\* The last owner of an allocation that is kept is not there to drop it.
LEMMA LastIsNotKept ==
  ASSUME CellInv, NEW p \in Place, arc[p] # Null, Kept(arc[p])
  PROVE  strong[arc[p]] # 1
<1>1. /\ arc[p] \in Addr
      /\ strong[arc[p]] = 1 => cell # arc[p]
  BY LastOwner
<1>2. Owners(arc[p]) \in Nat /\ Owners(arc[p]) # 0 /\ strong[arc[p]] \in Nat
  BY <1>1, HolderOwns DEF CellInv, CellTypeOK
<1> QED
  BY <1>1, <1>2 DEF Kept

LEMMA ReleaseKeeps ==
  ASSUME CellInv, CellInv', NEW t \in Thread, NEW s \in Slot, Release(t, s),
         NEW b \in Addr, memory[b] = "live", Kept(b)
  PROVE  StaysKept(b)
<1> DEFINE p == <<t, s>>
<1>0. p \in Place
  BY DEF Place
<1> HIDE DEF p
<1>t. CellTypeOK /\ CellTypeOK'
  BY DEF CellInv
<1>n. /\ arc[p] # Null /\ cell' = cell
      /\ arc' = [arc EXCEPT ![p] = Null]
      /\ strong' = [strong EXCEPT ![arc[p]] = @ - 1]
      /\ memory' = [memory EXCEPT ![arc[p]] = IF strong[arc[p]] = 1 THEN "free" ELSE @]
  BY DEF Release, p
<1>1. arc'[p] = Null /\ \A q \in Place \ {p} : arc'[q] = arc[q]
  BY <1>0, <1>n, <1>t DEF CellTypeOK
<1>2. arc[p] = b => strong[b] # 1
  BY <1>0, <1>n, LastIsNotKept
<1>3. memory'[b] = "live" /\ strong[b] \in Nat
  BY <1>n, <1>t, <1>2 DEF CellTypeOK
<1>4. strong'[b] = strong[b] - Hit(arc[p], b) /\ Hit(arc'[p], b) = 0 /\ Hit(arc[p], b) \in {0, 1}
  BY <1>n, <1>t, <1>1, NullAssumption DEF CellTypeOK, Hit
<1>5. strong'[b] - strong[b] >= Hit(arc'[p], b) - Hit(arc[p], b)
  BY <1>3, <1>4
<1> QED
  BY <1>0, <1>n, <1>t, <1>1, <1>3, <1>5, KeptStep DEF StaysKept

LEMMA AssignKeeps ==
  ASSUME CellInv, CellInv', NEW t \in Thread, NEW old \in Slot, NEW new \in Slot,
         Assign(t, old, new), NEW b \in Addr, memory[b] = "live", Kept(b)
  PROVE  StaysKept(b)
<1> DEFINE p == <<t, old>>
<1>0. p \in Place /\ CellTypeOK
  BY DEF Place, CellInv
<1>1. Owners(b) \in Nat /\ Owners(b)' = Owners(b) - Hit(arc[p], b)
  BY <1>0, AssignOwners
<1> HIDE DEF p
<1>n. /\ strong' = [a \in Addr |-> IF a = arc[p] THEN strong[a] - 1 ELSE strong[a]]
      /\ memory' = [a \in Addr |-> IF a = arc[p] /\ strong[a] = 1 THEN "free" ELSE memory[a]]
      /\ cell' = cell
  BY DEF Assign, p
<1>2. arc[p] = b => strong[b] # 1
  BY <1>0, NullAssumption, LastIsNotKept
<1>3. memory'[b] = "live" /\ strong[b] \in Nat
  BY <1>0, <1>n, <1>2 DEF CellTypeOK
<1>4. strong'[b] = strong[b] - Hit(arc[p], b) /\ Hit(arc[p], b) \in {0, 1}
  BY <1>n, <1>3 DEF Hit
<1> QED
  BY <1>n, <1>1, <1>3, <1>4 DEF StaysKept, Kept

LEMMA IncrementKeeps ==
  ASSUME CellInv, CellInv', NEW t \in Thread, NEW s \in Slot, Increment(t, s),
         NEW b \in Addr, memory[b] = "live", Kept(b)
  PROVE  StaysKept(b)
<1> DEFINE p == <<t, s>>
<1>0. p \in Place
  BY DEF Place
<1> HIDE DEF p
<1>t. CellTypeOK /\ CellTypeOK'
  BY DEF CellInv
<1>n. /\ arc[p] = Null /\ cell' = cell /\ memory' = memory
      /\ arc' = [arc EXCEPT ![p] = seen[t]]
      /\ strong' = [strong EXCEPT ![seen[t]] = @ + 1]
  BY DEF Increment, p
<1>1. arc'[p] = seen[t] /\ \A q \in Place \ {p} : arc'[q] = arc[q]
  BY <1>0, <1>n, <1>t DEF CellTypeOK
<1>2. strong'[b] = strong[b] + Hit(seen[t], b) /\ strong[b] \in Nat
  BY <1>n, <1>t DEF CellTypeOK, Hit
<1>3. Hit(arc[p], b) = 0 /\ Hit(seen[t], b) \in {0, 1}
  BY <1>n, NullAssumption DEF Hit
<1>4. strong'[b] - strong[b] >= Hit(arc'[p], b) - Hit(arc[p], b)
  BY <1>1, <1>2, <1>3
<1> QED
  BY <1>0, <1>n, <1>t, <1>1, <1>4, KeptStep DEF StaysKept

\* What store takes out of the cell is forgotten, so its count outlives it.
LEMMA StoreKeeps ==
  ASSUME CellInv, CellInv', NEW t \in Thread, NEW s \in Slot, Store(t, s),
         NEW b \in Addr, memory[b] = "live", Kept(b)
  PROVE  StaysKept(b)
<1> DEFINE p == <<t, s>>
<1>0. p \in Place
  BY DEF Place
<1> HIDE DEF p
<1>t. CellTypeOK /\ CellTypeOK' /\ strong[b] \in Nat
  BY DEF CellInv, CellTypeOK
<1>n. /\ cell' = arc[p] /\ arc' = [arc EXCEPT ![p] = Null]
      /\ strong' = strong /\ memory' = memory
  BY DEF Store, p
<1>1. arc'[p] = Null /\ \A q \in Place \ {p} : arc'[q] = arc[q]
  BY <1>0, <1>n, <1>t DEF CellTypeOK
<1>2. Hit(arc'[p], b) = 0 /\ Hit(arc[p], b) \in {0, 1}
  BY <1>1, NullAssumption DEF Hit
<1>3. strong'[b] - strong[b] >= Hit(arc'[p], b) - Hit(arc[p], b)
  BY <1>n, <1>t, <1>2
<1> QED
  BY <1>0, <1>n, <1>t, <1>1, <1>2, <1>3, KeptStep DEF StaysKept

\* A compare_exchange that fails forgets an Arc; one that leaves the pointer as
\* it was changes nothing.
LEMMA CompareExchangeKeeps ==
  ASSUME CellInv, CellInv', NEW t \in Thread, NEW current \in Slot, NEW s \in Slot,
         CompareExchange(t, current, s), cell' = cell,
         NEW b \in Addr, memory[b] = "live", Kept(b)
  PROVE  StaysKept(b)
<1> DEFINE p == <<t, s>>
<1>0. p \in Place
  BY DEF Place
<1> HIDE DEF p
<1>t. CellTypeOK /\ CellTypeOK' /\ strong[b] \in Nat
  BY DEF CellInv, CellTypeOK
<1>n. /\ strong' = strong /\ memory' = memory
      /\ arc' = [arc EXCEPT ![p] = Null] \/ (arc' = [arc EXCEPT ![p] = cell] /\ arc[p] = cell)
  BY DEF CompareExchange, Exchange, p
<1>1. \A q \in Place \ {p} : arc'[q] = arc[q]
  BY <1>0, <1>n, <1>t DEF CellTypeOK
<1>2. arc'[p] = Null \/ arc'[p] = arc[p]
  BY <1>0, <1>n, <1>t DEF CellTypeOK
<1>3. strong'[b] - strong[b] >= Hit(arc'[p], b) - Hit(arc[p], b)
  BY <1>n, <1>t, <1>2, NullAssumption DEF Hit
<1> QED
  BY <1>0, <1>n, <1>t, <1>1, <1>3, KeptStep DEF StaysKept

\* Together: while a thread is inside of a load, only a swap can let go of what
\* it has read.
LEMMA NextKeeps ==
  ASSUME CellInv, CellInv', [Next]_cellVars, SwapsSpareLoads, NEW u \in Thread, seen[u] # Null,
         NEW b \in Addr, memory[b] = "live", Kept(b)
  PROVE  StaysKept(b)
<1>1. CASE UNCHANGED cellVars
  BY <1>1 DEF cellVars, StaysKept, Kept, Owners, Holders
<1>2. ASSUME NEW t \in Thread, NEW s \in Slot, Store(t, s) PROVE StaysKept(b)
  BY <1>2, StoreKeeps
<1>3. ASSUME NEW t \in Thread, NEW s \in Slot, Increment(t, s) PROVE StaysKept(b)
  BY <1>3, IncrementKeeps
<1>4. ASSUME NEW t \in Thread, cell' = cell, Call(t) PROVE StaysKept(b)
  <2>1. CASE ReadCell(t)
    BY <2>1 DEF ReadCell, StaysKept, Kept, Owners, Holders
  <2>2. \/ ReadCell(t)
        \/ UNCHANGED cellVars
        \/ \E s \in Slot : Store(t, s)
        \/ \E current, s \in Slot : CompareExchange(t, current, s)
        \/ \E s \in Slot, a \in Addr : New(t, s, a)
        \/ \E s \in Slot : Release(t, s)
        \/ \E old, new \in Slot : Assign(t, old, new)
    BY <1>4 DEF Call, Is
  <2> QED
    BY <1>1, <1>2, <1>4, <2>1, <2>2, CompareExchangeKeeps, NewKeeps, ReleaseKeeps, AssignKeeps
<1>5. cell' = cell \/ \E t \in Thread, s \in Slot : Store(t, s)
  BY DEF SwapsSpareLoads
<1>6. ~DropCell
  BY DEF DropCell
<1> QED
  BY <1>1, <1>2, <1>3, <1>4, <1>5, <1>6 DEF Next, Resume

LoadInv == CellInv /\ LoadedArcsAreLive /\ SeenIsKept

\* What a thread has in seen was there before, or is in the cell.
LEMMA NextSeen ==
  ASSUME CellInv, [Next]_cellVars, NEW t \in Thread
  PROVE  seen'[t] \in {Null, seen[t], cell'}
<1>1. seen \in [Thread -> Pointer]
  BY DEF CellInv, CellTypeOK
<1>2. CASE UNCHANGED cellVars \/ DropCell
  BY <1>2 DEF cellVars, DropCell
<1>3. ASSUME NEW u \in Thread, Resume(u) PROVE seen'[t] \in {Null, seen[t], cell'}
  BY <1>1, <1>3 DEF Resume, Increment
<1>4. ASSUME NEW u \in Thread, Call(u) PROVE seen'[t] \in {Null, seen[t], cell'}
  BY <1>1, <1>4 DEF Call, ReadCell, Is, Store, CompareExchange, Exchange, New, Release, Assign,
                    cellVars
<1> QED
  BY <1>2, <1>3, <1>4 DEF Next

LEMMA NextLoads ==
  ASSUME LoadInv, [Next]_cellVars, SwapsSpareLoads \/ UNCHANGED cellVars
  PROVE  LoadInv'
<1>0. CellInv /\ CellInv' /\ CellTypeOK' /\ OwnedArcsAreLive'
  BY NextInv DEF LoadInv, CellInv
<1>1. SwapsSpareLoads
  BY DEF SwapsSpareLoads, LoadInv, cellVars
<1>2. ASSUME NEW t \in Thread, NEW b \in Addr, b = seen'[t]
      PROVE  StaysKept(b)
  <2>1. CASE b = cell'
    <3>1. memory'[b] = "live"
      BY <1>0, <2>1, NullAssumption DEF OwnedArcsAreLive
    <3>2. Kept(b)'
      BY <2>1 DEF Kept
    <3> QED
      BY <3>1, <3>2 DEF StaysKept
  <2>2. CASE b = seen[t]
    <3>1. seen[t] # Null /\ memory[b] = "live" /\ Kept(b)
      BY <2>2, NullAssumption DEF LoadInv, LoadedArcsAreLive, SeenIsKept, Kept, Owners, Holders
    <3> QED
      BY <1>0, <1>1, <3>1, NextKeeps
  <2> QED
    BY <1>0, <1>2, <2>1, <2>2, NextSeen, NullAssumption
<1>3. ASSUME NEW t \in Thread, seen'[t] # Null
      PROVE  \E b \in Addr : b = seen'[t] /\ StaysKept(b)
  <2>1. seen'[t] \in Addr
    BY <1>0, <1>3 DEF CellTypeOK, Pointer
  <2> QED
    BY <1>2, <2>1
<1>4. LoadedArcsAreLive'
  BY <1>3 DEF LoadedArcsAreLive, StaysKept
<1>5. SeenIsKept'
  <2> SUFFICES ASSUME NEW t \in Thread, seen'[t] # Null
               PROVE  \/ cell' = seen'[t]
                      \/ strong'[seen'[t]] > Cardinality({p \in Place : arc'[p] = seen'[t]})
                                              + IF cell' = seen'[t] THEN 1 ELSE 0
    BY DEF SeenIsKept, Kept, Owners, Holders
  <2>1. PICK b \in Addr : b = seen'[t] /\ StaysKept(b)
    BY <1>3
  <2> QED
    BY <2>1 DEF StaysKept, Kept, Owners, Holders
<1> QED
  BY <1>0, <1>4, <1>5 DEF LoadInv

\* "Atomically load the current value" is true of load, is and compare_exchange
\* even if other threads store, drop, clone and load between their two halves;
\* only a compare_exchange that succeeds must not come in between.  Then a load
\* counts itself in a live Arc, since whatever store overwrites stays counted.
\* (AtomicArcLoadRace shows what a swap does there.)
THEOREM LoadedArcsAreLiveTheorem ==
  Spec /\ [][SwapsSpareLoads]_cellVars => []LoadedArcsAreLive
<1>1. Init => LoadInv
  BY InitCell DEF Init, CellInit, LoadInv, LoadedArcsAreLive, SeenIsKept
<1>2. LoadInv /\ [Next]_cellVars /\ [SwapsSpareLoads]_cellVars => LoadInv'
  BY NextLoads
<1>3. LoadInv => LoadedArcsAreLive
  BY DEF LoadInv
<1> QED
  BY <1>1, <1>2, <1>3, PTL DEF Spec

-----------------------------------------------------------------------------
(* Arcs that nobody forgets: store and a failing compare_exchange apart, no  *)
(* call on an AtomicArc leaves an allocation without an owner, and a count   *)
(* that is exact stays so.                                                   *)

Leaks(a) == memory[a] = "live" /\ Owners(a) = 0
Leaked == {a \in Addr : Leaks(a)}
Exact == \A a \in Addr : memory[a] = "live" /\ Owners(a) # 0 => strong[a] = Owners(a)

\* What a call does to the counts: one owner more of the allocation that got
\* another, one less of the one that lost one.
LEMMA NewExact ==
  ASSUME CellInv, CellInv', Exact, NEW t \in Thread, NEW s \in Slot, NEW a \in Addr, New(t, s, a)
  PROVE  Exact' /\ Leaked' \subseteq Leaked
<1> DEFINE p == <<t, s>>
<1>0. p \in Place
  BY DEF Place
<1> HIDE DEF p
<1>n. /\ arc[p] = Null /\ memory[a] = "free" /\ cell' = cell
      /\ arc' = [arc EXCEPT ![p] = a]
      /\ strong' = [strong EXCEPT ![a] = 1]
      /\ memory' = [memory EXCEPT ![a] = "live"]
  BY DEF New, p
<1>t. CellTypeOK /\ CellTypeOK'
  BY DEF CellInv
<1>1. Owners(a) = 0
  <2>1. cell # a /\ \A q \in Place : arc[q] # a
    BY <1>n, NullAssumption DEF CellInv, OwnedArcsAreLive
  <2>2. Held(arc, a) = {}
    BY <2>1 DEF Held
  <2> QED
    BY <2>1, <2>2, FS_EmptySet DEF Owners, Holders, Held
<1>2. ASSUME NEW b \in Addr
      PROVE  Owners(b) \in Nat /\ Owners(b)' = Owners(b) + Hit(a, b)
  <2>1. arc'[p] = a /\ \A q \in Place \ {p} : arc'[q] = arc[q]
    BY <1>0, <1>n, <1>t DEF CellTypeOK
  <2>2. /\ Owners(b) \in Nat
        /\ Owners(b)' = Owners(b) - Hit(arc[p], b) + Hit(arc'[p], b)
                                  - Hit(cell, b) + Hit(cell', b)
    BY <1>0, <1>t, <2>1, OwnersStep
  <2> QED
    BY <1>n, <2>1, <2>2, NullAssumption DEF Hit
<1>3. \A b \in Addr : /\ b = a => strong'[b] = 1
                      /\ b # a => strong'[b] = strong[b] /\ memory'[b] = memory[b]
  BY <1>n, <1>t DEF CellTypeOK
<1>4. ASSUME NEW b \in Addr, memory'[b] = "live"
      PROVE  /\ Owners(b)' # 0 => strong'[b] = Owners(b)'
             /\ Owners(b)' = 0 => memory[b] = "live" /\ Owners(b) = 0
  <2>1. CASE b = a
    <3>1. Owners(b)' = 1
      BY <1>1, <1>2, <2>1 DEF Hit
    <3> QED
      BY <1>3, <2>1, <3>1
  <2>2. CASE b # a
    <3>1. Owners(b)' = Owners(b)
      BY <1>2, <2>2 DEF Hit
    <3> QED
      BY <1>3, <1>4, <2>2, <3>1 DEF Exact
  <2> QED
    BY <2>1, <2>2
<1> QED
  BY <1>4 DEF Exact, Leaked, Leaks

\* One owner less, and the allocation is freed with the last.
LEMMA OneLessExact ==
  ASSUME CellTypeOK, Exact, NEW a,
         \A b \in Addr : Owners(b) \in Nat /\ Owners(b)' = Owners(b) - Hit(a, b),
         \A b \in Addr : b = a => Owners(b) # 0 /\ memory[b] = "live",
         \A b \in Addr : strong'[b] = strong[b] - Hit(a, b),
         \A b \in Addr : memory'[b] = IF b = a /\ strong[b] = 1 THEN "free" ELSE memory[b]
  PROVE  Exact' /\ Leaked' \subseteq Leaked
<1>1. ASSUME NEW b \in Addr, memory'[b] = "live"
      PROVE  /\ Owners(b)' # 0 => strong'[b] = Owners(b)'
             /\ Owners(b)' = 0 => memory[b] = "live" /\ Owners(b) = 0
  <2>1. CASE b = a
    <3>1. strong[b] = Owners(b) /\ strong[b] # 1
      BY <1>1, <2>1 DEF Exact
    <3>2. Owners(b) \in Nat /\ Owners(b)' = Owners(b) - 1 /\ strong'[b] = strong[b] - 1
      BY <2>1 DEF Hit
    <3> QED
      BY <3>1, <3>2
  <2>2. CASE b # a
    <3>1. Owners(b)' = Owners(b) /\ strong'[b] = strong[b] /\ memory[b] = "live"
      BY <1>1, <2>2 DEF Hit, CellTypeOK
    <3> QED
      BY <3>1 DEF Exact
  <2> QED
    BY <2>1, <2>2
<1> QED
  BY <1>1 DEF Exact, Leaked, Leaks

LEMMA ReleaseExact ==
  ASSUME CellInv, CellInv', Exact, NEW t \in Thread, NEW s \in Slot, Release(t, s)
  PROVE  Exact' /\ Leaked' \subseteq Leaked
<1> DEFINE p == <<t, s>>
<1> DEFINE a == arc[p]
<1>0. p \in Place
  BY DEF Place
<1> HIDE DEF p
<1>n. /\ a # Null /\ cell' = cell
      /\ arc' = [arc EXCEPT ![p] = Null]
      /\ strong' = [strong EXCEPT ![a] = @ - 1]
      /\ memory' = [memory EXCEPT ![a] = IF strong[a] = 1 THEN "free" ELSE @]
  BY DEF Release, p
<1>t. CellTypeOK /\ CellTypeOK' /\ memory[a] = "live"
  BY <1>0, <1>n DEF CellInv, OwnedArcsAreLive
<1>1. ASSUME NEW b \in Addr
      PROVE  Owners(b) \in Nat /\ Owners(b)' = Owners(b) - Hit(a, b)
  <2>1. arc'[p] = Null /\ \A q \in Place \ {p} : arc'[q] = arc[q]
    BY <1>0, <1>n, <1>t DEF CellTypeOK
  <2>2. /\ Owners(b) \in Nat
        /\ Owners(b)' = Owners(b) - Hit(arc[p], b) + Hit(arc'[p], b)
                                  - Hit(cell, b) + Hit(cell', b)
    BY <1>0, <1>t, <2>1, OwnersStep
  <2> QED
    BY <1>n, <2>1, <2>2, NullAssumption DEF Hit
<1>2. Owners(a) # 0
  BY <1>0, <1>t, HolderOwns
<1> HIDE DEF a
<1>3. \A b \in Addr : /\ strong'[b] = strong[b] - Hit(a, b)
                      /\ memory'[b] = IF b = a /\ strong[b] = 1 THEN "free" ELSE memory[b]
  BY <1>n, <1>t DEF CellTypeOK, Hit
<1> QED
  BY <1>t, <1>1, <1>2, <1>3, OneLessExact

LEMMA AssignExact ==
  ASSUME CellInv, Exact, NEW t \in Thread, NEW old \in Slot, NEW new \in Slot, Assign(t, old, new)
  PROVE  Exact' /\ Leaked' \subseteq Leaked
<1> DEFINE p == <<t, old>>
<1> DEFINE a == arc[p]
<1>0. p \in Place /\ CellTypeOK
  BY DEF Place, CellInv
<1>1. \A b \in Addr : Owners(b) \in Nat /\ Owners(b)' = Owners(b) - Hit(a, b)
  BY <1>0, AssignOwners
<1> HIDE DEF p
<1>2. Owners(a) # 0 /\ (a # Null => memory[a] = "live")
  BY <1>0, HolderOwns DEF CellInv, OwnedArcsAreLive
<1>n. /\ strong' = [b \in Addr |-> IF b = a THEN strong[b] - 1 ELSE strong[b]]
      /\ memory' = [b \in Addr |-> IF b = a /\ strong[b] = 1 THEN "free" ELSE memory[b]]
  BY DEF Assign, p
<1> HIDE DEF a
<1>3. \A b \in Addr : /\ strong'[b] = strong[b] - Hit(a, b)
                      /\ memory'[b] = IF b = a /\ strong[b] = 1 THEN "free" ELSE memory[b]
  BY <1>0, <1>n DEF CellTypeOK, Hit
<1> QED
  BY <1>0, <1>1, <1>2, <1>3, NullAssumption, OneLessExact

LEMMA IncrementExact ==
  ASSUME CellInv, CellInv', Exact, ~Overlap, NEW t \in Thread, NEW s \in Slot, Increment(t, s)
  PROVE  Exact' /\ Leaked' \subseteq Leaked
<1> DEFINE p == <<t, s>>
<1>0. p \in Place
  BY DEF Place
<1> HIDE DEF p
<1>t. CellTypeOK /\ CellTypeOK' /\ seen[t] = cell /\ cell \in Addr
  BY DEF CellInv, SeenIsCurrent, CellTypeOK, Pointer, Increment
<1>n. /\ arc[p] = Null /\ cell' = cell /\ memory' = memory
      /\ arc' = [arc EXCEPT ![p] = cell]
      /\ strong' = [strong EXCEPT ![cell] = @ + 1]
  BY <1>t DEF Increment, p
<1>1. ASSUME NEW b \in Addr
      PROVE  Owners(b) \in Nat /\ Owners(b)' = Owners(b) + Hit(cell, b)
  <2>1. arc'[p] = cell /\ \A q \in Place \ {p} : arc'[q] = arc[q]
    BY <1>0, <1>n, <1>t DEF CellTypeOK
  <2>2. /\ Owners(b) \in Nat
        /\ Owners(b)' = Owners(b) - Hit(arc[p], b) + Hit(arc'[p], b)
                                  - Hit(cell, b) + Hit(cell', b)
    BY <1>0, <1>t, <2>1, OwnersStep
  <2> QED
    BY <1>n, <2>1, <2>2, NullAssumption DEF Hit
<1>2. Owners(cell) # 0
  <2>1. Holders(cell) = Cardinality(Held(arc, cell)) /\ arc \in [Place -> Pointer]
    BY <1>t DEF Holders, Held, CellTypeOK
  <2>2. Holders(cell) \in Nat
    BY <2>1, HeldCount
  <2> QED
    BY <2>2 DEF Owners
<1>3. ASSUME NEW b \in Addr
      PROVE  strong'[b] = strong[b] + Hit(cell, b) /\ memory'[b] = memory[b] /\ strong[b] \in Nat
  BY <1>n, <1>t DEF CellTypeOK, Hit
<1>4. ASSUME NEW b \in Addr, memory'[b] = "live"
      PROVE  /\ Owners(b)' # 0 => strong'[b] = Owners(b)'
             /\ Owners(b)' = 0 => memory[b] = "live" /\ Owners(b) = 0
  <2>1. CASE b = cell
    <3>1. strong[b] = Owners(b)
      BY <1>2, <1>3, <1>4, <2>1 DEF Exact
    <3>2. Hit(cell, b) = 1
      BY <2>1 DEF Hit
    <3> QED
      BY <1>1, <1>3, <3>1, <3>2
  <2>2. CASE b # cell
    <3>1. Owners(b)' = Owners(b) /\ strong'[b] = strong[b]
      BY <1>1, <1>3, <2>2 DEF Hit
    <3> QED
      BY <1>3, <1>4, <3>1 DEF Exact
  <2> QED
    BY <2>1, <2>2
<1> QED
  BY <1>4 DEF Exact, Leaked, Leaks

LEMMA ExchangeExact ==
  ASSUME CellInv, CellInv', Exact, NEW t \in Thread, NEW s \in Slot, Exchange(t, s)
  PROVE  Exact' /\ Leaked' \subseteq Leaked
<1> DEFINE p == <<t, s>>
<1>0. p \in Place
  BY DEF Place
<1> HIDE DEF p
<1>n. cell' = arc[p] /\ arc' = [arc EXCEPT ![p] = cell] /\ UNCHANGED <<strong, memory>>
  BY DEF Exchange, p
<1>t. CellTypeOK /\ CellTypeOK'
  BY DEF CellInv
<1>1. ASSUME NEW b \in Addr
      PROVE  Owners(b)' = Owners(b)
  <2>1. arc'[p] = cell /\ \A q \in Place \ {p} : arc'[q] = arc[q]
    BY <1>0, <1>n, <1>t DEF CellTypeOK
  <2>2. /\ Owners(b) \in Nat
        /\ Owners(b)' = Owners(b) - Hit(arc[p], b) + Hit(arc'[p], b)
                                  - Hit(cell, b) + Hit(cell', b)
    BY <1>0, <1>t, <2>1, OwnersStep
  <2> QED
    BY <1>n, <2>1, <2>2 DEF Hit
<1> QED
  BY <1>1, <1>n DEF Exact, Leaked, Leaks

\* The only owner of an Arc.
Single(p) == arc[p] # Null /\ strong[arc[p]] = 1

\* An Arc that its only owner forgets is all that leaks.
LEMMA ForgetExact ==
  ASSUME CellInv, CellInv', Exact, NEW p \in Place, Single(p),
         arc' = [arc EXCEPT ![p] = Null], UNCHANGED <<cell, strong, memory>>
  PROVE  Exact' /\ Leaked' \subseteq Leaked \cup {arc[p]}
<1> DEFINE a == arc[p]
<1>t. CellTypeOK /\ CellTypeOK'
  BY DEF CellInv
<1>1. ASSUME NEW b \in Addr
      PROVE  Owners(b) \in Nat /\ Owners(b)' = Owners(b) - Hit(a, b)
  <2>1. arc'[p] = Null /\ \A q \in Place \ {p} : arc'[q] = arc[q]
    BY <1>t DEF CellTypeOK
  <2>2. /\ Owners(b) \in Nat
        /\ Owners(b)' = Owners(b) - Hit(arc[p], b) + Hit(arc'[p], b)
                                  - Hit(cell, b) + Hit(cell', b)
    BY <1>t, <2>1, OwnersStep
  <2> QED
    BY <2>1, <2>2, NullAssumption DEF Hit
<1>2. Owners(a) \in Nat /\ Owners(a) # 0 /\ strong[a] = 1 /\ memory[a] = "live" /\ a \in Addr
  BY <1>t, HolderOwns DEF Single, CellInv, OwnedArcsAreLive, CellTypeOK, Pointer
<1> HIDE DEF a
<1>3. Owners(a) = 1
  BY <1>2 DEF Exact
<1>4. ASSUME NEW b \in Addr, memory'[b] = "live"
      PROVE  /\ Owners(b)' # 0 => strong'[b] = Owners(b)'
             /\ Owners(b)' = 0 => b = a \/ (memory[b] = "live" /\ Owners(b) = 0)
  <2>1. CASE b = a
    BY <1>1, <1>3, <2>1 DEF Hit
  <2>2. CASE b # a
    <3>1. Owners(b)' = Owners(b)
      BY <1>1, <2>2 DEF Hit
    <3> QED
      BY <1>4, <3>1 DEF Exact
  <2> QED
    BY <2>1, <2>2
<1> QED
  BY <1>4 DEF Exact, Leaked, Leaks, a

\* Nobody else counts or drops an Arc that has one owner.
LEMMA SingleStays ==
  ASSUME CellInv, ~Overlap, NEW t \in Thread, NEW p \in Place, p[1] # t, Single(p),
         \/ \E s \in Slot, a \in Addr : New(t, s, a)
         \/ \E s \in Slot : Release(t, s)
         \/ \E old, new \in Slot : Assign(t, old, new)
         \/ \E s \in Slot : Increment(t, s)
         \/ \E s \in Slot : Exchange(t, s)
  PROVE  Single(p)'
<1>t. CellTypeOK /\ arc[p] \in Addr /\ memory[arc[p]] = "live"
  BY DEF CellInv, CellTypeOK, Single, OwnedArcsAreLive, Pointer
<1>1. cell # arc[p] /\ \A q \in Place : arc[q] = arc[p] => q = p
  BY LastOwner DEF Single
<1>2. ASSUME NEW s \in Slot PROVE <<t, s>> \in Place /\ <<t, s>> # p
  BY DEF Place
<1>3. ASSUME NEW s \in Slot, NEW a \in Addr, New(t, s, a) PROVE Single(p)'
  BY <1>t, <1>2, <1>3 DEF New, Single, CellTypeOK
<1>4. ASSUME NEW s \in Slot, Release(t, s) PROVE Single(p)'
  <2>1. arc[<<t, s>>] # arc[p]
    BY <1>1, <1>2
  <2> QED
    BY <1>t, <1>2, <1>4, <2>1 DEF Release, Single, CellTypeOK
<1>5. ASSUME NEW old \in Slot, NEW new \in Slot, Assign(t, old, new) PROVE Single(p)'
  <2>1. arc[<<t, old>>] # arc[p]
    BY <1>1, <1>2
  <2> QED
    BY <1>t, <1>2, <1>5, <2>1 DEF Assign, Single, CellTypeOK
<1>6. ASSUME NEW s \in Slot, Increment(t, s) PROVE Single(p)'
  <2>1. seen[t] # arc[p]
    BY <1>1, <1>6 DEF Increment, CellInv, SeenIsCurrent
  <2> QED
    BY <1>t, <1>2, <1>6, <2>1 DEF Increment, Single, CellTypeOK
<1>7. ASSUME NEW s \in Slot, Exchange(t, s) PROVE Single(p)'
  BY <1>t, <1>2, <1>7 DEF Exchange, Single, CellTypeOK
<1> QED
  BY <1>3, <1>4, <1>5, <1>6, <1>7
=============================================================================
