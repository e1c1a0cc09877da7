--------------------------- MODULE ArcBTreeProofs ---------------------------
(***************************************************************************)
(* Proofs about ArcBTree for every number of threads, keys and addresses   *)
(* and every split limit: nodes are counted and freed exactly, what an     *)
(* insert changes is its own, every tree is a B-tree between its inserts,  *)
(* and trees that share nodes are maps of their own.                       *)
(***************************************************************************)
EXTENDS ArcBTree, FiniteSetTheorems, SequenceTheorems, TLAPS, WellFoundedInduction

-----------------------------------------------------------------------------
(* Counting *)

\* A set of numbers that is not empty has a least one.
LEMMA LeastNumber ==
  ASSUME NEW n \in Nat, NEW S \in SUBSET (1 .. n), S # {}
  PROVE  Min(S) \in S /\ \A y \in S : Min(S) <= y
<1> DEFINE T == {1 .. x : x \in S}
           R == StrictSubsetOrdering(1 .. n)
           F == FiniteSubsetsOf(1 .. n)
<1>1. T \subseteq F /\ T # {}
  <2>1. \A x \in S : (1 .. x) \in SUBSET (1 .. n) /\ IsFiniteSet(1 .. x)
    BY FS_Interval
  <2> QED
    BY <2>1 DEF FiniteSubsetsOf
<1>2. \E X \in T : \A Y \in T : <<Y, X>> \notin R
  <2>1. IsWellFoundedOn(R, F)
    BY FS_StrictSubsetOrderingWellFounded
  <2> HIDE DEF R, F, T
  <2> QED
    BY <1>1, <2>1, WFMin
<1>3. PICK x \in S : \A y \in S : <<1 .. y, 1 .. x>> \notin R
  BY <1>2
<1>4. ASSUME NEW y \in S PROVE x <= y
  <2>1. SUFFICES ASSUME y < x PROVE FALSE
    BY <2>1
  <2>2. (1 .. y) \in SUBSET (1 .. n) /\ (1 .. x) \in SUBSET (1 .. n)
    BY <2>1
  <2>3. (1 .. y) \subseteq (1 .. x) /\ x \in 1 .. x /\ x \notin 1 .. y
    BY <2>1
  <2> QED
    BY <2>2, <2>3, <1>3 DEF StrictSubsetOrdering
<1> QED
  BY <1>3, <1>4 DEF Min

\* How often a occurs in the sequence s.
Count(s, a) == Cardinality(Holders(s, a))

\* 1 if the pointer x is a.
Hit(x, a) == IF x = a THEN 1 ELSE 0

LEMMA CountType ==
  ASSUME NEW S, NEW s \in Seq(S), NEW a
  PROVE  /\ IsFiniteSet(Holders(s, a)) /\ Count(s, a) \in Nat
         /\ Count(s, a) = 0 <=> \A i \in DOMAIN s : s[i] # a
<1>1. IsFiniteSet(DOMAIN s)
  BY LenProperties, FS_Interval
<1>2. IsFiniteSet(Holders(s, a)) /\ Count(s, a) \in Nat
  BY <1>1, FS_Subset, FS_CardinalityType DEF Holders, Count
<1>3. Count(s, a) = 0 <=> Holders(s, a) = {}
  BY <1>2, FS_EmptySet DEF Count
<1> QED
  BY <1>2, <1>3 DEF Holders

LEMMA CountShort ==
  ASSUME NEW v, NEW a
  PROVE  Count(<< >>, a) = 0 /\ Count(<<v>>, a) = Hit(v, a)
<1>1. Holders(<< >>, a) = {}
  BY DEF Holders
<1>2. Holders(<<v>>, a) = IF v = a THEN {1} ELSE {}
  BY DEF Holders
<1> QED
  BY <1>1, <1>2, FS_EmptySet, FS_Singleton DEF Count, Hit

LEMMA CountConcat ==
  ASSUME NEW S, NEW s \in Seq(S), NEW t \in Seq(S), NEW a
  PROVE  Count(s \o t, a) = Count(s, a) + Count(t, a)
<1> DEFINE A == Holders(s, a)
           B == Holders(t, a)
           C == {i \in Len(s) + 1 .. Len(s) + Len(t) : (s \o t)[i] = a}
           f == [i \in B |-> i + Len(s)]
<1>1. /\ Len(s) \in Nat /\ DOMAIN s = 1 .. Len(s)
      /\ Len(t) \in Nat /\ DOMAIN t = 1 .. Len(t)
      /\ DOMAIN (s \o t) = 1 .. Len(s) + Len(t)
      /\ \A i \in 1 .. Len(s) + Len(t) :
           (s \o t)[i] = IF i <= Len(s) THEN s[i] ELSE t[i - Len(s)]
  BY ConcatProperties, LenProperties
<1>2. Holders(s \o t, a) = A \cup C /\ A \cap C = {}
  BY <1>1 DEF Holders
<1>3. f \in Bijection(B, C)
  <2>1. \A i \in B : i + Len(s) \in C
    BY <1>1 DEF Holders
  <2>2. \A j \in C : j - Len(s) \in B
    BY <1>1 DEF Holders
  <2>3. \A i \in B : i \in Nat
    BY <1>1 DEF Holders
  <2>4. \A j \in C : j \in Nat
    BY <1>1
  <2> HIDE DEF B, C
  <2>5. f \in [B -> C]
    BY <2>1
  <2>6. \A i, j \in B : f[i] = f[j] => i = j
    BY <2>3, <1>1
  <2>7. \A j \in C : \E i \in B : f[i] = j
    BY <2>2, <2>4, <1>1
  <2> QED
    BY <2>5, <2>6, <2>7 DEF Bijection, Injection, Surjection, IsInjective
<1>4. /\ IsFiniteSet(A) /\ IsFiniteSet(B)
      /\ Cardinality(A) \in Nat /\ Cardinality(B) \in Nat
  BY CountType DEF Count
<1>5. IsFiniteSet(C) /\ Cardinality(C) = Cardinality(B)
  BY <1>3, <1>4, FS_Bijection DEF ExistsBijection
<1> QED
  <2> HIDE DEF A, B, C
  <2>1. Cardinality(A \cup C) = Cardinality(A) + Cardinality(C) - Cardinality(A \cap C)
    BY <1>4, <1>5, FS_Union
  <2>2. Count(s \o t, a) = Cardinality(A \cup C) /\ Cardinality(A \cap C) = 0
    BY <1>2, FS_EmptySet DEF Count
  <2>3. Count(s, a) = Cardinality(A) /\ Count(t, a) = Cardinality(B)
    BY DEF Count, A, B
  <2> QED
    BY <2>1, <2>2, <2>3, <1>4, <1>5

\* What changes in a sequence changes its count by the places concerned.
LEMMA CountTail ==
  ASSUME NEW S, NEW s \in Seq(S), s # << >>, NEW a
  PROVE  Count(s, a) = Hit(Head(s), a) + Count(Tail(s), a)
<1>1. s = <<Head(s)>> \o Tail(s) /\ Head(s) \in S /\ Tail(s) \in Seq(S)
  <2>1. Len(s) \in Nat /\ Len(s) >= 1 /\ Head(s) = s[1]
    BY LenProperties, EmptySeq
  <2>2. SubSeq(s, 1, Len(s)) = <<s[1]>> \o SubSeq(s, 2, Len(s))
    BY <2>1, SubSeqRecursiveFirst
  <2> QED
    BY <2>1, <2>2, SubSeqFull, TailIsSubSeq, HeadTailProperties
<1>2. <<Head(s)>> \in Seq(S)
  BY <1>1
<1>3. Count(<<Head(s)>> \o Tail(s), a) = Count(<<Head(s)>>, a) + Count(Tail(s), a)
  BY <1>1, <1>2, CountConcat
<1> QED
  BY <1>1, <1>3, CountShort

LEMMA CountSplit ==
  ASSUME NEW S, NEW s \in Seq(S), NEW k \in 0 .. Len(s), NEW a
  PROVE  /\ SubSeq(s, 1, k) \in Seq(S) /\ SubSeq(s, k + 1, Len(s)) \in Seq(S)
         /\ Count(s, a) = Count(SubSeq(s, 1, k), a) + Count(SubSeq(s, k + 1, Len(s)), a)
<1>1. Len(s) \in Nat /\ \A i \in 1 .. Len(s) : s[i] \in S
  BY LenProperties, ElementOfSeq
<1>2. SubSeq(s, 1, k) \in Seq(S) /\ SubSeq(s, k + 1, Len(s)) \in Seq(S)
  BY <1>1, SubSeqProperties
<1>3. SubSeq(s, 1, k) \o SubSeq(s, k + 1, Len(s)) = s
  <2>1. 1 \in 1 .. Len(s) + 1 /\ k \in 1 - 1 .. Len(s) /\ Len(s) \in k .. Len(s)
    BY <1>1
  <2>2. SubSeq(s, 1, k) \o SubSeq(s, k + 1, Len(s)) = SubSeq(s, 1, Len(s))
    BY <2>1, ConcatAdjacentSubSeq
  <2> QED
    BY <2>2, SubSeqFull
<1>4. Count(SubSeq(s, 1, k) \o SubSeq(s, k + 1, Len(s)), a)
        = Count(SubSeq(s, 1, k), a) + Count(SubSeq(s, k + 1, Len(s)), a)
  BY <1>2, CountConcat
<1> QED
  BY <1>2, <1>3, <1>4

LEMMA CountInsertAt ==
  ASSUME NEW S, NEW s \in Seq(S), NEW k \in 1 .. Len(s) + 1, NEW v \in S, NEW a
  PROVE  /\ InsertAt(s, k, v) \in Seq(S)
         /\ Len(InsertAt(s, k, v)) = Len(s) + 1
         /\ Count(InsertAt(s, k, v), a) = Count(s, a) + Hit(v, a)
<1> DEFINE l == SubSeq(s, 1, k - 1)
           r == SubSeq(s, k, Len(s))
<1>1. Len(s) \in Nat /\ \A i \in 1 .. Len(s) : s[i] \in S
  BY LenProperties, ElementOfSeq
<1>2. l \in Seq(S) /\ r \in Seq(S) /\ Count(s, a) = Count(l, a) + Count(r, a)
  <2>1. k - 1 \in 0 .. Len(s) /\ (k - 1) + 1 = k
    BY <1>1
  <2> QED
    BY <2>1, CountSplit
<1>3. Len(l) = k - 1 /\ Len(r) = Len(s) - k + 1
  BY <1>1, SubSeqProperties
<1>4. <<v>> \in Seq(S) /\ Len(<<v>>) = 1 /\ Count(<<v>>, a) = Hit(v, a)
  BY CountShort
<1> HIDE DEF l, r
<1>5. l \o <<v>> \in Seq(S) /\ Len(l \o <<v>>) = Len(l) + 1
  BY <1>2, <1>4, ConcatProperties
<1>6. (l \o <<v>>) \o r \in Seq(S) /\ Len((l \o <<v>>) \o r) = Len(l) + 1 + Len(r)
  BY <1>2, <1>5, ConcatProperties
<1>9. Count((l \o <<v>>) \o r, a) = Count(l, a) + Hit(v, a) + Count(r, a)
  <2>1. Count((l \o <<v>>) \o r, a) = Count(l \o <<v>>, a) + Count(r, a)
    <3> DEFINE m == l \o <<v>>
    <3>1. m \in Seq(S)
      BY <1>5
    <3> HIDE DEF m
    <3>2. Count(m \o r, a) = Count(m, a) + Count(r, a)
      BY <3>1, <1>2, CountConcat
    <3> QED
      BY <3>2 DEF m
  <2>2. Count(l \o <<v>>, a) = Count(l, a) + Count(<<v>>, a)
    <3>1. PICK w \in Seq(S) : w = <<v>>
      BY <1>4
    <3>2. Count(l \o w, a) = Count(l, a) + Count(w, a)
      BY <1>2, CountConcat
    <3> QED
      BY <3>1, <3>2
  <2> QED
    BY <2>1, <2>2, <1>4
<1>7. InsertAt(s, k, v) = (l \o <<v>>) \o r
  BY DEF InsertAt, l, r
<1>8. Count(l, a) \in Nat /\ Count(r, a) \in Nat /\ Hit(v, a) \in Nat
  BY <1>2, CountType DEF Hit
<1> QED
  BY <1>1, <1>2, <1>3, <1>6, <1>7, <1>8, <1>9

\* The x for which f[x] is a: one that changes changes the count by one at most.
LEMMA HoldersType ==
  ASSUME NEW f, IsFiniteSet(DOMAIN f), NEW a
  PROVE  /\ IsFiniteSet(Holders(f, a)) /\ Cardinality(Holders(f, a)) \in Nat
         /\ Cardinality(Holders(f, a)) = 0 <=> \A x \in DOMAIN f : f[x] # a
<1>1. IsFiniteSet(Holders(f, a)) /\ Cardinality(Holders(f, a)) \in Nat
  BY FS_Subset, FS_CardinalityType DEF Holders
<1> QED
  BY <1>1, FS_EmptySet DEF Holders

LEMMA HoldersStep ==
  ASSUME NEW f, IsFiniteSet(DOMAIN f), NEW g, DOMAIN g = DOMAIN f,
         NEW p \in DOMAIN f, \A x \in DOMAIN f \ {p} : g[x] = f[x], NEW a
  PROVE  Cardinality(Holders(g, a)) = Cardinality(Holders(f, a)) - Hit(f[p], a) + Hit(g[p], a)
<1> DEFINE R == Holders(f, a) \ {p}
<1>1. IsFiniteSet(Holders(f, a)) /\ IsFiniteSet(R) /\ Cardinality(R) \in Nat
  BY HoldersType, FS_RemoveElement, FS_CardinalityType
<1>2. Cardinality(Holders(f, a)) = Cardinality(R) + Hit(f[p], a)
  <2>1. p \in Holders(f, a) <=> f[p] = a
    BY DEF Holders
  <2> QED
    BY <1>1, <2>1, FS_RemoveElement, HoldersType DEF Hit
<1>3. Cardinality(Holders(g, a)) = Cardinality(R) + Hit(g[p], a)
  <2>1. Holders(g, a) = IF g[p] = a THEN R \cup {p} ELSE R
    BY DEF Holders
  <2>2. Cardinality(R \cup {p}) = Cardinality(R) + 1
    BY <1>1, FS_AddElement
  <2> QED
    BY <2>1, <2>2, <1>1 DEF Hit
<1> QED
  BY <1>1, <1>2, <1>3 DEF Hit

LEMMA CountExcept ==
  ASSUME NEW S, NEW s \in Seq(S), NEW k \in DOMAIN s, NEW v, NEW a
  PROVE  Count([s EXCEPT ![k] = v], a) = Count(s, a) - Hit(s[k], a) + Hit(v, a)
<1> DEFINE r == [s EXCEPT ![k] = v]
<1>1. IsFiniteSet(DOMAIN s)
  BY LenProperties, FS_Interval
<1>2. DOMAIN r = DOMAIN s /\ r[k] = v /\ \A x \in DOMAIN s \ {k} : r[x] = s[x]
  BY LenProperties
<1> HIDE DEF r
<1>3. Cardinality(Holders(r, a)) = Cardinality(Holders(s, a)) - Hit(s[k], a) + Hit(r[k], a)
  BY <1>1, <1>2, HoldersStep
<1> QED
  BY <1>2, <1>3 DEF Count, r

\* The places of a in several sequences: one that changes changes their number
\* by the change of its own count.
FiniteSequences(f) == IsFiniteSet(DOMAIN f) /\ \A x \in DOMAIN f : IsFiniteSet(DOMAIN f[x])

LEMMA SequencesAreFinite ==
  ASSUME NEW X, IsFiniteSet(X), NEW S, NEW f \in [X -> Seq(S)]
  PROVE  FiniteSequences(f)
<1>1. SUFFICES ASSUME NEW x \in X PROVE IsFiniteSet(DOMAIN f[x])
  BY DEF FiniteSequences
<1>2. f[x] \in Seq(S)
  OBVIOUS
<1>3. DOMAIN f[x] = 1 .. Len(f[x]) /\ Len(f[x]) \in Int
  BY <1>2, LenProperties
<1>4. IsFiniteSet(1 .. Len(f[x]))
  BY <1>3, FS_Interval
<1> QED
  BY <1>3, <1>4

LEMMA OccurrencesType ==
  ASSUME NEW f, FiniteSequences(f), NEW a
  PROVE  /\ IsFiniteSet(Occurrences(f, a)) /\ Cardinality(Occurrences(f, a)) \in Nat
         /\ \A x \in DOMAIN f : \A i \in DOMAIN f[x] : f[x][i] = a => <<x, i>> \in Occurrences(f, a)
<1> DEFINE D == {{x} \X DOMAIN f[x] : x \in DOMAIN f}
<1>2. IsFiniteSet(D)
  <2> DEFINE h == [x \in DOMAIN f |-> {x} \X DOMAIN f[x]]
  <2>1. h \in Surjection(DOMAIN f, D)
    BY DEF Surjection
  <2> QED
    BY <2>1, FS_Surjection DEF FiniteSequences
<1>3. \A d \in D : IsFiniteSet(d)
  <2>1. SUFFICES ASSUME NEW x \in DOMAIN f PROVE IsFiniteSet({x} \X DOMAIN f[x])
    OBVIOUS
  <2>2. IsFiniteSet(DOMAIN f[x]) /\ IsFiniteSet({x})
    BY FS_Singleton DEF FiniteSequences
  <2> QED
    BY <2>2, FS_Product
<1>4. IsFiniteSet(UNION D)
  BY <1>2, <1>3, FS_UNION
<1>5. IsFiniteSet(Occurrences(f, a))
  BY <1>4, FS_Subset DEF Occurrences
<1>6. \A x \in DOMAIN f : \A i \in DOMAIN f[x] : f[x][i] = a => <<x, i>> \in Occurrences(f, a)
  BY DEF Occurrences
<1> QED
  BY <1>5, <1>6, FS_CardinalityType

LEMMA OccurrencesStep ==
  ASSUME NEW f, FiniteSequences(f), NEW g, FiniteSequences(g), DOMAIN g = DOMAIN f,
         NEW p \in DOMAIN f, \A x \in DOMAIN f \ {p} : g[x] = f[x], NEW a
  PROVE  Cardinality(Occurrences(g, a))
           = Cardinality(Occurrences(f, a)) - Count(f[p], a) + Count(g[p], a)
<1> DEFINE At(h) == {q \in Occurrences(h, a) : q[1] = p}
           R(h) == {q \in Occurrences(h, a) : q[1] # p}
<1>1. ASSUME NEW h, FiniteSequences(h), p \in DOMAIN h
      PROVE  /\ IsFiniteSet(R(h)) /\ Cardinality(R(h)) \in Nat /\ Count(h[p], a) \in Nat
             /\ Cardinality(Occurrences(h, a)) = Cardinality(R(h)) + Count(h[p], a)
  <2>1. IsFiniteSet(Occurrences(h, a))
    BY <1>1, OccurrencesType
  <2>2. IsFiniteSet(R(h)) /\ IsFiniteSet(At(h)) /\ Cardinality(R(h)) \in Nat /\ Cardinality(At(h)) \in Nat
    BY <2>1, FS_Subset, FS_CardinalityType
  <2>3. Cardinality(At(h)) = Count(h[p], a)
    <3> DEFINE b == [i \in Holders(h[p], a) |-> <<p, i>>]
    <3>1. \A i : i \in Holders(h[p], a) => <<p, i>> \in At(h)
      BY <1>1, OccurrencesType DEF Holders
    <3>2. ASSUME NEW q \in At(h)
          PROVE  \E i \in Holders(h[p], a) : q = <<p, i>>
      <4>1. q \in UNION {{x} \X DOMAIN h[x] : x \in DOMAIN h} /\ h[q[1]][q[2]] = a /\ q[1] = p
        BY DEF Occurrences
      <4>2. PICK x \in DOMAIN h : q \in {x} \X DOMAIN h[x]
        BY <4>1
      <4>3. x = p /\ q = <<p, q[2]>> /\ q[2] \in DOMAIN h[p]
        BY <4>1, <4>2
      <4> QED
        BY <4>1, <4>3 DEF Holders
    <3> HIDE DEF At
    <3>3. b \in Bijection(Holders(h[p], a), At(h))
      BY <3>1, <3>2 DEF Bijection, Injection, Surjection, IsInjective
    <3>4. IsFiniteSet(Holders(h[p], a))
      BY <1>1, FS_Subset DEF FiniteSequences, Holders
    <3> QED
      BY <3>3, <3>4, FS_Bijection DEF ExistsBijection, Count
  <2>4. Occurrences(h, a) = R(h) \cup At(h) /\ R(h) \cap At(h) = {}
    OBVIOUS
  <2> HIDE DEF R, At
  <2>5. Cardinality(R(h) \cup At(h)) = Cardinality(R(h)) + Cardinality(At(h)) - Cardinality(R(h) \cap At(h))
    BY <2>2, FS_Union
  <2>6. Cardinality(R(h) \cap At(h)) = 0
    BY <2>4, FS_EmptySet
  <2>7. Cardinality(Occurrences(h, a)) = Cardinality(R(h) \cup At(h))
    BY <2>4
  <2> QED
    BY <2>2, <2>3, <2>5, <2>6, <2>7
<1>2. R(f) = R(g)
  BY DEF Occurrences
<1> HIDE DEF R
<1>3. /\ Cardinality(R(f)) \in Nat /\ Count(f[p], a) \in Nat
      /\ Cardinality(Occurrences(f, a)) = Cardinality(R(f)) + Count(f[p], a)
  BY <1>1
<1>4. /\ Count(g[p], a) \in Nat
      /\ Cardinality(Occurrences(g, a)) = Cardinality(R(g)) + Count(g[p], a)
  BY <1>1
<1> QED
  BY <1>2, <1>3, <1>4

-----------------------------------------------------------------------------
(* The inductive invariant *)

Label == {"idle", "drop_tree", "make_mut", "clone", "assign", "drop_node", "mutate", "carry"}
Entry == Key \X Value

TreeType ==
  /\ root \in [Thread -> Pointer]
  /\ entries \in [Addr -> Seq(Entry)]
  /\ kids \in [Addr -> Seq(Pointer)]
  /\ strong \in [Addr -> Nat]
  /\ pc \in [Thread -> Label]
  /\ entry \in [Thread -> Entry \cup {<< >>}]
  /\ right \in [Thread -> Pointer]
  /\ path \in [Thread -> Seq(Addr \X Nat)]
  /\ copy \in [Thread -> Pointer]
  /\ dropping \in [Thread -> Seq(Pointer)]

\* A node has room for its entries, and a kid on either side of each.
Fits(a) ==
  /\ Len(entries[a]) \in 1 .. SPLIT_LIMIT - 1
  /\ Len(kids[a]) = Len(entries[a]) + 1
NodesFit == \A a \in Addr : strong[a] # 0 => Fits(a)

Inserting(t) == pc[t] \notin {"idle", "drop_tree"}

\* What the variables of a thread hold at each step.
Locals(t) ==
  /\ Inserting(t) => root[t] # Null /\ entry[t] \in Entry
  /\ ~Inserting(t) => path[t] = << >>
  /\ copy[t] # Null <=> pc[t] = "assign"
  /\ right[t] # Null <=> pc[t] = "carry"
  /\ dropping[t] # << >> <=> pc[t] \in {"drop_node", "drop_tree"}

\* The path of an insert leads from its root along the kids it went to.
Node(t, i) == path[t][i][1]
Kid(t, i) == kids[Node(t, i)][path[t][i][2]]
PathLeads(t) ==
  /\ path[t] # << >> => Node(t, 1) = root[t]
  /\ \A i \in DOMAIN path[t] :
       /\ path[t][i][2] \in DOMAIN kids[Node(t, i)]
       /\ Kid(t, i) # Null
       /\ i + 1 \in DOMAIN path[t] => Kid(t, i) = Node(t, i + 1)

\* The nodes that the insert of t has made its own are different ones, and have
\* no owner but the pointer that leads to them.
OnPath(t) == {Node(t, i) : i \in DOMAIN path[t]}
Own(t) ==
  OnPath(t) \cup (IF pc[t] \in {"mutate", "drop_node", "carry"} THEN {Here(t)} ELSE {})
            \cup (IF copy[t] # Null THEN {copy[t]} ELSE {})
OwnIsUnique(t) ==
  /\ \A a \in Own(t) : strong[a] = 1
  /\ \A i, j \in DOMAIN path[t] : Node(t, i) = Node(t, j) => i = j
OfThread(t) == Locals(t) /\ PathLeads(t) /\ OwnIsUnique(t)

PathsAreDisjoint == \A t, u \in Thread : t # u => OnPath(t) \cap OnPath(u) = {}

TreeInv ==
  /\ TreeType /\ CountsOwners /\ NodesFit /\ PathsAreDisjoint
  /\ \A t \in Thread : OfThread(t)

-----------------------------------------------------------------------------
(* Owners *)

\* The Arcs of a in the nodes, and in what thread t holds.
InNodes(a) == Cardinality(Occurrences(kids, a))
InThread(t, a) == Count(dropping[t], a) + Hit(root[t], a) + Hit(copy[t], a) + Hit(right[t], a)

LEMMA TreesAreFinite ==
  ASSUME TreeType
  PROVE  /\ IsFiniteSet(Thread) /\ IsFiniteSet(Addr)
         /\ FiniteSequences(kids) /\ DOMAIN kids = Addr
         /\ FiniteSequences(dropping) /\ DOMAIN dropping = Thread
         /\ DOMAIN root = Thread /\ DOMAIN copy = Thread /\ DOMAIN right = Thread
<1>1. kids \in [Addr -> Seq(Pointer)] /\ dropping \in [Thread -> Seq(Pointer)]
  BY DEF TreeType
<1>2. IsFiniteSet(Thread) /\ IsFiniteSet(Addr)
  BY ThreadAssumption, AddrAssumption
<1>3. FiniteSequences(kids)
  BY <1>1, <1>2, SequencesAreFinite
<1>4. FiniteSequences(dropping)
  BY <1>1, <1>2, SequencesAreFinite
<1> QED
  BY <1>1, <1>2, <1>3, <1>4 DEF TreeType

LEMMA TreesAreFiniteNext ==
  ASSUME TreeType'
  PROVE  /\ FiniteSequences(kids') /\ DOMAIN kids' = Addr
         /\ FiniteSequences(dropping') /\ DOMAIN dropping' = Thread
         /\ DOMAIN root' = Thread /\ DOMAIN copy' = Thread /\ DOMAIN right' = Thread
<1>1. kids' \in [Addr -> Seq(Pointer)] /\ dropping' \in [Thread -> Seq(Pointer)]
  BY DEF TreeType
<1>2. IsFiniteSet(Thread) /\ IsFiniteSet(Addr)
  BY ThreadAssumption, AddrAssumption
<1>3. FiniteSequences(kids')
  BY <1>1, <1>2, SequencesAreFinite
<1>4. FiniteSequences(dropping')
  BY <1>1, <1>2, SequencesAreFinite
<1> QED
  BY <1>1, <1>2, <1>3, <1>4 DEF TreeType

LEMMA OwnersType ==
  ASSUME TreeType, NEW a
  PROVE  /\ Cardinality(Occurrences(kids, a)) \in Nat
         /\ Cardinality(Occurrences(dropping, a)) \in Nat
         /\ Cardinality(Holders(root, a)) \in Nat
         /\ Cardinality(Holders(copy, a)) \in Nat
         /\ Cardinality(Holders(right, a)) \in Nat
BY TreesAreFinite, OccurrencesType, HoldersType

LEMMA InThreadType ==
  ASSUME TreeType, NEW t \in Thread, NEW a
  PROVE  InThread(t, a) \in Nat /\ Count(dropping[t], a) \in Nat
<1>1. dropping[t] \in Seq(Pointer)
  BY DEF TreeType
<1>2. Count(dropping[t], a) \in Nat
  BY <1>1, CountType
<1> QED
  BY <1>2 DEF InThread, Hit

\* When one thread changes what it holds, the owners change by that.
LEMMA OwnersStep ==
  ASSUME TreeType, TreeType', NEW t \in Thread,
         \A u \in Thread \ {t} : /\ root'[u] = root[u] /\ copy'[u] = copy[u]
                                 /\ right'[u] = right[u] /\ dropping'[u] = dropping[u],
         NEW a
  PROVE  /\ InNodes(a) \in Nat /\ InNodes(a)' \in Nat /\ Owners(a) \in Nat
         /\ InThread(t, a) \in Nat /\ InThread(t, a)' \in Nat
         /\ Owners(a)' = Owners(a) - InNodes(a) + InNodes(a)' - InThread(t, a) + InThread(t, a)'
<1>1. Cardinality(Holders(root', a)) = Cardinality(Holders(root, a)) - Hit(root[t], a) + Hit(root'[t], a)
  BY TreesAreFinite, TreesAreFiniteNext, HoldersStep
<1>2. Cardinality(Holders(copy', a)) = Cardinality(Holders(copy, a)) - Hit(copy[t], a) + Hit(copy'[t], a)
  BY TreesAreFinite, TreesAreFiniteNext, HoldersStep
<1>3. Cardinality(Holders(right', a)) = Cardinality(Holders(right, a)) - Hit(right[t], a) + Hit(right'[t], a)
  BY TreesAreFinite, TreesAreFiniteNext, HoldersStep
<1>4. Cardinality(Occurrences(dropping', a))
        = Cardinality(Occurrences(dropping, a)) - Count(dropping[t], a) + Count(dropping'[t], a)
  BY TreesAreFinite, TreesAreFiniteNext, OccurrencesStep
<1>5. Count(dropping[t], a) \in Nat /\ Count(dropping'[t], a) \in Nat
  <2>1. dropping[t] \in Seq(Pointer) /\ dropping'[t] \in Seq(Pointer)
    BY DEF TreeType
  <2> QED
    BY <2>1, CountType
<1>6. /\ Hit(root[t], a) \in Nat /\ Hit(copy[t], a) \in Nat /\ Hit(right[t], a) \in Nat
      /\ Hit(root'[t], a) \in Nat /\ Hit(copy'[t], a) \in Nat /\ Hit(right'[t], a) \in Nat
  BY DEF Hit
<1>7. InNodes(a) \in Nat /\ InNodes(a)' \in Nat
  <2>1. Cardinality(Occurrences(kids, a)) \in Nat
    BY TreesAreFinite, OccurrencesType
  <2>2. Cardinality(Occurrences(kids', a)) \in Nat
    BY TreesAreFiniteNext, OccurrencesType
  <2> QED
    BY <2>1, <2>2 DEF InNodes
<1>8. /\ Owners(a) = InNodes(a) + Cardinality(Occurrences(dropping, a)) + Cardinality(Holders(root, a))
                      + Cardinality(Holders(copy, a)) + Cardinality(Holders(right, a))
      /\ Owners(a)' = InNodes(a)' + Cardinality(Occurrences(dropping', a)) + Cardinality(Holders(root', a))
                      + Cardinality(Holders(copy', a)) + Cardinality(Holders(right', a))
  BY DEF Owners, InNodes
<1>9. /\ InThread(t, a) = Count(dropping[t], a) + Hit(root[t], a) + Hit(copy[t], a) + Hit(right[t], a)
      /\ InThread(t, a)' = Count(dropping'[t], a) + Hit(root'[t], a) + Hit(copy'[t], a) + Hit(right'[t], a)
  BY DEF InThread
<1>10. /\ Cardinality(Occurrences(dropping, a)) \in Nat /\ Cardinality(Holders(root, a)) \in Nat
       /\ Cardinality(Holders(copy, a)) \in Nat /\ Cardinality(Holders(right, a)) \in Nat
  BY OwnersType
<1> QED
  BY <1>1, <1>2, <1>3, <1>4, <1>5, <1>6, <1>7, <1>8, <1>9, <1>10

\* When the kids of one node change, or of two, so do the Arcs in the nodes.
LEMMA InNodesStep ==
  ASSUME TreeType, TreeType', NEW h \in Addr, \A g \in Addr \ {h} : kids'[g] = kids[g], NEW a
  PROVE  InNodes(a)' = InNodes(a) - Count(kids[h], a) + Count(kids'[h], a)
<1>1. Cardinality(Occurrences(kids', a))
        = Cardinality(Occurrences(kids, a)) - Count(kids[h], a) + Count(kids'[h], a)
  BY TreesAreFinite, TreesAreFiniteNext, OccurrencesStep
<1> QED
  BY <1>1 DEF InNodes

LEMMA InNodesStepTwice ==
  ASSUME TreeType, TreeType', NEW h \in Addr, NEW b \in Addr, h # b,
         \A g \in Addr \ {h, b} : kids'[g] = kids[g], NEW a
  PROVE  InNodes(a)' = InNodes(a) - Count(kids[h], a) + Count(kids'[h], a)
                                  - Count(kids[b], a) + Count(kids'[b], a)
<1>1. kids \in [Addr -> Seq(Pointer)] /\ kids' \in [Addr -> Seq(Pointer)]
  BY DEF TreeType
<1> DEFINE m == [kids EXCEPT ![h] = kids'[h]]
<1>2. /\ m \in [Addr -> Seq(Pointer)] /\ \A g \in Addr \ {h} : m[g] = kids[g]
      /\ \A g \in Addr \ {b} : kids'[g] = m[g]
      /\ m[h] = kids'[h] /\ m[b] = kids[b]
  BY <1>1
<1> HIDE DEF m
<1>3. FiniteSequences(m) /\ DOMAIN m = Addr
  BY <1>2, SequencesAreFinite, TreesAreFinite
<1>4. Cardinality(Occurrences(m, a)) = Cardinality(Occurrences(kids, a)) - Count(kids[h], a) + Count(m[h], a)
  BY <1>2, <1>3, TreesAreFinite, OccurrencesStep
<1>5. Cardinality(Occurrences(kids', a)) = Cardinality(Occurrences(m, a)) - Count(m[b], a) + Count(kids'[b], a)
  BY <1>2, <1>3, TreesAreFiniteNext, OccurrencesStep
<1>6. Cardinality(Occurrences(kids, a)) \in Nat /\ Cardinality(Occurrences(m, a)) \in Nat
  BY <1>3, TreesAreFinite, OccurrencesType
<1>7. /\ Count(kids[h], a) \in Nat /\ Count(kids'[h], a) \in Nat
      /\ Count(kids[b], a) \in Nat /\ Count(kids'[b], a) \in Nat
  <2>1. /\ kids[h] \in Seq(Pointer) /\ kids'[h] \in Seq(Pointer)
        /\ kids[b] \in Seq(Pointer) /\ kids'[b] \in Seq(Pointer)
    BY <1>1
  <2> QED
    BY <2>1, CountType
<1> QED
  BY <1>2, <1>4, <1>5, <1>6, <1>7 DEF InNodes

-----------------------------------------------------------------------------
(* The only owner *)

LEMMA HoldersFew ==
  ASSUME NEW f, IsFiniteSet(DOMAIN f), NEW a, NEW x \in DOMAIN f, f[x] = a
  PROVE  /\ Cardinality(Holders(f, a)) # 0
         /\ Cardinality(Holders(f, a)) = 1 => \A y \in DOMAIN f : f[y] = a => y = x
<1>1. IsFiniteSet(Holders(f, a)) /\ x \in Holders(f, a)
  BY FS_Subset DEF Holders
<1>2. ASSUME Cardinality(Holders(f, a)) = 1, NEW y \in DOMAIN f, f[y] = a
      PROVE  y = x
  <2>1. y \in Holders(f, a)
    BY <1>2 DEF Holders
  <2>2. PICK z : Holders(f, a) = {z}
    BY <1>1, <1>2, FS_Singleton
  <2> QED
    BY <1>1, <2>1, <2>2
<1> QED
  BY <1>1, <1>2, FS_EmptySet

LEMMA OccurrencesFew ==
  ASSUME NEW f, FiniteSequences(f), NEW a, NEW x \in DOMAIN f, NEW i \in DOMAIN f[x], f[x][i] = a
  PROVE  /\ Cardinality(Occurrences(f, a)) # 0
         /\ Cardinality(Occurrences(f, a)) = 1 =>
              \A y \in DOMAIN f : \A j \in DOMAIN f[y] : f[y][j] = a => y = x /\ j = i
<1>1. IsFiniteSet(Occurrences(f, a)) /\ <<x, i>> \in Occurrences(f, a)
  BY OccurrencesType
<1>2. ASSUME Cardinality(Occurrences(f, a)) = 1,
             NEW y \in DOMAIN f, NEW j \in DOMAIN f[y], f[y][j] = a
      PROVE  y = x /\ j = i
  <2>1. <<y, j>> \in Occurrences(f, a)
    BY <1>2, OccurrencesType
  <2>2. PICK z : Occurrences(f, a) = {z}
    BY <1>1, <1>2, FS_Singleton
  <2> QED
    BY <1>1, <2>1, <2>2
<1> QED
  BY <1>1, <1>2, FS_EmptySet

\* What owns a node is counted, and one with one owner has no other.
NoKid(a) == \A h \in Addr : \A i \in DOMAIN kids[h] : kids[h][i] # a
NotDropped(a) == \A t \in Thread : \A i \in DOMAIN dropping[t] : dropping[t][i] # a
NoLocal(a) == \A t \in Thread : copy[t] # a /\ right[t] # a

LEMMA RootOwns ==
  ASSUME TreeType, NEW t \in Thread
  PROVE  /\ Owners(root[t]) # 0
         /\ Owners(root[t]) = 1 =>
              /\ \A u \in Thread : root[u] = root[t] => u = t
              /\ NoKid(root[t]) /\ NotDropped(root[t]) /\ NoLocal(root[t])
<1> DEFINE a == root[t]
<1>0. /\ Cardinality(Occurrences(kids, a)) \in Nat /\ Cardinality(Occurrences(dropping, a)) \in Nat
      /\ Cardinality(Holders(root, a)) \in Nat /\ Cardinality(Holders(copy, a)) \in Nat
      /\ Cardinality(Holders(right, a)) \in Nat
      /\ Owners(a) = Cardinality(Occurrences(kids, a)) + Cardinality(Occurrences(dropping, a))
                     + Cardinality(Holders(root, a)) + Cardinality(Holders(copy, a)) + Cardinality(Holders(right, a))
  BY OwnersType DEF Owners
<1>1. /\ Cardinality(Holders(root, a)) # 0
      /\ Cardinality(Holders(root, a)) = 1 => \A u \in Thread : root[u] = a => u = t
  BY TreesAreFinite, HoldersFew
<1> HIDE DEF a
<1>2. ASSUME Owners(a) = 1
      PROVE  /\ Cardinality(Holders(root, a)) = 1 /\ Cardinality(Occurrences(kids, a)) = 0
             /\ Cardinality(Occurrences(dropping, a)) = 0
             /\ Cardinality(Holders(copy, a)) = 0 /\ Cardinality(Holders(right, a)) = 0
  BY <1>0, <1>1, <1>2
<1>3. ASSUME Owners(a) = 1
      PROVE  NoKid(a) /\ NotDropped(a) /\ NoLocal(a)
  <2>1. NoKid(a)
    BY <1>2, <1>3, TreesAreFinite, OccurrencesFew DEF NoKid
  <2>2. NotDropped(a)
    BY <1>2, <1>3, TreesAreFinite, OccurrencesFew DEF NotDropped
  <2>3. NoLocal(a)
    BY <1>2, <1>3, TreesAreFinite, HoldersFew DEF NoLocal
  <2> QED
    BY <2>1, <2>2, <2>3
<1>4. Owners(a) # 0
  BY <1>0, <1>1
<1> QED
  BY <1>1, <1>2, <1>3, <1>4 DEF a

LEMMA CopyOwns ==
  ASSUME TreeType, NEW t \in Thread
  PROVE  /\ Owners(copy[t]) # 0
         /\ Owners(copy[t]) = 1 =>
              /\ \A u \in Thread : root[u] # copy[t] /\ right[u] # copy[t] /\ (copy[u] = copy[t] => u = t)
              /\ NoKid(copy[t]) /\ NotDropped(copy[t])
<1> DEFINE a == copy[t]
<1>0. /\ Cardinality(Occurrences(kids, a)) \in Nat /\ Cardinality(Occurrences(dropping, a)) \in Nat
      /\ Cardinality(Holders(root, a)) \in Nat /\ Cardinality(Holders(copy, a)) \in Nat
      /\ Cardinality(Holders(right, a)) \in Nat
      /\ Owners(a) = Cardinality(Occurrences(kids, a)) + Cardinality(Occurrences(dropping, a))
                     + Cardinality(Holders(root, a)) + Cardinality(Holders(copy, a)) + Cardinality(Holders(right, a))
  BY OwnersType DEF Owners
<1>1. /\ Cardinality(Holders(copy, a)) # 0
      /\ Cardinality(Holders(copy, a)) = 1 => \A u \in Thread : copy[u] = a => u = t
  BY TreesAreFinite, HoldersFew
<1> HIDE DEF a
<1>2. ASSUME Owners(a) = 1
      PROVE  /\ Cardinality(Holders(copy, a)) = 1 /\ Cardinality(Occurrences(kids, a)) = 0
             /\ Cardinality(Occurrences(dropping, a)) = 0
             /\ Cardinality(Holders(root, a)) = 0 /\ Cardinality(Holders(right, a)) = 0
  BY <1>0, <1>1, <1>2
<1>3. ASSUME Owners(a) = 1
      PROVE  NoKid(a) /\ NotDropped(a) /\ \A u \in Thread : root[u] # a /\ right[u] # a
  <2>1. NoKid(a)
    BY <1>2, <1>3, TreesAreFinite, OccurrencesFew DEF NoKid
  <2>2. NotDropped(a)
    BY <1>2, <1>3, TreesAreFinite, OccurrencesFew DEF NotDropped
  <2>3. \A u \in Thread : root[u] # a /\ right[u] # a
    BY <1>2, <1>3, TreesAreFinite, HoldersFew
  <2> QED
    BY <2>1, <2>2, <2>3
<1>4. Owners(a) # 0
  BY <1>0, <1>1
<1> QED
  BY <1>1, <1>2, <1>3, <1>4 DEF a

LEMMA KidOwns ==
  ASSUME TreeType, NEW h \in Addr, NEW i \in DOMAIN kids[h], NEW a, kids[h][i] = a
  PROVE  /\ Owners(a) # 0
         /\ Owners(a) = 1 =>
              /\ \A g \in Addr : \A j \in DOMAIN kids[g] : kids[g][j] = a => g = h /\ j = i
              /\ \A u \in Thread : root[u] # a
              /\ NotDropped(a) /\ NoLocal(a)
<1>0. /\ Cardinality(Occurrences(kids, a)) \in Nat /\ Cardinality(Occurrences(dropping, a)) \in Nat
      /\ Cardinality(Holders(root, a)) \in Nat /\ Cardinality(Holders(copy, a)) \in Nat
      /\ Cardinality(Holders(right, a)) \in Nat
      /\ Owners(a) = Cardinality(Occurrences(kids, a)) + Cardinality(Occurrences(dropping, a))
                     + Cardinality(Holders(root, a)) + Cardinality(Holders(copy, a)) + Cardinality(Holders(right, a))
  BY OwnersType DEF Owners
<1>1. /\ Cardinality(Occurrences(kids, a)) # 0
      /\ Cardinality(Occurrences(kids, a)) = 1 =>
            \A g \in Addr : \A j \in DOMAIN kids[g] : kids[g][j] = a => g = h /\ j = i
  BY TreesAreFinite, OccurrencesFew
<1>2. ASSUME Owners(a) = 1
      PROVE  /\ Cardinality(Occurrences(kids, a)) = 1 /\ Cardinality(Holders(root, a)) = 0
             /\ Cardinality(Occurrences(dropping, a)) = 0
             /\ Cardinality(Holders(copy, a)) = 0 /\ Cardinality(Holders(right, a)) = 0
  BY <1>0, <1>1, <1>2
<1>3. ASSUME Owners(a) = 1
      PROVE  NotDropped(a) /\ NoLocal(a) /\ \A u \in Thread : root[u] # a
  <2>1. NotDropped(a)
    BY <1>2, <1>3, TreesAreFinite, OccurrencesFew DEF NotDropped
  <2>2. NoLocal(a) /\ \A u \in Thread : root[u] # a
    BY <1>2, <1>3, TreesAreFinite, HoldersFew DEF NoLocal
  <2> QED
    BY <2>1, <2>2
<1>4. Owners(a) # 0
  BY <1>0, <1>1
<1> QED
  BY <1>1, <1>2, <1>3, <1>4

LEMMA DroppingOwns ==
  ASSUME TreeType, NEW t \in Thread, NEW i \in DOMAIN dropping[t]
  PROVE  Owners(dropping[t][i]) # 0
<1>1. Cardinality(Occurrences(dropping, dropping[t][i])) # 0
  BY TreesAreFinite, OccurrencesFew
<1> QED
  BY <1>1, OwnersType DEF Owners

LEMMA RightOwns ==
  ASSUME TreeType, NEW t \in Thread
  PROVE  Owners(right[t]) # 0
<1>1. Cardinality(Holders(right, right[t])) # 0
  BY TreesAreFinite, HoldersFew
<1> QED
  BY <1>1, OwnersType DEF Owners

-----------------------------------------------------------------------------
(* What belongs to an insert *)

\* The pointer an insert is about to go through leads to a node that is counted.
LEMMA HereIsANode ==
  ASSUME TreeInv, NEW t \in Thread, Inserting(t)
  PROVE  /\ Here(t) \in Addr /\ strong[Here(t)] # 0 /\ Fits(Here(t))
         /\ Here(t) = root[t] \/ \E h \in OnPath(t) : h \in Addr /\ \E i \in DOMAIN kids[h] : kids[h][i] = Here(t)
         /\ path[t] # << >> =>
              /\ Len(path[t]) \in DOMAIN path[t]
              /\ Last(path[t])[1] = Node(t, Len(path[t])) /\ Last(path[t])[1] \in Addr
              /\ Last(path[t])[2] \in DOMAIN kids[Last(path[t])[1]]
              /\ Here(t) = kids[Last(path[t])[1]][Last(path[t])[2]]
<1>1. TreeType /\ CountsOwners /\ NodesFit /\ Locals(t) /\ PathLeads(t)
  BY DEF TreeInv, OfThread
<1>2. root[t] \in Addr
  BY <1>1 DEF TreeType, Locals, Pointer
<1>3. ASSUME path[t] # << >>
      PROVE  /\ Len(path[t]) \in DOMAIN path[t]
             /\ Last(path[t])[1] = Node(t, Len(path[t])) /\ Last(path[t])[1] \in Addr
             /\ Last(path[t])[2] \in DOMAIN kids[Last(path[t])[1]]
             /\ Here(t) = kids[Last(path[t])[1]][Last(path[t])[2]]
             /\ Here(t) \in Addr
  <2>1. path[t] \in Seq(Addr \X Nat)
    BY <1>1 DEF TreeType
  <2>2. Len(path[t]) \in DOMAIN path[t] /\ Last(path[t]) \in Addr \X Nat
    BY <1>3, <2>1, EmptySeq, LenProperties, ElementOfSeq DEF Last
  <2>3. Here(t) = kids[Last(path[t])[1]][Last(path[t])[2]] /\ Last(path[t]) = path[t][Len(path[t])]
    BY <1>3 DEF Here, Last
  <2>4. /\ Last(path[t])[2] \in DOMAIN kids[Last(path[t])[1]]
        /\ Here(t) # Null
    BY <1>1, <2>2, <2>3 DEF PathLeads, Node, Kid
  <2>5. kids[Last(path[t])[1]] \in Seq(Pointer)
    BY <1>1, <2>2 DEF TreeType
  <2>6. Here(t) \in Pointer
    BY <2>3, <2>4, <2>5, LenProperties, ElementOfSeq
  <2> QED
    BY <2>2, <2>3, <2>4, <2>6 DEF Node, Pointer
<1>4. Here(t) \in Addr
  BY <1>2, <1>3 DEF Here
<1>5. Here(t) = root[t] \/ \E h \in OnPath(t) : h \in Addr /\ \E i \in DOMAIN kids[h] : kids[h][i] = Here(t)
  <2>1. CASE path[t] = << >>
    BY <2>1 DEF Here
  <2>2. CASE path[t] # << >>
    BY <2>2, <1>3 DEF OnPath
  <2> QED
    BY <2>1, <2>2
<1>6. Owners(Here(t)) # 0
  <2>1. CASE Here(t) = root[t]
    BY <1>1, <2>1, RootOwns
  <2>2. CASE Here(t) # root[t]
    BY <1>1, <1>5, <2>2, KidOwns
  <2> QED
    BY <2>1, <2>2
<1>7. strong[Here(t)] # 0
  BY <1>1, <1>4, <1>6 DEF CountsOwners
<1> QED
  BY <1>1, <1>3, <1>4, <1>5, <1>7 DEF NodesFit

\* So does the pointer to each node on its path.
LEMMA OnPathIsReached ==
  ASSUME TreeInv, NEW t \in Thread, NEW g \in OnPath(t)
  PROVE  /\ g \in Addr
         /\ g = root[t] \/ \E h \in OnPath(t) : h \in Addr /\ \E i \in DOMAIN kids[h] : kids[h][i] = g
<1>1. TreeType /\ PathLeads(t)
  BY DEF TreeInv, OfThread
<1>2. path[t] \in Seq(Addr \X Nat)
  BY <1>1 DEF TreeType
<1>3. Len(path[t]) \in Nat /\ DOMAIN path[t] = 1 .. Len(path[t])
  BY <1>2, LenProperties
<1>4. \A i \in DOMAIN path[t] : Node(t, i) \in Addr
  BY <1>2, <1>3, ElementOfSeq DEF Node
<1>5. PICK i \in DOMAIN path[t] : g = Node(t, i)
  BY DEF OnPath
<1>6. CASE i = 1
  <2>1. path[t] # << >>
    BY <1>3, <1>6, EmptySeq
  <2> QED
    BY <1>1, <1>4, <1>5, <1>6, <2>1 DEF PathLeads
<1>7. CASE i # 1
  <2>1. i - 1 \in DOMAIN path[t] /\ (i - 1) + 1 = i
    BY <1>3, <1>7
  <2>2. Kid(t, i - 1) = g /\ path[t][i - 1][2] \in DOMAIN kids[Node(t, i - 1)]
    BY <1>1, <1>5, <2>1 DEF PathLeads
  <2>3. Node(t, i - 1) \in OnPath(t) /\ Node(t, i - 1) \in Addr
    BY <1>4, <2>1 DEF OnPath
  <2> QED
    BY <1>4, <1>5, <2>2, <2>3 DEF Kid
<1> QED
  BY <1>6, <1>7

\* A node that an insert has made its own has no owner but its thread, or a node
\* on its path.
LEMMA OwnedByOne ==
  ASSUME TreeInv, NEW u \in Thread, NEW g \in Own(u)
  PROVE  /\ g \in Addr /\ strong[g] = 1
         /\ NotDropped(g)
         /\ \A t \in Thread : right[t] # g /\ (root[t] = g => t = u) /\ (copy[t] = g => t = u)
         /\ \A h \in Addr : \A i \in DOMAIN kids[h] : kids[h][i] = g => h \in OnPath(u)
<1>1. TreeType /\ CountsOwners /\ Locals(u) /\ OwnIsUnique(u)
  BY DEF TreeInv, OfThread
<1>2. strong[g] = 1
  BY <1>1 DEF OwnIsUnique
<1>3. CASE g = copy[u] /\ copy[u] # Null
  <2>1. g \in Addr
    BY <1>1, <1>3 DEF TreeType, Pointer
  <2>2. Owners(copy[u]) = 1
    BY <1>1, <1>2, <1>3, <2>1 DEF CountsOwners
  <2> QED
    BY <1>1, <1>2, <1>3, <2>1, <2>2, CopyOwns DEF NoKid
<1>4. CASE ~(g = copy[u] /\ copy[u] # Null)
  <2>1. /\ g \in Addr
        /\ g = root[u] \/ \E h \in OnPath(u) : h \in Addr /\ \E i \in DOMAIN kids[h] : kids[h][i] = g
    <3>1. CASE g \in OnPath(u)
      BY <3>1, OnPathIsReached
    <3>2. CASE g \notin OnPath(u)
      <4>1. pc[u] \in {"mutate", "drop_node", "carry"} /\ g = Here(u)
        BY <1>4, <3>2 DEF Own
      <4>2. Inserting(u)
        BY <4>1 DEF Inserting
      <4> QED
        BY <4>1, <4>2, HereIsANode
    <3> QED
      BY <3>1, <3>2
  <2>2. Owners(g) = 1
    BY <1>1, <1>2, <2>1 DEF CountsOwners
  <2>3. CASE g = root[u]
    BY <1>1, <1>2, <2>1, <2>2, <2>3, RootOwns DEF NoKid, NoLocal
  <2>4. CASE g # root[u]
    <3>1. PICK h \in OnPath(u) : h \in Addr /\ \E i \in DOMAIN kids[h] : kids[h][i] = g
      BY <2>1, <2>4
    <3>2. PICK i \in DOMAIN kids[h] : kids[h][i] = g
      BY <3>1
    <3>3. /\ \A k \in Addr : \A j \in DOMAIN kids[k] : kids[k][j] = g => k = h /\ j = i
          /\ \A t \in Thread : root[t] # g
          /\ NotDropped(g) /\ NoLocal(g)
      BY <1>1, <2>2, <3>1, <3>2, KidOwns
    <3> QED
      BY <1>2, <2>1, <3>1, <3>3 DEF NoLocal
  <2> QED
    BY <2>3, <2>4
<1> QED
  BY <1>3, <1>4

\* No insert reaches what another has made its own.
LEMMA OwnIsApart ==
  ASSUME TreeInv, NEW t \in Thread, NEW u \in Thread, t # u
  PROVE  /\ OnPath(t) \cap Own(u) = {}
         /\ Inserting(t) => /\ Here(t) \notin Own(u)
                            /\ \A i \in DOMAIN kids[Here(t)] : kids[Here(t)][i] \notin Own(u)
<1>1. OnPath(t) \cap OnPath(u) = {}
  BY DEF TreeInv, PathsAreDisjoint
<1>2. ASSUME NEW g \in OnPath(t), g \in Own(u)
      PROVE  FALSE
  BY <1>1, <1>2, OnPathIsReached, OwnedByOne
<1>3. ASSUME Inserting(t)
      PROVE  Here(t) \notin Own(u)
  BY <1>1, <1>3, HereIsANode, OwnedByOne
<1>4. ASSUME Inserting(t), NEW i \in DOMAIN kids[Here(t)], kids[Here(t)][i] \in Own(u)
      PROVE  FALSE
  <2>1. Here(t) \in OnPath(u)
    BY <1>4, HereIsANode, OwnedByOne
  <2> QED
    BY <1>3, <1>4, <2>1 DEF Own
<1> QED
  BY <1>2, <1>3, <1>4

\* What an insert is about to go through is not on its path yet.
LEMMA HereIsNew ==
  ASSUME TreeInv, NEW t \in Thread, Inserting(t)
  PROVE  /\ Here(t) \notin OnPath(t)
         /\ \A i \in DOMAIN kids[Here(t)] : kids[Here(t)][i] \notin OnPath(t)
<1>1. TreeType /\ CountsOwners /\ PathLeads(t) /\ OwnIsUnique(t)
  BY DEF TreeInv, OfThread
<1>2. path[t] \in Seq(Addr \X Nat)
  BY <1>1 DEF TreeType
<1>3. Len(path[t]) \in Nat /\ DOMAIN path[t] = 1 .. Len(path[t])
  BY <1>2, LenProperties
<1>4. ASSUME Here(t) \in OnPath(t)
      PROVE  FALSE
  <2> DEFINE g == Here(t)
             n == Len(path[t])
  <2>1. PICK i \in DOMAIN path[t] : g = Node(t, i)
    BY <1>4 DEF OnPath
  <2>2. path[t] # << >>
    BY <2>1, <1>3, EmptySeq
  <2>3. /\ n \in DOMAIN path[t] /\ Node(t, n) \in Addr
        /\ path[t][n][2] \in DOMAIN kids[Node(t, n)]
        /\ g = kids[Node(t, n)][path[t][n][2]] /\ g \in Addr
    BY <2>2, HereIsANode DEF Last
  <2>4. Owners(g) = 1
    BY <1>1, <1>4, <2>3 DEF OwnIsUnique, Own, CountsOwners
  <2> HIDE DEF g, n
  <2>5. /\ \A k \in Addr : \A j \in DOMAIN kids[k] : kids[k][j] = g => k = Node(t, n)
        /\ root[t] # g
    BY <1>1, <2>3, <2>4, KidOwns
  <2>6. i # 1
    BY <1>1, <2>1, <2>2, <2>5 DEF PathLeads
  <2>7. i - 1 \in DOMAIN path[t] /\ (i - 1) + 1 = i
    BY <1>3, <2>6
  <2>8. Kid(t, i - 1) = g /\ path[t][i - 1][2] \in DOMAIN kids[Node(t, i - 1)]
    BY <1>1, <2>1, <2>7 DEF PathLeads
  <2>9. Node(t, i - 1) \in Addr
    BY <1>2, <1>3, <2>7, ElementOfSeq DEF Node
  <2>10. Node(t, i - 1) = Node(t, n)
    BY <2>5, <2>8, <2>9 DEF Kid
  <2>11. i - 1 = n
    BY <1>1, <2>3, <2>7, <2>10 DEF OwnIsUnique
  <2> QED
    BY <1>3, <2>11 DEF n
<1>5. ASSUME NEW i \in DOMAIN kids[Here(t)], kids[Here(t)][i] \in OnPath(t)
      PROVE  FALSE
  <2>1. kids[Here(t)][i] \in Own(t) /\ Here(t) \in Addr
    BY <1>5, HereIsANode DEF Own
  <2>2. Here(t) \in OnPath(t)
    BY <2>1, OwnedByOne
  <2> QED
    BY <1>4, <2>2
<1> QED
  BY <1>4, <1>5

\* A step of one thread leaves the others as they are if it changes none of the
\* nodes that they have made their own.
OnlyOf(t) == \A u \in Thread \ {t} :
  /\ root'[u] = root[u] /\ pc'[u] = pc[u] /\ entry'[u] = entry[u] /\ right'[u] = right[u]
  /\ path'[u] = path[u] /\ copy'[u] = copy[u] /\ dropping'[u] = dropping[u]

LEMMA OthersStay ==
  ASSUME TreeInv, NEW t \in Thread, OnlyOf(t),
         \A u \in Thread \ {t} : \A g \in Own(u) : kids'[g] = kids[g] /\ strong'[g] = strong[g],
         \A u \in Thread \ {t} : OnPath(t)' \cap OnPath(u) = {}
  PROVE  PathsAreDisjoint' /\ \A u \in Thread \ {t} : OfThread(u)'
<1>1. \A u \in Thread \ {t} : OnPath(u)' = OnPath(u)
  BY DEF OnlyOf, OnPath, Node
<1>2. PathsAreDisjoint'
  BY <1>1 DEF TreeInv, PathsAreDisjoint
<1>3. ASSUME NEW u \in Thread \ {t}
      PROVE  OfThread(u)'
  <2>1. /\ root'[u] = root[u] /\ pc'[u] = pc[u] /\ entry'[u] = entry[u] /\ right'[u] = right[u]
        /\ path'[u] = path[u] /\ copy'[u] = copy[u] /\ dropping'[u] = dropping[u]
    BY DEF OnlyOf
  <2>2. TreeType /\ Locals(u) /\ PathLeads(u) /\ OwnIsUnique(u)
    BY DEF TreeInv, OfThread
  <2>3. \A i \in DOMAIN path[u] : Node(u, i) \in OnPath(u)
    BY DEF OnPath
  <2>4. \A g \in OnPath(u) : kids'[g] = kids[g]
    BY DEF Own
  <2>5. Locals(u)'
    BY <2>1, <2>2 DEF Locals, Inserting
  <2>6. PathLeads(u)'
    BY <2>1, <2>2, <2>3, <2>4 DEF PathLeads, Node, Kid
  <2>7. Here(u)' = Here(u)
    <3>1. CASE path[u] = << >>
      BY <2>1, <3>1 DEF Here
    <3>2. CASE path[u] # << >>
      <4>1. path[u] \in Seq(Addr \X Nat)
        BY <2>2 DEF TreeType
      <4>2. Len(path[u]) \in DOMAIN path[u]
        BY <3>2, <4>1, EmptySeq, LenProperties
      <4>3. Last(path[u])[1] \in OnPath(u)
        BY <2>3, <4>2 DEF Node, Last
      <4> QED
        BY <2>1, <2>4, <3>2, <4>3 DEF Here
    <3> QED
      BY <3>1, <3>2
  <2>8. Own(u)' = Own(u)
    BY <1>1, <2>1, <2>7 DEF Own
  <2>9. OwnIsUnique(u)'
    BY <2>1, <2>2, <2>8 DEF OwnIsUnique, Node
  <2> QED
    BY <2>5, <2>6, <2>9 DEF OfThread
<1> QED
  BY <1>2, <1>3

\* What the steps of a thread have to show.
LEMMA CountsStay ==
  ASSUME TreeInv, TreeType', NEW t \in Thread, OnlyOf(t),
         \A a \in Addr :
           /\ strong'[a] = strong[a] - InNodes(a) + InNodes(a)' - InThread(t, a) + InThread(t, a)'
           /\ strong'[a] = 0 <=> kids'[a] = << >>
  PROVE  CountsOwners'
<1>1. SUFFICES ASSUME NEW a \in Addr
               PROVE  strong'[a] = Owners(a)'
  BY DEF CountsOwners
<1>2. TreeType /\ strong[a] = Owners(a)
  BY DEF TreeInv, CountsOwners
<1>3. Owners(a)' = Owners(a) - InNodes(a) + InNodes(a)' - InThread(t, a) + InThread(t, a)'
  BY <1>2, OwnersStep DEF OnlyOf
<1> QED
  BY <1>2, <1>3

LEMMA InThreadNext ==
  ASSUME NEW t, NEW a
  PROVE  InThread(t, a)' = Count(dropping'[t], a) + Hit(root'[t], a) + Hit(copy'[t], a) + Hit(right'[t], a)
BY DEF InThread

LEMMA InNodesType ==
  ASSUME TreeType, NEW a
  PROVE  InNodes(a) \in Nat
BY TreesAreFinite, OccurrencesType DEF InNodes

\* A node that is free has no owner, and belongs to nobody.
LEMMA NewIsFree ==
  ASSUME TreeInv, Free # {}
  PROVE  /\ New \in Addr /\ New # Null /\ strong[New] = 0 /\ kids[New] = << >>
         /\ InNodes(New) = 0
         /\ \A u \in Thread : /\ New \notin Own(u) /\ root[u] # New /\ copy[u] # New /\ right[u] # New
                              /\ InThread(u, New) = 0
         /\ \A h \in Addr : \A i \in DOMAIN kids[h] : kids[h][i] # New
<1>1. TreeType /\ CountsOwners
  BY DEF TreeInv
<1>2. New \in Addr /\ strong[New] = 0
  BY DEF New, Free
<1>3. Owners(New) = 0 /\ kids[New] = << >>
  BY <1>1, <1>2 DEF CountsOwners
<1>4. /\ Cardinality(Occurrences(kids, New)) = 0 /\ Cardinality(Occurrences(dropping, New)) = 0
      /\ Cardinality(Holders(root, New)) = 0 /\ Cardinality(Holders(copy, New)) = 0
      /\ Cardinality(Holders(right, New)) = 0
  <2>1. Owners(New) = Cardinality(Occurrences(kids, New)) + Cardinality(Occurrences(dropping, New))
          + Cardinality(Holders(root, New)) + Cardinality(Holders(copy, New)) + Cardinality(Holders(right, New))
    BY DEF Owners
  <2>2. /\ Cardinality(Occurrences(kids, New)) \in Nat /\ Cardinality(Occurrences(dropping, New)) \in Nat
        /\ Cardinality(Holders(root, New)) \in Nat /\ Cardinality(Holders(copy, New)) \in Nat
        /\ Cardinality(Holders(right, New)) \in Nat
    BY <1>1, OwnersType
  <2> QED
    BY <1>3, <2>1, <2>2
<1>5. /\ \A h \in Addr : \A i \in DOMAIN kids[h] : kids[h][i] # New
      /\ \A u \in Thread : \A i \in DOMAIN dropping[u] : dropping[u][i] # New
      /\ \A u \in Thread : root[u] # New /\ copy[u] # New /\ right[u] # New
  BY <1>1, <1>4, TreesAreFinite, OccurrencesFew, HoldersFew
<1>6. ASSUME NEW u \in Thread
      PROVE  New \notin Own(u) /\ InThread(u, New) = 0
  <2>1. New \notin Own(u)
    BY <1>2, OwnedByOne
  <2>2. dropping[u] \in Seq(Pointer)
    BY <1>1 DEF TreeType
  <2>3. Count(dropping[u], New) = 0
    BY <1>5, <2>2, CountType
  <2> QED
    BY <1>5, <2>1, <2>3 DEF InThread, Hit
<1>7. New # Null
  BY <1>2, AddrAssumption
<1> QED
  BY <1>2, <1>3, <1>4, <1>5, <1>6, <1>7 DEF InNodes

\* The place that a search ends at has a kid.
LEMMA SearchEnds ==
  ASSUME TreeType, NEW a \in Addr, NEW k
  PROVE  /\ Len(entries[a]) \in Nat
         /\ Search(a, k) \in 1 .. Len(entries[a]) + 1
<1> DEFINE larger == {i \in 1 .. Len(entries[a]) : entries[a][i][1] >= k}
<1>1. Len(entries[a]) \in Nat
  BY LenProperties DEF TreeType
<1>2. larger # {} => Min(larger) \in larger
  BY <1>1, LeastNumber
<1>3. Search(a, k) = IF larger = {} THEN Len(entries[a]) + 1 ELSE Min(larger)
  BY DEF Search
<1> QED
  BY <1>1, <1>2, <1>3

-----------------------------------------------------------------------------
(* Drops *)

\* A thread that drops an Arc, and its insert, stand where they stood.
LEMMA DropStays ==
  ASSUME TreeInv, NEW t \in Thread, dropping[t] # << >>,
         NEW rest \in Seq(Pointer), DropRest(t, rest),
         \A u \in Thread : \A g \in Own(u) : kids'[g] = kids[g] /\ strong'[g] = strong[g]
  PROVE  OnlyOf(t) /\ PathsAreDisjoint' /\ \A u \in Thread : OfThread(u)'
<1>1. TreeType /\ PathsAreDisjoint /\ Locals(t) /\ PathLeads(t) /\ OwnIsUnique(t)
  BY DEF TreeInv, OfThread
<1>2. /\ UNCHANGED <<root, entry, right, path, copy>>
      /\ dropping' = [dropping EXCEPT ![t] = rest]
      /\ pc' = [pc EXCEPT ![t] = IF rest # << >> THEN pc[t]
                                 ELSE IF pc[t] = "drop_node" THEN "mutate" ELSE "idle"]
  BY DEF DropRest, Goto, insert
<1>3. OnlyOf(t) /\ dropping'[t] = rest
  BY <1>1, <1>2 DEF OnlyOf, TreeType
<1>4. OnPath(t)' = OnPath(t)
  BY <1>2 DEF OnPath, Node
<1>5. PathsAreDisjoint' /\ \A u \in Thread \ {t} : OfThread(u)'
  BY <1>1, <1>3, <1>4, OthersStay DEF PathsAreDisjoint
<1>6. pc[t] \in {"drop_node", "drop_tree"}
  BY <1>1 DEF Locals
<1>7. pc'[t] = IF rest # << >> THEN pc[t] ELSE IF pc[t] = "drop_node" THEN "mutate" ELSE "idle"
  BY <1>1, <1>2 DEF TreeType
<1>8. Locals(t)'
  BY <1>1, <1>2, <1>3, <1>6, <1>7 DEF Locals, Inserting
<1>9. \A g \in OnPath(t) : kids'[g] = kids[g]
  BY DEF Own
<1>10. PathLeads(t)'
  <2>1. \A i \in DOMAIN path[t] : Node(t, i) \in OnPath(t)
    BY DEF OnPath
  <2> QED
    BY <1>1, <1>2, <1>9, <2>1 DEF PathLeads, Node, Kid
<1>11. Own(t)' \subseteq Own(t)
  <2>1. CASE pc[t] = "drop_tree"
    <3>1. pc'[t] \in {"drop_tree", "idle"}
      BY <1>7, <2>1
    <3> QED
      BY <1>2, <1>4, <3>1 DEF Own
  <2>2. CASE pc[t] = "drop_node"
    <3>1. Here(t)' = Here(t)
      <4>1. CASE path[t] = << >>
        BY <1>2, <4>1 DEF Here
      <4>2. CASE path[t] # << >>
        <5>1. Inserting(t)
          BY <2>2 DEF Inserting
        <5>2. Last(path[t])[1] \in OnPath(t)
          BY <4>2, <5>1, HereIsANode DEF OnPath
        <5> QED
          BY <1>2, <1>9, <4>2, <5>2 DEF Here
      <4> QED
        BY <4>1, <4>2
    <3> QED
      BY <1>2, <1>4, <1>7, <2>2, <3>1 DEF Own
  <2> QED
    BY <1>6, <2>1, <2>2
<1>12. OwnIsUnique(t)'
  BY <1>1, <1>2, <1>11 DEF OwnIsUnique, Node
<1> QED
  BY <1>3, <1>5, <1>8, <1>10, <1>12 DEF OfThread

\* Dropping an Arc takes what the thread holds down by that Arc.
LEMMA DropCounts ==
  ASSUME TreeInv, NEW t \in Thread, dropping[t] # << >>,
         NEW rest \in Seq(Pointer), DropRest(t, rest), NEW a
  PROVE  /\ Head(dropping[t]) = dropping[t][1] /\ 1 \in DOMAIN dropping[t]
         /\ Head(dropping[t]) \in Pointer /\ Tail(dropping[t]) \in Seq(Pointer)
         /\ InThread(t, a)' = InThread(t, a) - Hit(Head(dropping[t]), a)
                                - Count(Tail(dropping[t]), a) + Count(rest, a)
         /\ InThread(t, a) \in Nat /\ Count(rest, a) \in Nat /\ Count(Tail(dropping[t]), a) \in Nat
<1>1. dropping \in [Thread -> Seq(Pointer)] /\ dropping[t] \in Seq(Pointer)
  BY DEF TreeInv, TreeType
<1>2. /\ Head(dropping[t]) = dropping[t][1] /\ 1 \in DOMAIN dropping[t]
      /\ Head(dropping[t]) \in Pointer /\ Tail(dropping[t]) \in Seq(Pointer)
  BY <1>1, EmptySeq, LenProperties, HeadTailProperties
<1>3. Count(dropping[t], a) = Hit(Head(dropping[t]), a) + Count(Tail(dropping[t]), a)
  BY <1>1, CountTail
<1>4. /\ Count(Tail(dropping[t]), a) \in Nat /\ Count(rest, a) \in Nat
      /\ InThread(t, a) \in Nat
  BY <1>2, CountType, InThreadType DEF TreeInv
<1>5. /\ root'[t] = root[t] /\ copy'[t] = copy[t] /\ right'[t] = right[t] /\ dropping'[t] = rest
  BY <1>1 DEF DropRest, insert
<1>6. InThread(t, a)' = Count(rest, a) + Hit(root[t], a) + Hit(copy[t], a) + Hit(right[t], a)
  BY <1>5, InThreadNext
<1>7. InThread(t, a) = Count(dropping[t], a) + Hit(root[t], a) + Hit(copy[t], a) + Hit(right[t], a)
  BY DEF InThread
<1>8. /\ Hit(root[t], a) \in Nat /\ Hit(copy[t], a) \in Nat /\ Hit(right[t], a) \in Nat
      /\ Hit(Head(dropping[t]), a) \in Nat
  BY DEF Hit
<1>9. InThread(t, a)' = InThread(t, a) - Hit(Head(dropping[t]), a)
                          - Count(Tail(dropping[t]), a) + Count(rest, a)
  <2>1. PICK n \in Nat : n = Hit(root[t], a) + Hit(copy[t], a) + Hit(right[t], a)
    BY <1>8
  <2>2. InThread(t, a)' = Count(rest, a) + n
    BY <1>4, <1>6, <1>8, <2>1
  <2>3. InThread(t, a) = Hit(Head(dropping[t]), a) + Count(Tail(dropping[t]), a) + n
    BY <1>3, <1>4, <1>7, <1>8, <2>1
  <2> QED
    BY <1>4, <1>8, <2>2, <2>3
<1> QED
  BY <1>2, <1>4, <1>9

\* What drops leave alone keeps its type.
LEMMA DropTypes ==
  ASSUME TreeType, NEW t \in Thread, NEW rest \in Seq(Pointer), DropRest(t, rest),
         entries' \in [Addr -> Seq(Entry)], kids' \in [Addr -> Seq(Pointer)], strong' \in [Addr -> Nat]
  PROVE  TreeType'
<1>1. /\ root' = root /\ entry' = entry /\ right' = right /\ path' = path /\ copy' = copy
      /\ dropping' = [dropping EXCEPT ![t] = rest]
      /\ pc' = [pc EXCEPT ![t] = IF rest # << >> THEN pc[t]
                                 ELSE IF pc[t] = "drop_node" THEN "mutate" ELSE "idle"]
  BY DEF DropRest, Goto, insert
<1>2. dropping' \in [Thread -> Seq(Pointer)]
  BY <1>1 DEF TreeType
<1>3. pc' \in [Thread -> Label]
  BY <1>1 DEF TreeType, Label
<1> QED
  BY <1>1, <1>2, <1>3 DEF TreeType

LEMMA DropNoneInv ==
  ASSUME TreeInv, NEW t \in Thread, DropNone(t)
  PROVE  TreeInv'
<1>1. TreeType /\ CountsOwners /\ NodesFit
  BY DEF TreeInv
<1>2. dropping[t] # << >> /\ Head(dropping[t]) = Null /\ DropRest(t, Tail(dropping[t]))
  BY DEF DropNone, Dropping
<1>3. entries' = entries /\ kids' = kids /\ strong' = strong
  BY DEF DropNone, heap
<1>4. Tail(dropping[t]) \in Seq(Pointer)
  BY <1>1, <1>2, HeadTailProperties DEF TreeType
<1>5. TreeType'
  BY <1>1, <1>2, <1>3, <1>4, DropTypes DEF TreeType
<1>6. OnlyOf(t) /\ PathsAreDisjoint' /\ \A u \in Thread : OfThread(u)'
  BY <1>2, <1>3, <1>4, DropStays
<1>7. CountsOwners'
  <2>1. SUFFICES ASSUME NEW a \in Addr
                 PROVE  /\ strong'[a] = strong[a] - InNodes(a) + InNodes(a)' - InThread(t, a) + InThread(t, a)'
                        /\ strong'[a] = 0 <=> kids'[a] = << >>
    BY <1>5, <1>6, CountsStay
  <2>2. InThread(t, a)' = InThread(t, a) /\ InThread(t, a) \in Nat
    <3>1. Hit(Head(dropping[t]), a) = 0
      BY <1>2, AddrAssumption DEF Hit
    <3>2. /\ InThread(t, a)' = InThread(t, a) - Hit(Head(dropping[t]), a)
                                  - Count(Tail(dropping[t]), a) + Count(Tail(dropping[t]), a)
          /\ InThread(t, a) \in Nat /\ Count(Tail(dropping[t]), a) \in Nat
      BY <1>2, <1>4, DropCounts
    <3> QED
      BY <3>1, <3>2
  <2>3. InNodes(a)' = InNodes(a) /\ InNodes(a) \in Nat
    BY <1>1, <1>3, InNodesType DEF InNodes
  <2>4. strong[a] \in Nat /\ (strong[a] = 0 <=> kids[a] = << >>)
    BY <1>1 DEF TreeType, CountsOwners
  <2> QED
    BY <1>3, <2>2, <2>3, <2>4
<1>8. NodesFit'
  BY <1>1, <1>3 DEF NodesFit, Fits
<1> QED
  BY <1>5, <1>6, <1>7, <1>8 DEF TreeInv

\* The node whose Arc is dropped next is counted, and no insert's own.
LEMMA DroppedNode ==
  ASSUME TreeInv, NEW t \in Thread, Dropping(t)
  PROVE  /\ dropping[t] # << >>
         /\ Head(dropping[t]) \in Addr /\ strong[Head(dropping[t])] \in Nat \ {0}
         /\ Tail(dropping[t]) \in Seq(Pointer)
         /\ \A u \in Thread : Head(dropping[t]) \notin Own(u)
<1>1. TreeType /\ CountsOwners
  BY DEF TreeInv
<1>2. dropping[t] # << >> /\ Head(dropping[t]) # Null
  BY DEF Dropping
<1>3. /\ Head(dropping[t]) = dropping[t][1] /\ 1 \in DOMAIN dropping[t]
      /\ Head(dropping[t]) \in Addr /\ Tail(dropping[t]) \in Seq(Pointer)
  <2>1. dropping[t] \in Seq(Pointer)
    BY <1>1 DEF TreeType
  <2> QED
    BY <1>2, <2>1, EmptySeq, LenProperties, HeadTailProperties DEF Pointer
<1>4. Owners(Head(dropping[t])) # 0
  BY <1>1, <1>3, DroppingOwns
<1>5. strong[Head(dropping[t])] \in Nat \ {0}
  BY <1>1, <1>3, <1>4 DEF CountsOwners, TreeType
<1>6. \A u \in Thread : Head(dropping[t]) \notin Own(u)
  BY <1>3, OwnedByOne DEF NotDropped
<1> QED
  BY <1>2, <1>3, <1>5, <1>6

LEMMA DropSharedInv ==
  ASSUME TreeInv, NEW t \in Thread, DropShared(t)
  PROVE  TreeInv'
<1> DEFINE h == Head(dropping[t])
<1>1. TreeType /\ CountsOwners /\ NodesFit
  BY DEF TreeInv
<1>2. Dropping(t) /\ strong[h] # 1 /\ DropRest(t, Tail(dropping[t]))
  BY DEF DropShared
<1>3. entries' = entries /\ kids' = kids /\ strong' = [strong EXCEPT ![h] = @ - 1]
  BY DEF DropShared
<1>4. /\ dropping[t] # << >> /\ h \in Addr /\ strong[h] \in Nat \ {0}
      /\ Tail(dropping[t]) \in Seq(Pointer) /\ \A u \in Thread : h \notin Own(u)
  BY <1>2, DroppedNode
<1>5. TreeType'
  <2>1. strong' \in [Addr -> Nat]
    BY <1>1, <1>3, <1>4 DEF TreeType
  <2> QED
    BY <1>1, <1>2, <1>3, <1>4, <2>1, DropTypes DEF TreeType
<1>6. OnlyOf(t) /\ PathsAreDisjoint' /\ \A u \in Thread : OfThread(u)'
  <2>1. \A u \in Thread : \A g \in Own(u) : kids'[g] = kids[g] /\ strong'[g] = strong[g]
    BY <1>1, <1>3, <1>4, OwnedByOne DEF TreeType
  <2> QED
    BY <1>2, <1>4, <2>1, DropStays
<1>7. CountsOwners'
  <2>1. SUFFICES ASSUME NEW a \in Addr
                 PROVE  /\ strong'[a] = strong[a] - InNodes(a) + InNodes(a)' - InThread(t, a) + InThread(t, a)'
                        /\ strong'[a] = 0 <=> kids'[a] = << >>
    BY <1>5, <1>6, CountsStay
  <2>2. InThread(t, a)' = InThread(t, a) - Hit(h, a) /\ InThread(t, a) \in Nat
    <3>1. /\ InThread(t, a)' = InThread(t, a) - Hit(h, a) - Count(Tail(dropping[t]), a) + Count(Tail(dropping[t]), a)
          /\ InThread(t, a) \in Nat /\ Count(Tail(dropping[t]), a) \in Nat
      BY <1>2, <1>4, DropCounts
    <3>2. Hit(h, a) \in Nat
      BY DEF Hit
    <3> HIDE DEF h
    <3> QED
      BY <3>1, <3>2
  <2>3. InNodes(a)' = InNodes(a) /\ InNodes(a) \in Nat
    BY <1>1, <1>3, InNodesType DEF InNodes
  <2>4. strong[a] \in Nat /\ (strong[a] = 0 <=> kids[a] = << >>)
    BY <1>1 DEF TreeType, CountsOwners
  <2>5. strong'[a] = strong[a] - Hit(h, a)
    BY <1>1, <1>3 DEF TreeType, Hit
  <2>6. Hit(h, a) = 0 \/ (Hit(h, a) = 1 /\ h = a)
    BY DEF Hit
  <2> HIDE DEF h
  <2>7. strong'[a] = 0 <=> strong[a] = 0
    BY <1>2, <1>4, <2>4, <2>5, <2>6
  <2> QED
    BY <1>3, <2>2, <2>3, <2>4, <2>5, <2>6, <2>7
<1>8. NodesFit'
  <2>1. \A a \in Addr : strong'[a] # 0 => strong[a] # 0
    BY <1>1, <1>3, <1>4 DEF TreeType
  <2> QED
    BY <1>1, <1>3, <2>1 DEF NodesFit, Fits
<1> QED
  BY <1>5, <1>6, <1>7, <1>8 DEF TreeInv

LEMMA DropLastInv ==
  ASSUME TreeInv, NEW t \in Thread, DropLast(t)
  PROVE  TreeInv'
<1> DEFINE h == Head(dropping[t])
           rest == kids[h] \o Tail(dropping[t])
<1>1. TreeType /\ CountsOwners /\ NodesFit
  BY DEF TreeInv
<1>2. Dropping(t) /\ strong[h] = 1 /\ DropRest(t, rest)
  BY DEF DropLast
<1>3. /\ strong' = [strong EXCEPT ![h] = 0]
      /\ entries' = [entries EXCEPT ![h] = << >>]
      /\ kids' = [kids EXCEPT ![h] = << >>]
  BY DEF DropLast, FreeNode
<1>4. /\ dropping[t] # << >> /\ h \in Addr
      /\ Tail(dropping[t]) \in Seq(Pointer) /\ \A u \in Thread : h \notin Own(u)
  BY <1>2, DroppedNode
<1>5. kids[h] \in Seq(Pointer) /\ rest \in Seq(Pointer)
  <2>1. kids[h] \in Seq(Pointer)
    BY <1>1, <1>4 DEF TreeType
  <2> QED
    BY <1>4, <2>1, ConcatProperties
<1>6. TreeType'
  <2>1. strong' \in [Addr -> Nat]
    BY <1>1, <1>3, <1>4 DEF TreeType
  <2>2. entries' \in [Addr -> Seq(Entry)]
    BY <1>1, <1>3, <1>4 DEF TreeType
  <2>3. kids' \in [Addr -> Seq(Pointer)]
    BY <1>1, <1>3, <1>4 DEF TreeType
  <2> HIDE DEF h, rest
  <2> QED
    BY <1>1, <1>2, <1>5, <2>1, <2>2, <2>3, DropTypes
<1>7. OnlyOf(t) /\ PathsAreDisjoint' /\ \A u \in Thread : OfThread(u)'
  <2>1. \A u \in Thread : \A g \in Own(u) : kids'[g] = kids[g] /\ strong'[g] = strong[g]
    BY <1>1, <1>3, <1>4, OwnedByOne DEF TreeType
  <2> HIDE DEF h, rest
  <2> QED
    BY <1>2, <1>4, <1>5, <2>1, DropStays
<1>8. \A g \in Addr \ {h} : kids'[g] = kids[g] /\ entries'[g] = entries[g] /\ strong'[g] = strong[g]
  BY <1>1, <1>3 DEF TreeType
<1>9. kids'[h] = << >> /\ strong'[h] = 0
  BY <1>1, <1>3, <1>4 DEF TreeType
<1>10. CountsOwners'
  <2>1. SUFFICES ASSUME NEW a \in Addr
                 PROVE  /\ strong'[a] = strong[a] - InNodes(a) + InNodes(a)' - InThread(t, a) + InThread(t, a)'
                        /\ strong'[a] = 0 <=> kids'[a] = << >>
    BY <1>6, <1>7, CountsStay
  <2>2. /\ InThread(t, a)' = InThread(t, a) - Hit(h, a) - Count(Tail(dropping[t]), a) + Count(rest, a)
        /\ InThread(t, a) \in Nat /\ Count(Tail(dropping[t]), a) \in Nat
    <3> HIDE DEF rest
    <3> QED
      BY <1>2, <1>4, <1>5, DropCounts
  <2>3. Count(rest, a) = Count(kids[h], a) + Count(Tail(dropping[t]), a) /\ Count(kids[h], a) \in Nat
    <3>1. kids[h] \in Seq(Pointer) /\ Tail(dropping[t]) \in Seq(Pointer)
      BY <1>4, <1>5
    <3>2. Count(kids[h] \o Tail(dropping[t]), a) = Count(kids[h], a) + Count(Tail(dropping[t]), a)
      BY <3>1, CountConcat
    <3>3. Count(kids[h], a) \in Nat
      BY <3>1, CountType
    <3> QED
      BY <3>2, <3>3
  <2>4. Hit(h, a) = IF h = a THEN 1 ELSE 0
    BY DEF Hit
  <2>5. strong[a] \in Nat /\ (strong[a] = 0 <=> kids[a] = << >>)
    BY <1>1 DEF TreeType, CountsOwners
  <2>6. Count(<< >>, a) = 0
    BY CountShort
  <2> HIDE DEF h, rest
  <2>7. InNodes(a)' = InNodes(a) - Count(kids[h], a) /\ InNodes(a) \in Nat
    <3>1. InNodes(a)' = InNodes(a) - Count(kids[h], a) + Count(kids'[h], a)
      BY <1>1, <1>4, <1>6, <1>8, InNodesStep
    <3>2. InNodes(a) \in Nat
      BY <1>1, InNodesType
    <3> QED
      BY <1>9, <2>3, <2>6, <3>1, <3>2
  <2>8. strong'[a] = strong[a] - Hit(h, a) /\ (strong'[a] = 0 <=> kids'[a] = << >>)
    <3>1. CASE h = a
      BY <1>2, <1>9, <2>4, <3>1
    <3>2. CASE h # a
      BY <1>8, <2>4, <2>5, <3>2
    <3> QED
      BY <3>1, <3>2
  <2>9. Hit(h, a) \in Nat
    BY <2>4
  <2> QED
    BY <2>2, <2>3, <2>5, <2>7, <2>8, <2>9
<1>11. NodesFit'
  <2> HIDE DEF h, rest
  <2> QED
    BY <1>1, <1>8, <1>9 DEF NodesFit, Fits
<1> QED
  BY <1>6, <1>7, <1>10, <1>11 DEF TreeInv

-----------------------------------------------------------------------------
(* Calls *)

\* A thread without an insert has made nothing its own.
LEMMA IdleOwnsNothing ==
  ASSUME TreeInv, NEW t \in Thread, ~Inserting(t)
  PROVE  path[t] = << >> /\ OnPath(t) = {} /\ Own(t) = {} /\ copy[t] = Null /\ right[t] = Null
<1>1. Locals(t)
  BY DEF TreeInv, OfThread
<1>2. path[t] = << >> /\ copy[t] = Null /\ right[t] = Null
  BY <1>1 DEF Locals, Inserting
<1> QED
  BY <1>2 DEF OnPath, Own, Inserting

LEMMA OwnsNothingNext ==
  ASSUME NEW t, path'[t] = << >>, copy'[t] = Null, pc'[t] \notin {"mutate", "drop_node", "carry"}
  PROVE  OnPath(t)' = {} /\ PathLeads(t)' /\ OwnIsUnique(t)'
<1>1. OnPath(t)' = {} /\ Own(t)' = {}
  BY DEF OnPath, Own
<1> QED
  BY <1>1 DEF PathLeads, OwnIsUnique

LEMMA CloneInv ==
  ASSUME TreeInv, NEW t \in Thread, NEW u \in Thread, Clone(t, u)
  PROVE  TreeInv'
<1> DEFINE h == root[u]
<1>1. TreeType /\ CountsOwners /\ NodesFit /\ Locals(t)
  BY DEF TreeInv, OfThread
<1>2. /\ root[t] = Null /\ pc[t] = "idle" /\ h # Null /\ pc[u] = "idle"
      /\ root' = [root EXCEPT ![t] = h] /\ strong' = [strong EXCEPT ![h] = @ + 1]
      /\ entries' = entries /\ kids' = kids /\ pc' = pc /\ dropping' = dropping
      /\ entry' = entry /\ right' = right /\ path' = path /\ copy' = copy
  BY DEF Clone, insert
<1>3. h \in Addr /\ Owners(h) # 0 /\ strong[h] \in Nat \ {0}
  <2>1. h \in Addr /\ Owners(h) # 0
    BY <1>1, <1>2, RootOwns DEF TreeType, Pointer
  <2> QED
    BY <1>1, <2>1 DEF CountsOwners, TreeType
<1>4. TreeType'
  <2>1. root' \in [Thread -> Pointer] /\ strong' \in [Addr -> Nat]
    BY <1>1, <1>2, <1>3 DEF TreeType, Pointer
  <2> QED
    BY <1>1, <1>2, <2>1 DEF TreeType
<1>5. OnlyOf(t) /\ root'[t] = h
  BY <1>1, <1>2 DEF OnlyOf, TreeType
<1>6. ~Inserting(t) /\ ~Inserting(u)
  BY <1>2 DEF Inserting
<1>7. PathsAreDisjoint' /\ \A x \in Thread \ {t} : OfThread(x)'
  <2>1. ASSUME NEW x \in Thread \ {t}, NEW g \in Own(x)
        PROVE  kids'[g] = kids[g] /\ strong'[g] = strong[g]
    <3>1. g \in Addr /\ g # h
      BY <1>6, IdleOwnsNothing, OwnedByOne
    <3> QED
      BY <1>1, <1>2, <3>1 DEF TreeType
  <2>2. OnPath(t)' = {}
    BY <1>2, <1>6, IdleOwnsNothing DEF OnPath
  <2> QED
    BY <1>5, <2>1, <2>2, OthersStay
<1>8. OfThread(t)'
  <2>1. Locals(t)'
    BY <1>1, <1>2 DEF Locals, Inserting
  <2>2. path'[t] = << >> /\ copy'[t] = Null /\ pc'[t] \notin {"mutate", "drop_node", "carry"}
    BY <1>2, <1>6, IdleOwnsNothing
  <2> QED
    BY <2>1, <2>2, OwnsNothingNext DEF OfThread
<1>9. CountsOwners'
  <2>1. SUFFICES ASSUME NEW a \in Addr
                 PROVE  /\ strong'[a] = strong[a] - InNodes(a) + InNodes(a)' - InThread(t, a) + InThread(t, a)'
                        /\ strong'[a] = 0 <=> kids'[a] = << >>
    BY <1>4, <1>5, CountsStay
  <2>2. InNodes(a)' = InNodes(a) /\ InNodes(a) \in Nat
    BY <1>1, <1>2, InNodesType DEF InNodes
  <2>3. /\ InThread(t, a)' = Count(dropping[t], a) + Hit(h, a) + Hit(copy[t], a) + Hit(right[t], a)
        /\ InThread(t, a) = Count(dropping[t], a) + 0 + Hit(copy[t], a) + Hit(right[t], a)
    <3>1. Hit(root[t], a) = 0
      BY <1>2, AddrAssumption DEF Hit
    <3> QED
      BY <1>2, <1>5, <3>1, InThreadNext DEF InThread
  <2>4. /\ Count(dropping[t], a) \in Nat /\ Hit(h, a) \in Nat /\ Hit(copy[t], a) \in Nat /\ Hit(right[t], a) \in Nat
    BY <1>1, InThreadType DEF Hit
  <2>5. strong'[a] = strong[a] + Hit(h, a) /\ strong[a] \in Nat /\ (h = a => strong[a] # 0)
    BY <1>1, <1>2, <1>3 DEF TreeType, Hit
  <2>6. strong[a] = 0 <=> kids[a] = << >>
    BY <1>1 DEF CountsOwners
  <2>7. Hit(h, a) # 0 => h = a
    BY DEF Hit
  <2> HIDE DEF h
  <2>8. InThread(t, a)' = InThread(t, a) + Hit(h, a) /\ InThread(t, a) \in Nat
    BY <2>3, <2>4
  <2>9. strong'[a] = 0 <=> kids'[a] = << >>
    <3>1. strong'[a] = 0 <=> strong[a] = 0
      BY <2>4, <2>5, <2>7
    <3> QED
      BY <1>2, <2>6, <3>1
  <2>10. strong'[a] = strong[a] - InNodes(a) + InNodes(a)' - InThread(t, a) + InThread(t, a)'
    BY <2>2, <2>4, <2>5, <2>8
  <2> QED
    BY <2>9, <2>10
<1>10. NodesFit'
  <2>1. \A a \in Addr : strong'[a] # 0 => strong[a] # 0
    BY <1>1, <1>2, <1>3 DEF TreeType
  <2> QED
    BY <1>1, <1>2, <2>1 DEF NodesFit, Fits
<1> QED
  BY <1>4, <1>7, <1>8, <1>9, <1>10 DEF TreeInv

LEMMA DropInv ==
  ASSUME TreeInv, NEW t \in Thread, Drop(t)
  PROVE  TreeInv'
<1>1. TreeType /\ CountsOwners /\ NodesFit /\ Locals(t)
  BY DEF TreeInv, OfThread
<1>2. /\ pc[t] = "idle" /\ root[t] # Null
      /\ root' = [root EXCEPT ![t] = Null]
      /\ dropping' = [dropping EXCEPT ![t] = <<root[t]>>]
      /\ pc' = [pc EXCEPT ![t] = "drop_tree"]
      /\ entries' = entries /\ kids' = kids /\ strong' = strong
      /\ entry' = entry /\ right' = right /\ path' = path /\ copy' = copy
  BY DEF Drop, Goto, insert, heap
<1>3. TreeType'
  <2>1. root' \in [Thread -> Pointer] /\ root[t] \in Pointer
    BY <1>1, <1>2 DEF TreeType, Pointer
  <2>2. dropping' \in [Thread -> Seq(Pointer)]
    BY <1>1, <1>2, <2>1 DEF TreeType
  <2>3. pc' \in [Thread -> Label]
    BY <1>1, <1>2 DEF TreeType, Label
  <2> QED
    BY <1>1, <1>2, <2>1, <2>2, <2>3 DEF TreeType
<1>4. OnlyOf(t) /\ root'[t] = Null /\ dropping'[t] = <<root[t]>> /\ pc'[t] = "drop_tree"
  BY <1>1, <1>2 DEF OnlyOf, TreeType
<1>5. ~Inserting(t) /\ dropping[t] = << >>
  BY <1>1, <1>2 DEF Inserting, Locals
<1>6. path[t] = << >> /\ copy[t] = Null /\ right[t] = Null
  BY <1>5, IdleOwnsNothing
<1>7. OnPath(t)' = {} /\ OfThread(t)'
  <2>1. path'[t] = << >> /\ copy'[t] = Null /\ pc'[t] \notin {"mutate", "drop_node", "carry"}
    BY <1>2, <1>4, <1>6
  <2>2. Locals(t)'
    BY <1>2, <1>4, <1>6 DEF Locals, Inserting
  <2> QED
    BY <2>1, <2>2, OwnsNothingNext DEF OfThread
<1>8. PathsAreDisjoint' /\ \A x \in Thread \ {t} : OfThread(x)'
  BY <1>2, <1>4, <1>7, OthersStay
<1>9. CountsOwners'
  <2>1. SUFFICES ASSUME NEW a \in Addr
                 PROVE  /\ strong'[a] = strong[a] - InNodes(a) + InNodes(a)' - InThread(t, a) + InThread(t, a)'
                        /\ strong'[a] = 0 <=> kids'[a] = << >>
    BY <1>3, <1>4, CountsStay
  <2>2. InNodes(a)' = InNodes(a) /\ InNodes(a) \in Nat
    BY <1>1, <1>2, InNodesType DEF InNodes
  <2>3. /\ InThread(t, a)' = Count(<<root[t]>>, a) + Hit(Null, a) + Hit(Null, a) + Hit(Null, a)
        /\ InThread(t, a) = Count(<< >>, a) + Hit(root[t], a) + Hit(Null, a) + Hit(Null, a)
    BY <1>2, <1>4, <1>5, <1>6, InThreadNext DEF InThread
  <2>4. /\ Count(<<root[t]>>, a) = Hit(root[t], a) /\ Count(<< >>, a) = 0
        /\ Hit(root[t], a) \in Nat /\ Hit(Null, a) = 0
    BY CountShort, AddrAssumption DEF Hit
  <2>5. strong[a] \in Nat /\ (strong[a] = 0 <=> kids[a] = << >>)
    BY <1>1 DEF CountsOwners, TreeType
  <2> QED
    BY <1>2, <2>2, <2>3, <2>4, <2>5
<1>10. NodesFit'
  BY <1>1, <1>2 DEF NodesFit, Fits
<1> QED
  BY <1>3, <1>7, <1>8, <1>9, <1>10 DEF TreeInv

LEMMA InsertInv ==
  ASSUME TreeInv, NEW t \in Thread, NEW e \in Entry, Insert(t, e)
  PROVE  TreeInv'
<1>1. TreeType /\ CountsOwners /\ NodesFit /\ Locals(t)
  BY DEF TreeInv, OfThread
<1>2. /\ pc[t] = "idle" /\ root[t] # Null
      /\ entry' = [entry EXCEPT ![t] = e] /\ pc' = [pc EXCEPT ![t] = "make_mut"]
      /\ entries' = entries /\ kids' = kids /\ strong' = strong
      /\ root' = root /\ right' = right /\ path' = path /\ copy' = copy /\ dropping' = dropping
  BY DEF Insert, Goto, heap
<1>3. TreeType'
  <2>1. pc' \in [Thread -> Label] /\ entry' \in [Thread -> Entry \cup {<< >>}]
    BY <1>1, <1>2 DEF TreeType, Label
  <2> QED
    BY <1>1, <1>2, <2>1 DEF TreeType
<1>4. OnlyOf(t) /\ entry'[t] = e /\ pc'[t] = "make_mut"
  BY <1>1, <1>2 DEF OnlyOf, TreeType
<1>5. ~Inserting(t) /\ dropping[t] = << >>
  BY <1>1, <1>2 DEF Inserting, Locals
<1>6. path[t] = << >> /\ copy[t] = Null /\ right[t] = Null
  BY <1>5, IdleOwnsNothing
<1>7. OnPath(t)' = {} /\ OfThread(t)'
  <2>1. path'[t] = << >> /\ copy'[t] = Null /\ pc'[t] \notin {"mutate", "drop_node", "carry"}
    BY <1>2, <1>4, <1>6
  <2>2. Locals(t)'
    BY <1>2, <1>4, <1>5, <1>6 DEF Locals, Inserting
  <2> QED
    BY <2>1, <2>2, OwnsNothingNext DEF OfThread
<1>8. PathsAreDisjoint' /\ \A x \in Thread \ {t} : OfThread(x)'
  BY <1>2, <1>4, <1>7, OthersStay
<1>9. CountsOwners'
  BY <1>1, <1>2 DEF CountsOwners, Owners
<1>10. NodesFit'
  BY <1>1, <1>2 DEF NodesFit, Fits
<1> QED
  BY <1>3, <1>7, <1>8, <1>9, <1>10 DEF TreeInv

LEMMA InsertFirstInv ==
  ASSUME TreeInv, NEW t \in Thread, NEW e \in Entry, InsertFirst(t, e)
  PROVE  TreeInv'
<1>0. PICK b : b = New
  OBVIOUS
<1>1. TreeType /\ CountsOwners /\ NodesFit /\ Locals(t)
  BY DEF TreeInv, OfThread
<1>2. /\ pc[t] = "idle" /\ root[t] = Null /\ Free # {}
      /\ root' = [root EXCEPT ![t] = b]
      /\ entries' = [entries EXCEPT ![b] = <<e>>]
      /\ kids' = [kids EXCEPT ![b] = <<Null, Null>>]
      /\ strong' = [strong EXCEPT ![b] = 1]
      /\ pc' = pc /\ dropping' = dropping
      /\ entry' = entry /\ right' = right /\ path' = path /\ copy' = copy
  BY <1>0 DEF InsertFirst, insert
<1>3. /\ b \in Addr /\ b # Null /\ strong[b] = 0 /\ kids[b] = << >>
      /\ \A u \in Thread : b \notin Own(u)
  BY <1>0, <1>2, NewIsFree
<1>4. TreeType'
  <2>1. root' \in [Thread -> Pointer] /\ strong' \in [Addr -> Nat]
    BY <1>1, <1>2, <1>3 DEF TreeType, Pointer
  <2>2. entries' \in [Addr -> Seq(Entry)]
    BY <1>1, <1>2, <1>3 DEF TreeType
  <2>3. <<Null, Null>> \in Seq(Pointer)
    BY DEF Pointer
  <2>4. kids' \in [Addr -> Seq(Pointer)]
    BY <1>1, <1>2, <1>3, <2>3 DEF TreeType
  <2> QED
    BY <1>1, <1>2, <2>1, <2>2, <2>4 DEF TreeType
<1>5. /\ OnlyOf(t) /\ root'[t] = b
      /\ strong'[b] = 1 /\ kids'[b] = <<Null, Null>> /\ entries'[b] = <<e>>
      /\ \A g \in Addr \ {b} : kids'[g] = kids[g] /\ entries'[g] = entries[g] /\ strong'[g] = strong[g]
  BY <1>1, <1>2, <1>3 DEF OnlyOf, TreeType
<1>6. ~Inserting(t) /\ dropping[t] = << >>
  BY <1>1, <1>2 DEF Inserting, Locals
<1>7. path[t] = << >> /\ copy[t] = Null /\ right[t] = Null
  BY <1>6, IdleOwnsNothing
<1>8. OnPath(t)' = {} /\ OfThread(t)'
  <2>1. path'[t] = << >> /\ copy'[t] = Null /\ pc'[t] \notin {"mutate", "drop_node", "carry"}
    BY <1>2, <1>7
  <2>2. Locals(t)'
    BY <1>2, <1>6, <1>7 DEF Locals, Inserting
  <2> QED
    BY <2>1, <2>2, OwnsNothingNext DEF OfThread
<1>9. PathsAreDisjoint' /\ \A x \in Thread \ {t} : OfThread(x)'
  <2>1. ASSUME NEW x \in Thread \ {t}, NEW g \in Own(x)
        PROVE  kids'[g] = kids[g] /\ strong'[g] = strong[g]
    BY <1>3, <1>5, OwnedByOne
  <2> QED
    BY <1>5, <1>8, <2>1, OthersStay
<1>10. CountsOwners'
  <2>1. SUFFICES ASSUME NEW a \in Addr
                 PROVE  /\ strong'[a] = strong[a] - InNodes(a) + InNodes(a)' - InThread(t, a) + InThread(t, a)'
                        /\ strong'[a] = 0 <=> kids'[a] = << >>
    BY <1>4, <1>5, CountsStay
  <2>2. Hit(Null, a) = 0 /\ Hit(b, a) \in Nat
    BY AddrAssumption DEF Hit
  <2>3. /\ InThread(t, a)' = Count(<< >>, a) + Hit(b, a) + Hit(Null, a) + Hit(Null, a)
        /\ InThread(t, a) = Count(<< >>, a) + Hit(Null, a) + Hit(Null, a) + Hit(Null, a)
    BY <1>2, <1>5, <1>6, <1>7, InThreadNext DEF InThread
  <2>4. Count(<< >>, a) = 0
    BY CountShort
  <2>5. Count(<<Null, Null>>, a) = 0
    <3>1. <<Null, Null>> \in Seq(Pointer) /\ \A i \in DOMAIN <<Null, Null>> : <<Null, Null>>[i] # a
      BY AddrAssumption DEF Pointer
    <3> QED
      BY <3>1, CountType
  <2>6. InNodes(a)' = InNodes(a) /\ InNodes(a) \in Nat
    <3>1. InNodes(a)' = InNodes(a) - Count(kids[b], a) + Count(kids'[b], a)
      BY <1>1, <1>3, <1>4, <1>5, InNodesStep
    <3>2. InNodes(a) \in Nat
      BY <1>1, InNodesType
    <3> QED
      BY <1>3, <1>5, <2>4, <2>5, <3>1, <3>2
  <2>7. strong[a] \in Nat /\ (strong[a] = 0 <=> kids[a] = << >>)
    BY <1>1 DEF CountsOwners, TreeType
  <2>8. CASE a = b
    <3>1. Hit(b, a) = 1
      BY <2>8 DEF Hit
    <3>2. InThread(t, a)' = 1 /\ InThread(t, a) = 0
      BY <2>2, <2>3, <2>4, <3>1
    <3>3. strong'[a] = 1 /\ strong[a] = 0 /\ kids'[a] = <<Null, Null>>
      BY <1>3, <1>5, <2>8
    <3>4. <<Null, Null>> # << >>
      OBVIOUS
    <3> QED
      BY <2>6, <3>2, <3>3, <3>4
  <2>9. CASE a # b
    <3>1. Hit(b, a) = 0
      BY <2>9 DEF Hit
    <3>2. strong'[a] = strong[a] /\ kids'[a] = kids[a]
      BY <1>5, <2>9
    <3>3. InThread(t, a)' = 0 /\ InThread(t, a) = 0
      BY <2>2, <2>3, <2>4, <3>1
    <3> QED
      BY <2>6, <2>7, <3>2, <3>3
  <2> QED
    BY <2>8, <2>9
<1>11. NodesFit'
  <2>1. Len(<<e>>) = 1 /\ Len(<<Null, Null>>) = 2 /\ 1 \in 1 .. SPLIT_LIMIT - 1 /\ 1 + 1 = 2
    BY LimitAssumption
  <2>2. Len(entries'[b]) \in 1 .. SPLIT_LIMIT - 1 /\ Len(kids'[b]) = Len(entries'[b]) + 1
    BY <1>5, <2>1
  <2>3. SUFFICES ASSUME NEW g \in Addr, strong'[g] # 0
                 PROVE  Len(entries'[g]) \in 1 .. SPLIT_LIMIT - 1 /\ Len(kids'[g]) = Len(entries'[g]) + 1
    BY DEF NodesFit, Fits
  <2>4. CASE g = b
    BY <2>2, <2>4
  <2>5. CASE g # b
    BY <1>1, <1>5, <2>3, <2>5 DEF NodesFit, Fits
  <2> QED
    BY <2>4, <2>5
<1> QED
  BY <1>4, <1>8, <1>9, <1>10, <1>11 DEF TreeInv

-----------------------------------------------------------------------------
(* The way down *)

\* An insert stands where it stood if the nodes on its path keep their kids.
LEMMA PathStays ==
  ASSUME TreeInv, NEW t \in Thread, Inserting(t), path'[t] = path[t], root'[t] = root[t],
         \A g \in OnPath(t) : kids'[g] = kids[g]
  PROVE  PathLeads(t)' /\ OnPath(t)' = OnPath(t) /\ Here(t)' = Here(t)
<1>1. PathLeads(t)
  BY DEF TreeInv, OfThread
<1>2. \A i \in DOMAIN path[t] : kids'[Node(t, i)] = kids[Node(t, i)]
  BY DEF OnPath
<1>3. PathLeads(t)'
  BY <1>1, <1>2 DEF PathLeads, Node, Kid
<1>4. OnPath(t)' = OnPath(t)
  BY DEF OnPath, Node
<1>5. Here(t)' = Here(t)
  <2>1. CASE path[t] = << >>
    BY <2>1 DEF Here
  <2>2. CASE path[t] # << >>
    <3>1. Last(path[t])[1] \in OnPath(t)
      BY <2>2, HereIsANode DEF OnPath
    <3> QED
      BY <2>2, <3>1 DEF Here
  <2> QED
    BY <2>1, <2>2
<1> QED
  BY <1>3, <1>4, <1>5

\* The nodes on a path stay different ones.
LEMMA PathIsSimple ==
  ASSUME TreeInv, NEW t \in Thread, path'[t] = path[t], \A a \in Own(t)' : strong'[a] = 1
  PROVE  OwnIsUnique(t)'
<1>1. OwnIsUnique(t)
  BY DEF TreeInv, OfThread
<1> QED
  BY <1>1 DEF OwnIsUnique, Node

LEMMA IsUniqueInv ==
  ASSUME TreeInv, NEW t \in Thread, IsUnique(t)
  PROVE  TreeInv'
<1>1. TreeType /\ CountsOwners /\ NodesFit /\ Locals(t) /\ OwnIsUnique(t)
  BY DEF TreeInv, OfThread
<1>2. /\ pc[t] = "make_mut"
      /\ pc' = [pc EXCEPT ![t] = IF strong[Here(t)] = 1 THEN "mutate" ELSE "clone"]
      /\ entries' = entries /\ kids' = kids /\ strong' = strong /\ root' = root
      /\ entry' = entry /\ right' = right /\ path' = path /\ copy' = copy /\ dropping' = dropping
  BY DEF IsUnique, Goto, heap, insert
<1>3. Inserting(t) /\ copy[t] = Null /\ right[t] = Null /\ dropping[t] = << >>
  BY <1>1, <1>2 DEF Inserting, Locals
<1>4. TreeType'
  <2>1. pc' \in [Thread -> Label]
    BY <1>1, <1>2 DEF TreeType, Label
  <2> QED
    BY <1>1, <1>2, <2>1 DEF TreeType
<1>5. /\ OnlyOf(t)
      /\ pc'[t] = IF strong[Here(t)] = 1 THEN "mutate" ELSE "clone"
  BY <1>1, <1>2 DEF OnlyOf, TreeType
<1>6. PathLeads(t)' /\ OnPath(t)' = OnPath(t) /\ Here(t)' = Here(t)
  BY <1>2, <1>3, PathStays
<1>7. PathsAreDisjoint' /\ \A x \in Thread \ {t} : OfThread(x)'
  <2>1. \A x \in Thread \ {t} : OnPath(t)' \cap OnPath(x) = {}
    BY <1>6 DEF TreeInv, PathsAreDisjoint
  <2> QED
    BY <1>2, <1>5, <2>1, OthersStay
<1>8. OfThread(t)'
  <2>1. Locals(t)'
    BY <1>1, <1>2, <1>3, <1>5 DEF Locals, Inserting
  <2>2. \A a \in Own(t)' : strong'[a] = 1
    <3>1. \A a \in OnPath(t) : strong[a] = 1
      BY <1>1 DEF OwnIsUnique, Own
    <3>2. CASE strong[Here(t)] = 1
      BY <1>2, <1>3, <1>6, <3>1, <3>2 DEF Own
    <3>3. CASE strong[Here(t)] # 1
      BY <1>2, <1>3, <1>5, <1>6, <3>1, <3>3 DEF Own
    <3> QED
      BY <3>2, <3>3
  <2>3. OwnIsUnique(t)'
    BY <1>2, <2>2, PathIsSimple
  <2> QED
    BY <1>6, <2>1, <2>3 DEF OfThread
<1>9. CountsOwners' /\ NodesFit'
  BY <1>1, <1>2 DEF CountsOwners, Owners, NodesFit, Fits
<1> QED
  BY <1>4, <1>7, <1>8, <1>9 DEF TreeInv

LEMMA CloneNodeInv ==
  ASSUME TreeInv, NEW t \in Thread, CloneNode(t)
  PROVE  TreeInv'
<1>0. PICK b, h : b = New /\ h = Here(t)
  OBVIOUS
<1>1. TreeType /\ CountsOwners /\ NodesFit /\ Locals(t) /\ OwnIsUnique(t)
  BY DEF TreeInv, OfThread
<1>2. /\ pc[t] = "clone" /\ Free # {}
      /\ entries' = [entries EXCEPT ![b] = entries[h]]
      /\ kids' = [kids EXCEPT ![b] = kids[h]]
      /\ strong' = [q \in Addr |-> IF q = b THEN 1 ELSE strong[q] + Count(kids[h], q)]
      /\ copy' = [copy EXCEPT ![t] = b]
      /\ pc' = [pc EXCEPT ![t] = "assign"]
      /\ root' = root /\ entry' = entry /\ right' = right /\ path' = path /\ dropping' = dropping
  BY <1>0 DEF CloneNode, Goto, Count, Holders
<1>3. Inserting(t) /\ copy[t] = Null /\ right[t] = Null /\ dropping[t] = << >>
  BY <1>1, <1>2 DEF Inserting, Locals
<1>4. /\ b \in Addr /\ b # Null /\ strong[b] = 0 /\ kids[b] = << >> /\ InNodes(b) = 0
      /\ InThread(t, b) = 0
      /\ \A u \in Thread : b \notin Own(u)
      /\ \A g \in Addr : \A i \in DOMAIN kids[g] : kids[g][i] # b
  BY <1>0, <1>2, NewIsFree
<1>5. h \in Addr /\ strong[h] # 0 /\ Fits(h) /\ kids[h] \in Seq(Pointer)
  BY <1>0, <1>1, <1>3, HereIsANode DEF TreeType
<1>6. \A q : Count(kids[h], q) \in Nat /\ (Count(kids[h], q) = 0 <=> \A i \in DOMAIN kids[h] : kids[h][i] # q)
  BY <1>5, CountType
<1>7. TreeType'
  <2>1. strong' \in [Addr -> Nat]
    BY <1>1, <1>2, <1>6 DEF TreeType
  <2>2. entries' \in [Addr -> Seq(Entry)]
    BY <1>1, <1>2, <1>4, <1>5 DEF TreeType
  <2>3. kids' \in [Addr -> Seq(Pointer)]
    BY <1>1, <1>2, <1>4, <1>5 DEF TreeType
  <2>4. copy' \in [Thread -> Pointer] /\ pc' \in [Thread -> Label]
    BY <1>1, <1>2, <1>4 DEF TreeType, Pointer, Label
  <2> QED
    BY <1>1, <1>2, <2>1, <2>2, <2>3, <2>4 DEF TreeType
<1>8. /\ OnlyOf(t) /\ copy'[t] = b /\ pc'[t] = "assign"
      /\ strong'[b] = 1 /\ kids'[b] = kids[h] /\ entries'[b] = entries[h]
      /\ \A g \in Addr \ {b} : /\ kids'[g] = kids[g] /\ entries'[g] = entries[g]
                               /\ strong'[g] = strong[g] + Count(kids[h], g)
  BY <1>1, <1>2, <1>4 DEF OnlyOf, TreeType
<1>9. \A x \in Thread \ {t} : \A g \in Own(x) : kids'[g] = kids[g] /\ strong'[g] = strong[g]
  <2>1. SUFFICES ASSUME NEW x \in Thread \ {t}, NEW g \in Own(x)
                 PROVE  kids'[g] = kids[g] /\ strong'[g] = strong[g]
    OBVIOUS
  <2>2. g \in Addr /\ g # b /\ strong[g] = 1
    BY <1>4, OwnedByOne
  <2>3. \A i \in DOMAIN kids[h] : kids[h][i] # g
    BY <1>0, <1>3, OwnIsApart
  <2>4. Count(kids[h], g) = 0
    BY <1>6, <2>3
  <2> QED
    BY <1>8, <2>2, <2>4
<1>10. \A g \in OnPath(t) : g \in Addr /\ g # b /\ kids'[g] = kids[g] /\ strong'[g] = 1
  <2>1. SUFFICES ASSUME NEW g \in OnPath(t)
                 PROVE  g \in Addr /\ g # b /\ kids'[g] = kids[g] /\ strong'[g] = 1
    OBVIOUS
  <2>2. g \in Own(t)
    BY DEF Own
  <2>3. g \in Addr /\ g # b /\ strong[g] = 1
    BY <1>4, <2>2, OwnedByOne
  <2>4. \A i \in DOMAIN kids[h] : kids[h][i] # g
    BY <1>0, <1>3, HereIsNew
  <2>5. Count(kids[h], g) = 0
    BY <1>6, <2>4
  <2> QED
    BY <1>8, <2>3, <2>5
<1>11. PathLeads(t)' /\ OnPath(t)' = OnPath(t)
  BY <1>2, <1>3, <1>10, PathStays
<1>12. PathsAreDisjoint' /\ \A x \in Thread \ {t} : OfThread(x)'
  <2>1. \A x \in Thread \ {t} : OnPath(t)' \cap OnPath(x) = {}
    BY <1>11 DEF TreeInv, PathsAreDisjoint
  <2> QED
    BY <1>8, <1>9, <2>1, OthersStay
<1>13. OfThread(t)'
  <2>1. Locals(t)'
    BY <1>1, <1>2, <1>3, <1>4, <1>8 DEF Locals, Inserting
  <2>2. \A a \in Own(t)' : strong'[a] = 1
    BY <1>8, <1>10, <1>11 DEF Own
  <2>3. OwnIsUnique(t)'
    BY <1>2, <2>2, PathIsSimple
  <2> QED
    BY <1>11, <2>1, <2>3 DEF OfThread
<1>14. \A a \in Addr : Count(kids[h], a) # 0 => strong[a] # 0
  <2>1. SUFFICES ASSUME NEW a \in Addr, Count(kids[h], a) # 0
                 PROVE  strong[a] # 0
    OBVIOUS
  <2>2. PICK i \in DOMAIN kids[h] : kids[h][i] = a
    BY <1>6, <2>1
  <2>3. Owners(a) # 0
    BY <1>1, <1>5, <2>2, KidOwns
  <2> QED
    BY <1>1, <2>3 DEF CountsOwners
<1>15. CountsOwners'
  <2>1. SUFFICES ASSUME NEW a \in Addr
                 PROVE  /\ strong'[a] = strong[a] - InNodes(a) + InNodes(a)' - InThread(t, a) + InThread(t, a)'
                        /\ strong'[a] = 0 <=> kids'[a] = << >>
    BY <1>7, <1>8, CountsStay
  <2>2. Hit(Null, a) = 0 /\ Hit(b, a) \in Nat /\ Hit(root[t], a) \in Nat
    BY AddrAssumption DEF Hit
  <2>3. /\ InThread(t, a)' = Count(<< >>, a) + Hit(root[t], a) + Hit(b, a) + Hit(Null, a)
        /\ InThread(t, a) = Count(<< >>, a) + Hit(root[t], a) + Hit(Null, a) + Hit(Null, a)
    BY <1>2, <1>3, <1>8, InThreadNext DEF InThread
  <2>4. Count(<< >>, a) = 0
    BY CountShort
  <2>5. InNodes(a)' = InNodes(a) + Count(kids[h], a) /\ InNodes(a) \in Nat /\ Count(kids[h], a) \in Nat
    <3>1. InNodes(a)' = InNodes(a) - Count(kids[b], a) + Count(kids'[b], a)
      BY <1>1, <1>4, <1>7, <1>8, InNodesStep
    <3>2. InNodes(a) \in Nat
      BY <1>1, InNodesType
    <3> QED
      BY <1>4, <1>6, <1>8, <2>4, <3>1, <3>2
  <2>6. strong[a] \in Nat /\ (strong[a] = 0 <=> kids[a] = << >>)
    BY <1>1 DEF CountsOwners, TreeType
  <2>7. CASE a = b
    <3>1. Hit(b, a) = 1
      BY <2>7 DEF Hit
    <3>2. Count(kids[h], a) = 0
      BY <1>4, <1>5, <1>6, <2>7
    <3>3. kids[h] # << >>
      BY <1>1, <1>5 DEF CountsOwners
    <3> QED
      BY <1>4, <1>8, <2>2, <2>3, <2>4, <2>5, <2>7, <3>1, <3>2, <3>3
  <2>8. CASE a # b
    <3>1. Hit(b, a) = 0
      BY <2>8 DEF Hit
    <3>2. strong'[a] = strong[a] + Count(kids[h], a) /\ kids'[a] = kids[a]
      BY <1>8, <2>8
    <3>3. InThread(t, a)' = InThread(t, a) /\ InThread(t, a) \in Nat
      BY <2>2, <2>3, <2>4, <3>1
    <3>4. Count(kids[h], a) # 0 => strong[a] # 0
      BY <1>14
    <3> QED
      BY <2>5, <2>6, <3>2, <3>3, <3>4
  <2> QED
    BY <2>7, <2>8
<1>16. NodesFit'
  <2>1. SUFFICES ASSUME NEW g \in Addr, strong'[g] # 0
                 PROVE  Len(entries'[g]) \in 1 .. SPLIT_LIMIT - 1 /\ Len(kids'[g]) = Len(entries'[g]) + 1
    BY DEF NodesFit, Fits
  <2>2. CASE g = b
    BY <1>5, <1>8, <2>2 DEF Fits
  <2>3. CASE g # b
    <3>1. strong'[g] = strong[g] + Count(kids[h], g) /\ kids'[g] = kids[g] /\ entries'[g] = entries[g]
      BY <1>8, <2>3
    <3>2. strong[g] # 0
      BY <1>1, <1>6, <1>14, <2>1, <3>1 DEF TreeType
    <3> QED
      BY <1>1, <3>1, <3>2 DEF NodesFit, Fits
  <2> QED
    BY <2>2, <2>3
<1> QED
  BY <1>7, <1>12, <1>13, <1>15, <1>16 DEF TreeInv

\* Where the copy goes the shared node was.
LEMMA AssignInv ==
  ASSUME TreeInv, NEW t \in Thread, Assign(t)
  PROVE  TreeInv'
<1>0. PICK c, h, l, k : c = copy[t] /\ h = Here(t) /\ l = Last(path[t])[1] /\ k = Last(path[t])[2]
  OBVIOUS
<1>1. TreeType /\ CountsOwners /\ NodesFit /\ Locals(t) /\ PathLeads(t) /\ OwnIsUnique(t)
  BY DEF TreeInv, OfThread
<1>2. /\ pc[t] = "assign"
      /\ IF path[t] = << >>
           THEN root' = [root EXCEPT ![t] = c] /\ kids' = kids
           ELSE kids' = [kids EXCEPT ![l][k] = c] /\ root' = root
      /\ dropping' = [dropping EXCEPT ![t] = <<h>>]
      /\ copy' = [copy EXCEPT ![t] = Null]
      /\ pc' = [pc EXCEPT ![t] = "drop_node"]
      /\ entries' = entries /\ strong' = strong
      /\ entry' = entry /\ right' = right /\ path' = path
  BY <1>0 DEF Assign, Goto
<1>3. Inserting(t) /\ c # Null /\ c \in Addr /\ right[t] = Null /\ dropping[t] = << >>
  BY <1>0, <1>1, <1>2 DEF Inserting, Locals, TreeType, Pointer
<1>4. /\ h \in Addr /\ strong[h] # 0
      /\ path[t] # << >> => /\ Len(path[t]) \in DOMAIN path[t] /\ l = Node(t, Len(path[t])) /\ l \in Addr
                            /\ k \in DOMAIN kids[l] /\ h = kids[l][k]
  BY <1>0, <1>3, HereIsANode
<1>5. path[t] = << >> => h = root[t]
  BY <1>0 DEF Here
<1>6. \A g \in Addr : kids[g] \in Seq(Pointer)
  BY <1>1 DEF TreeType
<1>7. TreeType'
  <2>1. root' \in [Thread -> Pointer]
    BY <1>1, <1>2, <1>3 DEF TreeType, Pointer
  <2>2. kids' \in [Addr -> Seq(Pointer)]
    <3>1. CASE path[t] = << >>
      BY <1>1, <1>2, <3>1 DEF TreeType
    <3>2. CASE path[t] # << >>
      <4>1. [kids[l] EXCEPT ![k] = c] \in Seq(Pointer)
        BY <1>3, <1>4, <1>6, <3>2, LenProperties, ExceptSeq DEF Pointer
      <4> QED
        BY <1>1, <1>2, <1>4, <3>2, <4>1 DEF TreeType
    <3> QED
      BY <3>1, <3>2
  <2>3. dropping' \in [Thread -> Seq(Pointer)] /\ copy' \in [Thread -> Pointer] /\ pc' \in [Thread -> Label]
    <3>1. h \in Pointer /\ Null \in Pointer /\ <<h>> \in Seq(Pointer) /\ "drop_node" \in Label
      BY <1>4 DEF Pointer, Label
    <3>2. dropping' \in [Thread -> Seq(Pointer)]
      BY <1>1, <1>2, <3>1 DEF TreeType
    <3>3. copy' \in [Thread -> Pointer] /\ pc' \in [Thread -> Label]
      BY <1>1, <1>2, <3>1 DEF TreeType
    <3> QED
      BY <3>2, <3>3
  <2> QED
    BY <1>1, <1>2, <2>1, <2>2, <2>3 DEF TreeType
<1>8. /\ OnlyOf(t) /\ copy'[t] = Null /\ pc'[t] = "drop_node" /\ dropping'[t] = <<h>>
      /\ root'[t] = IF path[t] = << >> THEN c ELSE root[t]
  BY <1>1, <1>2 DEF OnlyOf, TreeType
<1>9. path[t] # << >> => /\ kids'[l] = [kids[l] EXCEPT ![k] = c]
                         /\ \A g \in Addr \ {l} : kids'[g] = kids[g]
  BY <1>1, <1>2, <1>4 DEF TreeType
<1>10. \A x \in Thread \ {t} : \A g \in Own(x) : kids'[g] = kids[g] /\ strong'[g] = strong[g]
  <2>1. SUFFICES ASSUME NEW x \in Thread \ {t}, NEW g \in Own(x)
                 PROVE  kids'[g] = kids[g] /\ strong'[g] = strong[g]
    OBVIOUS
  <2>2. g \in Addr /\ g \notin OnPath(t)
    BY OwnedByOne, OwnIsApart
  <2>3. path[t] # << >> => g # l
    BY <1>4, <2>2 DEF OnPath
  <2> QED
    BY <1>2, <1>9, <2>2, <2>3
<1>11. OnPath(t)' = OnPath(t)
  BY <1>2 DEF OnPath, Node
<1>12. PathsAreDisjoint' /\ \A x \in Thread \ {t} : OfThread(x)'
  <2>1. \A x \in Thread \ {t} : OnPath(t)' \cap OnPath(x) = {}
    BY <1>11 DEF TreeInv, PathsAreDisjoint
  <2> QED
    BY <1>8, <1>10, <2>1, OthersStay
<1>13. OfThread(t)'
  <2>1. Locals(t)'
    <3>1. root'[t] # Null /\ entry'[t] \in Entry
      BY <1>1, <1>2, <1>3, <1>8 DEF Locals
    <3>2. right'[t] = Null /\ dropping'[t] # << >>
      BY <1>2, <1>3, <1>8
    <3> QED
      BY <1>8, <3>1, <3>2 DEF Locals, Inserting
  <2>2. CASE path[t] = << >>
    <3>1. PathLeads(t)' /\ Here(t)' = c
      BY <1>2, <1>8, <2>2 DEF PathLeads, Here
    <3>2. Own(t)' = {c}
      BY <1>2, <1>8, <2>2, <3>1 DEF Own, OnPath
    <3>3. strong[c] = 1
      BY <1>0, <1>1, <1>3 DEF OwnIsUnique, Own
    <3>4. OwnIsUnique(t)'
      BY <1>2, <3>2, <3>3, PathIsSimple
    <3> QED
      BY <2>1, <3>1, <3>4 DEF OfThread
  <2>3. CASE path[t] # << >>
    <3> DEFINE n == Len(path[t])
    <3>1. /\ n \in DOMAIN path[t] /\ l = Node(t, n) /\ k = path[t][n][2]
          /\ kids'[l][k] = c /\ DOMAIN kids'[l] = DOMAIN kids[l]
      BY <1>0, <1>4, <1>6, <1>9, <2>3, LenProperties DEF Last
    <3>2. /\ path[t] \in Seq(Addr \X Nat) /\ DOMAIN path[t] = 1 .. n /\ n \in Nat
      BY <1>1, LenProperties DEF TreeType
    <3> HIDE DEF n
    <3>3. \A i \in DOMAIN path[t] : Node(t, i) \in Addr /\ (i # n => Node(t, i) # l)
      <4>1. \A i \in DOMAIN path[t] : path[t][i] \in Addr \X Nat
        BY <3>2, ElementOfSeq
      <4>2. \A i \in DOMAIN path[t] : i # n => Node(t, i) # l
        BY <1>1, <3>1 DEF OwnIsUnique
      <4> QED
        BY <4>1, <4>2 DEF Node
    <3>4. PathLeads(t)'
      <4>1. ASSUME NEW i \in DOMAIN path[t]
            PROVE  /\ path[t][i][2] \in DOMAIN kids'[Node(t, i)]
                   /\ kids'[Node(t, i)][path[t][i][2]] # Null
                   /\ i + 1 \in DOMAIN path[t] => kids'[Node(t, i)][path[t][i][2]] = Node(t, i + 1)
        <5>1. CASE i = n
          <6>1. i + 1 \notin DOMAIN path[t]
            BY <3>2, <5>1
          <6> QED
            BY <1>1, <1>3, <3>1, <5>1, <6>1 DEF PathLeads
        <5>2. CASE i # n
          <6>1. kids'[Node(t, i)] = kids[Node(t, i)]
            BY <1>9, <2>3, <3>3, <5>2
          <6> QED
            BY <1>1, <6>1 DEF PathLeads, Kid
        <5> QED
          BY <5>1, <5>2
      <4> QED
        BY <1>1, <1>2, <1>8, <2>3, <4>1 DEF PathLeads, Node, Kid
    <3>5. Here(t)' = c
      BY <1>0, <1>2, <2>3, <3>1 DEF Here
    <3>6. Own(t)' = OnPath(t) \cup {c}
      BY <1>8, <1>11, <3>5 DEF Own
    <3>7. \A a \in OnPath(t) \cup {c} : strong[a] = 1
      BY <1>0, <1>1, <1>3 DEF OwnIsUnique, Own
    <3>8. OwnIsUnique(t)'
      BY <1>2, <3>6, <3>7, PathIsSimple
    <3> QED
      BY <2>1, <3>4, <3>8 DEF OfThread
  <2> QED
    BY <2>2, <2>3
<1>14. CountsOwners'
  <2>1. SUFFICES ASSUME NEW a \in Addr
                 PROVE  /\ strong'[a] = strong[a] - InNodes(a) + InNodes(a)' - InThread(t, a) + InThread(t, a)'
                        /\ strong'[a] = 0 <=> kids'[a] = << >>
    BY <1>7, <1>8, CountsStay
  <2>2. /\ Hit(Null, a) = 0 /\ Hit(h, a) \in Nat /\ Hit(c, a) \in Nat /\ Hit(root[t], a) \in Nat
    BY AddrAssumption DEF Hit
  <2>3. Count(<< >>, a) = 0 /\ Count(<<h>>, a) = Hit(h, a)
    BY CountShort
  <2>4. /\ InThread(t, a)' = Count(<<h>>, a) + Hit(root'[t], a) + Hit(Null, a) + Hit(Null, a)
        /\ InThread(t, a) = Count(<< >>, a) + Hit(root[t], a) + Hit(c, a) + Hit(Null, a)
    BY <1>0, <1>2, <1>3, <1>8, InThreadNext DEF InThread
  <2>5. InNodes(a) \in Nat
    BY <1>1, InNodesType
  <2>6. strong[a] \in Nat /\ (strong[a] = 0 <=> kids[a] = << >>)
    BY <1>1 DEF CountsOwners, TreeType
  <2>7. CASE path[t] = << >>
    <3>1. InNodes(a)' = InNodes(a)
      BY <1>2, <2>7 DEF InNodes
    <3>2. root'[t] = c /\ root[t] = h /\ kids'[a] = kids[a]
      BY <1>2, <1>5, <1>8, <2>7
    <3> QED
      BY <1>2, <2>2, <2>3, <2>4, <2>5, <2>6, <3>1, <3>2
  <2>8. CASE path[t] # << >>
    <3>1. InNodes(a)' = InNodes(a) - Count(kids[l], a) + Count(kids'[l], a)
      BY <1>1, <1>4, <1>7, <1>9, <2>8, InNodesStep
    <3>2. Count(kids[l], a) \in Nat
      BY <1>4, <1>6, <2>8, CountType
    <3>3. Count(kids'[l], a) = Count(kids[l], a) - Hit(h, a) + Hit(c, a)
      <4>1. kids[l] \in Seq(Pointer) /\ k \in DOMAIN kids[l] /\ kids[l][k] = h
        BY <1>4, <1>6, <2>8
      <4>2. Count([kids[l] EXCEPT ![k] = c], a) = Count(kids[l], a) - Hit(kids[l][k], a) + Hit(c, a)
        BY <4>1, CountExcept
      <4> QED
        BY <1>9, <2>8, <4>1, <4>2
    <3>4. root'[t] = root[t]
      BY <1>8, <2>8
    <3>5. kids'[a] = << >> <=> kids[a] = << >>
      <4>1. CASE a = l
        <5>1. DOMAIN kids'[l] = DOMAIN kids[l] /\ k \in DOMAIN kids[l]
          BY <1>4, <1>9, <2>8
        <5> QED
          BY <4>1, <5>1
      <4>2. CASE a # l
        BY <1>9, <2>8, <4>2
      <4> QED
        BY <4>1, <4>2
    <3> QED
      BY <1>2, <2>2, <2>3, <2>4, <2>5, <2>6, <3>1, <3>2, <3>3, <3>4, <3>5
  <2> QED
    BY <2>7, <2>8
<1>15. NodesFit'
  <2>1. SUFFICES ASSUME NEW g \in Addr
                 PROVE  Len(kids'[g]) = Len(kids[g])
    BY <1>1, <1>2 DEF NodesFit, Fits
  <2>2. CASE path[t] # << >> /\ g = l
    BY <1>3, <1>4, <1>6, <1>9, <2>2, LenProperties, ExceptSeq DEF Pointer
  <2>3. CASE ~(path[t] # << >> /\ g = l)
    BY <1>2, <1>9, <2>3
  <2> QED
    BY <2>2, <2>3
<1> QED
  BY <1>7, <1>12, <1>13, <1>14, <1>15 DEF TreeInv

LEMMA DescendInv ==
  ASSUME TreeInv, NEW t \in Thread, Descend(t)
  PROVE  TreeInv'
<1>0. PICK h, k : h = Here(t) /\ k = Place(t)
  OBVIOUS
<1> DEFINE n == Len(path[t])
<1>1. TreeType /\ CountsOwners /\ NodesFit /\ Locals(t) /\ PathLeads(t) /\ OwnIsUnique(t)
  BY DEF TreeInv, OfThread
<1>2. /\ pc[t] = "mutate" /\ kids[h][k] # Null
      /\ path' = [path EXCEPT ![t] = Append(@, <<h, k>>)]
      /\ pc' = [pc EXCEPT ![t] = "make_mut"]
      /\ entries' = entries /\ kids' = kids /\ strong' = strong /\ root' = root
      /\ entry' = entry /\ right' = right /\ copy' = copy /\ dropping' = dropping
  BY <1>0 DEF Descend, Goto, heap
<1>3. Inserting(t) /\ copy[t] = Null /\ right[t] = Null /\ dropping[t] = << >>
  BY <1>1, <1>2 DEF Inserting, Locals
<1>4. /\ h \in Addr /\ strong[h] = 1 /\ Fits(h) /\ h \notin OnPath(t)
      /\ path[t] = << >> => h = root[t]
      /\ path[t] # << >> => Kid(t, n) = h
  <2>1. h \in Addr /\ Fits(h) /\ h \notin OnPath(t)
    BY <1>0, <1>3, HereIsANode, HereIsNew
  <2>2. strong[h] = 1
    BY <1>0, <1>1, <1>2 DEF OwnIsUnique, Own
  <2>3. path[t] = << >> => h = root[t]
    BY <1>0 DEF Here
  <2>4. path[t] # << >> => Kid(t, n) = h
    BY <1>0 DEF Here, Last, Kid, Node
  <2> QED
    BY <2>1, <2>2, <2>3, <2>4
<1>5. k \in DOMAIN kids[h] /\ k \in Nat
  <2>1. k \in 1 .. Len(entries[h]) + 1 /\ Len(entries[h]) \in Nat
    BY <1>0, <1>1, <1>4, SearchEnds DEF Place
  <2>2. Len(kids[h]) = Len(entries[h]) + 1 /\ DOMAIN kids[h] = 1 .. Len(kids[h])
    BY <1>1, <1>4, LenProperties DEF Fits, TreeType
  <2> QED
    BY <2>1, <2>2
<1>6. /\ path[t] \in Seq(Addr \X Nat) /\ <<h, k>> \in Addr \X Nat
      /\ n \in Nat /\ DOMAIN path[t] = 1 .. n
  BY <1>1, <1>4, <1>5, LenProperties DEF TreeType
<1> HIDE DEF n
<1>7. /\ path'[t] = Append(path[t], <<h, k>>) /\ path'[t] \in Seq(Addr \X Nat)
      /\ pc'[t] = "make_mut" /\ OnlyOf(t)
  <2>1. path'[t] = Append(path[t], <<h, k>>) /\ pc'[t] = "make_mut" /\ OnlyOf(t)
    BY <1>1, <1>2 DEF OnlyOf, TreeType
  <2> QED
    BY <1>6, <2>1, AppendProperties
<1>8. /\ DOMAIN path'[t] = 1 .. n + 1 /\ path'[t] # << >>
      /\ \A i \in 1 .. n : path'[t][i] = path[t][i]
      /\ path'[t][n + 1] = <<h, k>>
  <2>1. /\ Append(path[t], <<h, k>>) # << >> /\ Len(Append(path[t], <<h, k>>)) = n + 1
        /\ \A i \in 1 .. n : Append(path[t], <<h, k>>)[i] = path[t][i]
        /\ Append(path[t], <<h, k>>)[n + 1] = <<h, k>>
    BY <1>6, AppendProperties DEF n
  <2>2. DOMAIN path'[t] = 1 .. Len(path'[t])
    BY <1>7, LenProperties
  <2> QED
    BY <1>7, <2>1, <2>2
<1>9. TreeType'
  <2>1. path' \in [Thread -> Seq(Addr \X Nat)]
    BY <1>1, <1>2, <1>7 DEF TreeType
  <2>2. pc' \in [Thread -> Label]
    BY <1>1, <1>2 DEF TreeType, Label
  <2> QED
    BY <1>1, <1>2, <2>1, <2>2 DEF TreeType
<1>10. OnPath(t)' = OnPath(t) \cup {h}
  <2>1. OnPath(t)' = {path'[t][i][1] : i \in 1 .. n + 1}
    BY <1>8 DEF OnPath, Node
  <2>2. OnPath(t) = {path[t][i][1] : i \in 1 .. n}
    BY <1>6 DEF OnPath, Node
  <2>3. 1 .. n + 1 = (1 .. n) \cup {n + 1}
    BY <1>6
  <2>4. path'[t][n + 1][1] = h
    BY <1>8
  <2> QED
    BY <1>8, <2>1, <2>2, <2>3, <2>4
<1>11. PathsAreDisjoint' /\ \A x \in Thread \ {t} : OfThread(x)'
  <2>1. \A x \in Thread \ {t} : OnPath(t)' \cap OnPath(x) = {}
    <3>1. \A x \in Thread \ {t} : h \notin OnPath(x)
      BY <1>0, <1>3, OwnIsApart DEF Own
    <3> QED
      BY <1>10, <3>1 DEF TreeInv, PathsAreDisjoint
  <2> QED
    BY <1>2, <1>7, <2>1, OthersStay
<1>12. OfThread(t)'
  <2>1. Locals(t)'
    BY <1>1, <1>2, <1>3, <1>7 DEF Locals, Inserting
  <2>2. path[t] = << >> <=> n = 0
    BY <1>6, EmptySeq DEF n
  <2>3. path'[t][1][1] = root[t]
    <3>1. CASE n = 0
      BY <1>4, <1>8, <2>2, <3>1
    <3>2. CASE n # 0
      <4>1. 1 \in 1 .. n
        BY <1>6, <3>2
      <4>2. path'[t][1] = path[t][1]
        BY <1>8, <4>1
      <4>3. path[t][1][1] = root[t]
        BY <1>1, <2>2, <3>2 DEF PathLeads, Node
      <4> QED
        BY <4>2, <4>3
    <3> QED
      BY <3>1, <3>2
  <2>4. ASSUME NEW i \in 1 .. n + 1
        PROVE  /\ path'[t][i][2] \in DOMAIN kids[path'[t][i][1]]
               /\ kids[path'[t][i][1]][path'[t][i][2]] # Null
               /\ i + 1 \in 1 .. n + 1 => kids[path'[t][i][1]][path'[t][i][2]] = path'[t][i + 1][1]
    <3>1. CASE i = n + 1
      <4>1. path'[t][i][1] = h /\ path'[t][i][2] = k /\ i + 1 \notin 1 .. n + 1
        BY <1>6, <1>8, <3>1
      <4> QED
        BY <1>2, <1>5, <4>1
    <3>2. CASE i = n /\ n # 0
      <4>1. path'[t][i] = path[t][i] /\ path'[t][i + 1][1] = h /\ i \in DOMAIN path[t]
        BY <1>6, <1>8, <3>2
      <4> QED
        BY <1>1, <1>4, <2>2, <3>2, <4>1 DEF PathLeads, Kid, Node
    <3>3. CASE i \in 1 .. n /\ i # n
      <4>1. i \in 1 .. n /\ i + 1 \in 1 .. n
        BY <1>6, <3>3
      <4>2. path'[t][i] = path[t][i] /\ path'[t][i + 1] = path[t][i + 1]
            /\ i \in DOMAIN path[t] /\ i + 1 \in DOMAIN path[t]
        BY <1>6, <1>8, <4>1
      <4> QED
        BY <1>1, <4>2 DEF PathLeads, Kid, Node
    <3>4. i = n + 1 \/ (i = n /\ n # 0) \/ (i \in 1 .. n /\ i # n)
      BY <1>6
    <3> QED
      BY <3>1, <3>2, <3>3, <3>4
  <2>5. PathLeads(t)'
    BY <1>2, <1>8, <2>3, <2>4 DEF PathLeads, Node, Kid
  <2>6. \A a \in Own(t)' : strong'[a] = 1
    <3>1. Own(t)' = OnPath(t) \cup {h}
      BY <1>2, <1>3, <1>7, <1>10 DEF Own
    <3> QED
      BY <1>1, <1>2, <1>4, <3>1 DEF OwnIsUnique, Own
  <2>7. ASSUME NEW i \in 1 .. n + 1, NEW j \in 1 .. n + 1, path'[t][i][1] = path'[t][j][1]
        PROVE  i = j
    <3>1. \A m \in 1 .. n : path'[t][m] = path[t][m] /\ path'[t][m][1] \in OnPath(t) /\ m \in DOMAIN path[t]
      BY <1>6, <1>8 DEF OnPath, Node
    <3>2. path'[t][n + 1][1] \notin OnPath(t)
      BY <1>4, <1>8
    <3>3. CASE i \in 1 .. n /\ j \in 1 .. n
      BY <1>1, <2>7, <3>1, <3>3 DEF OwnIsUnique, Node
    <3>4. CASE ~(i \in 1 .. n /\ j \in 1 .. n)
      BY <1>6, <2>7, <3>1, <3>2, <3>4
    <3> QED
      BY <3>3, <3>4
  <2>8. OwnIsUnique(t)'
    BY <1>8, <2>6, <2>7 DEF OwnIsUnique, Node
  <2> QED
    BY <2>1, <2>5, <2>8 DEF OfThread
<1>13. CountsOwners' /\ NodesFit'
  BY <1>1, <1>2 DEF CountsOwners, Owners, NodesFit, Fits
<1> QED
  BY <1>9, <1>11, <1>12, <1>13 DEF TreeInv

\* The end of an insert: its thread owns its tree, and nothing else.
LEMMA DoneStays ==
  ASSUME TreeInv, NEW t \in Thread, Inserting(t), Done(t), copy[t] = Null, dropping[t] = << >>,
         root' \in [Thread -> Pointer], root'[t] # Null, \A u \in Thread \ {t} : root'[u] = root[u],
         copy' = copy, dropping' = dropping,
         entries' \in [Addr -> Seq(Entry)], kids' \in [Addr -> Seq(Pointer)], strong' \in [Addr -> Nat],
         \A x \in Thread \ {t} : \A g \in Own(x) : kids'[g] = kids[g] /\ strong'[g] = strong[g]
  PROVE  /\ TreeType' /\ OnlyOf(t) /\ right'[t] = Null
         /\ PathsAreDisjoint' /\ \A u \in Thread : OfThread(u)'
<1>1. TreeType /\ Locals(t)
  BY DEF TreeInv, OfThread
<1>2. /\ entry' = [entry EXCEPT ![t] = << >>] /\ right' = [right EXCEPT ![t] = Null]
      /\ path' = [path EXCEPT ![t] = << >>] /\ pc' = [pc EXCEPT ![t] = "idle"]
  BY DEF Done, Goto
<1>3. TreeType'
  <2>1. entry' \in [Thread -> Entry \cup {<< >>}] /\ right' \in [Thread -> Pointer]
    BY <1>1, <1>2 DEF TreeType, Pointer
  <2>2. path' \in [Thread -> Seq(Addr \X Nat)] /\ pc' \in [Thread -> Label]
    BY <1>1, <1>2 DEF TreeType, Label
  <2> QED
    BY <1>1, <2>1, <2>2 DEF TreeType
<1>4. /\ OnlyOf(t) /\ right'[t] = Null /\ path'[t] = << >> /\ pc'[t] = "idle"
      /\ copy'[t] = Null /\ dropping'[t] = << >>
  BY <1>1, <1>2 DEF OnlyOf, TreeType
<1>5. OnPath(t)' = {} /\ PathLeads(t)' /\ OwnIsUnique(t)'
  BY <1>4, OwnsNothingNext
<1>6. Locals(t)'
  BY <1>4 DEF Locals, Inserting
<1>7. PathsAreDisjoint' /\ \A x \in Thread \ {t} : OfThread(x)'
  BY <1>4, <1>5, OthersStay
<1> QED
  BY <1>3, <1>4, <1>5, <1>6, <1>7 DEF OfThread

LEMMA ReplaceValueInv ==
  ASSUME TreeInv, NEW t \in Thread, ReplaceValue(t)
  PROVE  TreeInv'
<1>0. PICK h, k : h = Here(t) /\ k = Place(t)
  OBVIOUS
<1>1. TreeType /\ CountsOwners /\ NodesFit /\ Locals(t)
  BY DEF TreeInv, OfThread
<1>2. /\ pc[t] = "mutate" /\ Holds(h, k, entry[t][1]) /\ Done(t)
      /\ entries' = [entries EXCEPT ![h][k] = entry[t]]
      /\ kids' = kids /\ strong' = strong /\ root' = root /\ copy' = copy /\ dropping' = dropping
  BY <1>0 DEF ReplaceValue
<1>3. /\ Inserting(t) /\ copy[t] = Null /\ right[t] = Null /\ dropping[t] = << >>
      /\ root[t] # Null /\ entry[t] \in Entry
  BY <1>1, <1>2 DEF Inserting, Locals
<1>4. h \in Addr /\ entries[h] \in Seq(Entry)
  BY <1>0, <1>1, <1>3, HereIsANode DEF TreeType
<1>5. k \in 1 .. Len(entries[h])
  <2>1. k \in 1 .. Len(entries[h]) + 1 /\ Len(entries[h]) \in Nat
    BY <1>0, <1>1, <1>4, SearchEnds DEF Place
  <2> QED
    BY <1>2, <2>1 DEF Holds
<1>6. [entries[h] EXCEPT ![k] = entry[t]] \in Seq(Entry) /\ Len([entries[h] EXCEPT ![k] = entry[t]]) = Len(entries[h])
  BY <1>3, <1>4, <1>5, ExceptSeq
<1>7. entries' = [entries EXCEPT ![h] = [entries[h] EXCEPT ![k] = entry[t]]]
  BY <1>1, <1>2, <1>4 DEF TreeType
<1>8. entries' \in [Addr -> Seq(Entry)] /\ \A g \in Addr : Len(entries'[g]) = Len(entries[g])
  BY <1>1, <1>4, <1>6, <1>7 DEF TreeType
<1>9. /\ TreeType' /\ OnlyOf(t) /\ right'[t] = Null
      /\ PathsAreDisjoint' /\ \A u \in Thread : OfThread(u)'
  BY <1>1, <1>2, <1>3, <1>8, DoneStays DEF TreeType
<1>10. CountsOwners'
  <2>1. right' = right
    BY <1>1, <1>2, <1>3 DEF Done, TreeType
  <2> QED
    BY <1>1, <1>2, <2>1 DEF CountsOwners, Owners
<1>11. NodesFit'
  BY <1>1, <1>2, <1>8 DEF NodesFit, Fits
<1> QED
  BY <1>9, <1>10, <1>11 DEF TreeInv

-----------------------------------------------------------------------------
(* The way up *)

\* What an entry and the node to its right do to the node they enter.
AllOf(t, a, i) == InsertAt(entries[a], i, entry[t])
BelowOf(t, a, i) == InsertAt(kids[a], i + 1, right[t])

LEMMA InsertedNode ==
  ASSUME TreeInv, NEW t \in Thread, NEW a \in Addr, strong[a] # 0, Inserting(t),
         NEW i \in 1 .. Len(entries[a]) + 1, NEW x
  PROVE  /\ AllOf(t, a, i) \in Seq(Entry)
         /\ Len(AllOf(t, a, i)) = Len(entries[a]) + 1 /\ Len(AllOf(t, a, i)) \in Nat \ {0}
         /\ BelowOf(t, a, i) \in Seq(Pointer) /\ Len(BelowOf(t, a, i)) = Len(AllOf(t, a, i)) + 1
         /\ Count(BelowOf(t, a, i), x) = Count(kids[a], x) + Hit(right[t], x)
<1>1. TreeType /\ NodesFit /\ Locals(t)
  BY DEF TreeInv, OfThread
<1>2. /\ entries[a] \in Seq(Entry) /\ entry[t] \in Entry
      /\ kids[a] \in Seq(Pointer) /\ right[t] \in Pointer
      /\ Len(kids[a]) = Len(entries[a]) + 1 /\ Len(entries[a]) \in Nat
  BY <1>1, LenProperties DEF TreeType, Locals, NodesFit, Fits
<1>3. i + 1 \in 1 .. Len(kids[a]) + 1
  BY <1>2
<1>4. AllOf(t, a, i) \in Seq(Entry) /\ Len(AllOf(t, a, i)) = Len(entries[a]) + 1
  <2>1. PICK s \in Seq(Entry), v \in Entry : s = entries[a] /\ v = entry[t]
    BY <1>2
  <2>2. i \in 1 .. Len(s) + 1
    BY <2>1
  <2>3. InsertAt(s, i, v) \in Seq(Entry) /\ Len(InsertAt(s, i, v)) = Len(s) + 1
    BY <2>2, CountInsertAt
  <2> QED
    BY <2>1, <2>3 DEF AllOf
<1>5. /\ BelowOf(t, a, i) \in Seq(Pointer) /\ Len(BelowOf(t, a, i)) = Len(kids[a]) + 1
      /\ Count(BelowOf(t, a, i), x) = Count(kids[a], x) + Hit(right[t], x)
  <2>1. PICK j, s, v : j = i + 1 /\ s = kids[a] /\ v = right[t]
    OBVIOUS
  <2>2. s \in Seq(Pointer) /\ j \in 1 .. Len(s) + 1 /\ v \in Pointer
    BY <1>2, <1>3, <2>1
  <2>3. /\ InsertAt(s, j, v) \in Seq(Pointer) /\ Len(InsertAt(s, j, v)) = Len(s) + 1
        /\ Count(InsertAt(s, j, v), x) = Count(s, x) + Hit(v, x)
    BY <2>2, CountInsertAt
  <2> QED
    BY <2>1, <2>3 DEF BelowOf
<1> QED
  BY <1>2, <1>4, <1>5

\* The two outcomes of PutAndSplit.
Puts(t, a, i) ==
  /\ Len(AllOf(t, a, i)) < SPLIT_LIMIT
  /\ entries' = [entries EXCEPT ![a] = AllOf(t, a, i)]
  /\ kids' = [kids EXCEPT ![a] = BelowOf(t, a, i)]
  /\ strong' = strong /\ root' = root /\ copy' = copy /\ dropping' = dropping
  /\ Done(t)

\* The insert of t may change the node at a.
Changes(t, a) ==
  /\ Inserting(t) /\ copy[t] = Null /\ dropping[t] = << >>
  /\ a \in Addr /\ strong[a] = 1 /\ \A x \in Thread \ {t} : a \notin Own(x)

LEMMA PutInv ==
  ASSUME TreeInv, NEW t \in Thread, NEW a, Changes(t, a),
         NEW i \in 1 .. Len(entries[a]) + 1, Puts(t, a, i)
  PROVE  TreeInv'
<1>0. PICK all, below : all = AllOf(t, a, i) /\ below = BelowOf(t, a, i)
  OBVIOUS
<1>a. /\ Inserting(t) /\ copy[t] = Null /\ dropping[t] = << >>
      /\ a \in Addr /\ strong[a] = 1 /\ \A x \in Thread \ {t} : a \notin Own(x)
  BY DEF Changes
<1>b. strong' = strong /\ root' = root /\ copy' = copy /\ dropping' = dropping /\ Done(t)
  BY DEF Puts
<1>1. TreeType /\ CountsOwners /\ NodesFit /\ Locals(t)
  BY DEF TreeInv, OfThread
<1>2. /\ all \in Seq(Entry) /\ Len(all) \in Nat \ {0} /\ Len(all) < SPLIT_LIMIT
      /\ below \in Seq(Pointer) /\ Len(below) = Len(all) + 1
      /\ \A x : Count(below, x) = Count(kids[a], x) + Hit(right[t], x)
  <2>1. strong[a] # 0
    BY <1>a
  <2>2. ASSUME NEW x
        PROVE  /\ all \in Seq(Entry) /\ Len(all) \in Nat \ {0}
               /\ below \in Seq(Pointer) /\ Len(below) = Len(all) + 1
               /\ Count(below, x) = Count(kids[a], x) + Hit(right[t], x)
    <3>1. /\ AllOf(t, a, i) \in Seq(Entry) /\ Len(AllOf(t, a, i)) \in Nat \ {0}
          /\ BelowOf(t, a, i) \in Seq(Pointer) /\ Len(BelowOf(t, a, i)) = Len(AllOf(t, a, i)) + 1
          /\ Count(BelowOf(t, a, i), x) = Count(kids[a], x) + Hit(right[t], x)
      BY <1>a, <2>1, InsertedNode
    <3> QED
      BY <1>0, <3>1
  <2>3. Len(all) < SPLIT_LIMIT
    BY <1>0 DEF Puts
  <2> QED
    BY <2>2, <2>3
<1>3. entries' = [entries EXCEPT ![a] = all] /\ kids' = [kids EXCEPT ![a] = below]
  BY <1>0 DEF Puts
<1>4. entries' \in [Addr -> Seq(Entry)] /\ kids' \in [Addr -> Seq(Pointer)]
  BY <1>1, <1>2, <1>3 DEF TreeType
<1>5. /\ entries'[a] = all /\ kids'[a] = below
      /\ \A g \in Addr \ {a} : entries'[g] = entries[g] /\ kids'[g] = kids[g]
  BY <1>1, <1>3, <1>a DEF TreeType
<1>6. /\ TreeType' /\ OnlyOf(t) /\ right'[t] = Null
      /\ PathsAreDisjoint' /\ \A u \in Thread : OfThread(u)'
  <2>1. ASSUME NEW x \in Thread \ {t}, NEW g \in Own(x)
        PROVE  kids'[g] = kids[g] /\ strong'[g] = strong[g]
    BY <1>5, <1>a, <1>b, OwnedByOne
  <2>2. root' \in [Thread -> Pointer] /\ root'[t] # Null /\ strong' \in [Addr -> Nat]
    BY <1>1, <1>a, <1>b DEF TreeType, Locals
  <2> QED
    BY <1>4, <1>a, <1>b, <2>1, <2>2, DoneStays
<1>7. CountsOwners'
  <2>1. SUFFICES ASSUME NEW x \in Addr
                 PROVE  /\ strong'[x] = strong[x] - InNodes(x) + InNodes(x)' - InThread(t, x) + InThread(t, x)'
                        /\ strong'[x] = 0 <=> kids'[x] = << >>
    BY <1>6, CountsStay
  <2>2. /\ Hit(Null, x) = 0 /\ Hit(root[t], x) \in Nat /\ Hit(right[t], x) \in Nat
    BY AddrAssumption DEF Hit
  <2>3. /\ InThread(t, x)' = Count(<< >>, x) + Hit(root[t], x) + Hit(Null, x) + Hit(Null, x)
        /\ InThread(t, x) = Count(<< >>, x) + Hit(root[t], x) + Hit(Null, x) + Hit(right[t], x)
    BY <1>6, <1>a, <1>b, InThreadNext DEF InThread
  <2>4. Count(<< >>, x) = 0
    BY CountShort
  <2>5. InNodes(x)' = InNodes(x) + Hit(right[t], x) /\ InNodes(x) \in Nat
    <3>1. InNodes(x)' = InNodes(x) - Count(kids[a], x) + Count(kids'[a], x)
      BY <1>1, <1>5, <1>6, <1>a, InNodesStep
    <3>2. InNodes(x) \in Nat
      BY <1>1, InNodesType
    <3>3. Count(kids[a], x) \in Nat
      BY <1>1, <1>a, CountType DEF TreeType
    <3> QED
      BY <1>2, <1>5, <2>2, <3>1, <3>2, <3>3
  <2>6. strong[x] \in Nat /\ (strong[x] = 0 <=> kids[x] = << >>)
    BY <1>1 DEF CountsOwners, TreeType
  <2>7. strong'[x] = 0 <=> kids'[x] = << >>
    <3>1. CASE x = a
      <4>1. below # << >>
        BY <1>2, EmptySeq
      <4> QED
        BY <1>5, <1>a, <1>b, <3>1, <4>1
    <3>2. CASE x # a
      BY <1>5, <1>b, <2>6, <3>2
    <3> QED
      BY <3>1, <3>2
  <2> QED
    BY <1>b, <2>2, <2>3, <2>4, <2>5, <2>6, <2>7
<1>8. NodesFit'
  <2>1. SUFFICES ASSUME NEW g \in Addr, strong'[g] # 0
                 PROVE  Len(entries'[g]) \in 1 .. SPLIT_LIMIT - 1 /\ Len(kids'[g]) = Len(entries'[g]) + 1
    BY DEF NodesFit, Fits
  <2>2. CASE g = a
    BY <1>2, <1>5, <2>2, LimitAssumption
  <2>3. CASE g # a
    BY <1>1, <1>5, <1>b, <2>1, <2>3 DEF NodesFit, Fits
  <2> QED
    BY <2>2, <2>3
<1> QED
  BY <1>6, <1>7, <1>8 DEF TreeInv

\* What is left of a path when an insert goes back up, and leads to a.
Above(t, above, a) ==
  /\ above \in Seq(Addr \X Nat)
  /\ a = IF above = << >> THEN root[t] ELSE kids[Last(above)[1]][Last(above)[2]]
  /\ \A j \in DOMAIN above : j \in DOMAIN path[t] /\ above[j] = path[t][j] /\ Node(t, j) # a

Middle == SPLIT_LIMIT \div 2 + 1

Splits(t, a, i, above, b) ==
  /\ Len(AllOf(t, a, i)) = SPLIT_LIMIT
  /\ entries' = [entries EXCEPT ![a] = SubSeq(AllOf(t, a, i), 1, Middle - 1),
                                ![b] = SubSeq(AllOf(t, a, i), Middle + 1, SPLIT_LIMIT)]
  /\ kids' = [kids EXCEPT ![a] = SubSeq(BelowOf(t, a, i), 1, Middle),
                          ![b] = SubSeq(BelowOf(t, a, i), Middle + 1, SPLIT_LIMIT + 1)]
  /\ strong' = [strong EXCEPT ![b] = 1]
  /\ entry' = [entry EXCEPT ![t] = AllOf(t, a, i)[Middle]]
  /\ right' = [right EXCEPT ![t] = b]
  /\ path' = [path EXCEPT ![t] = above]
  /\ pc' = [pc EXCEPT ![t] = "carry"]
  /\ root' = root /\ copy' = copy /\ dropping' = dropping

LEMMA SplitInv ==
  ASSUME TreeInv, NEW t \in Thread, NEW a, Changes(t, a),
         NEW i \in 1 .. Len(entries[a]) + 1, NEW above, Above(t, above, a),
         Free # {}, Splits(t, a, i, above, New)
  PROVE  TreeInv'
<1>0. PICK all, below, p, b :
        all = AllOf(t, a, i) /\ below = BelowOf(t, a, i) /\ p = Middle /\ b = New
  OBVIOUS
<1>a. /\ Inserting(t) /\ copy[t] = Null /\ dropping[t] = << >>
      /\ a \in Addr /\ strong[a] = 1 /\ \A x \in Thread \ {t} : a \notin Own(x)
  BY DEF Changes
<1>b. /\ Len(all) = SPLIT_LIMIT
      /\ entries' = [entries EXCEPT ![a] = SubSeq(all, 1, p - 1), ![b] = SubSeq(all, p + 1, SPLIT_LIMIT)]
      /\ kids' = [kids EXCEPT ![a] = SubSeq(below, 1, p), ![b] = SubSeq(below, p + 1, SPLIT_LIMIT + 1)]
      /\ strong' = [strong EXCEPT ![b] = 1]
      /\ entry' = [entry EXCEPT ![t] = all[p]] /\ right' = [right EXCEPT ![t] = b]
      /\ path' = [path EXCEPT ![t] = above] /\ pc' = [pc EXCEPT ![t] = "carry"]
      /\ root' = root /\ copy' = copy /\ dropping' = dropping
  BY <1>0 DEF Splits
<1>1. TreeType /\ CountsOwners /\ NodesFit /\ Locals(t) /\ PathLeads(t) /\ OwnIsUnique(t)
  BY DEF TreeInv, OfThread
<1>2. /\ all \in Seq(Entry) /\ below \in Seq(Pointer) /\ Len(below) = SPLIT_LIMIT + 1
      /\ \A x : Count(below, x) = Count(kids[a], x) + Hit(right[t], x)
  <2>1. strong[a] # 0
    BY <1>a
  <2>2. ASSUME NEW x
        PROVE  /\ all \in Seq(Entry) /\ below \in Seq(Pointer) /\ Len(below) = Len(all) + 1
               /\ Count(below, x) = Count(kids[a], x) + Hit(right[t], x)
    <3>1. /\ AllOf(t, a, i) \in Seq(Entry) /\ Len(AllOf(t, a, i)) \in Nat \ {0}
          /\ BelowOf(t, a, i) \in Seq(Pointer) /\ Len(BelowOf(t, a, i)) = Len(AllOf(t, a, i)) + 1
          /\ Count(BelowOf(t, a, i), x) = Count(kids[a], x) + Hit(right[t], x)
      BY <1>a, <2>1, InsertedNode
    <3> QED
      BY <1>0, <3>1
  <2> QED
    BY <1>b, <2>2
<1>3. /\ p \in Nat /\ p - 1 >= 1 /\ SPLIT_LIMIT - p >= 1 /\ SPLIT_LIMIT \in Nat
  BY <1>0, LimitAssumption DEF Middle
<1>4. /\ b \in Addr /\ b # Null /\ strong[b] = 0 /\ kids[b] = << >> /\ b # a
      /\ \A u \in Thread : b \notin Own(u)
  BY <1>0, <1>a, NewIsFree
<1>5. PICK l, r, el, er : /\ l = SubSeq(below, 1, p) /\ r = SubSeq(below, p + 1, SPLIT_LIMIT + 1)
                          /\ el = SubSeq(all, 1, p - 1) /\ er = SubSeq(all, p + 1, SPLIT_LIMIT)
  OBVIOUS
<1>6. /\ l \in Seq(Pointer) /\ r \in Seq(Pointer) /\ Len(l) = p /\ Len(r) = SPLIT_LIMIT + 1 - p
      /\ \A x : Count(below, x) = Count(l, x) + Count(r, x)
  <2>1. p \in 0 .. Len(below) /\ \A j \in 1 .. Len(below) : below[j] \in Pointer
    BY <1>2, <1>3, ElementOfSeq
  <2>2. l \in Seq(Pointer) /\ r \in Seq(Pointer) /\ \A x : Count(below, x) = Count(l, x) + Count(r, x)
    <3>1. l = SubSeq(below, 1, p) /\ r = SubSeq(below, p + 1, Len(below))
      BY <1>2, <1>5
    <3>2. below \in Seq(Pointer)
      BY <1>2
    <3>3. ASSUME NEW x
          PROVE  /\ l \in Seq(Pointer) /\ r \in Seq(Pointer)
                 /\ Count(below, x) = Count(l, x) + Count(r, x)
      BY <2>1, <3>1, <3>2, CountSplit
    <3> QED
      BY <3>3
  <2>3. Len(l) = p
    BY <1>2, <1>3, <1>5, <2>1, SubSeqProperties
  <2>4. Len(r) = SPLIT_LIMIT + 1 - p
    BY <1>2, <1>3, <1>5, <2>1, SubSeqProperties
  <2> QED
    BY <2>2, <2>3, <2>4
<1>7. el \in Seq(Entry) /\ er \in Seq(Entry) /\ Len(el) = p - 1 /\ Len(er) = SPLIT_LIMIT - p /\ all[p] \in Entry
  <2>0. Len(all) = SPLIT_LIMIT
    BY <1>b
  <2>1. \A j \in 1 .. Len(all) : all[j] \in Entry
    BY <1>2, ElementOfSeq
  <2>2. el \in Seq(Entry) /\ Len(el) = p - 1
    BY <1>3, <1>5, <2>0, <2>1, SubSeqProperties
  <2>3. er \in Seq(Entry) /\ Len(er) = SPLIT_LIMIT - p
    BY <1>3, <1>5, <2>0, <2>1, SubSeqProperties
  <2>4. p \in 1 .. Len(all)
    BY <1>3, <2>0
  <2> QED
    BY <2>1, <2>2, <2>3, <2>4
<1>8. /\ entries'[a] = el /\ entries'[b] = er /\ kids'[a] = l /\ kids'[b] = r /\ strong'[b] = 1
      /\ \A g \in Addr \ {a, b} : entries'[g] = entries[g] /\ kids'[g] = kids[g]
      /\ \A g \in Addr \ {b} : strong'[g] = strong[g]
  BY <1>1, <1>4, <1>5, <1>a, <1>b DEF TreeType
<1>9. TreeType'
  <2>1. entries' \in [Addr -> Seq(Entry)]
    BY <1>1, <1>4, <1>5, <1>7, <1>b DEF TreeType
  <2>2. kids' \in [Addr -> Seq(Pointer)]
    BY <1>1, <1>4, <1>5, <1>6, <1>b DEF TreeType
  <2>3. strong' \in [Addr -> Nat]
    BY <1>1, <1>b DEF TreeType
  <2>4. entry' \in [Thread -> Entry \cup {<< >>}] /\ right' \in [Thread -> Pointer]
    BY <1>1, <1>4, <1>7, <1>b DEF TreeType, Pointer
  <2>5. path' \in [Thread -> Seq(Addr \X Nat)] /\ pc' \in [Thread -> Label]
    BY <1>1, <1>b DEF TreeType, Label, Above
  <2> QED
    BY <1>1, <1>b, <2>1, <2>2, <2>3, <2>4, <2>5 DEF TreeType
<1>10. /\ OnlyOf(t) /\ entry'[t] = all[p] /\ right'[t] = b /\ path'[t] = above /\ pc'[t] = "carry"
  BY <1>1, <1>b DEF OnlyOf, TreeType
<1>11. /\ OnPath(t)' \subseteq OnPath(t) /\ a \notin OnPath(t)' /\ b \notin OnPath(t)'
  <2>1. OnPath(t)' = {above[j][1] : j \in DOMAIN above}
    BY <1>10 DEF OnPath, Node
  <2>2. \A j \in DOMAIN above : above[j][1] \in OnPath(t) /\ above[j][1] # a
    BY DEF Above, OnPath, Node
  <2>3. b \notin OnPath(t)
    BY <1>4 DEF Own
  <2> QED
    BY <2>1, <2>2, <2>3
<1>12. PathsAreDisjoint' /\ \A x \in Thread \ {t} : OfThread(x)'
  <2>1. ASSUME NEW x \in Thread \ {t}, NEW g \in Own(x)
        PROVE  kids'[g] = kids[g] /\ strong'[g] = strong[g]
    <3>1. g \in Addr
      BY OwnedByOne
    <3>2. g # a /\ g # b
      BY <1>4, <1>a
    <3> QED
      BY <1>8, <3>1, <3>2
  <2>2. \A x \in Thread \ {t} : OnPath(t)' \cap OnPath(x) = {}
    BY <1>11 DEF TreeInv, PathsAreDisjoint
  <2> QED
    BY <1>10, <2>1, <2>2, OthersStay
<1>13. OfThread(t)'
  <2>1. Locals(t)'
    <3>1. root'[t] # Null /\ entry'[t] \in Entry /\ right'[t] # Null /\ copy'[t] = Null /\ dropping'[t] = << >>
      BY <1>1, <1>4, <1>7, <1>10, <1>a, <1>b DEF Locals
    <3> QED
      BY <1>10, <3>1 DEF Locals, Inserting
  <2>2. ASSUME NEW j \in DOMAIN above
        PROVE  /\ above[j][2] \in DOMAIN kids'[above[j][1]]
               /\ kids'[above[j][1]][above[j][2]] # Null
               /\ j + 1 \in DOMAIN above => kids'[above[j][1]][above[j][2]] = above[j + 1][1]
    <3>1. j \in DOMAIN path[t] /\ above[j] = path[t][j] /\ Node(t, j) \in OnPath(t) /\ Node(t, j) # a
      BY DEF Above, OnPath
    <3>2. Node(t, j) \in Addr /\ Node(t, j) # b
      BY <1>4, <3>1, OwnedByOne DEF Own
    <3>3. kids'[Node(t, j)] = kids[Node(t, j)]
      BY <1>8, <3>1, <3>2
    <3>4. j + 1 \in DOMAIN above => j + 1 \in DOMAIN path[t] /\ above[j + 1] = path[t][j + 1]
      BY DEF Above
    <3> QED
      BY <1>1, <3>1, <3>3, <3>4 DEF PathLeads, Kid, Node
  <2>3. above # << >> => above[1][1] = root[t]
    <3>1. above # << >> => 1 \in DOMAIN above
      BY EmptySeq, LenProperties DEF Above
    <3>2. above # << >> => path[t] # << >> /\ above[1] = path[t][1]
      BY <3>1 DEF Above
    <3> QED
      BY <1>1, <3>2 DEF PathLeads, Node
  <2>4. PathLeads(t)'
    BY <1>10, <1>b, <2>2, <2>3 DEF PathLeads, Node, Kid
  <2>5. \A g \in Own(t)' : strong'[g] = 1
    <3>1. Own(t)' = OnPath(t)' \cup {Here(t)'}
      BY <1>10, <1>a, <1>b DEF Own
    <3>3. Here(t)' = a
      <4>1. CASE above = << >>
        BY <1>10, <1>b, <4>1 DEF Above, Here
      <4>2. CASE above # << >>
        <5>1. Len(above) \in DOMAIN above
          BY <4>2, EmptySeq, LenProperties DEF Above
        <5>2. Last(above)[1] \in OnPath(t) /\ Last(above)[1] # a
          BY <5>1 DEF Above, OnPath, Node, Last
        <5>3. Last(above)[1] \in Addr \ {a, b}
          BY <1>4, <5>2, OwnedByOne DEF Own
        <5> QED
          BY <1>8, <1>10, <4>2, <5>3 DEF Above, Here
      <4> QED
        BY <4>1, <4>2
    <3>2. \A g \in OnPath(t) : g \in Addr /\ g # b /\ strong[g] = 1
      BY <1>4, OwnedByOne DEF Own
    <3> QED
      BY <1>4, <1>8, <1>11, <1>a, <3>1, <3>2, <3>3
  <2>6. \A j, k \in DOMAIN above : above[j][1] = above[k][1] => j = k
    BY <1>1 DEF OwnIsUnique, Node, Above
  <2>7. OwnIsUnique(t)'
    BY <1>10, <2>5, <2>6 DEF OwnIsUnique, Node
  <2> QED
    BY <2>1, <2>4, <2>7 DEF OfThread
<1>14. CountsOwners'
  <2>1. SUFFICES ASSUME NEW x \in Addr
                 PROVE  /\ strong'[x] = strong[x] - InNodes(x) + InNodes(x)' - InThread(t, x) + InThread(t, x)'
                        /\ strong'[x] = 0 <=> kids'[x] = << >>
    BY <1>9, <1>10, CountsStay
  <2>2. /\ Hit(Null, x) = 0 /\ Hit(root[t], x) \in Nat /\ Hit(right[t], x) \in Nat /\ Hit(b, x) \in Nat
    BY AddrAssumption DEF Hit
  <2>3. /\ InThread(t, x)' = Count(<< >>, x) + Hit(root[t], x) + Hit(Null, x) + Hit(b, x)
        /\ InThread(t, x) = Count(<< >>, x) + Hit(root[t], x) + Hit(Null, x) + Hit(right[t], x)
    BY <1>10, <1>a, <1>b, InThreadNext DEF InThread
  <2>4. Count(<< >>, x) = 0
    BY CountShort
  <2>5. InNodes(x)' = InNodes(x) + Hit(right[t], x) /\ InNodes(x) \in Nat
    <3>1. InNodes(x)' = InNodes(x) - Count(kids[a], x) + Count(kids'[a], x) - Count(kids[b], x) + Count(kids'[b], x)
      <4>1. b \in Addr /\ a # b /\ \A g \in Addr \ {a, b} : kids'[g] = kids[g]
        BY <1>4, <1>8
      <4> QED
        BY <1>1, <1>9, <1>a, <4>1, InNodesStepTwice
    <3>2. InNodes(x) \in Nat
      BY <1>1, InNodesType
    <3>3. Count(kids[a], x) \in Nat
      BY <1>1, <1>a, CountType DEF TreeType
    <3>4. Count(l, x) \in Nat /\ Count(r, x) \in Nat
      BY <1>6, CountType
    <3>5. Count(l, x) + Count(r, x) = Count(kids[a], x) + Hit(right[t], x)
      BY <1>2, <1>6
    <3>6. Count(kids'[a], x) = Count(l, x) /\ Count(kids'[b], x) = Count(r, x) /\ Count(kids[b], x) = 0
      BY <1>4, <1>8, <2>4
    <3>7. InNodes(x)' = InNodes(x) - Count(kids[a], x) + Count(l, x) - 0 + Count(r, x)
      BY <3>1, <3>6
    <3>8. PICK n, k, m, h \in Nat :
            n = InNodes(x) /\ k = Count(kids[a], x) /\ m = Count(l, x) + Count(r, x) /\ h = Hit(right[t], x)
      <4>1. Count(l, x) + Count(r, x) \in Nat
        BY <3>4
      <4> QED
        BY <2>2, <3>2, <3>3, <4>1
    <3>9. InNodes(x)' = n - k + m
      <4>1. PICK i1, i2 \in Nat : i1 = Count(l, x) /\ i2 = Count(r, x)
        BY <3>4
      <4>2. InNodes(x)' = n - k + i1 - 0 + i2
        BY <3>7, <3>8, <4>1
      <4>3. m = i1 + i2
        BY <3>8, <4>1
      <4> QED
        BY <4>2, <4>3
    <3>10. m = k + h
      BY <3>5, <3>8
    <3>11. InNodes(x)' = n + h
      BY <3>9, <3>10
    <3> QED
      BY <3>8, <3>11
  <2>6. strong[x] \in Nat /\ (strong[x] = 0 <=> kids[x] = << >>)
    BY <1>1 DEF CountsOwners, TreeType
  <2>7. strong'[x] = strong[x] + Hit(b, x)
    <3>1. CASE x = b
      <4>1. Hit(b, x) = 1
        BY <3>1 DEF Hit
      <4> QED
        BY <1>4, <1>8, <3>1, <4>1
    <3>2. CASE x # b
      <4>1. Hit(b, x) = 0
        BY <3>2 DEF Hit
      <4> QED
        BY <1>8, <2>6, <3>2, <4>1
    <3> QED
      BY <3>1, <3>2
  <2>8. strong'[x] = 0 <=> kids'[x] = << >>
    <3>1. l # << >> /\ r # << >>
      BY <1>3, <1>6, EmptySeq
    <3>2. CASE x = a
      <4>1. strong'[a] = 1
        BY <1>4, <1>8, <1>a
      <4> QED
        BY <1>8, <3>1, <3>2, <4>1
    <3>3. CASE x = b
      BY <1>8, <3>1, <3>3
    <3>4. CASE x \notin {a, b}
      <4>1. x \in Addr \ {a, b} /\ x \in Addr \ {b}
        BY <3>4
      <4>2. strong'[x] = strong[x] /\ kids'[x] = kids[x]
        BY <1>8, <4>1
      <4> QED
        BY <2>6, <4>2
    <3> QED
      BY <3>2, <3>3, <3>4
  <2>9. strong'[x] = strong[x] - InNodes(x) + InNodes(x)' - InThread(t, x) + InThread(t, x)'
    BY <2>2, <2>3, <2>4, <2>5, <2>6, <2>7
  <2> QED
    BY <2>8, <2>9
<1>15. NodesFit'
  <2>1. SUFFICES ASSUME NEW g \in Addr, strong'[g] # 0
                 PROVE  Len(entries'[g]) \in 1 .. SPLIT_LIMIT - 1 /\ Len(kids'[g]) = Len(entries'[g]) + 1
    BY DEF NodesFit, Fits
  <2>2. CASE g = a
    <3>1. entries'[g] = el /\ kids'[g] = l
      BY <1>8, <2>2
    <3>2. Len(el) = p - 1 /\ Len(l) = p
      BY <1>6, <1>7
    <3>3. p - 1 \in 1 .. SPLIT_LIMIT - 1 /\ p = (p - 1) + 1
      BY <1>3
    <3> QED
      BY <3>1, <3>2, <3>3
  <2>3. CASE g = b
    <3>1. entries'[g] = er /\ kids'[g] = r
      BY <1>8, <2>3
    <3>2. Len(er) = SPLIT_LIMIT - p /\ Len(r) = SPLIT_LIMIT + 1 - p
      BY <1>6, <1>7
    <3>3. SPLIT_LIMIT - p \in 1 .. SPLIT_LIMIT - 1 /\ SPLIT_LIMIT + 1 - p = (SPLIT_LIMIT - p) + 1
      BY <1>3
    <3> QED
      BY <3>1, <3>2, <3>3
  <2>4. CASE g \notin {a, b}
    <3>1. g \in Addr \ {a, b} /\ g \in Addr \ {b}
      BY <2>4
    <3>2. strong'[g] = strong[g] /\ kids'[g] = kids[g] /\ entries'[g] = entries[g]
      BY <1>8, <3>1
    <3> QED
      BY <1>1, <2>1, <3>2 DEF NodesFit, Fits
  <2> QED
    BY <2>2, <2>3, <2>4
<1> QED
  BY <1>9, <1>12, <1>13, <1>14, <1>15 DEF TreeInv

LEMMA PutAndSplitInv ==
  ASSUME TreeInv, NEW t \in Thread, NEW a, Changes(t, a),
         NEW i \in 1 .. Len(entries[a]) + 1, NEW above, Above(t, above, a),
         PutAndSplit(t, a, i, above), UNCHANGED <<replace, root, copy, dropping>>
  PROVE  TreeInv'
<1>1. CASE Puts(t, a, i)
  BY <1>1, PutInv
<1>2. CASE Free # {} /\ Splits(t, a, i, above, New)
  BY <1>2, SplitInv
<1>3. Puts(t, a, i) \/ (Free # {} /\ Splits(t, a, i, above, New))
  BY DEF PutAndSplit, Puts, Splits, AllOf, BelowOf, Middle, LeftOf, Goto
<1> QED
  BY <1>1, <1>2, <1>3

LEMMA PutChanges ==
  ASSUME TreeInv, NEW t \in Thread, Put(t)
  PROVE  /\ Changes(t, Here(t)) /\ Above(t, path[t], Here(t))
         /\ Place(t) \in 1 .. Len(entries[Here(t)]) + 1
<1>0. PICK h, k : h = Here(t) /\ k = Place(t)
  OBVIOUS
<1>1. TreeType /\ Locals(t) /\ OwnIsUnique(t)
  BY DEF TreeInv, OfThread
<1>2. pc[t] = "mutate"
  BY <1>0 DEF Put
<1>3. Inserting(t) /\ copy[t] = Null /\ dropping[t] = << >>
  BY <1>1, <1>2 DEF Inserting, Locals
<1>4. h \in Addr /\ h \in Own(t) /\ h \notin OnPath(t)
  BY <1>0, <1>2, <1>3, HereIsANode, HereIsNew DEF Own
<1>5. Changes(t, h)
  BY <1>0, <1>1, <1>3, <1>4, OwnIsApart DEF Changes, OwnIsUnique
<1>6. k \in 1 .. Len(entries[h]) + 1
  BY <1>0, <1>1, <1>4, SearchEnds DEF Place
<1>7. Above(t, path[t], h)
  <2>1. path[t] \in Seq(Addr \X Nat)
    BY <1>1 DEF TreeType
  <2> QED
    BY <1>0, <1>4, <2>1 DEF Above, OnPath, Here
<1> QED
  BY <1>0, <1>5, <1>6, <1>7

LEMMA PutActionInv ==
  ASSUME TreeInv, NEW t \in Thread, Put(t)
  PROVE  TreeInv'
<1>0. PICK h, k : h = Here(t) /\ k = Place(t)
  OBVIOUS
<1>1. PutAndSplit(t, h, k, path[t]) /\ UNCHANGED <<replace, root, copy, dropping>>
  BY <1>0 DEF Put
<1>2. Changes(t, h) /\ Above(t, path[t], h) /\ k \in 1 .. Len(entries[h]) + 1
  BY <1>0, PutChanges
<1> QED
  BY <1>1, <1>2, PutAndSplitInv

LEMMA CarryChanges ==
  ASSUME TreeInv, NEW t \in Thread, Carry(t)
  PROVE  /\ Changes(t, Last(path[t])[1]) /\ Above(t, Front(path[t]), Last(path[t])[1])
         /\ Last(path[t])[2] \in 1 .. Len(entries[Last(path[t])[1]]) + 1
<1>0. PICK a, i, n : a = Last(path[t])[1] /\ i = Last(path[t])[2] /\ n = Len(path[t])
  OBVIOUS
<1>1. TreeType /\ NodesFit /\ Locals(t) /\ PathLeads(t) /\ OwnIsUnique(t)
  BY DEF TreeInv, OfThread
<1>2. pc[t] = "carry" /\ path[t] # << >>
  BY DEF Carry
<1>3. Inserting(t) /\ copy[t] = Null /\ dropping[t] = << >>
  BY <1>1, <1>2 DEF Inserting, Locals
<1>4. n \in DOMAIN path[t] /\ a = Node(t, n) /\ a \in Addr /\ i \in DOMAIN kids[a]
  BY <1>0, <1>2, <1>3, HereIsANode
<1>5. a \in OnPath(t) /\ a \in Own(t)
  BY <1>4 DEF OnPath, Own
<1>6. Changes(t, a)
  BY <1>3, <1>4, <1>5, OwnIsApart, OwnedByOne DEF Changes
<1>7. i \in 1 .. Len(entries[a]) + 1
  <2>1. strong[a] # 0
    BY <1>6 DEF Changes
  <2>2. Len(kids[a]) = Len(entries[a]) + 1 /\ DOMAIN kids[a] = 1 .. Len(kids[a])
    BY <1>1, <1>4, <2>1, LenProperties DEF NodesFit, Fits, TreeType
  <2> QED
    BY <1>4, <2>2
<1>8. Above(t, Front(path[t]), a)
  <2>1. path[t] \in Seq(Addr \X Nat) /\ n \in Nat \ {0} /\ DOMAIN path[t] = 1 .. n
    BY <1>0, <1>1, <1>4, LenProperties DEF TreeType
  <2>2. \A j \in 1 .. n : path[t][j] \in Addr \X Nat
    BY <1>0, <2>1, ElementOfSeq
  <2>3. Front(path[t]) = SubSeq(path[t], 1, n - 1)
    BY <1>0 DEF Front
  <2>4. /\ Front(path[t]) \in Seq(Addr \X Nat) /\ DOMAIN Front(path[t]) = 1 .. n - 1
        /\ \A j \in 1 .. n - 1 : Front(path[t])[j] = path[t][j]
    BY <2>1, <2>2, <2>3, SubSeqProperties
  <2>5. \A j \in 1 .. n - 1 : j \in DOMAIN path[t] /\ j # n
    BY <2>1
  <2>6. \A j \in 1 .. n - 1 : Node(t, j) # a
    BY <1>1, <1>4, <2>5 DEF OwnIsUnique
  <2>7. a = IF Front(path[t]) = << >> THEN root[t] ELSE kids[Last(Front(path[t]))[1]][Last(Front(path[t]))[2]]
    <3>1. CASE n = 1
      <4>1. Front(path[t]) = << >>
        BY <2>4, <3>1, EmptySeq, LenProperties
      <4> QED
        BY <1>1, <1>2, <1>4, <3>1, <4>1 DEF PathLeads
    <3>2. CASE n # 1
      <4>1. n - 1 \in DOMAIN path[t] /\ n - 1 \in 1 .. n - 1 /\ (n - 1) + 1 = n
        BY <2>1, <3>2
      <4>2. Len(Front(path[t])) = n - 1 /\ Front(path[t]) # << >>
        BY <2>1, <2>4, <4>1, LenProperties, EmptySeq
      <4>3. Last(Front(path[t])) = path[t][n - 1]
        BY <2>4, <4>1, <4>2 DEF Last
      <4>4. Kid(t, n - 1) = Node(t, n)
        BY <1>1, <1>4, <4>1 DEF PathLeads
      <4> QED
        BY <1>4, <4>2, <4>3, <4>4 DEF Kid, Node
    <3> QED
      BY <3>1, <3>2
  <2> QED
    BY <2>4, <2>5, <2>6, <2>7 DEF Above
<1> QED
  BY <1>0, <1>6, <1>7, <1>8

LEMMA CarryInv ==
  ASSUME TreeInv, NEW t \in Thread, Carry(t)
  PROVE  TreeInv'
<1>0. PICK a, i : a = Last(path[t])[1] /\ i = Last(path[t])[2]
  OBVIOUS
<1>1. PutAndSplit(t, a, i, Front(path[t])) /\ UNCHANGED <<replace, root, copy, dropping>>
  BY <1>0 DEF Carry
<1>2. Changes(t, a) /\ Above(t, Front(path[t]), a) /\ i \in 1 .. Len(entries[a]) + 1
  BY <1>0, CarryChanges
<1> QED
  BY <1>1, <1>2, PutAndSplitInv

LEMMA GrowInv ==
  ASSUME TreeInv, NEW t \in Thread, Grow(t)
  PROVE  TreeInv'
<1>0. PICK b, r, s : b = New /\ r = root[t] /\ s = right[t]
  OBVIOUS
<1>1. TreeType /\ CountsOwners /\ NodesFit /\ Locals(t)
  BY DEF TreeInv, OfThread
<1>2. /\ pc[t] = "carry" /\ Free # {} /\ Done(t)
      /\ entries' = [entries EXCEPT ![b] = <<entry[t]>>]
      /\ kids' = [kids EXCEPT ![b] = <<r, s>>]
      /\ strong' = [strong EXCEPT ![b] = 1]
      /\ root' = [root EXCEPT ![t] = b]
      /\ copy' = copy /\ dropping' = dropping
  BY <1>0 DEF Grow
<1>3. Inserting(t) /\ copy[t] = Null /\ dropping[t] = << >> /\ entry[t] \in Entry
  BY <1>1, <1>2 DEF Inserting, Locals
<1>4. /\ b \in Addr /\ b # Null /\ strong[b] = 0 /\ kids[b] = << >>
      /\ \A u \in Thread : b \notin Own(u)
  BY <1>0, <1>2, NewIsFree
<1>5. r \in Pointer /\ s \in Pointer /\ <<r, s>> \in Seq(Pointer)
  BY <1>0, <1>1 DEF TreeType
<1>6. /\ kids' \in [Addr -> Seq(Pointer)] /\ entries' \in [Addr -> Seq(Entry)]
      /\ strong' \in [Addr -> Nat] /\ root' \in [Thread -> Pointer]
  <2>1. <<entry[t]>> \in Seq(Entry)
    BY <1>3
  <2>2. kids' \in [Addr -> Seq(Pointer)] /\ entries' \in [Addr -> Seq(Entry)]
    BY <1>1, <1>2, <1>4, <1>5, <2>1 DEF TreeType
  <2>3. strong' \in [Addr -> Nat] /\ root' \in [Thread -> Pointer]
    BY <1>1, <1>2, <1>4 DEF TreeType, Pointer
  <2> QED
    BY <2>2, <2>3
<1>7. /\ entries'[b] = <<entry[t]>> /\ kids'[b] = <<r, s>> /\ strong'[b] = 1 /\ root'[t] = b
      /\ \A g \in Addr \ {b} : kids'[g] = kids[g] /\ entries'[g] = entries[g] /\ strong'[g] = strong[g]
      /\ \A u \in Thread \ {t} : root'[u] = root[u]
  BY <1>1, <1>2, <1>4 DEF TreeType
<1>8. /\ TreeType' /\ OnlyOf(t) /\ right'[t] = Null
      /\ PathsAreDisjoint' /\ \A u \in Thread : OfThread(u)'
  <2>1. ASSUME NEW x \in Thread \ {t}, NEW g \in Own(x)
        PROVE  kids'[g] = kids[g] /\ strong'[g] = strong[g]
    BY <1>4, <1>7, OwnedByOne
  <2> QED
    BY <1>2, <1>3, <1>4, <1>6, <1>7, <2>1, DoneStays
<1>9. CountsOwners'
  <2>1. SUFFICES ASSUME NEW x \in Addr
                 PROVE  /\ strong'[x] = strong[x] - InNodes(x) + InNodes(x)' - InThread(t, x) + InThread(t, x)'
                        /\ strong'[x] = 0 <=> kids'[x] = << >>
    BY <1>8, CountsStay
  <2>2. /\ Hit(Null, x) = 0 /\ Hit(b, x) \in Nat /\ Hit(r, x) \in Nat /\ Hit(s, x) \in Nat
    BY AddrAssumption DEF Hit
  <2>3. /\ InThread(t, x)' = Count(<< >>, x) + Hit(b, x) + Hit(Null, x) + Hit(Null, x)
        /\ InThread(t, x) = Count(<< >>, x) + Hit(r, x) + Hit(Null, x) + Hit(s, x)
    BY <1>0, <1>2, <1>3, <1>7, <1>8, InThreadNext DEF InThread
  <2>4. Count(<< >>, x) = 0
    BY CountShort
  <2>5. Count(<<r, s>>, x) = Hit(r, x) + Hit(s, x)
    <3>1. <<r, s>> # << >> /\ Head(<<r, s>>) = r /\ Tail(<<r, s>>) = <<s>>
      OBVIOUS
    <3>2. Count(<<r, s>>, x) = Hit(Head(<<r, s>>), x) + Count(Tail(<<r, s>>), x)
      BY <1>5, <3>1, CountTail
    <3>3. Count(<<s>>, x) = Hit(s, x)
      BY CountShort
    <3> QED
      BY <3>1, <3>2, <3>3
  <2>6. InNodes(x)' = InNodes(x) + Hit(r, x) + Hit(s, x) /\ InNodes(x) \in Nat
    <3>1. InNodes(x)' = InNodes(x) - Count(kids[b], x) + Count(kids'[b], x)
      BY <1>1, <1>4, <1>7, <1>8, InNodesStep
    <3>2. InNodes(x) \in Nat
      BY <1>1, InNodesType
    <3>3. Count(kids[b], x) = 0 /\ Count(kids'[b], x) = Hit(r, x) + Hit(s, x)
      BY <1>4, <1>7, <2>4, <2>5
    <3> QED
      BY <2>2, <3>1, <3>2, <3>3
  <2>7. strong[x] \in Nat /\ (strong[x] = 0 <=> kids[x] = << >>)
    BY <1>1 DEF CountsOwners, TreeType
  <2>8. strong'[x] = strong[x] + Hit(b, x) /\ (strong'[x] = 0 <=> kids'[x] = << >>)
    <3>1. CASE x = b
      <4>1. Hit(b, x) = 1
        BY <3>1 DEF Hit
      <4>2. strong'[x] = 1 /\ kids'[x] = <<r, s>> /\ strong[x] = 0
        BY <1>4, <1>7, <3>1
      <4>3. <<r, s>> # << >>
        OBVIOUS
      <4> QED
        BY <4>1, <4>2, <4>3
    <3>2. CASE x # b
      <4>1. Hit(b, x) = 0 /\ strong'[x] = strong[x] /\ kids'[x] = kids[x]
        BY <1>7, <3>2 DEF Hit
      <4> QED
        BY <2>7, <4>1
    <3> QED
      BY <3>1, <3>2
  <2>9. strong'[x] = strong[x] - InNodes(x) + InNodes(x)' - InThread(t, x) + InThread(t, x)'
    <3>1. strong'[x] = strong[x] + Hit(b, x)
      BY <2>8
    <3> QED
      BY <2>2, <2>3, <2>4, <2>6, <2>7, <3>1
  <2> QED
    BY <2>8, <2>9
<1>10. NodesFit'
  <2>1. Len(<<entry[t]>>) = 1 /\ Len(<<r, s>>) = 2 /\ 1 \in 1 .. SPLIT_LIMIT - 1 /\ 1 + 1 = 2
    BY LimitAssumption
  <2>2. Len(entries'[b]) \in 1 .. SPLIT_LIMIT - 1 /\ Len(kids'[b]) = Len(entries'[b]) + 1
    BY <1>7, <2>1
  <2>3. SUFFICES ASSUME NEW g \in Addr, strong'[g] # 0
                 PROVE  Len(entries'[g]) \in 1 .. SPLIT_LIMIT - 1 /\ Len(kids'[g]) = Len(entries'[g]) + 1
    BY DEF NodesFit, Fits
  <2>4. CASE g = b
    BY <2>2, <2>4
  <2>5. CASE g # b
    BY <1>1, <1>7, <2>3, <2>5 DEF NodesFit, Fits
  <2> QED
    BY <2>4, <2>5
<1> QED
  BY <1>8, <1>9, <1>10 DEF TreeInv

-----------------------------------------------------------------------------
(* Theorems *)

LEMMA InitInv == Init => TreeInv
<1>1. SUFFICES ASSUME Init PROVE TreeInv
  OBVIOUS
<1>2. /\ root = [t \in Thread |-> Null] /\ right = [t \in Thread |-> Null] /\ copy = [t \in Thread |-> Null]
      /\ dropping = [t \in Thread |-> << >>] /\ path = [t \in Thread |-> << >>]
      /\ entry = [t \in Thread |-> << >>] /\ pc = [t \in Thread |-> "idle"]
      /\ entries = [a \in Addr |-> << >>] /\ kids = [a \in Addr |-> << >>] /\ strong = [a \in Addr |-> 0]
  BY <1>1 DEF Init
<1>3. TreeType
  BY <1>2 DEF TreeType, Pointer, Label
<1>4. CountsOwners
  <2>1. SUFFICES ASSUME NEW a \in Addr PROVE Owners(a) = 0
    BY <1>2 DEF CountsOwners
  <2>2. a # Null
    BY AddrAssumption
  <2>3. Occurrences(kids, a) = {} /\ Occurrences(dropping, a) = {}
    BY <1>2 DEF Occurrences
  <2>4. Holders(root, a) = {} /\ Holders(copy, a) = {} /\ Holders(right, a) = {}
    BY <1>2, <2>2 DEF Holders
  <2> QED
    BY <2>3, <2>4, FS_EmptySet DEF Owners
<1>5. NodesFit
  BY <1>2 DEF NodesFit
<1>6. ASSUME NEW t \in Thread
      PROVE  OnPath(t) = {} /\ OfThread(t)
  <2>1. /\ root[t] = Null /\ right[t] = Null /\ copy[t] = Null /\ pc[t] = "idle"
        /\ path[t] = << >> /\ dropping[t] = << >>
    BY <1>2
  <2>2. OnPath(t) = {} /\ Own(t) = {}
    BY <2>1 DEF OnPath, Own
  <2> QED
    BY <2>1, <2>2 DEF OfThread, Locals, Inserting, PathLeads, OwnIsUnique
<1>7. PathsAreDisjoint
  BY <1>6 DEF PathsAreDisjoint
<1> QED
  BY <1>3, <1>4, <1>5, <1>6, <1>7 DEF TreeInv

LEMMA NextInv == TreeInv /\ [Next]_vars => TreeInv'
<1>1. SUFFICES ASSUME TreeInv, [Next]_vars PROVE TreeInv'
  OBVIOUS
<1>2. CASE UNCHANGED vars
  <2>1. /\ root' = root /\ entries' = entries /\ kids' = kids /\ strong' = strong /\ pc' = pc
        /\ entry' = entry /\ right' = right /\ path' = path /\ copy' = copy /\ dropping' = dropping
    BY <1>2 DEF vars, heap, insert
  <2>2. TreeType' /\ CountsOwners' /\ NodesFit'
    BY <1>1, <2>1 DEF TreeInv, TreeType, CountsOwners, Owners, NodesFit, Fits
  <2>3. ASSUME NEW t \in Thread
        PROVE  OnPath(t)' = OnPath(t) /\ OfThread(t)'
    <3>1. Own(t)' = Own(t) /\ OnPath(t)' = OnPath(t)
      BY <2>1 DEF Own, OnPath, Node, Here
    <3>2. Locals(t)' /\ PathLeads(t)'
      BY <1>1, <2>1 DEF TreeInv, OfThread, Locals, Inserting, PathLeads, Kid, Node
    <3>3. OwnIsUnique(t)'
      BY <1>1, <2>1, <3>1 DEF TreeInv, OfThread, OwnIsUnique, Node
    <3> QED
      BY <3>1, <3>2, <3>3 DEF OfThread
  <2>4. PathsAreDisjoint'
    BY <1>1, <2>3 DEF TreeInv, PathsAreDisjoint
  <2> QED
    BY <2>2, <2>3, <2>4 DEF TreeInv
<1>3. ASSUME NEW t \in Thread, Step(t)
      PROVE  TreeInv'
  <2>1. CASE DropNone(t) \/ DropShared(t) \/ DropLast(t)
    BY <1>1, <2>1, DropNoneInv, DropSharedInv, DropLastInv
  <2>2. CASE IsUnique(t) \/ CloneNode(t) \/ Assign(t)
    BY <1>1, <2>2, IsUniqueInv, CloneNodeInv, AssignInv
  <2>3. CASE Descend(t) \/ ReplaceValue(t)
    BY <1>1, <2>3, DescendInv, ReplaceValueInv
  <2>4. CASE Put(t) \/ Carry(t) \/ Grow(t)
    BY <1>1, <2>4, PutActionInv, CarryInv, GrowInv
  <2> QED
    BY <1>3, <2>1, <2>2, <2>3, <2>4 DEF Step
<1>4. ASSUME NEW t \in Thread, Call(t)
      PROVE  TreeInv'
  <2>1. ASSUME NEW e \in Key \X Value, InsertFirst(t, e) \/ Insert(t, e)
        PROVE  TreeInv'
    BY <1>1, <2>1, InsertFirstInv, InsertInv DEF Entry
  <2>2. ASSUME NEW u \in Thread, Clone(t, u)
        PROVE  TreeInv'
    BY <1>1, <2>2, CloneInv
  <2>3. CASE Drop(t)
    BY <1>1, <2>3, DropInv
  <2> QED
    BY <1>4, <2>1, <2>2, <2>3 DEF Call
<1> QED
  BY <1>1, <1>2, <1>3, <1>4 DEF Next

\* The nodes of all trees always have room for their entries and a kid on either
\* side of each, the path of every insert leads down from its root, and what an
\* insert has made its own is shared with nothing.
THEOREM TreeInvTheorem == Spec => []TreeInv
<1>1. Init => TreeInv
  BY InitInv
<1>2. TreeInv /\ [Next]_vars => TreeInv'
  BY NextInv
<1> QED
  BY <1>1, <1>2, PTL DEF Spec

\* Every node is counted once for each of its owners and freed with the last one,
\* for every number of trees that share nodes and of inserts and drops under way.
THEOREM CountsOwnersTheorem == Spec => []CountsOwners
<1>1. TreeInv => CountsOwners
  BY DEF TreeInv
<1> QED
  BY <1>1, TreeInvTheorem, PTL

\* What an insert changes belongs to its tree alone: Arc::is_unique, read before
\* the change, is not out of date when the change is made.
THEOREM ChangesItsOwnTheorem == Spec => []ChangesItsOwn
<1>1. ASSUME TreeInv PROVE ChangesItsOwn
  <2>1. SUFFICES ASSUME NEW t \in Thread
                 PROVE  /\ \A i \in 1 .. Len(path[t]) : strong[path[t][i][1]] = 1
                        /\ pc[t] = "mutate" => strong[Here(t)] = 1
    BY DEF ChangesItsOwn
  <2>2. OwnIsUnique(t) /\ path[t] \in Seq(Addr \X Nat)
    BY <1>1 DEF TreeInv, OfThread, TreeType
  <2>3. DOMAIN path[t] = 1 .. Len(path[t])
    BY <2>2, LenProperties
  <2>4. \A i \in DOMAIN path[t] : Node(t, i) \in Own(t)
    BY DEF OnPath, Own
  <2>5. pc[t] = "mutate" => Here(t) \in Own(t)
    BY DEF Own
  <2> QED
    BY <2>2, <2>3, <2>4, <2>5 DEF OwnIsUnique, Node
<1> QED
  BY <1>1, TreeInvTheorem, PTL


-----------------------------------------------------------------------------
(* Entries in order *)

\* all is s with v at k.
Inserted(S, s, k, v, all) ==
  s \in Seq(S) /\ v \in S /\ k \in 1 .. Len(s) + 1 /\ all = InsertAt(s, k, v)

LEMMA InsertAtElements ==
  ASSUME NEW S, NEW s, NEW k, NEW v, NEW all, Inserted(S, s, k, v, all)
  PROVE  /\ all \in Seq(S) /\ Len(all) = Len(s) + 1
         /\ \A j \in 1 .. Len(s) + 1 :
              all[j] = IF j < k THEN s[j] ELSE IF j = k THEN v ELSE s[j - 1]
<1>0. s \in Seq(S) /\ v \in S /\ k \in 1 .. Len(s) + 1
  BY DEF Inserted
<1> USE <1>0
<1>1. /\ Len(s) \in Nat /\ \A i \in 1 .. Len(s) : s[i] \in S
      /\ InsertAt(s, k, v) \in Seq(S) /\ Len(InsertAt(s, k, v)) = Len(s) + 1
  BY LenProperties, ElementOfSeq, CountInsertAt
<1>2. PICK l, r : l = SubSeq(s, 1, k - 1) /\ r = SubSeq(s, k, Len(s))
  OBVIOUS
<1>3. /\ l \in Seq(S) /\ Len(l) = k - 1 /\ \A j \in 1 .. k - 1 : l[j] = s[j]
      /\ r \in Seq(S) /\ Len(r) = Len(s) - k + 1
      /\ \A j \in 1 .. Len(s) - k + 1 : r[j] = s[k + j - 1]
  BY <1>1, <1>2, SubSeqProperties
<1>4. PICK w : w = <<v>>
  OBVIOUS
<1>5. w \in Seq(S) /\ Len(w) = 1 /\ w[1] = v
  BY <1>4
<1>6. PICK m : m = l \o w
  OBVIOUS
<1>7. /\ m \in Seq(S) /\ Len(m) = k
      /\ \A j \in 1 .. k : m[j] = IF j <= k - 1 THEN l[j] ELSE w[j - (k - 1)]
  <2>1. /\ m \in Seq(S) /\ Len(m) = Len(l) + Len(w)
        /\ \A j \in 1 .. Len(l) + Len(w) : m[j] = IF j <= Len(l) THEN l[j] ELSE w[j - Len(l)]
    BY <1>3, <1>5, <1>6, ConcatProperties
  <2>2. Len(l) + Len(w) = k
    BY <1>1, <1>3, <1>5
  <2> QED
    BY <1>3, <2>1, <2>2
<1>8. \A j \in 1 .. Len(s) + 1 : (m \o r)[j] = IF j <= k THEN m[j] ELSE r[j - k]
  <2>1. Len(m) + Len(r) = Len(s) + 1
    BY <1>1, <1>3, <1>7
  <2>2. \A j \in 1 .. Len(m) + Len(r) : (m \o r)[j] = IF j <= Len(m) THEN m[j] ELSE r[j - Len(m)]
    BY <1>3, <1>7, ConcatProperties
  <2> QED
    BY <1>7, <2>1, <2>2
<1>9. InsertAt(s, k, v) = m \o r
  BY <1>2, <1>4, <1>6 DEF InsertAt
<1>10. ASSUME NEW j \in 1 .. Len(s) + 1
       PROVE  (m \o r)[j] = IF j < k THEN s[j] ELSE IF j = k THEN v ELSE s[j - 1]
  <2>1. CASE j < k
    <3>1. j \in 1 .. k - 1 /\ j \in 1 .. k /\ j <= k
      BY <1>1, <2>1
    <3> QED
      BY <1>3, <1>7, <1>8, <2>1, <3>1
  <2>2. CASE j = k
    <3>1. j \in 1 .. k /\ ~(j <= k - 1) /\ j - (k - 1) = 1
      BY <1>1, <2>2
    <3> QED
      BY <1>5, <1>7, <1>8, <2>2, <3>1
  <2>3. CASE j > k
    <3>1. /\ j - k \in 1 .. Len(s) - k + 1 /\ k + (j - k) - 1 = j - 1
          /\ ~(j <= k) /\ ~(j < k) /\ j # k
      BY <1>1, <2>3
    <3>2. (m \o r)[j] = r[j - k]
      BY <1>8, <3>1
    <3>3. r[j - k] = s[k + (j - k) - 1]
      BY <1>3, <3>1
    <3> QED
      BY <3>1, <3>2, <3>3
  <2>4. j < k \/ j = k \/ j > k
    BY <1>1
  <2> QED
    BY <2>1, <2>2, <2>3, <2>4
<1>11. all = InsertAt(s, k, v)
  BY DEF Inserted
<1> QED
  BY <1>1, <1>9, <1>10, <1>11

\* The keys of a sequence of entries are numbers.
LEMMA KeysAreNumbers ==
  ASSUME NEW es \in Seq(Entry)
  PROVE  /\ Len(es) \in Nat /\ DOMAIN es = 1 .. Len(es)
         /\ \A j \in 1 .. Len(es) : es[j] \in Entry /\ es[j][1] \in Key /\ es[j][1] \in Nat
<1>1. Len(es) \in Nat /\ DOMAIN es = 1 .. Len(es) /\ \A j \in 1 .. Len(es) : es[j] \in Entry
  BY LenProperties, ElementOfSeq
<1> QED
  BY <1>1, KeyAssumption DEF Entry

LEMMA InsertOrder ==
  ASSUME NEW es \in Seq(Entry), NEW S \in SUBSET Key, InOrder(es, S),
         NEW i \in 1 .. Len(es) + 1, NEW e \in Entry, e[1] \in Between(es, i, S),
         NEW all, all = InsertAt(es, i, e)
  PROVE  /\ InOrder(all, S)
         /\ \A j \in 1 .. Len(es) + 2 : Between(all, j, S) =
              IF j < i THEN Between(es, j, S)
              ELSE IF j = i THEN {k \in Between(es, i, S) : k < e[1]}
              ELSE IF j = i + 1 THEN {k \in Between(es, i, S) : e[1] < k}
              ELSE Between(es, j - 1, S)
<1> DEFINE n == Len(es)
<1>1. /\ n \in Nat /\ DOMAIN es = 1 .. n
      /\ \A j \in 1 .. n : es[j][1] \in Nat
  BY KeysAreNumbers
<1>2. /\ DOMAIN all = 1 .. n + 1
      /\ \A j \in 1 .. n + 1 : all[j] = IF j < i THEN es[j] ELSE IF j = i THEN e ELSE es[j - 1]
  <2>1. Inserted(Entry, es, i, e, all)
    BY DEF Inserted
  <2>2. /\ all \in Seq(Entry) /\ Len(all) = n + 1
        /\ \A j \in 1 .. n + 1 : all[j] = IF j < i THEN es[j] ELSE IF j = i THEN e ELSE es[j - 1]
    BY <2>1, InsertAtElements
  <2> QED
    BY <2>2, LenProperties
<1>3. e[1] \in S /\ e[1] \in Nat /\ \A j \in 1 .. n : IF j < i THEN es[j][1] < e[1] ELSE e[1] < es[j][1]
  BY <1>1, KeyAssumption DEF Between, Entry
<1>4. \A j, k \in 1 .. n : es[j][1] \in S /\ (j < k => es[j][1] < es[k][1])
  BY <1>1 DEF InOrder
<1>5. S \subseteq Nat
  BY KeyAssumption
<1> HIDE DEF n
<1>6. ASSUME NEW j \in 1 .. n + 1, NEW k \in 1 .. n + 1
      PROVE  all[j][1] \in S /\ (j < k => all[j][1] < all[k][1])
  <2>1. all[j][1] \in S
    <3>1. j < i => j \in 1 .. n
      BY <1>1
    <3>2. j > i => j - 1 \in 1 .. n
      BY <1>1
    <3> QED
      BY <1>1, <1>2, <1>3, <1>4, <3>1, <3>2
  <2>2. ASSUME j < k
        PROVE  all[j][1] < all[k][1]
    <3>1. CASE k < i
      <4>1. j \in 1 .. n /\ k \in 1 .. n /\ j < i
        BY <1>1, <2>2, <3>1
      <4> QED
        BY <1>2, <1>4, <2>2, <3>1, <4>1
    <3>2. CASE k = i
      <4>1. j \in 1 .. n /\ j < i
        BY <1>1, <2>2, <3>2
      <4> QED
        BY <1>2, <1>3, <3>2, <4>1
    <3>3. CASE k > i /\ j < i
      <4>1. j \in 1 .. n /\ k - 1 \in 1 .. n /\ j < k - 1
        BY <1>1, <3>3
      <4>2. all[j] = es[j] /\ all[k] = es[k - 1]
        BY <1>1, <1>2, <3>3
      <4> QED
        BY <1>4, <4>1, <4>2
    <3>4. CASE k > i /\ j = i
      <4>1. k - 1 \in 1 .. n /\ ~(k - 1 < i)
        BY <1>1, <3>4
      <4>2. all[j] = e /\ all[k] = es[k - 1]
        BY <1>1, <1>2, <3>4
      <4> QED
        BY <1>3, <4>1, <4>2
    <3>5. CASE k > i /\ j > i
      <4>1. j - 1 \in 1 .. n /\ k - 1 \in 1 .. n /\ j - 1 < k - 1
        BY <1>1, <2>2, <3>5
      <4>2. all[j] = es[j - 1] /\ all[k] = es[k - 1]
        BY <1>1, <1>2, <3>5
      <4> QED
        BY <1>4, <4>1, <4>2
    <3> QED
      BY <1>1, <3>1, <3>2, <3>3, <3>4, <3>5
  <2> QED
    BY <2>1, <2>2
<1>7. InOrder(all, S)
  BY <1>2, <1>6 DEF InOrder
<1> DEFINE At(j, k) == \A m \in 1 .. n : IF m < j THEN es[m][1] < k ELSE k < es[m][1]
           After(j, k) == \A m \in 1 .. n + 1 : IF m < j THEN all[m][1] < k ELSE k < all[m][1]
<1>8. \A j : Between(es, j, S) = {k \in S : At(j, k)} /\ Between(all, j, S) = {k \in S : After(j, k)}
  BY <1>1, <1>2 DEF Between
<1>9. ASSUME NEW j \in 1 .. n + 2, NEW k \in S
      PROVE  After(j, k) <=> IF j < i THEN At(j, k)
                             ELSE IF j = i THEN At(i, k) /\ k < e[1]
                             ELSE IF j = i + 1 THEN At(i, k) /\ e[1] < k
                             ELSE At(j - 1, k)
  <2>1. ASSUME After(j, k), NEW m \in 1 .. n
        PROVE  IF (IF j <= i THEN m < j ELSE m < j - 1) THEN es[m][1] < k ELSE k < es[m][1]
    <3>1. m \in 1 .. n + 1 /\ m + 1 \in 1 .. n + 1
      BY <1>1
    <3>2. /\ IF m < j THEN all[m][1] < k ELSE k < all[m][1]
          /\ IF m + 1 < j THEN all[m + 1][1] < k ELSE k < all[m + 1][1]
      BY <2>1, <3>1
    <3>3. /\ m < i => all[m] = es[m]
          /\ ~(m < i) => all[m + 1] = es[m]
      BY <1>1, <1>2, <3>1
    <3> QED
      BY <1>1, <3>2, <3>3
  <2>2. After(j, k) => IF j <= i THEN k < e[1] ELSE e[1] < k
    <3>1. i \in 1 .. n + 1 /\ all[i] = e
      BY <1>2 DEF n
    <3> QED
      BY <1>1, <3>1
  <2>3. ASSUME j < i, At(j, k), NEW m \in 1 .. n + 1
        PROVE  IF m < j THEN all[m][1] < k ELSE k < all[m][1]
    <3>1. k < es[j][1] /\ es[j][1] < e[1] /\ j \in 1 .. n
      BY <1>1, <1>3, <2>3
    <3>2. m < i => m \in 1 .. n /\ all[m] = es[m]
      BY <1>1, <1>2
    <3>3. m > i => m - 1 \in 1 .. n /\ all[m] = es[m - 1] /\ ~(m - 1 < j)
      BY <1>1, <1>2, <2>3
    <3>4. m = i => all[m] = e
      BY <1>2
    <3> QED
      BY <1>1, <1>3, <1>5, <2>3, <3>1, <3>2, <3>3, <3>4
  <2>4. ASSUME j = i, At(i, k), k < e[1], NEW m \in 1 .. n + 1
        PROVE  IF m < j THEN all[m][1] < k ELSE k < all[m][1]
    <3>2. m < i => m \in 1 .. n /\ all[m] = es[m]
      BY <1>1, <1>2
    <3>3. m > i => m - 1 \in 1 .. n /\ all[m] = es[m - 1] /\ ~(m - 1 < i)
      BY <1>1, <1>2
    <3>4. m = i => all[m] = e
      BY <1>2
    <3> QED
      BY <1>1, <2>4, <3>2, <3>3, <3>4
  <2>5. ASSUME j = i + 1, At(i, k), e[1] < k, NEW m \in 1 .. n + 1
        PROVE  IF m < j THEN all[m][1] < k ELSE k < all[m][1]
    <3>2. m < i => m \in 1 .. n /\ all[m] = es[m]
      BY <1>1, <1>2
    <3>3. m > i => m - 1 \in 1 .. n /\ all[m] = es[m - 1] /\ ~(m - 1 < i)
      BY <1>1, <1>2
    <3>4. m = i => all[m] = e
      BY <1>2
    <3> QED
      BY <1>1, <2>5, <3>2, <3>3, <3>4
  <2>6. ASSUME j > i + 1, At(j - 1, k), NEW m \in 1 .. n + 1
        PROVE  IF m < j THEN all[m][1] < k ELSE k < all[m][1]
    <3>1. i \in 1 .. n /\ es[i][1] < k /\ e[1] < es[i][1]
      BY <1>1, <1>3, <2>6
    <3>2. m < i => m \in 1 .. n /\ all[m] = es[m] /\ m < j - 1
      BY <1>1, <1>2, <2>6
    <3>3. m > i => m - 1 \in 1 .. n /\ all[m] = es[m - 1]
      BY <1>1, <1>2
    <3>4. m = i => all[m] = e
      BY <1>2
    <3> QED
      BY <1>1, <1>3, <1>5, <2>6, <3>1, <3>2, <3>3, <3>4
  <2>7. CASE j < i
    <3>1. After(j, k) => At(j, k)
      BY <1>1, <2>1, <2>7
    <3>2. At(j, k) => After(j, k)
      BY <2>3, <2>7
    <3> QED
      BY <2>7, <3>1, <3>2
  <2>8. CASE j = i
    <3>1. After(j, k) => At(i, k) /\ k < e[1]
      BY <1>1, <2>1, <2>2, <2>8
    <3>2. At(i, k) /\ k < e[1] => After(j, k)
      BY <2>4, <2>8
    <3> QED
      BY <1>1, <2>8, <3>1, <3>2
  <2>9. CASE j = i + 1
    <3>1. After(j, k) => At(i, k) /\ e[1] < k
      BY <1>1, <2>1, <2>2, <2>9
    <3>2. At(i, k) /\ e[1] < k => After(j, k)
      BY <2>5, <2>9
    <3> QED
      BY <1>1, <2>9, <3>1, <3>2
  <2>10. CASE j > i + 1
    <3>1. After(j, k) => At(j - 1, k)
      BY <1>1, <2>1, <2>10
    <3>2. At(j - 1, k) => After(j, k)
      BY <2>6, <2>10
    <3> QED
      BY <1>1, <2>10, <3>1, <3>2
  <2> QED
    BY <1>1, <2>7, <2>8, <2>9, <2>10
<1> HIDE DEF At, After
<1>10. ASSUME NEW j \in 1 .. n + 2
       PROVE  Between(all, j, S) =
                IF j < i THEN Between(es, j, S)
                ELSE IF j = i THEN {k \in Between(es, i, S) : k < e[1]}
                ELSE IF j = i + 1 THEN {k \in Between(es, i, S) : e[1] < k}
                ELSE Between(es, j - 1, S)
  BY <1>8, <1>9
<1> QED
  BY <1>7, <1>10 DEF n

\* Places counted from a place on.
LEMMA Shifted ==
  ASSUME NEW n \in Nat, NEW p \in 1 .. n, NEW m \in 1 .. n, p < m, NEW j \in 1 .. n + 1 - p
  PROVE  m - p \in 1 .. n - p /\ p + (m - p) = m /\ (m - p < j <=> m < p + j)
OBVIOUS

\* What is left and right of an entry.
Halved(es, S, p, l, r, below, over) ==
  /\ es \in Seq(Entry) /\ S \in SUBSET Key /\ InOrder(es, S) /\ p \in 1 .. Len(es)
  /\ l = SubSeq(es, 1, p - 1) /\ r = SubSeq(es, p + 1, Len(es))
  /\ below = {k \in S : k < es[p][1]} /\ over = {k \in S : es[p][1] < k}

LEMMA SplitOrder ==
  ASSUME NEW es, NEW S, NEW p, NEW l, NEW r, NEW below, NEW over,
         Halved(es, S, p, l, r, below, over)
  PROVE  /\ InOrder(l, below) /\ InOrder(r, over)
         /\ \A j \in 1 .. p : Between(l, j, below) = Between(es, j, S)
         /\ \A j \in 1 .. Len(es) + 1 - p : Between(r, j, over) = Between(es, p + j, S)
<1>0. /\ es \in Seq(Entry) /\ S \in SUBSET Key /\ InOrder(es, S) /\ p \in 1 .. Len(es)
      /\ l = SubSeq(es, 1, p - 1) /\ r = SubSeq(es, p + 1, Len(es))
      /\ below = {k \in S : k < es[p][1]} /\ over = {k \in S : es[p][1] < k}
  BY DEF Halved
<1> USE <1>0
<1> DEFINE n == Len(es)
<1>1. /\ n \in Nat /\ DOMAIN es = 1 .. n /\ \A j \in 1 .. n : es[j] \in Entry
      /\ \A j \in 1 .. n : es[j][1] \in Nat
  BY KeysAreNumbers
<1>2. DOMAIN l = 1 .. p - 1 /\ \A j \in 1 .. p - 1 : l[j] = es[j]
  <2>1. l \in Seq(Entry) /\ Len(l) = p - 1 /\ \A j \in 1 .. p - 1 : l[j] = es[j]
    BY <1>1, SubSeqProperties
  <2> QED
    BY <2>1, LenProperties
<1>3. DOMAIN r = 1 .. n - p /\ \A j \in 1 .. n - p : r[j] = es[p + j]
  <2>1. r \in Seq(Entry) /\ Len(r) = n - p /\ \A j \in 1 .. n - p : r[j] = es[p + j]
    <3>1. PICK m \in 1 .. n + 1 : m = p + 1
      BY <1>1
    <3>2. r = SubSeq(es, m, n)
      BY <3>1
    <3>3. r \in Seq(Entry) /\ Len(r) = n - m + 1 /\ \A j \in 1 .. n - m + 1 : r[j] = es[m + j - 1]
      <4>1. m \in Int /\ n \in Int /\ \A j \in m .. n : es[j] \in Entry
        BY <1>1
      <4>2. /\ r \in Seq(Entry) /\ Len(r) = IF m <= n THEN n - m + 1 ELSE 0
            /\ \A j \in 1 .. n - m + 1 : r[j] = es[m + j - 1]
        BY <3>2, <4>1, SubSeqProperties
      <4>3. (IF m <= n THEN n - m + 1 ELSE 0) = n - m + 1
        <5>1. m \in 1 .. n + 1 /\ n \in Nat
          BY <1>1
        <5> HIDE DEF n
        <5> QED
          BY <5>1
      <4> QED
        BY <4>2, <4>3
    <3>4. n - m + 1 = n - p /\ \A j \in 1 .. n - p : m + j - 1 = p + j
      BY <1>1, <3>1
    <3> QED
      BY <3>3, <3>4
  <2> QED
    BY <2>1, LenProperties
<1>4. \A j, k \in 1 .. n : es[j][1] \in S /\ (j < k => es[j][1] < es[k][1])
  BY <1>1 DEF InOrder
<1>5. S \subseteq Nat
  BY KeyAssumption
<1>6. p \in 1 .. n
  OBVIOUS
<1> HIDE DEF n
<1>7. InOrder(l, below)
  <2>1. \A j \in 1 .. p - 1 : j \in 1 .. n /\ j < p
    BY <1>1, <1>6
  <2> QED
    BY <1>2, <1>4, <1>6, <2>1 DEF InOrder
<1>8. InOrder(r, over)
  <2>1. \A j \in 1 .. n - p : p + j \in 1 .. n /\ p < p + j
    BY <1>1, <1>6
  <2>2. \A j, k \in 1 .. n - p : j < k => p + j < p + k
    BY <1>1, <1>6
  <2>3. \A j \in 1 .. n - p : es[p + j][1] \in S /\ es[p][1] < es[p + j][1]
    BY <1>4, <1>6, <2>1
  <2>4. \A j, k \in 1 .. n - p : j < k => es[p + j][1] < es[p + k][1]
    BY <1>4, <2>1, <2>2
  <2> QED
    <3>1. \A j \in 1 .. n - p : r[j][1] \in over
      BY <1>3, <2>3
    <3>2. \A j, k \in 1 .. n - p : j < k => r[j][1] < r[k][1]
      BY <1>3, <2>4
    <3> QED
      BY <1>3, <3>1, <3>2 DEF InOrder
<1>9. ASSUME NEW j \in 1 .. p, NEW k \in S
      PROVE  k \in Between(l, j, below) <=> k \in Between(es, j, S)
  <2>1. ASSUME k \in Between(l, j, below), NEW m \in 1 .. n
        PROVE  IF m < j THEN es[m][1] < k ELSE k < es[m][1]
    <3>1. k < es[p][1] /\ \A x \in 1 .. p - 1 : IF x < j THEN es[x][1] < k ELSE k < es[x][1]
      BY <1>2, <2>1 DEF Between
    <3>2. m \in 1 .. p - 1 \/ m = p \/ p < m
      BY <1>1, <1>6
    <3>3. p < m => es[p][1] < es[m][1] /\ ~(m < j)
      BY <1>1, <1>4, <1>6
    <3> QED
      BY <1>1, <1>5, <1>6, <3>1, <3>2, <3>3
  <2>2. ASSUME k \in Between(es, j, S)
        PROVE  /\ k < es[p][1]
               /\ \A x \in 1 .. p - 1 : IF x < j THEN l[x][1] < k ELSE k < l[x][1]
    <3>1. \A m \in 1 .. n : IF m < j THEN es[m][1] < k ELSE k < es[m][1]
      BY <1>1, <2>2 DEF Between
    <3>2. ~(p < j) /\ \A x \in 1 .. p - 1 : x \in 1 .. n
      BY <1>1, <1>6
    <3> QED
      BY <1>2, <1>6, <3>1, <3>2
  <2>3. k \in Between(l, j, below) => k \in Between(es, j, S)
    BY <1>1, <2>1 DEF Between
  <2>4. k \in Between(es, j, S) => k \in Between(l, j, below)
    BY <1>2, <2>2 DEF Between
  <2> QED
    BY <2>3, <2>4
<1>10. ASSUME NEW j \in 1 .. n + 1 - p, NEW k \in S
       PROVE  k \in Between(r, j, over) <=> k \in Between(es, p + j, S)
  <2>1. ASSUME k \in Between(r, j, over), NEW m \in 1 .. n
        PROVE  IF m < p + j THEN es[m][1] < k ELSE k < es[m][1]
    <3>1. es[p][1] < k /\ \A x \in 1 .. n - p : IF x < j THEN es[p + x][1] < k ELSE k < es[p + x][1]
      BY <1>3, <2>1 DEF Between
    <3>2. CASE m <= p
      <4>1. m < p + j /\ (m = p \/ es[m][1] < es[p][1])
        BY <1>1, <1>4, <1>6, <3>2
      <4> QED
        BY <1>1, <1>5, <1>6, <3>1, <4>1
    <3>3. CASE p < m
      <4>0. n \in Nat /\ p \in 1 .. n /\ p < m /\ n + 1 - p \in Nat
        BY <1>1, <1>6, <3>3
      <4>1. m - p \in 1 .. n - p /\ p + (m - p) = m /\ (m - p < j <=> m < p + j)
        BY <4>0, Shifted
      <4> QED
        BY <3>1, <4>1
    <3> QED
      BY <1>6, <3>2, <3>3
  <2>2. ASSUME k \in Between(es, p + j, S)
        PROVE  /\ es[p][1] < k
               /\ \A x \in 1 .. n - p : IF x < j THEN r[x][1] < k ELSE k < r[x][1]
    <3>1. \A m \in 1 .. n : IF m < p + j THEN es[m][1] < k ELSE k < es[m][1]
      BY <1>1, <2>2 DEF Between
    <3>2. p < p + j /\ \A x \in 1 .. n - p : p + x \in 1 .. n /\ (x < j <=> p + x < p + j)
      BY <1>1, <1>6
    <3> QED
      BY <1>3, <1>6, <3>1, <3>2
  <2>3. k \in Between(r, j, over) => k \in Between(es, p + j, S)
    BY <1>1, <2>1 DEF Between
  <2>4. k \in Between(es, p + j, S) => k \in Between(r, j, over)
    BY <1>3, <2>2 DEF Between
  <2> QED
    BY <2>3, <2>4
<1>11. \A j : /\ Between(l, j, below) \subseteq S /\ Between(r, j, over) \subseteq S
              /\ Between(es, j, S) \subseteq S
  BY DEF Between
<1> QED
  BY <1>7, <1>8, <1>9, <1>10, <1>11 DEF n

-----------------------------------------------------------------------------
(* The order of the keys *)

\* Every node has a height, keys that belong under the pointer that leads to it,
\* and keys that belong in it and below: the same, unless the right half of the
\* node is still to be carried up.
NodeOrdered(a, deep, span, part) ==
  /\ InOrder(entries[a], part[a])
  /\ \A i \in DOMAIN kids[a] :
       /\ deep[a] = deep[kids[a][i]] + 1
       /\ kids[a][i] # Null => span[kids[a][i]] = Between(entries[a], i, part[a])

\* What an insert puts into a node belongs there, and what it is about to carry
\* up is the rest of what belongs under the pointer to the left half.
ThreadOrdered(t, deep, span, part) ==
  /\ root[t] # Null => span[root[t]] = Key
  /\ Inserting(t) => entry[t][1] \in span[Here(t)]
  /\ copy[t] # Null => deep[copy[t]] = deep[Here(t)] /\ span[copy[t]] = span[Here(t)]
  /\ right[t] # Null => /\ deep[right[t]] = deep[Here(t)]
                        /\ span[right[t]] = {k \in span[Here(t)] : entry[t][1] < k}
                        /\ part[Here(t)] = {k \in span[Here(t)] : k < entry[t][1]}

GhostType(deep, span, part) ==
  /\ deep \in [Pointer -> Nat] /\ deep[Null] = 0
  /\ span \in [Addr -> SUBSET Key] /\ part \in [Addr -> SUBSET Key]

Ordered(deep, span, part) ==
  /\ GhostType(deep, span, part)
  /\ \A a \in Nodes : /\ NodeOrdered(a, deep, span, part)
                      /\ part[a] # span[a] => \E t \in Thread : pc[t] = "carry" /\ Here(t) = a
  /\ \A t \in Thread : ThreadOrdered(t, deep, span, part)

OrderInv == \E deep, span, part : Ordered(deep, span, part)

LEMMA LiveKids ==
  ASSUME TreeInv, NEW a \in Addr, NEW i \in DOMAIN kids[a]
  PROVE  kids[a][i] \in Nodes \cup {Null}
<1>1. TreeType /\ CountsOwners
  BY DEF TreeInv
<1>2. kids[a][i] \in Pointer
  <2>1. kids[a] \in Seq(Pointer)
    BY <1>1 DEF TreeType
  <2> QED
    BY <2>1, LenProperties, ElementOfSeq
<1>3. Owners(kids[a][i]) # 0
  BY <1>1, KidOwns
<1> QED
  BY <1>1, <1>2, <1>3 DEF CountsOwners, Nodes, Pointer

\* The nodes that another thread has pointers to are live, and not the own ones
\* of an insert.
LEMMA OthersAreApart ==
  ASSUME TreeInv, NEW t \in Thread, NEW u \in Thread \ {t}
  PROVE  /\ root[u] # Null => root[u] \in Nodes \ Own(t)
         /\ copy[u] # Null => copy[u] \in Nodes \ Own(t)
         /\ right[u] # Null => right[u] \in Nodes \ Own(t)
         /\ Inserting(u) => Here(u) \in Nodes \ Own(t)
<1>1. TreeType /\ CountsOwners
  BY DEF TreeInv
<1>2. root[u] # Null => root[u] \in Nodes \ Own(t)
  <2>1. Owners(root[u]) # 0
    BY <1>1, RootOwns
  <2>2. root[u] \notin Own(t)
    BY OwnedByOne
  <2> QED
    BY <1>1, <2>1, <2>2 DEF TreeType, Pointer, CountsOwners, Nodes
<1>3. copy[u] # Null => copy[u] \in Nodes \ Own(t)
  <2>1. Owners(copy[u]) # 0
    BY <1>1, CopyOwns
  <2>2. copy[u] \notin Own(t)
    BY OwnedByOne
  <2> QED
    BY <1>1, <2>1, <2>2 DEF TreeType, Pointer, CountsOwners, Nodes
<1>4. right[u] # Null => right[u] \in Nodes \ Own(t)
  <2>1. Owners(right[u]) # 0
    BY <1>1, RightOwns
  <2>2. right[u] \notin Own(t)
    BY OwnedByOne
  <2> QED
    BY <1>1, <2>1, <2>2 DEF TreeType, Pointer, CountsOwners, Nodes
<1>5. Inserting(u) => Here(u) \in Nodes \ Own(t)
  BY HereIsANode, OwnIsApart DEF Nodes
<1> QED
  BY <1>2, <1>3, <1>4, <1>5

LEMMA HereStays ==
  ASSUME TreeInv, NEW u \in Thread, root'[u] = root[u], path'[u] = path[u],
         \A g \in OnPath(u) : kids'[g] = kids[g]
  PROVE  Here(u)' = Here(u)
<1>1. CASE Inserting(u)
  BY <1>1, PathStays
<1>2. CASE ~Inserting(u)
  <2>1. path[u] = << >>
    BY <1>2 DEF TreeInv, OfThread, Locals
  <2> QED
    BY <2>1 DEF Here
<1> QED
  BY <1>1, <1>2

\* A step that leaves the nodes as they are that are not its own leaves the other
\* inserts ordered.
SameGhost(a, deep, span, part, deep2, span2, part2) ==
  deep2[a] = deep[a] /\ span2[a] = span[a] /\ part2[a] = part[a]

LEMMA OthersOrdered ==
  ASSUME TreeInv, NEW t \in Thread, OnlyOf(t),
         \A u \in Thread \ {t} : \A g \in OnPath(u) : kids'[g] = kids[g],
         NEW deep, NEW span, NEW part, Ordered(deep, span, part),
         NEW deep2, NEW span2, NEW part2,
         \A a \in Nodes \ Own(t) : SameGhost(a, deep, span, part, deep2, span2, part2),
         NEW u \in Thread \ {t}
  PROVE  Here(u)' = Here(u) /\ ThreadOrdered(u, deep2, span2, part2)'
<1>1. /\ root'[u] = root[u] /\ pc'[u] = pc[u] /\ entry'[u] = entry[u] /\ right'[u] = right[u]
      /\ path'[u] = path[u] /\ copy'[u] = copy[u]
  BY DEF OnlyOf
<1>2. PICK h : h = Here(u)
  OBVIOUS
<1>3. Here(u)' = h
  BY <1>1, <1>2, HereStays
<1>4. /\ root[u] # Null => root[u] \in Nodes \ Own(t)
      /\ copy[u] # Null => copy[u] \in Nodes \ Own(t)
      /\ right[u] # Null => right[u] \in Nodes \ Own(t)
      /\ Inserting(u) => h \in Nodes \ Own(t)
  BY <1>2, OthersAreApart
<1>5. (copy[u] # Null => Inserting(u)) /\ (right[u] # Null => Inserting(u))
  BY DEF TreeInv, OfThread, Locals, Inserting
<1>6. /\ root[u] # Null => span[root[u]] = Key
      /\ Inserting(u) => entry[u][1] \in span[h]
      /\ copy[u] # Null => deep[copy[u]] = deep[h] /\ span[copy[u]] = span[h]
      /\ right[u] # Null => /\ deep[right[u]] = deep[h]
                            /\ span[right[u]] = {k \in span[h] : entry[u][1] < k}
                            /\ part[h] = {k \in span[h] : k < entry[u][1]}
  BY <1>2 DEF Ordered, ThreadOrdered
<1>7. Inserting(u)' = Inserting(u)
  BY <1>1 DEF Inserting
<1>8. /\ root[u] # Null => span2[root[u]] = Key
      /\ Inserting(u) => entry[u][1] \in span2[h]
      /\ copy[u] # Null => deep2[copy[u]] = deep2[h] /\ span2[copy[u]] = span2[h]
  BY <1>4, <1>5, <1>6 DEF SameGhost
<1>9. right[u] # Null => /\ deep2[right[u]] = deep2[h]
                         /\ span2[right[u]] = {k \in span2[h] : entry[u][1] < k}
                         /\ part2[h] = {k \in span2[h] : k < entry[u][1]}
  BY <1>4, <1>5, <1>6 DEF SameGhost
<1>10. ThreadOrdered(u, deep2, span2, part2)'
  BY <1>1, <1>3, <1>7, <1>8, <1>9 DEF ThreadOrdered
<1> QED
  BY <1>2, <1>3, <1>10

\* What a step has to show: that the nodes it changes, in Y, and its thread are
\* ordered.
NodeStays(a, deep, span, part, deep2, span2, part2) ==
  /\ a \in Nodes /\ entries'[a] = entries[a] /\ kids'[a] = kids[a]
  /\ SameGhost(a, deep, span, part, deep2, span2, part2)
  /\ \A i \in DOMAIN kids[a] : /\ deep2[kids[a][i]] = deep[kids[a][i]]
                               /\ kids[a][i] # Null => span2[kids[a][i]] = span[kids[a][i]]

LEMMA OrderStays ==
  ASSUME TreeInv, NEW t \in Thread, OnlyOf(t),
         \A u \in Thread \ {t} : \A g \in OnPath(u) : kids'[g] = kids[g],
         NEW deep, NEW span, NEW part, Ordered(deep, span, part),
         NEW deep2, NEW span2, NEW part2, GhostType(deep2, span2, part2),
         \A a \in Nodes \ Own(t) : SameGhost(a, deep, span, part, deep2, span2, part2),
         NEW Y,
         \A a \in Nodes' \ Y : NodeStays(a, deep, span, part, deep2, span2, part2),
         \A a \in Nodes' \cap Y :
           /\ NodeOrdered(a, deep2, span2, part2)'
           /\ part2[a] # span2[a] => pc'[t] = "carry" /\ Here(t)' = a,
         pc[t] = "carry" => Here(t) \in Y,
         ThreadOrdered(t, deep2, span2, part2)'
  PROVE  Ordered(deep2, span2, part2)'
<1>1. \A u \in Thread \ {t} : Here(u)' = Here(u) /\ ThreadOrdered(u, deep2, span2, part2)'
  BY OthersOrdered
<1>2. \A u \in Thread : ThreadOrdered(u, deep2, span2, part2)'
  BY <1>1
<1>3. ASSUME NEW a \in Nodes'
      PROVE  /\ NodeOrdered(a, deep2, span2, part2)'
             /\ part2[a] # span2[a] => \E u \in Thread : pc'[u] = "carry" /\ Here(u)' = a
  <2>1. CASE a \in Y
    BY <2>1
  <2>2. CASE a \notin Y
    <3>1. NodeStays(a, deep, span, part, deep2, span2, part2)
      BY <2>2
    <3>2. /\ a \in Nodes /\ entries'[a] = entries[a] /\ kids'[a] = kids[a]
          /\ deep2[a] = deep[a] /\ span2[a] = span[a] /\ part2[a] = part[a]
          /\ \A i \in DOMAIN kids[a] : /\ deep2[kids[a][i]] = deep[kids[a][i]]
                                       /\ kids[a][i] # Null => span2[kids[a][i]] = span[kids[a][i]]
      BY <3>1 DEF NodeStays, SameGhost
    <3>3. /\ NodeOrdered(a, deep, span, part)
          /\ part[a] # span[a] => \E u \in Thread : pc[u] = "carry" /\ Here(u) = a
      BY <3>2 DEF Ordered
    <3>4. NodeOrdered(a, deep2, span2, part2)'
      BY <3>2, <3>3 DEF NodeOrdered
    <3>5. ASSUME part2[a] # span2[a]
          PROVE  \E u \in Thread : pc'[u] = "carry" /\ Here(u)' = a
      <4>1. PICK u \in Thread : pc[u] = "carry" /\ Here(u) = a
        BY <3>2, <3>3, <3>5
      <4>2. u # t
        BY <2>2, <4>1
      <4>3. pc'[u] = "carry" /\ Here(u)' = a
        BY <1>1, <4>1, <4>2 DEF OnlyOf
      <4> QED
        BY <4>3
    <3> QED
      BY <3>4, <3>5
  <2> QED
    BY <2>1, <2>2
<1>4. GhostType(deep2, span2, part2)'
  BY DEF GhostType, Pointer
<1> QED
  BY <1>2, <1>3, <1>4 DEF Ordered

\* When no node changes, and none is half carried up, it is enough to show that
\* the thread is ordered.
LEMMA HeapStays ==
  ASSUME TreeInv, NEW t \in Thread, OnlyOf(t),
         NEW deep, NEW span, NEW part, Ordered(deep, span, part),
         \A u \in Thread \ {t} : \A g \in OnPath(u) : kids'[g] = kids[g],
         \A a \in Nodes' : a \in Nodes /\ entries'[a] = entries[a] /\ kids'[a] = kids[a],
         pc[t] # "carry",
         ThreadOrdered(t, deep, span, part)'
  PROVE  Ordered(deep, span, part)'
<1>1. GhostType(deep, span, part)
  BY DEF Ordered
<1>2. \A a \in Nodes \ Own(t) : SameGhost(a, deep, span, part, deep, span, part)
  BY DEF SameGhost
<1>3. \A a \in Nodes' \ {} : NodeStays(a, deep, span, part, deep, span, part)
  BY DEF NodeStays, SameGhost
<1>4. \A a \in Nodes' \cap {} : /\ NodeOrdered(a, deep, span, part)'
                                /\ part[a] # span[a] => pc'[t] = "carry" /\ Here(t)' = a
  OBVIOUS
<1> QED
  BY <1>1, <1>2, <1>3, <1>4, OrderStays

-----------------------------------------------------------------------------
(* Steps that change no node *)

LEMMA DropOrder ==
  ASSUME TreeInv, NEW t \in Thread, dropping[t] # << >>,
         NEW rest \in Seq(Pointer), DropRest(t, rest),
         \A u \in Thread : \A g \in Own(u) : kids'[g] = kids[g] /\ strong'[g] = strong[g],
         \A a \in Nodes' : a \in Nodes /\ entries'[a] = entries[a] /\ kids'[a] = kids[a],
         OrderInv
  PROVE  OrderInv'
<1>1. TreeType /\ Locals(t)
  BY DEF TreeInv, OfThread
<1>2. /\ root' = root /\ entry' = entry /\ right' = right /\ path' = path /\ copy' = copy
      /\ pc' = [pc EXCEPT ![t] = IF rest # << >> THEN pc[t]
                                 ELSE IF pc[t] = "drop_node" THEN "mutate" ELSE "idle"]
  BY DEF DropRest, Goto, insert
<1>3. OnlyOf(t)
  BY DropStays
<1>4. \A u \in Thread : \A g \in OnPath(u) : kids'[g] = kids[g]
  BY DEF Own
<1>5. pc[t] \in {"drop_node", "drop_tree"}
  BY <1>1 DEF Locals
<1>6. pc'[t] = IF rest # << >> THEN pc[t] ELSE IF pc[t] = "drop_node" THEN "mutate" ELSE "idle"
  BY <1>1, <1>2 DEF TreeType
<1>7. PICK deep, span, part : Ordered(deep, span, part)
  BY DEF OrderInv
<1>8. PICK h : h = Here(t)
  OBVIOUS
<1>9. Here(t)' = h
  BY <1>2, <1>4, <1>8, HereStays
<1>10. Inserting(t)' => Inserting(t)
  BY <1>5, <1>6 DEF Inserting
<1>11. ThreadOrdered(t, deep, span, part)
  BY <1>7 DEF Ordered
<1>12. ThreadOrdered(t, deep, span, part)'
  BY <1>2, <1>8, <1>9, <1>10, <1>11 DEF ThreadOrdered
<1>13. Ordered(deep, span, part)'
  BY <1>3, <1>4, <1>5, <1>7, <1>12, HeapStays
<1> QED
  BY <1>13 DEF OrderInv

LEMMA DropNoneOrder ==
  ASSUME TreeInv, NEW t \in Thread, DropNone(t), OrderInv
  PROVE  OrderInv'
<1>1. dropping[t] # << >> /\ DropRest(t, Tail(dropping[t]))
  BY DEF DropNone
<1>2. entries' = entries /\ kids' = kids /\ strong' = strong
  BY DEF DropNone, heap
<1>3. Tail(dropping[t]) \in Seq(Pointer)
  BY <1>1, HeadTailProperties DEF TreeInv, TreeType
<1>4. \A a \in Nodes' : a \in Nodes /\ entries'[a] = entries[a] /\ kids'[a] = kids[a]
  BY <1>2 DEF Nodes
<1> QED
  BY <1>1, <1>2, <1>3, <1>4, DropOrder

LEMMA DropSharedOrder ==
  ASSUME TreeInv, NEW t \in Thread, DropShared(t), OrderInv
  PROVE  OrderInv'
<1> DEFINE h == Head(dropping[t])
<1>1. Dropping(t) /\ DropRest(t, Tail(dropping[t]))
  BY DEF DropShared
<1>2. entries' = entries /\ kids' = kids /\ strong' = [strong EXCEPT ![h] = @ - 1]
  BY DEF DropShared
<1>3. /\ dropping[t] # << >> /\ h \in Addr /\ strong[h] \in Nat \ {0}
      /\ Tail(dropping[t]) \in Seq(Pointer) /\ \A u \in Thread : h \notin Own(u)
  BY <1>1, DroppedNode
<1>4. strong \in [Addr -> Nat]
  BY DEF TreeInv, TreeType
<1> HIDE DEF h
<1>5. \A u \in Thread : \A g \in Own(u) : kids'[g] = kids[g] /\ strong'[g] = strong[g]
  BY <1>2, <1>3, <1>4, OwnedByOne
<1>6. \A a \in Nodes' : a \in Nodes /\ entries'[a] = entries[a] /\ kids'[a] = kids[a]
  BY <1>2, <1>3, <1>4 DEF Nodes
<1> QED
  BY <1>1, <1>3, <1>5, <1>6, DropOrder

LEMMA DropLastOrder ==
  ASSUME TreeInv, NEW t \in Thread, DropLast(t), OrderInv
  PROVE  OrderInv'
<1> DEFINE h == Head(dropping[t])
           rest == kids[h] \o Tail(dropping[t])
<1>1. Dropping(t) /\ FreeNode(h) /\ DropRest(t, rest)
  BY DEF DropLast
<1>2. /\ strong' = [strong EXCEPT ![h] = 0]
      /\ entries' = [entries EXCEPT ![h] = << >>]
      /\ kids' = [kids EXCEPT ![h] = << >>]
  BY <1>1 DEF FreeNode
<1>3. /\ dropping[t] # << >> /\ h \in Addr
      /\ Tail(dropping[t]) \in Seq(Pointer) /\ \A u \in Thread : h \notin Own(u)
  BY <1>1, DroppedNode
<1>4. TreeType
  BY DEF TreeInv
<1>5. rest \in Seq(Pointer)
  BY <1>3, <1>4, ConcatProperties DEF TreeType
<1> HIDE DEF h, rest
<1>6. \A u \in Thread : \A g \in Own(u) : kids'[g] = kids[g] /\ strong'[g] = strong[g]
  BY <1>2, <1>3, <1>4, OwnedByOne DEF TreeType
<1>7. \A a \in Nodes' : a \in Nodes /\ entries'[a] = entries[a] /\ kids'[a] = kids[a]
  BY <1>2, <1>3, <1>4 DEF Nodes, TreeType
<1> QED
  BY <1>1, <1>3, <1>5, <1>6, <1>7, DropOrder

LEMMA CloneOrder ==
  ASSUME TreeInv, NEW t \in Thread, NEW u \in Thread, Clone(t, u), OrderInv
  PROVE  OrderInv'
<1>1. TreeType /\ Locals(t)
  BY DEF TreeInv, OfThread
<1>2. /\ root[u] # Null /\ pc[t] = "idle"
      /\ root' = [root EXCEPT ![t] = root[u]]
      /\ strong' = [strong EXCEPT ![root[u]] = @ + 1]
      /\ entries' = entries /\ kids' = kids /\ pc' = pc /\ entry' = entry /\ right' = right
      /\ path' = path /\ copy' = copy /\ dropping' = dropping
  BY DEF Clone, insert
<1>3. OnlyOf(t) /\ root'[t] = root[u]
  BY <1>1, <1>2 DEF OnlyOf, TreeType
<1>4. ~Inserting(t) /\ ~Inserting(t)' /\ copy[t] = Null /\ right[t] = Null
  BY <1>1, <1>2 DEF Inserting, Locals
<1>5. root[u] \in Nodes
  <2>1. Owners(root[u]) # 0
    BY <1>1, RootOwns
  <2> QED
    BY <1>1, <1>2, <2>1 DEF TreeInv, TreeType, Pointer, CountsOwners, Nodes
<1>6. \A a \in Nodes' : a \in Nodes /\ entries'[a] = entries[a] /\ kids'[a] = kids[a]
  BY <1>1, <1>2, <1>5 DEF Nodes, TreeType
<1>7. PICK deep, span, part : Ordered(deep, span, part)
  BY DEF OrderInv
<1>8. ThreadOrdered(t, deep, span, part)'
  <2>1. span[root[u]] = Key
    BY <1>2, <1>7 DEF Ordered, ThreadOrdered
  <2> QED
    BY <1>2, <1>3, <1>4, <2>1 DEF ThreadOrdered
<1>9. Ordered(deep, span, part)'
  BY <1>2, <1>3, <1>6, <1>7, <1>8, HeapStays
<1> QED
  BY <1>9 DEF OrderInv

LEMMA DropTreeOrder ==
  ASSUME TreeInv, NEW t \in Thread, Drop(t), OrderInv
  PROVE  OrderInv'
<1>1. TreeType /\ Locals(t)
  BY DEF TreeInv, OfThread
<1>2. /\ pc[t] = "idle" /\ pc' = [pc EXCEPT ![t] = "drop_tree"]
      /\ root' = [root EXCEPT ![t] = Null]
      /\ dropping' = [dropping EXCEPT ![t] = <<root[t]>>]
      /\ strong' = strong /\ entries' = entries /\ kids' = kids /\ entry' = entry /\ right' = right
      /\ path' = path /\ copy' = copy
  BY DEF Drop, Goto, heap, insert
<1>3. OnlyOf(t) /\ root'[t] = Null /\ pc'[t] = "drop_tree"
  BY <1>1, <1>2 DEF OnlyOf, TreeType
<1>4. ~Inserting(t)' /\ copy[t] = Null /\ right[t] = Null
  BY <1>1, <1>2, <1>3 DEF Inserting, Locals
<1>5. \A a \in Nodes' : a \in Nodes /\ entries'[a] = entries[a] /\ kids'[a] = kids[a]
  BY <1>2 DEF Nodes
<1>6. PICK deep, span, part : Ordered(deep, span, part)
  BY DEF OrderInv
<1>7. ThreadOrdered(t, deep, span, part)'
  BY <1>2, <1>3, <1>4 DEF ThreadOrdered
<1>8. Ordered(deep, span, part)'
  BY <1>2, <1>3, <1>5, <1>6, <1>7, HeapStays
<1> QED
  BY <1>8 DEF OrderInv

LEMMA InsertCallOrder ==
  ASSUME TreeInv, NEW t \in Thread, NEW e \in Entry, Insert(t, e), OrderInv
  PROVE  OrderInv'
<1>1. TreeType /\ Locals(t)
  BY DEF TreeInv, OfThread
<1>2. /\ pc[t] = "idle" /\ root[t] # Null
      /\ entry' = [entry EXCEPT ![t] = e]
      /\ pc' = [pc EXCEPT ![t] = "make_mut"]
      /\ root' = root /\ strong' = strong /\ entries' = entries /\ kids' = kids /\ right' = right
      /\ path' = path /\ copy' = copy /\ dropping' = dropping
  BY DEF Insert, Goto, heap
<1>3. OnlyOf(t) /\ entry'[t] = e
  BY <1>1, <1>2 DEF OnlyOf, TreeType
<1>4. path[t] = << >> /\ copy[t] = Null /\ right[t] = Null
  BY <1>1, <1>2 DEF Inserting, Locals
<1>5. Here(t)' = root[t]
  BY <1>2, <1>4 DEF Here
<1>6. \A a \in Nodes' : a \in Nodes /\ entries'[a] = entries[a] /\ kids'[a] = kids[a]
  BY <1>2 DEF Nodes
<1>7. PICK deep, span, part : Ordered(deep, span, part)
  BY DEF OrderInv
<1>8. span[root[t]] = Key /\ e[1] \in Key
  BY <1>2, <1>7 DEF Ordered, ThreadOrdered, Entry
<1>9. ThreadOrdered(t, deep, span, part)'
  BY <1>2, <1>3, <1>4, <1>5, <1>8 DEF ThreadOrdered
<1>10. Ordered(deep, span, part)'
  BY <1>2, <1>3, <1>6, <1>7, <1>9, HeapStays
<1> QED
  BY <1>10 DEF OrderInv

LEMMA IsUniqueOrder ==
  ASSUME TreeInv, NEW t \in Thread, IsUnique(t), OrderInv
  PROVE  OrderInv'
<1>1. TreeType /\ Locals(t)
  BY DEF TreeInv, OfThread
<1>2. /\ pc[t] = "make_mut"
      /\ pc' = [pc EXCEPT ![t] = IF strong[Here(t)] = 1 THEN "mutate" ELSE "clone"]
      /\ root' = root /\ strong' = strong /\ entries' = entries /\ kids' = kids /\ entry' = entry
      /\ right' = right /\ path' = path /\ copy' = copy /\ dropping' = dropping
  BY DEF IsUnique, Goto, heap, insert
<1>3. OnlyOf(t) /\ Inserting(t)
  BY <1>1, <1>2 DEF OnlyOf, TreeType, Inserting
<1>4. Here(t)' = Here(t)
  BY <1>2 DEF Here
<1>5. \A a \in Nodes' : a \in Nodes /\ entries'[a] = entries[a] /\ kids'[a] = kids[a]
  BY <1>2 DEF Nodes
<1>6. PICK deep, span, part : Ordered(deep, span, part)
  BY DEF OrderInv
<1>7. ThreadOrdered(t, deep, span, part)
  BY <1>6 DEF Ordered
<1>8. ThreadOrdered(t, deep, span, part)'
  BY <1>2, <1>3, <1>4, <1>7 DEF ThreadOrdered
<1>9. Ordered(deep, span, part)'
  BY <1>2, <1>3, <1>5, <1>6, <1>8, HeapStays
<1> QED
  BY <1>9 DEF OrderInv

\* A search that does not find its key ends between the keys around it.
LEMMA SearchBetween ==
  ASSUME TreeType, NEW a \in Addr, NEW S \in SUBSET Key, InOrder(entries[a], S),
         NEW k \in S, ~Holds(a, Search(a, k), k)
  PROVE  k \in Between(entries[a], Search(a, k), S)
<1> DEFINE es == entries[a]
           n == Len(es)
           larger == {i \in 1 .. n : es[i][1] >= k}
<1>1. PICK m : m = Search(a, k)
  OBVIOUS
<1>2. /\ n \in Nat /\ DOMAIN es = 1 .. n /\ \A j \in 1 .. n : es[j][1] \in Nat
  BY KeysAreNumbers DEF TreeType
<1>3. k \in Nat
  BY KeyAssumption
<1>4. m = IF larger = {} THEN n + 1 ELSE Min(larger)
  BY <1>1 DEF Search
<1>5. \A i, j \in 1 .. n : i < j => es[i][1] < es[j][1]
  BY <1>2 DEF InOrder
<1>6. m <= n => es[m][1] # k
  BY <1>1 DEF Holds
<1> HIDE DEF es
<1>7. larger # {} => Min(larger) \in larger /\ \A i \in larger : Min(larger) <= i
  <2>1. larger \in SUBSET (1 .. n)
    OBVIOUS
  <2> HIDE DEF larger
  <2> QED
    BY <1>2, <2>1, LeastNumber
<1> HIDE DEF n
<1>8. ASSUME NEW j \in 1 .. n
      PROVE  IF j < m THEN es[j][1] < k ELSE k < es[j][1]
  <2>1. CASE larger = {}
    BY <1>2, <1>3, <1>4, <2>1
  <2>2. CASE larger # {}
    <3>1. m \in larger /\ \A i \in larger : m <= i
      BY <1>4, <1>7, <2>2
    <3>2. m \in 1 .. n /\ es[m][1] >= k /\ es[m][1] \in Nat /\ es[j][1] \in Nat
      BY <1>2, <3>1
    <3>3. k < es[m][1]
      BY <1>3, <1>6, <3>2
    <3>4. j < m => es[j][1] < k
      BY <1>2, <1>3, <3>1, <3>2
    <3>5. m < j => es[m][1] < es[j][1]
      BY <1>5, <3>2
    <3> QED
      BY <1>3, <3>2, <3>3, <3>4, <3>5
  <2> QED
    BY <2>1, <2>2
<1> QED
  BY <1>1, <1>2, <1>8 DEF Between, es

\* The node that an insert is about to go through belongs in whole to it, unless
\* it carries its right half.
LEMMA HereIsWhole ==
  ASSUME TreeInv, NEW t \in Thread, Inserting(t), pc[t] # "carry",
         NEW deep, NEW span, NEW part, Ordered(deep, span, part)
  PROVE  part[Here(t)] = span[Here(t)]
<1>1. Here(t) \in Nodes
  BY HereIsANode DEF Nodes
<1>2. SUFFICES ASSUME NEW u \in Thread, pc[u] = "carry", Here(u) = Here(t)
               PROVE  FALSE
  BY <1>1 DEF Ordered
<1>3. u # t /\ Here(t) \in Own(u)
  BY <1>2 DEF Own
<1> QED
  BY <1>3, OwnIsApart

LEMMA DescendOrder ==
  ASSUME TreeInv, NEW t \in Thread, Descend(t), OrderInv
  PROVE  OrderInv'
<1>0. PICK h, k : h = Here(t) /\ k = Place(t)
  OBVIOUS
<1>1. TreeType /\ Locals(t)
  BY DEF TreeInv, OfThread
<1>2. /\ pc[t] = "mutate" /\ ~Holds(h, k, entry[t][1]) /\ kids[h][k] # Null
      /\ path' = [path EXCEPT ![t] = Append(@, <<h, k>>)]
      /\ pc' = [pc EXCEPT ![t] = "make_mut"]
      /\ entries' = entries /\ kids' = kids /\ strong' = strong /\ root' = root
      /\ entry' = entry /\ right' = right /\ copy' = copy /\ dropping' = dropping
  BY <1>0 DEF Descend, Goto, heap
<1>3. Inserting(t) /\ copy[t] = Null /\ right[t] = Null /\ entry[t] \in Entry
  BY <1>1, <1>2 DEF Inserting, Locals
<1>4. h \in Addr /\ strong[h] # 0 /\ Fits(h) /\ h \in Nodes
  BY <1>0, <1>3, HereIsANode DEF Nodes
<1>5. k \in DOMAIN kids[h]
  <2>1. k \in 1 .. Len(entries[h]) + 1 /\ Len(entries[h]) \in Nat
    BY <1>0, <1>1, <1>4, SearchEnds DEF Place
  <2>2. Len(kids[h]) = Len(entries[h]) + 1 /\ DOMAIN kids[h] = 1 .. Len(kids[h])
    BY <1>1, <1>4, LenProperties DEF Fits, TreeType
  <2> QED
    BY <2>1, <2>2
<1>6. OnlyOf(t) /\ path'[t] = Append(path[t], <<h, k>>)
  BY <1>1, <1>2 DEF OnlyOf, TreeType
<1>7. Here(t)' = kids[h][k]
  <2>1. path[t] \in Seq(Addr \X Nat) /\ <<h, k>> \in Addr \X Nat
    <3>1. DOMAIN kids[h] = 1 .. Len(kids[h]) /\ Len(kids[h]) \in Nat
      BY <1>1, <1>4, LenProperties DEF TreeType
    <3> QED
      BY <1>1, <1>4, <1>5, <3>1 DEF TreeType
  <2>2. /\ Append(path[t], <<h, k>>) # << >>
        /\ Append(path[t], <<h, k>>)[Len(Append(path[t], <<h, k>>))] = <<h, k>>
    BY <2>1, AppendProperties
  <2> QED
    BY <1>2, <1>6, <2>2 DEF Here, Last
<1>8. \A a \in Nodes' : a \in Nodes /\ entries'[a] = entries[a] /\ kids'[a] = kids[a]
  BY <1>2 DEF Nodes
<1>9. PICK deep, span, part : Ordered(deep, span, part)
  BY DEF OrderInv
<1>10. entry[t][1] \in span[kids[h][k]]
  <2>1. /\ NodeOrdered(h, deep, span, part) /\ entry[t][1] \in span[h]
        /\ part[h] \in SUBSET Key /\ part[h] = span[h]
    <3>1. NodeOrdered(h, deep, span, part) /\ ThreadOrdered(t, deep, span, part) /\ part[h] \in SUBSET Key
      BY <1>4, <1>9 DEF Ordered, GhostType
    <3>2. entry[t][1] \in span[h]
      BY <1>0, <1>3, <3>1 DEF ThreadOrdered
    <3>3. pc[t] # "carry"
      BY <1>2
    <3>4. part[h] = span[h]
      BY <1>0, <1>3, <1>9, <3>3, HereIsWhole
    <3> QED
      BY <3>1, <3>2, <3>4
  <2>2. InOrder(entries[h], part[h]) /\ span[kids[h][k]] = Between(entries[h], k, part[h])
    BY <1>2, <1>5, <2>1 DEF NodeOrdered
  <2>3. k = Search(h, entry[t][1])
    BY <1>0 DEF Place
  <2>4. entry[t][1] \in Between(entries[h], k, part[h])
    BY <1>1, <1>2, <1>4, <2>1, <2>2, <2>3, SearchBetween
  <2> QED
    BY <2>2, <2>4
<1>11. ThreadOrdered(t, deep, span, part)'
  <2>1. root[t] # Null => span[root[t]] = Key
    BY <1>9 DEF Ordered, ThreadOrdered
  <2> QED
    BY <1>2, <1>3, <1>7, <1>10, <2>1 DEF ThreadOrdered
<1>12. Ordered(deep, span, part)'
  BY <1>2, <1>6, <1>8, <1>9, <1>11, HeapStays
<1> QED
  BY <1>12 DEF OrderInv

-----------------------------------------------------------------------------
(* Steps that change one node *)

\* So does a node on the path of an insert.
LEMMA PathIsWhole ==
  ASSUME TreeInv, NEW t \in Thread, Inserting(t), NEW g \in OnPath(t),
         NEW deep, NEW span, NEW part, Ordered(deep, span, part)
  PROVE  part[g] = span[g]
<1>1. g \in Nodes
  BY OwnedByOne DEF Own, Nodes
<1>2. SUFFICES ASSUME NEW u \in Thread, pc[u] = "carry", Here(u) = g
               PROVE  FALSE
  BY <1>1 DEF Ordered
<1>3. g \in Own(u)
  BY <1>2 DEF Own
<1>4. u # t
  BY <1>2, HereIsNew
<1> QED
  BY <1>3, <1>4, OwnIsApart

\* What a node gets anew concerns no other.
Renewed(b, d, S, P, deep, span, part, deep2, span2, part2) ==
  /\ GhostType(deep, span, part) /\ b \in Addr
  /\ d \in Nat /\ deep2 = [deep EXCEPT ![b] = d]
  /\ S \in SUBSET Key /\ span2 = [span EXCEPT ![b] = S]
  /\ P \in SUBSET Key /\ part2 = [part EXCEPT ![b] = P]

LEMMA NewGhost ==
  ASSUME NEW b, NEW d, NEW S, NEW P, NEW deep, NEW span, NEW part, NEW deep2, NEW span2, NEW part2,
         Renewed(b, d, S, P, deep, span, part, deep2, span2, part2)
  PROVE  /\ GhostType(deep2, span2, part2)
         /\ deep2[b] = d /\ span2[b] = S /\ part2[b] = P
         /\ \A x \in Pointer \ {b} : deep2[x] = deep[x]
         /\ \A x \in Addr \ {b} : span2[x] = span[x] /\ part2[x] = part[x]
<1>0. /\ d \in Nat /\ deep2 = [deep EXCEPT ![b] = d]
      /\ S \in SUBSET Key /\ span2 = [span EXCEPT ![b] = S]
      /\ P \in SUBSET Key /\ part2 = [part EXCEPT ![b] = P]
  BY DEF Renewed
<1>1. b \in Addr /\ b \in Pointer /\ b # Null /\ GhostType(deep, span, part)
  BY AddrAssumption DEF Renewed, Pointer
<1>2. GhostType(deep2, span2, part2)
  BY <1>0, <1>1 DEF GhostType, Pointer
<1>3. deep2[b] = d /\ \A x \in Pointer \ {b} : deep2[x] = deep[x]
  BY <1>0, <1>1 DEF GhostType
<1>4. span2[b] = S /\ \A x \in Addr \ {b} : span2[x] = span[x]
  BY <1>0, <1>1 DEF GhostType
<1>5. part2[b] = P /\ \A x \in Addr \ {b} : part2[x] = part[x]
  BY <1>0, <1>1 DEF GhostType
<1> QED
  BY <1>2, <1>3, <1>4, <1>5

\* Other inserts stand apart from what one changes.
LEMMA OwnPathsStay ==
  ASSUME TreeInv, NEW t \in Thread, NEW X, X \cap Nodes \subseteq Own(t),
         \A g \in Addr \ X : kids'[g] = kids[g]
  PROVE  \A u \in Thread \ {t} : \A g \in OnPath(u) : kids'[g] = kids[g]
<1>1. SUFFICES ASSUME NEW u \in Thread \ {t}, NEW g \in OnPath(u)
               PROVE  kids'[g] = kids[g]
  OBVIOUS
<1>2. g \in Own(u) /\ g \notin Own(t)
  BY OwnIsApart DEF Own
<1>3. g \in Addr /\ g \in Nodes
  BY <1>2, OwnedByOne DEF Nodes
<1> QED
  BY <1>2, <1>3

\* A node that is free is not reached.
LEMMA NewIsNotReached ==
  ASSUME TreeInv, Free # {}
  PROVE  /\ New \in Addr /\ New # Null /\ New \notin Nodes
         /\ \A u \in Thread : New \notin Own(u) /\ root[u] # New /\ right[u] # New
         /\ \A g \in Addr : \A i \in DOMAIN kids[g] : kids[g][i] # New
BY NewIsFree DEF Nodes

LEMMA InsertFirstOrder ==
  ASSUME TreeInv, NEW t \in Thread, NEW e \in Entry, InsertFirst(t, e), OrderInv
  PROVE  OrderInv'
<1>0. PICK b : b = New
  OBVIOUS
<1>1. TreeType /\ Locals(t)
  BY DEF TreeInv, OfThread
<1>2. /\ pc[t] = "idle" /\ root[t] = Null /\ Free # {}
      /\ root' = [root EXCEPT ![t] = b]
      /\ entries' = [entries EXCEPT ![b] = <<e>>]
      /\ kids' = [kids EXCEPT ![b] = <<Null, Null>>]
      /\ strong' = [strong EXCEPT ![b] = 1]
      /\ pc' = pc /\ dropping' = dropping
      /\ entry' = entry /\ right' = right /\ path' = path /\ copy' = copy
  BY <1>0 DEF InsertFirst, insert
<1>3. /\ b \in Addr /\ b # Null /\ b \notin Nodes
      /\ \A g \in Addr : \A i \in DOMAIN kids[g] : kids[g][i] # b
  BY <1>0, <1>2, NewIsNotReached
<1>4. /\ OnlyOf(t) /\ root'[t] = b
      /\ strong'[b] = 1 /\ kids'[b] = <<Null, Null>> /\ entries'[b] = <<e>>
      /\ \A g \in Addr \ {b} : kids'[g] = kids[g] /\ entries'[g] = entries[g] /\ strong'[g] = strong[g]
  BY <1>1, <1>2, <1>3 DEF OnlyOf, TreeType
<1>5. ~Inserting(t)' /\ copy'[t] = Null /\ right'[t] = Null
  BY <1>1, <1>2 DEF Inserting, Locals
<1>6. PICK deep, span, part : Ordered(deep, span, part)
  BY DEF OrderInv
<1>7. GhostType(deep, span, part)
  BY <1>6 DEF Ordered
<1>8a. PICK deep2, span2, part2 : /\ deep2 = [deep EXCEPT ![b] = 1]
                                  /\ span2 = [span EXCEPT ![b] = Key] /\ part2 = [part EXCEPT ![b] = Key]
  OBVIOUS
<1>8. /\ GhostType(deep2, span2, part2)
      /\ deep2[b] = 1 /\ span2[b] = Key /\ part2[b] = Key
      /\ \A x \in Pointer \ {b} : deep2[x] = deep[x]
      /\ \A x \in Addr \ {b} : span2[x] = span[x] /\ part2[x] = part[x]
  <2>1. 1 \in Nat /\ Key \in SUBSET Key
    OBVIOUS
  <2>2. Renewed(b, 1, Key, Key, deep, span, part, deep2, span2, part2)
    BY <1>3, <1>7, <1>8a, <2>1 DEF Renewed
  <2> QED
    BY <2>2, NewGhost
<1>9. \A a \in Nodes \ Own(t) : SameGhost(a, deep, span, part, deep2, span2, part2)
  BY <1>3, <1>8 DEF SameGhost, Nodes, Pointer
<1>10. \A a \in Nodes' \ {b} : NodeStays(a, deep, span, part, deep2, span2, part2)
  <2>1. SUFFICES ASSUME NEW a \in Addr \ {b}, strong'[a] # 0
                 PROVE  NodeStays(a, deep, span, part, deep2, span2, part2)
    BY DEF Nodes
  <2>2. a \in Nodes /\ entries'[a] = entries[a] /\ kids'[a] = kids[a]
    BY <1>4, <2>1 DEF Nodes
  <2>3. SameGhost(a, deep, span, part, deep2, span2, part2)
    BY <1>8 DEF SameGhost, Pointer
  <2>4. \A i \in DOMAIN kids[a] : kids[a][i] \in Pointer \ {b} /\ (kids[a][i] # Null => kids[a][i] \in Addr \ {b})
    BY <1>3, LiveKids DEF Nodes, Pointer
  <2> QED
    BY <1>8, <2>2, <2>3, <2>4 DEF NodeStays
<1>11. NodeOrdered(b, deep2, span2, part2)'
  <2>1. InOrder(<<e>>, Key)
    BY DEF InOrder, Entry
  <2>2. deep2[Null] = 0
    BY <1>8 DEF GhostType
  <2>3. \A i \in DOMAIN kids'[b] : kids'[b][i] = Null
    BY <1>4
  <2> QED
    BY <1>4, <1>8, <2>1, <2>2, <2>3 DEF NodeOrdered
<1>12. ThreadOrdered(t, deep2, span2, part2)'
  BY <1>4, <1>5, <1>8 DEF ThreadOrdered
<1>13. \A u \in Thread \ {t} : \A g \in OnPath(u) : kids'[g] = kids[g]
  BY <1>3, <1>4, OwnPathsStay
<1>14. Ordered(deep2, span2, part2)'
  <2>1. \A a \in Nodes' \cap {b} :
          /\ NodeOrdered(a, deep2, span2, part2)'
          /\ part2[a] # span2[a] => pc'[t] = "carry" /\ Here(t)' = a
    BY <1>8, <1>11
  <2>2. pc[t] # "carry"
    BY <1>2
  <2>3. OnlyOf(t) /\ GhostType(deep2, span2, part2)
    BY <1>4, <1>8
  <2> QED
    BY <1>6, <1>9, <1>10, <1>12, <1>13, <2>1, <2>2, <2>3, OrderStays
<1> QED
  BY <1>14 DEF OrderInv

LEMMA CloneNodeOrder ==
  ASSUME TreeInv, NEW t \in Thread, CloneNode(t), OrderInv
  PROVE  OrderInv'
<1>0. PICK b, h : b = New /\ h = Here(t)
  OBVIOUS
<1>1. TreeType /\ CountsOwners /\ Locals(t)
  BY DEF TreeInv, OfThread
<1>2. /\ pc[t] = "clone" /\ Free # {}
      /\ entries' = [entries EXCEPT ![b] = entries[h]]
      /\ kids' = [kids EXCEPT ![b] = kids[h]]
      /\ strong' = [q \in Addr |-> IF q = b THEN 1 ELSE strong[q] + Count(kids[h], q)]
      /\ copy' = [copy EXCEPT ![t] = b]
      /\ pc' = [pc EXCEPT ![t] = "assign"]
      /\ root' = root /\ entry' = entry /\ right' = right /\ path' = path /\ dropping' = dropping
  BY <1>0 DEF CloneNode, Goto, Count, Holders
<1>3. Inserting(t) /\ right[t] = Null
  BY <1>1, <1>2 DEF Inserting, Locals
<1>4. /\ b \in Addr /\ b # Null /\ b \notin Nodes /\ root[t] # b /\ b \notin Own(t)
      /\ \A g \in Addr : \A i \in DOMAIN kids[g] : kids[g][i] # b
  BY <1>0, <1>2, NewIsNotReached
<1>5. h \in Addr /\ h \in Nodes /\ h # b /\ kids[h] \in Seq(Pointer)
  BY <1>0, <1>1, <1>3, <1>4, HereIsANode DEF TreeType, Nodes
<1>6. /\ OnlyOf(t) /\ copy'[t] = b /\ pc'[t] = "assign"
      /\ kids'[b] = kids[h] /\ entries'[b] = entries[h]
      /\ \A g \in Addr \ {b} : /\ kids'[g] = kids[g] /\ entries'[g] = entries[g]
                               /\ strong'[g] = strong[g] + Count(kids[h], g)
  BY <1>1, <1>2, <1>4 DEF OnlyOf, TreeType
<1>7. \A a \in Addr : Count(kids[h], a) # 0 => strong[a] # 0
  <2>1. SUFFICES ASSUME NEW a \in Addr, Count(kids[h], a) # 0
                 PROVE  strong[a] # 0
    OBVIOUS
  <2>2. PICK i \in DOMAIN kids[h] : kids[h][i] = a
    BY <1>5, <2>1, CountType
  <2>3. Owners(a) # 0
    BY <1>1, <1>5, <2>2, KidOwns
  <2> QED
    BY <1>1, <2>3 DEF CountsOwners
<1>8. \A a \in Nodes' \ {b} : a \in Nodes
  <2>1. SUFFICES ASSUME NEW a \in Addr \ {b}, strong[a] + Count(kids[h], a) # 0
                 PROVE  strong[a] # 0
    BY <1>6 DEF Nodes
  <2>2. Count(kids[h], a) \in Nat /\ strong[a] \in Nat
    BY <1>1, <1>5, CountType DEF TreeType
  <2> QED
    BY <1>7, <2>1, <2>2
<1>9. PICK deep, span, part : Ordered(deep, span, part)
  BY DEF OrderInv
<1>10. GhostType(deep, span, part) /\ NodeOrdered(h, deep, span, part) /\ ThreadOrdered(t, deep, span, part)
  BY <1>5, <1>9 DEF Ordered
<1>11. PICK d, S : d = deep[h] /\ S = span[h] /\ S = part[h] /\ d \in Nat /\ S \in SUBSET Key
  <2>1. pc[t] # "carry"
    BY <1>2
  <2>2. part[h] = span[h]
    BY <1>0, <1>3, <1>9, <2>1, HereIsWhole
  <2> QED
    BY <1>5, <1>10, <2>2 DEF GhostType, Pointer
<1>12a. PICK deep2, span2, part2 : /\ deep2 = [deep EXCEPT ![b] = d]
                                   /\ span2 = [span EXCEPT ![b] = S] /\ part2 = [part EXCEPT ![b] = S]
  OBVIOUS
<1>12. /\ GhostType(deep2, span2, part2)
       /\ deep2[b] = d /\ span2[b] = S /\ part2[b] = S
       /\ \A x \in Pointer \ {b} : deep2[x] = deep[x]
       /\ \A x \in Addr \ {b} : span2[x] = span[x] /\ part2[x] = part[x]
  <2>1. d \in Nat /\ S \in SUBSET Key
    BY <1>11
  <2>2. Renewed(b, d, S, S, deep, span, part, deep2, span2, part2)
    BY <1>4, <1>10, <1>11, <1>12a, <2>1 DEF Renewed
  <2> QED
    BY <2>2, NewGhost
<1>13. \A a \in Nodes \ Own(t) : SameGhost(a, deep, span, part, deep2, span2, part2)
  BY <1>4, <1>12 DEF SameGhost, Nodes, Pointer
<1>14. \A a \in Addr : \A i \in DOMAIN kids[a] :
         kids[a][i] \in Pointer \ {b} /\ (kids[a][i] # Null => kids[a][i] \in Addr \ {b})
  BY <1>4, LiveKids DEF Nodes, Pointer
<1>15. \A a \in Nodes' \ {b} : NodeStays(a, deep, span, part, deep2, span2, part2)
  <2>1. SUFFICES ASSUME NEW a \in Addr \ {b}, a \in Nodes
                 PROVE  NodeStays(a, deep, span, part, deep2, span2, part2)
    BY <1>8 DEF Nodes
  <2>2. SameGhost(a, deep, span, part, deep2, span2, part2)
    BY <1>12 DEF SameGhost, Pointer
  <2> QED
    BY <1>6, <1>12, <1>14, <2>1, <2>2 DEF NodeStays
<1>16. NodeOrdered(b, deep2, span2, part2)'
  <2>1. /\ InOrder(entries[h], S)
        /\ \A i \in DOMAIN kids[h] : /\ d = deep[kids[h][i]] + 1
                                     /\ kids[h][i] # Null => span[kids[h][i]] = Between(entries[h], i, S)
    BY <1>10, <1>11 DEF NodeOrdered
  <2>2. \A i \in DOMAIN kids[h] : /\ d = deep2[kids[h][i]] + 1
                                  /\ kids[h][i] # Null => span2[kids[h][i]] = Between(entries[h], i, S)
    BY <1>5, <1>12, <1>14, <2>1
  <2> QED
    BY <1>6, <1>12, <2>1, <2>2 DEF NodeOrdered
<1>17. \A g \in OnPath(t) : kids'[g] = kids[g]
  BY <1>4, <1>6, OwnedByOne DEF Own
<1>18. Here(t)' = h
  BY <1>0, <1>2, <1>17, HereStays
<1>19. ThreadOrdered(t, deep2, span2, part2)'
  <2>1. root[t] # Null => span2[root[t]] = Key
    BY <1>1, <1>4, <1>10, <1>12 DEF ThreadOrdered, TreeType, Pointer
  <2>2. entry[t][1] \in span2[h] /\ deep2[h] = d /\ span2[h] = S
    <3>1. h \in Addr \ {b} /\ h \in Pointer \ {b}
      BY <1>5 DEF Pointer
    <3>2. entry[t][1] \in span[h]
      BY <1>0, <1>3, <1>10 DEF ThreadOrdered
    <3> QED
      BY <1>11, <1>12, <3>1, <3>2
  <2> QED
    BY <1>2, <1>3, <1>6, <1>12, <1>18, <2>1, <2>2 DEF ThreadOrdered
<1>20. \A u \in Thread \ {t} : \A g \in OnPath(u) : kids'[g] = kids[g]
  BY <1>4, <1>6, OwnPathsStay
<1>21. Ordered(deep2, span2, part2)'
  <2>1. \A a \in Nodes' \cap {b} :
          /\ NodeOrdered(a, deep2, span2, part2)'
          /\ part2[a] # span2[a] => pc'[t] = "carry" /\ Here(t)' = a
    BY <1>12, <1>16
  <2>2. pc[t] # "carry"
    BY <1>2
  <2>3. OnlyOf(t) /\ GhostType(deep2, span2, part2)
    BY <1>6, <1>12
  <2> QED
    BY <1>9, <1>13, <1>15, <1>19, <1>20, <2>1, <2>2, <2>3, OrderStays
<1> QED
  BY <1>21 DEF OrderInv

LEMMA AssignOrder ==
  ASSUME TreeInv, NEW t \in Thread, Assign(t), OrderInv
  PROVE  OrderInv'
<1>0. PICK c, h, l, k : c = copy[t] /\ h = Here(t) /\ l = Last(path[t])[1] /\ k = Last(path[t])[2]
  OBVIOUS
<1>1. TreeType /\ Locals(t)
  BY DEF TreeInv, OfThread
<1>2. /\ pc[t] = "assign"
      /\ IF path[t] = << >>
           THEN root' = [root EXCEPT ![t] = c] /\ kids' = kids
           ELSE kids' = [kids EXCEPT ![l][k] = c] /\ root' = root
      /\ dropping' = [dropping EXCEPT ![t] = <<h>>]
      /\ copy' = [copy EXCEPT ![t] = Null]
      /\ pc' = [pc EXCEPT ![t] = "drop_node"]
      /\ entries' = entries /\ strong' = strong
      /\ entry' = entry /\ right' = right /\ path' = path
  BY <1>0 DEF Assign, Goto
<1>3. Inserting(t) /\ c # Null /\ right[t] = Null
  BY <1>0, <1>1, <1>2 DEF Inserting, Locals
<1>4. /\ h \in Addr
      /\ path[t] # << >> => /\ l \in OnPath(t) /\ l \in Addr
                            /\ k \in DOMAIN kids[l] /\ h = kids[l][k]
  BY <1>0, <1>3, HereIsANode DEF OnPath
<1>5. /\ OnlyOf(t) /\ copy'[t] = Null /\ pc'[t] = "drop_node"
      /\ root'[t] = IF path[t] = << >> THEN c ELSE root[t]
  BY <1>1, <1>2 DEF OnlyOf, TreeType
<1>6. path[t] # << >> => /\ kids'[l] = [kids[l] EXCEPT ![k] = c]
                         /\ \A g \in Addr \ {l} : kids'[g] = kids[g]
  BY <1>1, <1>2, <1>4 DEF TreeType
<1>7. PICK Y : Y = IF path[t] = << >> THEN {} ELSE {l}
  OBVIOUS
<1>8. Y \subseteq OnPath(t) /\ \A g \in Addr \ Y : kids'[g] = kids[g]
  BY <1>2, <1>4, <1>6, <1>7
<1>9. PICK deep, span, part : Ordered(deep, span, part)
  BY DEF OrderInv
<1>10. /\ GhostType(deep, span, part) /\ ThreadOrdered(t, deep, span, part)
       /\ deep[c] = deep[h] /\ span[c] = span[h]
  BY <1>0, <1>3, <1>9 DEF Ordered, ThreadOrdered
<1>11. ASSUME path[t] # << >>
       PROVE  NodeOrdered(l, deep, span, part)'
  <2>1. l \in Nodes
    BY <1>4, <1>11, OwnedByOne DEF Own, Nodes
  <2>2. NodeOrdered(l, deep, span, part)
    BY <1>9, <2>1 DEF Ordered
  <2>3. /\ DOMAIN kids'[l] = DOMAIN kids[l]
        /\ \A i \in DOMAIN kids[l] : kids'[l][i] = IF i = k THEN c ELSE kids[l][i]
    BY <1>4, <1>6, <1>11
  <2>4. h # Null
    BY <1>4, AddrAssumption
  <2>5. \A i \in DOMAIN kids'[l] :
          /\ deep[l] = deep[kids'[l][i]] + 1
          /\ kids'[l][i] # Null => span[kids'[l][i]] = Between(entries[l], i, part[l])
    BY <1>4, <1>10, <1>11, <2>2, <2>3, <2>4 DEF NodeOrdered
  <2> QED
    BY <1>2, <2>2, <2>5 DEF NodeOrdered
<1>12. Here(t)' = c
  <2>1. CASE path[t] = << >>
    BY <1>2, <1>5, <2>1 DEF Here
  <2>2. CASE path[t] # << >>
    BY <1>0, <1>2, <1>4, <1>6, <2>2 DEF Here
  <2> QED
    BY <2>1, <2>2
<1>13. ThreadOrdered(t, deep, span, part)'
  <2>1. root'[t] # Null => span[root'[t]] = Key
    <3>1. CASE path[t] = << >>
      <4>1. h = root[t] /\ root[t] # Null
        BY <1>0, <1>1, <1>3, <3>1 DEF Here, Locals
      <4> QED
        BY <1>5, <1>10, <3>1, <4>1 DEF ThreadOrdered
    <3>2. CASE path[t] # << >>
      BY <1>5, <1>10, <3>2 DEF ThreadOrdered
    <3> QED
      BY <3>1, <3>2
  <2>2. entry[t][1] \in span[c]
    BY <1>0, <1>3, <1>10 DEF ThreadOrdered
  <2> QED
    BY <1>2, <1>3, <1>5, <1>12, <2>1, <2>2 DEF ThreadOrdered
<1>14. \A u \in Thread \ {t} : \A g \in OnPath(u) : kids'[g] = kids[g]
  <2>1. Y \cap Nodes \subseteq Own(t)
    BY <1>8 DEF Own
  <2> QED
    BY <1>8, <2>1, OwnPathsStay
<1>15. Ordered(deep, span, part)'
  <2>1. \A a \in Nodes \ Own(t) : SameGhost(a, deep, span, part, deep, span, part)
    BY DEF SameGhost
  <2>2. \A a \in Nodes' \ Y : NodeStays(a, deep, span, part, deep, span, part)
    BY <1>2, <1>8 DEF NodeStays, SameGhost, Nodes
  <2>3. \A a \in Nodes' \cap Y :
          /\ NodeOrdered(a, deep, span, part)'
          /\ part[a] # span[a] => pc'[t] = "carry" /\ Here(t)' = a
    BY <1>3, <1>7, <1>8, <1>9, <1>11, PathIsWhole
  <2>4. pc[t] # "carry"
    BY <1>2
  <2> QED
    BY <1>5, <1>9, <1>10, <1>13, <1>14, <2>1, <2>2, <2>3, <2>4, OrderStays
<1> QED
  BY <1>15 DEF OrderInv

LEMMA ReplaceValueOrder ==
  ASSUME TreeInv, NEW t \in Thread, ReplaceValue(t), OrderInv
  PROVE  OrderInv'
<1>0. PICK h, k : h = Here(t) /\ k = Place(t)
  OBVIOUS
<1>1. TreeType /\ Locals(t) /\ OwnIsUnique(t)
  BY DEF TreeInv, OfThread
<1>2. /\ pc[t] = "mutate" /\ Holds(h, k, entry[t][1])
      /\ entry' = [entry EXCEPT ![t] = << >>] /\ right' = [right EXCEPT ![t] = Null]
      /\ path' = [path EXCEPT ![t] = << >>] /\ pc' = [pc EXCEPT ![t] = "idle"]
      /\ entries' = [entries EXCEPT ![h][k] = entry[t]]
      /\ kids' = kids /\ strong' = strong /\ root' = root /\ copy' = copy /\ dropping' = dropping
  BY <1>0 DEF ReplaceValue, Done, Goto
<1>3. Inserting(t) /\ copy[t] = Null
  BY <1>1, <1>2 DEF Inserting, Locals
<1>4. h \in Addr /\ h \in Nodes /\ entries[h] \in Seq(Entry)
  BY <1>0, <1>1, <1>3, HereIsANode DEF TreeType, Nodes
<1>5. k \in DOMAIN entries[h] /\ entries[h][k][1] = entry[t][1]
  <2>1. k \in 1 .. Len(entries[h]) + 1 /\ Len(entries[h]) \in Nat /\ DOMAIN entries[h] = 1 .. Len(entries[h])
    BY <1>0, <1>1, <1>4, SearchEnds, LenProperties DEF Place
  <2> QED
    BY <1>2, <2>1 DEF Holds
<1>6. /\ DOMAIN entries'[h] = DOMAIN entries[h]
      /\ \A i \in DOMAIN entries[h] : entries'[h][i][1] = entries[h][i][1]
      /\ \A g \in Addr \ {h} : entries'[g] = entries[g]
  BY <1>1, <1>2, <1>4, <1>5 DEF TreeType
<1>7. OnlyOf(t) /\ pc'[t] = "idle" /\ right'[t] = Null
  BY <1>1, <1>2 DEF OnlyOf, TreeType
<1>8. PICK deep, span, part : Ordered(deep, span, part)
  BY DEF OrderInv
<1>9. /\ GhostType(deep, span, part) /\ NodeOrdered(h, deep, span, part)
      /\ ThreadOrdered(t, deep, span, part)
  BY <1>4, <1>8 DEF Ordered
<1>10. NodeOrdered(h, deep, span, part)'
  <2>1. \A S : InOrder(entries[h], S) => InOrder(entries'[h], S)
    BY <1>6 DEF InOrder
  <2>2. \A i, S : Between(entries'[h], i, S) = Between(entries[h], i, S)
    BY <1>6 DEF Between
  <2> QED
    BY <1>2, <1>9, <2>1, <2>2 DEF NodeOrdered
<1>11. part[h] = span[h]
  <2>1. pc[t] # "carry"
    BY <1>2
  <2> QED
    BY <1>0, <1>3, <1>8, <2>1, HereIsWhole
<1>12. ThreadOrdered(t, deep, span, part)'
  <2>1. ~Inserting(t)' /\ copy'[t] = Null
    BY <1>2, <1>3, <1>7 DEF Inserting
  <2> QED
    BY <1>2, <1>7, <1>9, <2>1 DEF ThreadOrdered
<1>13. Ordered(deep, span, part)'
  <2>1. \A a \in Nodes \ Own(t) : SameGhost(a, deep, span, part, deep, span, part)
    BY DEF SameGhost
  <2>2. \A a \in Nodes' \ {h} : NodeStays(a, deep, span, part, deep, span, part)
    BY <1>2, <1>6 DEF NodeStays, SameGhost, Nodes
  <2>3. \A a \in Nodes' \cap {h} :
          /\ NodeOrdered(a, deep, span, part)'
          /\ part[a] # span[a] => pc'[t] = "carry" /\ Here(t)' = a
    BY <1>10, <1>11
  <2>4. pc[t] # "carry" /\ \A u \in Thread \ {t} : \A g \in OnPath(u) : kids'[g] = kids[g]
    BY <1>2
  <2> QED
    BY <1>7, <1>8, <1>9, <1>12, <2>1, <2>2, <2>3, <2>4, OrderStays
<1> QED
  BY <1>13 DEF OrderInv

-----------------------------------------------------------------------------
(* The way up *)

\* An entry and the node to its right enter between the entries and the nodes
\* around them.
Entering(es, ks, S, i, e, r, deep, span, d) ==
  /\ es \in Seq(Entry) /\ ks \in Seq(Pointer) /\ Len(ks) = Len(es) + 1
  /\ S \in SUBSET Key /\ InOrder(es, S) /\ i \in 1 .. Len(es) + 1
  /\ e \in Entry /\ e[1] \in Between(es, i, S) /\ r \in Pointer
  /\ \A j \in 1 .. Len(ks) :
       /\ d = deep[ks[j]] + 1
       /\ ks[j] # Null => span[ks[j]] = IF j = i THEN {k \in Between(es, i, S) : k < e[1]}
                                        ELSE Between(es, j, S)
  /\ d = deep[r] + 1
  /\ r # Null => span[r] = {k \in Between(es, i, S) : e[1] < k}

LEMMA EntersInOrder ==
  ASSUME NEW es, NEW ks, NEW S, NEW i, NEW e, NEW r, NEW deep, NEW span, NEW d,
         Entering(es, ks, S, i, e, r, deep, span, d),
         NEW all, all = InsertAt(es, i, e), NEW below, below = InsertAt(ks, i + 1, r)
  PROVE  /\ all \in Seq(Entry) /\ Len(all) = Len(es) + 1
         /\ below \in Seq(Pointer) /\ Len(below) = Len(es) + 2
         /\ InOrder(all, S)
         /\ \A j \in 1 .. Len(es) + 2 :
              d = deep[below[j]] + 1 /\ (below[j] # Null => span[below[j]] = Between(all, j, S))
<1>0. /\ es \in Seq(Entry) /\ ks \in Seq(Pointer) /\ Len(ks) = Len(es) + 1
      /\ S \in SUBSET Key /\ InOrder(es, S) /\ i \in 1 .. Len(es) + 1
      /\ e \in Entry /\ e[1] \in Between(es, i, S) /\ r \in Pointer
      /\ \A j \in 1 .. Len(ks) :
           /\ d = deep[ks[j]] + 1
           /\ ks[j] # Null => span[ks[j]] = IF j = i THEN {k \in Between(es, i, S) : k < e[1]}
                                            ELSE Between(es, j, S)
      /\ d = deep[r] + 1
      /\ r # Null => span[r] = {k \in Between(es, i, S) : e[1] < k}
  BY DEF Entering
<1>1. Len(es) \in Nat /\ i + 1 \in 1 .. Len(ks) + 1
  BY <1>0, LenProperties
<1>2. all \in Seq(Entry) /\ Len(all) = Len(es) + 1
  <2>1. Inserted(Entry, es, i, e, all)
    BY <1>0 DEF Inserted
  <2> QED
    BY <2>1, InsertAtElements
<1>3. /\ below \in Seq(Pointer) /\ Len(below) = Len(es) + 2
      /\ \A j \in 1 .. Len(es) + 2 :
           below[j] = IF j < i + 1 THEN ks[j] ELSE IF j = i + 1 THEN r ELSE ks[j - 1]
  <2>1. PICK m : m = i + 1
    OBVIOUS
  <2>2. Len(ks) + 1 = Len(es) + 2 /\ Inserted(Pointer, ks, m, r, below)
    BY <1>0, <1>1, <2>1 DEF Inserted
  <2>3. /\ below \in Seq(Pointer) /\ Len(below) = Len(ks) + 1
        /\ \A j \in 1 .. Len(ks) + 1 :
             below[j] = IF j < m THEN ks[j] ELSE IF j = m THEN r ELSE ks[j - 1]
    BY <2>2, InsertAtElements
  <2> QED
    BY <2>1, <2>2, <2>3
<1> USE <1>0
<1>4. /\ InOrder(all, S)
      /\ \A j \in 1 .. Len(es) + 2 : Between(all, j, S) =
           IF j < i THEN Between(es, j, S)
           ELSE IF j = i THEN {k \in Between(es, i, S) : k < e[1]}
           ELSE IF j = i + 1 THEN {k \in Between(es, i, S) : e[1] < k}
           ELSE Between(es, j - 1, S)
  BY InsertOrder
<1>5. ASSUME NEW j \in 1 .. Len(es) + 2
      PROVE  d = deep[below[j]] + 1 /\ (below[j] # Null => span[below[j]] = Between(all, j, S))
  <2>1. CASE j <= i
    <3>1. j \in 1 .. Len(ks) /\ j < i + 1 /\ (j < i \/ j = i) /\ (j < i => j # i)
      BY <1>1, <2>1
    <3>2. below[j] = ks[j]
      BY <1>3, <3>1
    <3>3. Between(all, j, S) = IF j = i THEN {k \in Between(es, i, S) : k < e[1]} ELSE Between(es, j, S)
      BY <1>4, <3>1
    <3> QED
      BY <3>1, <3>2, <3>3
  <2>2. CASE j = i + 1
    <3>1. ~(j < i) /\ j # i /\ ~(j < i + 1)
      BY <1>1, <2>2
    <3> QED
      BY <1>3, <1>4, <2>2, <3>1
  <2>3. CASE j > i + 1
    <3>1. j - 1 \in 1 .. Len(ks) /\ j - 1 # i /\ ~(j < i) /\ j # i /\ j # i + 1 /\ ~(j < i + 1)
      BY <1>1, <2>3
    <3>2. below[j] = ks[j - 1]
      BY <1>3, <3>1
    <3>3. Between(all, j, S) = Between(es, j - 1, S)
      BY <1>4, <3>1
    <3> QED
      BY <3>1, <3>2, <3>3
  <2>4. j <= i \/ j = i + 1 \/ j > i + 1
    BY <1>1
  <2> QED
    BY <2>1, <2>2, <2>3, <2>4
<1> QED
  BY <1>2, <1>3, <1>4, <1>5

\* The two halves of a node that splits.
Splitting(all, below, S, p, deep, span, d, el, er, l, r, L, R) ==
  /\ all \in Seq(Entry) /\ below \in Seq(Pointer) /\ Len(below) = Len(all) + 1
  /\ S \in SUBSET Key /\ InOrder(all, S) /\ p \in 1 .. Len(all)
  /\ \A j \in 1 .. Len(below) :
       d = deep[below[j]] + 1 /\ (below[j] # Null => span[below[j]] = Between(all, j, S))
  /\ el = SubSeq(all, 1, p - 1) /\ er = SubSeq(all, p + 1, Len(all))
  /\ l = SubSeq(below, 1, p) /\ r = SubSeq(below, p + 1, Len(below))
  /\ L = {k \in S : k < all[p][1]} /\ R = {k \in S : all[p][1] < k}

LEMMA HalvesInOrder ==
  ASSUME NEW all, NEW below, NEW S, NEW p, NEW deep, NEW span, NEW d,
         NEW el, NEW er, NEW l, NEW r, NEW L, NEW R,
         Splitting(all, below, S, p, deep, span, d, el, er, l, r, L, R)
  PROVE  /\ InOrder(el, L) /\ InOrder(er, R)
         /\ \A j \in DOMAIN l : /\ l[j] \in {below[m] : m \in 1 .. p}
                                /\ d = deep[l[j]] + 1
                                /\ l[j] # Null => span[l[j]] = Between(el, j, L)
         /\ \A j \in DOMAIN r : /\ r[j] \in {below[m] : m \in p + 1 .. Len(below)}
                                /\ d = deep[r[j]] + 1
                                /\ r[j] # Null => span[r[j]] = Between(er, j, R)
<1>0. /\ all \in Seq(Entry) /\ below \in Seq(Pointer) /\ Len(below) = Len(all) + 1
      /\ S \in SUBSET Key /\ InOrder(all, S) /\ p \in 1 .. Len(all)
      /\ \A j \in 1 .. Len(below) :
           d = deep[below[j]] + 1 /\ (below[j] # Null => span[below[j]] = Between(all, j, S))
      /\ el = SubSeq(all, 1, p - 1) /\ er = SubSeq(all, p + 1, Len(all))
      /\ l = SubSeq(below, 1, p) /\ r = SubSeq(below, p + 1, Len(below))
      /\ L = {k \in S : k < all[p][1]} /\ R = {k \in S : all[p][1] < k}
  BY DEF Splitting
<1>1. PICK n : /\ n = Len(all) /\ n \in Nat /\ p \in 1 .. n /\ Len(below) = n + 1
               /\ \A j \in 1 .. n + 1 : below[j] \in Pointer
  BY <1>0, LenProperties, ElementOfSeq
<1>2. /\ InOrder(el, L) /\ InOrder(er, R)
      /\ \A j \in 1 .. p : Between(el, j, L) = Between(all, j, S)
      /\ \A j \in 1 .. n + 1 - p : Between(er, j, R) = Between(all, p + j, S)
  <2>1. Halved(all, S, p, el, er, L, R)
    BY <1>0 DEF Halved
  <2> QED
    BY <1>1, <2>1, SplitOrder
<1>3. DOMAIN l = 1 .. p /\ \A j \in 1 .. p : l[j] = below[j]
  <2>1. p \in 1 .. Len(below) /\ l = SubSeq(below, 1, p)
    BY <1>0, <1>1
  <2>2. l \in Seq(Pointer) /\ Len(l) = p /\ \A j \in 1 .. p : l[j] = below[j]
    BY <1>1, <2>1, SubSeqProperties
  <2> QED
    BY <2>2, LenProperties
<1>4. DOMAIN r = 1 .. n + 1 - p /\ \A j \in 1 .. n + 1 - p : r[j] = below[p + j]
  <2>0. PICK m, k : m = p + 1 /\ k = n + 1
    OBVIOUS
  <2>1. m \in Nat /\ k \in Nat /\ m = p + 1 /\ k = n + 1 /\ m <= k /\ m \in 1 .. k
    BY <1>1, <2>0
  <2>2. r = SubSeq(below, m, k) /\ \A j \in m .. k : below[j] \in Pointer
    <3>1. r = SubSeq(below, m, k)
      BY <1>0, <1>1, <2>1
    <3>2. \A j \in m .. k : below[j] \in Pointer
      BY <1>1, <2>1
    <3> QED
      BY <3>1, <3>2
  <2>3. /\ r \in Seq(Pointer) /\ Len(r) = IF m <= k THEN k - m + 1 ELSE 0
        /\ \A j \in 1 .. k - m + 1 : r[j] = below[m + j - 1]
    BY <2>1, <2>2, SubSeqProperties
  <2>4. k - m + 1 = n + 1 - p /\ \A j \in 1 .. n + 1 - p : m + j - 1 = p + j
    BY <1>1, <2>1
  <2>5. DOMAIN r = 1 .. k - m + 1
    BY <2>1, <2>3, LenProperties
  <2> QED
    BY <2>3, <2>4, <2>5
<1>5. \A j \in 1 .. p : j \in 1 .. Len(below)
  BY <1>1
<1>6. \A j \in 1 .. n + 1 - p : p + j \in 1 .. Len(below) /\ p + j \in p + 1 .. Len(below)
  BY <1>1
<1>7. \A j \in DOMAIN l : /\ l[j] \in {below[m] : m \in 1 .. p}
                          /\ d = deep[l[j]] + 1
                          /\ l[j] # Null => span[l[j]] = Between(el, j, L)
  BY <1>0, <1>2, <1>3, <1>5
<1>8. \A j \in DOMAIN r : /\ r[j] \in {below[m] : m \in p + 1 .. Len(below)}
                          /\ d = deep[r[j]] + 1
                          /\ r[j] # Null => span[r[j]] = Between(er, j, R)
  <2>1. SUFFICES ASSUME NEW j \in 1 .. n + 1 - p
                 PROVE  /\ r[j] \in {below[m] : m \in p + 1 .. Len(below)}
                        /\ d = deep[r[j]] + 1
                        /\ r[j] # Null => span[r[j]] = Between(er, j, R)
    BY <1>4
  <2>2. PICK m \in 1 .. Len(below) : m = p + j /\ m \in p + 1 .. Len(below)
    BY <1>6
  <2>3. r[j] = below[m] /\ Between(er, j, R) = Between(all, m, S)
    BY <1>2, <1>4, <2>2
  <2> QED
    BY <1>0, <2>2, <2>3
<1> QED
  BY <1>2, <1>7, <1>8

\* What an insert is about to put into the node at a, at place i where q is: what
\* it carries up with it goes to the right of q, the half that was left of it.
Enters(t, a, i, q, deep, span, part) ==
  /\ a \in Own(t) /\ i \in 1 .. Len(entries[a]) + 1 /\ q = kids[a][i]
  /\ part[a] = span[a] /\ entry[t][1] \in Between(entries[a], i, part[a])
  /\ pc[t] = "carry" => q = Here(t)
  /\ deep[right[t]] = deep[q]
  /\ right[t] # Null =>
       span[right[t]] = {k \in Between(entries[a], i, part[a]) : entry[t][1] < k}
  /\ q # Null =>
       /\ q \in Own(t) /\ q # a /\ q # root[t]
       /\ part[q] = {k \in Between(entries[a], i, part[a]) : k < entry[t][1]}
       /\ \A g \in Addr : \A j \in DOMAIN kids[g] : kids[g][j] = q => g = a /\ j = i

LEMMA PutEnters ==
  ASSUME TreeInv, NEW t \in Thread, Put(t),
         NEW deep, NEW span, NEW part, Ordered(deep, span, part)
  PROVE  Enters(t, Here(t), Place(t), Null, deep, span, part)
<1>0. PICK h, k : h = Here(t) /\ k = Place(t)
  OBVIOUS
<1>1. TreeType /\ Locals(t)
  BY DEF TreeInv, OfThread
<1>2. pc[t] = "mutate" /\ ~Holds(h, k, entry[t][1]) /\ kids[h][k] = Null
  BY <1>0 DEF Put
<1>3. Inserting(t) /\ right[t] = Null
  BY <1>1, <1>2 DEF Inserting, Locals
<1>4. h \in Addr /\ h \in Nodes /\ h \in Own(t)
  BY <1>0, <1>2, <1>3, HereIsANode DEF Own, Nodes
<1>5. k \in 1 .. Len(entries[h]) + 1
  BY <1>0, <1>1, <1>4, SearchEnds DEF Place
<1>6. /\ NodeOrdered(h, deep, span, part) /\ entry[t][1] \in span[h] /\ part[h] \in SUBSET Key
      /\ part[h] = span[h]
  <2>1. NodeOrdered(h, deep, span, part) /\ ThreadOrdered(t, deep, span, part) /\ part[h] \in SUBSET Key
    BY <1>4 DEF Ordered, GhostType
  <2>2. pc[t] # "carry"
    BY <1>2
  <2>3. part[h] = span[h]
    BY <1>0, <1>3, <2>2, HereIsWhole
  <2> QED
    BY <1>0, <1>3, <2>1, <2>3 DEF ThreadOrdered
<1>7. entry[t][1] \in Between(entries[h], k, part[h])
  <2>1. k = Search(h, entry[t][1]) /\ InOrder(entries[h], part[h])
    BY <1>0, <1>6 DEF Place, NodeOrdered
  <2> QED
    BY <1>1, <1>2, <1>4, <1>6, <2>1, SearchBetween
<1> QED
  BY <1>0, <1>2, <1>3, <1>4, <1>5, <1>6, <1>7 DEF Enters

LEMMA CarryEnters ==
  ASSUME TreeInv, NEW t \in Thread, pc[t] = "carry", path[t] # << >>,
         NEW deep, NEW span, NEW part, Ordered(deep, span, part)
  PROVE  Enters(t, Last(path[t])[1], Last(path[t])[2], Here(t), deep, span, part)
<1>0. PICK a, i, q : a = Last(path[t])[1] /\ i = Last(path[t])[2] /\ q = Here(t)
  OBVIOUS
<1>1. TreeType /\ CountsOwners /\ NodesFit /\ Locals(t)
  BY DEF TreeInv, OfThread
<1>2. Inserting(t) /\ right[t] # Null
  BY <1>1 DEF Inserting, Locals
<1>3. /\ q \in Addr /\ a \in OnPath(t) /\ a \in Addr /\ i \in DOMAIN kids[a] /\ q = kids[a][i]
  BY <1>0, <1>2, HereIsANode DEF OnPath
<1>4. a \in Own(t) /\ q \in Own(t) /\ q # a
  BY <1>0, <1>2, <1>3, HereIsNew DEF Own
<1>5. strong[a] = 1 /\ strong[q] = 1 /\ a \in Nodes /\ q \in Nodes
  BY <1>3, <1>4, OwnedByOne DEF Nodes
<1>6. i \in 1 .. Len(entries[a]) + 1
  <2>1. Len(kids[a]) = Len(entries[a]) + 1 /\ DOMAIN kids[a] = 1 .. Len(kids[a])
    BY <1>1, <1>3, <1>5, LenProperties DEF NodesFit, Fits, TreeType
  <2> QED
    BY <1>3, <2>1
<1>7. /\ q # root[t]
      /\ \A g \in Addr : \A j \in DOMAIN kids[g] : kids[g][j] = q => g = a /\ j = i
  <2>1. Owners(q) = 1
    BY <1>1, <1>3, <1>5 DEF CountsOwners
  <2> QED
    BY <1>1, <1>3, <2>1, KidOwns
<1>8. part[a] = span[a]
  BY <1>2, <1>3, PathIsWhole
<1>9. NodeOrdered(a, deep, span, part) /\ ThreadOrdered(t, deep, span, part)
  BY <1>5 DEF Ordered
<1>10. span[q] = Between(entries[a], i, part[a])
  <2>1. q # Null
    BY <1>3, AddrAssumption
  <2> QED
    BY <1>3, <1>9, <2>1 DEF NodeOrdered
<1>11. /\ entry[t][1] \in span[q] /\ deep[right[t]] = deep[q]
       /\ span[right[t]] = {k \in span[q] : entry[t][1] < k}
       /\ part[q] = {k \in span[q] : k < entry[t][1]}
  BY <1>0, <1>2, <1>9 DEF ThreadOrdered
<1> QED
  BY <1>0, <1>3, <1>4, <1>6, <1>7, <1>8, <1>10, <1>11 DEF Enters

\* With the half that was carried up out of it, q is left with its own keys.
LEMMA EntersGhost ==
  ASSUME TreeInv, NEW t \in Thread, Inserting(t), NEW a, NEW i, NEW q,
         NEW deep, NEW span, NEW part, Ordered(deep, span, part),
         Enters(t, a, i, q, deep, span, part),
         NEW span2, span2 = [x \in Addr |-> IF x = q THEN part[x] ELSE span[x]]
  PROVE  /\ GhostType(deep, span2, part)
         /\ a \in Nodes /\ a # q /\ part[a] = span2[a]
         /\ \A x \in Nodes \ {q} : span2[x] = span[x]
         /\ q # Null => q \in Nodes /\ q \in Own(t) /\ span2[q] = part[q]
         /\ \A x \in Nodes \ {a} : \A j \in DOMAIN kids[x] :
              kids[x][j] # Null => kids[x][j] \in Nodes /\ span2[kids[x][j]] = span[kids[x][j]]
         /\ root[t] # Null => root[t] \in Nodes /\ span2[root[t]] = Key
<1>1. TreeType /\ CountsOwners /\ Locals(t)
  BY DEF TreeInv, OfThread
<1>2. GhostType(deep, span, part) /\ ThreadOrdered(t, deep, span, part)
  BY DEF Ordered
<1>3. GhostType(deep, span2, part)
  BY <1>2 DEF GhostType
<1>4. a \in Nodes /\ a \in Addr /\ (q # Null => q \in Nodes /\ q \in Own(t))
  BY OwnedByOne DEF Enters, Nodes
<1>5. a # q
  <2>1. q # Null => q # a
    BY DEF Enters
  <2>2. a # Null
    BY <1>4, AddrAssumption
  <2> QED
    BY <2>1, <2>2
<1>6. \A x \in Addr : span2[x] = IF x = q THEN part[x] ELSE span[x]
  OBVIOUS
<1>7. \A x \in Nodes \ {q} : span2[x] = span[x]
  BY <1>6 DEF Nodes
<1>8. q # Null => span2[q] = part[q]
  BY <1>4, <1>6 DEF Nodes
<1>9. part[a] = span2[a]
  BY <1>4, <1>5, <1>6 DEF Enters
<1>10. ASSUME NEW x \in Nodes \ {a}, NEW j \in DOMAIN kids[x], kids[x][j] # Null
       PROVE  kids[x][j] \in Nodes /\ span2[kids[x][j]] = span[kids[x][j]]
  <2>1. x \in Addr
    BY DEF Nodes
  <2>2. kids[x][j] \in Nodes
    BY <1>10, <2>1, LiveKids
  <2>3. kids[x][j] # q
    BY <1>10, <2>1 DEF Enters
  <2> QED
    BY <1>7, <2>2, <2>3
<1>11. ASSUME root[t] # Null
       PROVE  root[t] \in Nodes /\ span2[root[t]] = Key
  <2>1. Owners(root[t]) # 0
    BY <1>1, RootOwns
  <2>2. root[t] \in Nodes
    BY <1>1, <1>11, <2>1 DEF TreeType, Pointer, CountsOwners, Nodes
  <2>3. root[t] # q
    BY <1>11 DEF Enters
  <2>4. span[root[t]] = Key
    BY <1>2, <1>11 DEF ThreadOrdered
  <2> QED
    BY <1>7, <2>2, <2>3, <2>4
<1> QED
  BY <1>3, <1>4, <1>5, <1>7, <1>8, <1>9, <1>10, <1>11

LEMMA EntersNode ==
  ASSUME TreeInv, NEW t \in Thread, Inserting(t), NEW a, NEW i, NEW q,
         NEW deep, NEW span, NEW part, Ordered(deep, span, part),
         Enters(t, a, i, q, deep, span, part),
         NEW span2, span2 = [x \in Addr |-> IF x = q THEN part[x] ELSE span[x]],
         NEW all, all = AllOf(t, a, i), NEW below, below = BelowOf(t, a, i)
  PROVE  /\ all \in Seq(Entry) /\ below \in Seq(Pointer) /\ Len(below) = Len(all) + 1
         /\ InOrder(all, part[a])
         /\ \A j \in 1 .. Len(below) :
              /\ below[j] \in Nodes \cup {Null}
              /\ deep[a] = deep[below[j]] + 1
              /\ below[j] # Null => span2[below[j]] = Between(all, j, part[a])
<1>1. TreeType /\ CountsOwners /\ NodesFit /\ Locals(t)
  BY DEF TreeInv, OfThread
<1>2. a \in Addr /\ strong[a] # 0 /\ a \in Nodes
  BY OwnedByOne DEF Enters, Nodes
<1>3. i \in 1 .. Len(entries[a]) + 1
  BY DEF Enters
<1>4. PICK es, ks, e, r, S : es = entries[a] /\ ks = kids[a] /\ e = entry[t] /\ r = right[t] /\ S = part[a]
  OBVIOUS
<1>5. /\ es \in Seq(Entry) /\ ks \in Seq(Pointer) /\ Len(ks) = Len(es) + 1 /\ e \in Entry /\ r \in Pointer
      /\ DOMAIN ks = 1 .. Len(ks) /\ Len(es) \in Nat /\ i \in 1 .. Len(es) + 1
  BY <1>1, <1>2, <1>3, <1>4, LenProperties DEF TreeType, Locals, NodesFit, Fits
<1>6. /\ NodeOrdered(a, deep, span, part) /\ S \in SUBSET Key
  BY <1>2, <1>4 DEF Ordered, GhostType, Nodes
<1>7. InOrder(es, S) /\ e[1] \in Between(es, i, S)
  BY <1>4, <1>6 DEF NodeOrdered, Enters
<1>8. r # Null => r \in Nodes /\ r # q
  <2>1. Owners(r) # 0
    BY <1>1, <1>4, RightOwns
  <2>2. r # Null => r \in Nodes
    BY <1>1, <1>5, <2>1 DEF Pointer, CountsOwners, Nodes
  <2>3. q # Null => q # r
    BY <1>4, OwnedByOne DEF Enters
  <2> QED
    BY <2>2, <2>3
<1>9. /\ \A x \in Nodes \ {q} : span2[x] = span[x]
      /\ q # Null => span2[q] = part[q]
  BY EntersGhost
<1>10. ASSUME NEW j \in 1 .. Len(ks)
       PROVE  /\ ks[j] \in Nodes \cup {Null}
              /\ deep[a] = deep[ks[j]] + 1
              /\ ks[j] # Null => span2[ks[j]] = IF j = i THEN {k \in Between(es, i, S) : k < e[1]}
                                                ELSE Between(es, j, S)
  <2>1. ks[j] \in Nodes \cup {Null}
    BY <1>2, <1>4, <1>5, LiveKids
  <2>2. deep[a] = deep[ks[j]] + 1 /\ (ks[j] # Null => span[ks[j]] = Between(es, j, S))
    BY <1>4, <1>5, <1>6 DEF NodeOrdered
  <2>3. CASE j = i
    <3>1. q = ks[j] /\ (q # Null => part[q] = {k \in Between(es, i, S) : k < e[1]})
      BY <1>4, <2>3 DEF Enters
    <3> QED
      BY <1>9, <2>1, <2>2, <2>3, <3>1
  <2>4. CASE j # i
    <3>1. ks[j] # Null => ks[j] # q
      BY <1>2, <1>4, <1>5, <2>4 DEF Enters
    <3> QED
      BY <1>9, <2>1, <2>2, <2>4, <3>1
  <2> QED
    BY <2>3, <2>4
<1>11. deep[a] = deep[r] + 1
  <2>1. q = ks[i] /\ deep[r] = deep[q] /\ i \in 1 .. Len(ks)
    BY <1>4, <1>5 DEF Enters
  <2> QED
    BY <1>10, <2>1
<1>12. r # Null => span2[r] = {k \in Between(es, i, S) : e[1] < k}
  BY <1>4, <1>8, <1>9 DEF Enters
<1>13. all = InsertAt(es, i, e) /\ below = InsertAt(ks, i + 1, r)
  BY <1>4 DEF AllOf, BelowOf
<1>14. PICK d : d = deep[a]
  OBVIOUS
<1>15. \A j \in 1 .. Len(ks) :
         /\ d = deep[ks[j]] + 1
         /\ ks[j] # Null => span2[ks[j]] = IF j = i THEN {k \in Between(es, i, S) : k < e[1]}
                                           ELSE Between(es, j, S)
  BY <1>10, <1>14
<1>16. d = deep[r] + 1
  BY <1>11, <1>14
<1>17. /\ all \in Seq(Entry) /\ Len(all) = Len(es) + 1
       /\ below \in Seq(Pointer) /\ Len(below) = Len(es) + 2
       /\ InOrder(all, S)
       /\ \A j \in 1 .. Len(es) + 2 :
            d = deep[below[j]] + 1 /\ (below[j] # Null => span2[below[j]] = Between(all, j, S))
  <2>1. /\ es \in Seq(Entry) /\ ks \in Seq(Pointer) /\ Len(ks) = Len(es) + 1 /\ S \in SUBSET Key
        /\ i \in 1 .. Len(es) + 1 /\ e \in Entry /\ r \in Pointer
    BY <1>5, <1>6
  <2>2. Entering(es, ks, S, i, e, r, deep, span2, d)
    BY <1>7, <1>12, <1>15, <1>16, <2>1 DEF Entering
  <2> QED
    BY <1>13, <2>2, EntersInOrder
<1>18. \A j \in 1 .. Len(es) + 2 : below[j] \in Nodes \cup {Null}
  <2>1. PICK m : m = i + 1
    OBVIOUS
  <2>2. m \in 1 .. Len(ks) + 1 /\ below = InsertAt(ks, m, r) /\ Len(ks) + 1 = Len(es) + 2
    BY <1>5, <1>13, <2>1
  <2>3. ks \in Seq(Nodes \cup {Null}) /\ r \in Nodes \cup {Null}
    <3>1. \A j \in 1 .. Len(ks) : ks[j] \in Nodes \cup {Null}
      BY <1>10
    <3>2. ks \in [1 .. Len(ks) -> Nodes \cup {Null}] /\ Len(ks) \in Nat
      <4>1. ks \in [1 .. Len(ks) -> Pointer] /\ Len(ks) \in Nat
        BY <1>5, LenProperties
      <4> QED
        BY <3>1, <4>1
    <3> QED
      BY <1>8, <3>2, SeqDef
  <2>4. below \in Seq(Nodes \cup {Null}) /\ Len(below) = Len(ks) + 1
    <3>1. Inserted(Nodes \cup {Null}, ks, m, r, below)
      BY <2>2, <2>3 DEF Inserted
    <3> QED
      BY <3>1, InsertAtElements
  <2> QED
    BY <2>2, <2>4, ElementOfSeq
<1>19. Len(below) = Len(all) + 1 /\ Len(below) = Len(es) + 2
  BY <1>5, <1>17
<1> QED
  BY <1>4, <1>14, <1>17, <1>18, <1>19

\* The ghosts of the nodes stay, but that of q.
LEMMA PutsOrder ==
  ASSUME TreeInv, NEW t \in Thread, NEW a, Changes(t, a), NEW i, Puts(t, a, i), NEW q,
         NEW deep, NEW span, NEW part, Ordered(deep, span, part),
         Enters(t, a, i, q, deep, span, part)
  PROVE  OrderInv'
<1>0. PICK all, below : all = AllOf(t, a, i) /\ below = BelowOf(t, a, i)
  OBVIOUS
<1>1. TreeType /\ Locals(t)
  BY DEF TreeInv, OfThread
<1>2. /\ Inserting(t) /\ copy[t] = Null /\ a \in Addr
      /\ entries' = [entries EXCEPT ![a] = all] /\ kids' = [kids EXCEPT ![a] = below]
      /\ strong' = strong /\ root' = root /\ copy' = copy /\ dropping' = dropping
      /\ entry' = [entry EXCEPT ![t] = << >>] /\ right' = [right EXCEPT ![t] = Null]
      /\ path' = [path EXCEPT ![t] = << >>] /\ pc' = [pc EXCEPT ![t] = "idle"]
  BY <1>0 DEF Changes, Puts, Done, Goto
<1>3. PICK span2 : span2 = [x \in Addr |-> IF x = q THEN part[x] ELSE span[x]]
  OBVIOUS
<1>4. /\ GhostType(deep, span2, part)
      /\ a \in Nodes /\ a # q /\ part[a] = span2[a]
      /\ \A x \in Nodes \ {q} : span2[x] = span[x]
      /\ q # Null => q \in Nodes /\ q \in Own(t) /\ span2[q] = part[q]
      /\ \A x \in Nodes \ {a} : \A j \in DOMAIN kids[x] :
           kids[x][j] # Null => kids[x][j] \in Nodes /\ span2[kids[x][j]] = span[kids[x][j]]
      /\ root[t] # Null => root[t] \in Nodes /\ span2[root[t]] = Key
  BY <1>2, <1>3, EntersGhost
<1>5. /\ all \in Seq(Entry) /\ below \in Seq(Pointer) /\ Len(below) = Len(all) + 1
      /\ InOrder(all, part[a])
      /\ \A j \in 1 .. Len(below) :
           /\ below[j] \in Nodes \cup {Null}
           /\ deep[a] = deep[below[j]] + 1
           /\ below[j] # Null => span2[below[j]] = Between(all, j, part[a])
  BY <1>0, <1>2, <1>3, EntersNode
<1>6. /\ OnlyOf(t) /\ pc'[t] = "idle" /\ right'[t] = Null /\ copy'[t] = Null
      /\ entries'[a] = all /\ kids'[a] = below
      /\ \A x \in Addr \ {a} : entries'[x] = entries[x] /\ kids'[x] = kids[x]
  BY <1>1, <1>2 DEF OnlyOf, TreeType
<1>7. PICK Y : Y = IF q = Null THEN {a} ELSE {a, q}
  OBVIOUS
<1>8. \A x \in Nodes \ Own(t) : SameGhost(x, deep, span, part, deep, span2, part)
  <2>1. q = Null => q \notin Nodes
    BY AddrAssumption DEF Nodes
  <2> QED
    BY <1>4, <2>1 DEF SameGhost
<1>9. \A x \in Nodes' \ Y : NodeStays(x, deep, span, part, deep, span2, part)
  <2>1. SUFFICES ASSUME NEW x \in Nodes \ Y
                 PROVE  NodeStays(x, deep, span, part, deep, span2, part)
    BY <1>2 DEF Nodes
  <2>2. x \in Addr \ {a} /\ x # q
    BY <1>7, AddrAssumption DEF Nodes
  <2> QED
    BY <1>4, <1>6, <2>2 DEF NodeStays, SameGhost
<1>10. NodeOrdered(a, deep, span2, part)'
  <2>1. DOMAIN below = 1 .. Len(below)
    BY <1>5, LenProperties
  <2> QED
    BY <1>5, <1>6, <2>1 DEF NodeOrdered
<1>11. ASSUME q # Null
       PROVE  NodeOrdered(q, deep, span2, part)'
  <2>1. NodeOrdered(q, deep, span, part) /\ q \in Addr /\ q \in Nodes
    BY <1>4, <1>11 DEF Ordered, Nodes
  <2>2. entries'[q] = entries[q] /\ kids'[q] = kids[q]
    BY <1>4, <1>6, <2>1
  <2>3. \A j \in DOMAIN kids[q] : kids[q][j] # Null => span2[kids[q][j]] = span[kids[q][j]]
    BY <1>4, <2>1
  <2> QED
    BY <2>1, <2>2, <2>3 DEF NodeOrdered
<1>12. \A x \in Nodes' \cap Y :
         /\ NodeOrdered(x, deep, span2, part)'
         /\ part[x] # span2[x] => pc'[t] = "carry" /\ Here(t)' = x
  BY <1>4, <1>7, <1>10, <1>11
<1>13. pc[t] = "carry" => Here(t) \in Y
  <2>1. pc[t] = "carry" => q = Here(t)
    BY DEF Enters
  <2>2. Here(t) # Null
    BY <1>2, HereIsANode, AddrAssumption
  <2> QED
    BY <1>7, <2>1, <2>2
<1>14. ThreadOrdered(t, deep, span2, part)'
  BY <1>2, <1>4, <1>6 DEF ThreadOrdered, Inserting
<1>15. \A u \in Thread \ {t} : \A g \in OnPath(u) : kids'[g] = kids[g]
  <2>1. {a} \cap Nodes \subseteq Own(t)
    BY DEF Enters
  <2> QED
    BY <1>6, <2>1, OwnPathsStay
<1>16. OnlyOf(t) /\ GhostType(deep, span2, part)
  BY <1>4, <1>6
<1>17. Ordered(deep, span2, part)'
  BY <1>8, <1>9, <1>12, <1>13, <1>14, <1>15, <1>16, OrderStays
<1> QED
  BY <1>17 DEF OrderInv

LEMMA SplitsOrder ==
  ASSUME TreeInv, NEW t \in Thread, NEW a, Changes(t, a), NEW i, NEW above, Above(t, above, a),
         Free # {}, Splits(t, a, i, above, New), NEW q,
         NEW deep, NEW span, NEW part, Ordered(deep, span, part),
         Enters(t, a, i, q, deep, span, part)
  PROVE  OrderInv'
<1>0. PICK all, below, p, b :
        all = AllOf(t, a, i) /\ below = BelowOf(t, a, i) /\ p = Middle /\ b = New
  OBVIOUS
<1>1. TreeType /\ Locals(t)
  BY DEF TreeInv, OfThread
<1>2. /\ Len(all) = SPLIT_LIMIT
      /\ entries' = [entries EXCEPT ![a] = SubSeq(all, 1, p - 1), ![b] = SubSeq(all, p + 1, SPLIT_LIMIT)]
      /\ kids' = [kids EXCEPT ![a] = SubSeq(below, 1, p), ![b] = SubSeq(below, p + 1, SPLIT_LIMIT + 1)]
      /\ strong' = [strong EXCEPT ![b] = 1]
      /\ entry' = [entry EXCEPT ![t] = all[p]] /\ right' = [right EXCEPT ![t] = b]
      /\ path' = [path EXCEPT ![t] = above] /\ pc' = [pc EXCEPT ![t] = "carry"]
      /\ root' = root /\ copy' = copy /\ dropping' = dropping
  BY <1>0 DEF Splits
<1>3. Inserting(t) /\ copy[t] = Null /\ a \in Addr
  BY DEF Changes
<1>4. /\ b \in Addr /\ b # Null /\ b \notin Nodes /\ b \notin Own(t)
      /\ \A g \in Addr : \A j \in DOMAIN kids[g] : kids[g][j] # b
  BY <1>0, NewIsNotReached
<1>5. PICK span1 : span1 = [x \in Addr |-> IF x = q THEN part[x] ELSE span[x]]
  OBVIOUS
<1>6. /\ GhostType(deep, span1, part)
      /\ a \in Nodes /\ a # q /\ part[a] = span1[a]
      /\ \A x \in Nodes \ {q} : span1[x] = span[x]
      /\ q # Null => q \in Nodes /\ q \in Own(t) /\ span1[q] = part[q]
      /\ \A x \in Nodes \ {a} : \A j \in DOMAIN kids[x] :
           kids[x][j] # Null => kids[x][j] \in Nodes /\ span1[kids[x][j]] = span[kids[x][j]]
      /\ root[t] # Null => root[t] \in Nodes /\ span1[root[t]] = Key
  BY <1>3, <1>5, EntersGhost
<1>7. /\ all \in Seq(Entry) /\ below \in Seq(Pointer) /\ Len(below) = Len(all) + 1
      /\ InOrder(all, part[a])
      /\ \A j \in 1 .. Len(below) :
           /\ below[j] \in Nodes \cup {Null}
           /\ deep[a] = deep[below[j]] + 1
           /\ below[j] # Null => span1[below[j]] = Between(all, j, part[a])
  BY <1>0, <1>3, <1>5, EntersNode
<1>8. PICK S, d, L, R : /\ S = part[a] /\ d = deep[a]
                        /\ L = {k \in S : k < all[p][1]} /\ R = {k \in S : all[p][1] < k}
  OBVIOUS
<1>9. /\ S \in SUBSET Key /\ L \in SUBSET Key /\ R \in SUBSET Key /\ d \in Nat
      /\ p \in 1 .. Len(all) /\ all[p][1] \in S /\ S = span1[a]
  <2>1. S \in SUBSET Key /\ d \in Nat
    BY <1>3, <1>6, <1>8 DEF GhostType, Pointer
  <2>2. p \in 1 .. Len(all)
    BY <1>0, <1>2, LimitAssumption DEF Middle
  <2>3. all[p][1] \in S
    <3>1. DOMAIN all = 1 .. Len(all)
      BY <1>7, LenProperties
    <3> QED
      BY <1>7, <1>8, <2>2, <3>1 DEF InOrder
  <2> QED
    BY <1>6, <1>8, <2>1, <2>2, <2>3
<1>10. PICK l, r, el, er : /\ l = SubSeq(below, 1, p) /\ r = SubSeq(below, p + 1, Len(below))
                           /\ el = SubSeq(all, 1, p - 1) /\ er = SubSeq(all, p + 1, Len(all))
  OBVIOUS
<1>11. /\ InOrder(el, L) /\ InOrder(er, R)
       /\ \A j \in DOMAIN l : /\ l[j] \in {below[m] : m \in 1 .. p}
                              /\ d = deep[l[j]] + 1
                              /\ l[j] # Null => span1[l[j]] = Between(el, j, L)
       /\ \A j \in DOMAIN r : /\ r[j] \in {below[m] : m \in p + 1 .. Len(below)}
                              /\ d = deep[r[j]] + 1
                              /\ r[j] # Null => span1[r[j]] = Between(er, j, R)
  <2>1. /\ InOrder(all, S)
        /\ \A j \in 1 .. Len(below) :
             d = deep[below[j]] + 1 /\ (below[j] # Null => span1[below[j]] = Between(all, j, S))
    BY <1>7, <1>8
  <2>2. all \in Seq(Entry) /\ below \in Seq(Pointer) /\ Len(below) = Len(all) + 1
    BY <1>7
  <2>3. /\ S \in SUBSET Key /\ p \in 1 .. Len(all)
        /\ L = {k \in S : k < all[p][1]} /\ R = {k \in S : all[p][1] < k}
    BY <1>8, <1>9
  <2>4. Splitting(all, below, S, p, deep, span1, d, el, er, l, r, L, R)
    BY <1>10, <2>1, <2>2, <2>3 DEF Splitting
  <2> QED
    BY <2>4, HalvesInOrder
<1>12. /\ \A j \in DOMAIN l : l[j] \in Nodes \cup {Null}
       /\ \A j \in DOMAIN r : r[j] \in Nodes \cup {Null}
  <2>1. Len(below) \in Nat /\ p \in 1 .. Len(below)
    BY <1>7, <1>9, LenProperties
  <2>2. /\ \A m \in 1 .. p : m \in 1 .. Len(below)
        /\ \A m \in p + 1 .. Len(below) : m \in 1 .. Len(below)
    BY <2>1
  <2> QED
    BY <1>7, <1>11, <2>2
<1>13. /\ OnlyOf(t) /\ entry'[t] = all[p] /\ right'[t] = b /\ path'[t] = above /\ pc'[t] = "carry"
  BY <1>1, <1>2 DEF OnlyOf, TreeType
<1>14. /\ entries'[a] = el /\ entries'[b] = er /\ kids'[a] = l /\ kids'[b] = r
       /\ \A g \in Addr \ {a, b} : entries'[g] = entries[g] /\ kids'[g] = kids[g]
       /\ \A g \in Addr \ {b} : strong'[g] = strong[g]
  <2>1. Len(below) = SPLIT_LIMIT + 1 /\ a # b
    BY <1>2, <1>4, <1>6, <1>7
  <2> QED
    BY <1>1, <1>2, <1>3, <1>4, <1>10, <2>1 DEF TreeType
<1>15. PICK deep2, span2, part1 : /\ deep2 = [deep EXCEPT ![b] = d]
                                  /\ span2 = [span1 EXCEPT ![b] = R]
                                  /\ part1 = [part EXCEPT ![b] = R]
  OBVIOUS
<1>16. /\ GhostType(deep2, span2, part1)
       /\ deep2[b] = d /\ span2[b] = R /\ part1[b] = R
       /\ \A x \in Pointer \ {b} : deep2[x] = deep[x]
       /\ \A x \in Addr \ {b} : span2[x] = span1[x] /\ part1[x] = part[x]
  <2>1. GhostType(deep, span1, part)
    BY <1>6
  <2>2. b \in Addr /\ d \in Nat /\ R \in SUBSET Key
    BY <1>4, <1>9
  <2>3. Renewed(b, d, R, R, deep, span1, part, deep2, span2, part1)
    BY <1>15, <2>1, <2>2 DEF Renewed
  <2> QED
    BY <2>3, NewGhost
<1>17. PICK part2 : part2 = [part1 EXCEPT ![a] = L]
  OBVIOUS
<1>18. /\ GhostType(deep2, span2, part2)
       /\ part2[a] = L /\ part2[b] = R /\ \A x \in Addr \ {a, b} : part2[x] = part[x]
  BY <1>3, <1>4, <1>6, <1>9, <1>16, <1>17 DEF GhostType
<1>19. /\ \A x \in Nodes \cup {Null} : x \in Pointer \ {b}
       /\ \A x \in Nodes : x \in Addr \ {b}
  BY <1>4 DEF Nodes, Pointer
<1>20. deep2[a] = d /\ span2[a] = S
  BY <1>6, <1>8, <1>9, <1>16, <1>19
<1>21. NodeOrdered(a, deep2, span2, part2)'
  <2>1. \A j \in DOMAIN l : d = deep2[l[j]] + 1 /\ (l[j] # Null => span2[l[j]] = Between(el, j, L))
    BY <1>11, <1>12, <1>16, <1>19
  <2> QED
    BY <1>11, <1>14, <1>18, <1>20, <2>1 DEF NodeOrdered
<1>22. NodeOrdered(b, deep2, span2, part2)'
  <2>1. \A j \in DOMAIN r : d = deep2[r[j]] + 1 /\ (r[j] # Null => span2[r[j]] = Between(er, j, R))
    BY <1>11, <1>12, <1>16, <1>19
  <2> QED
    BY <1>11, <1>14, <1>16, <1>18, <2>1 DEF NodeOrdered
<1>23. ASSUME q # Null
       PROVE  NodeOrdered(q, deep2, span2, part2)' /\ part2[q] = span2[q]
  <2>1. NodeOrdered(q, deep, span, part) /\ q \in Nodes /\ q \in Addr \ {a, b}
    BY <1>6, <1>19, <1>23 DEF Ordered
  <2>2. entries'[q] = entries[q] /\ kids'[q] = kids[q] /\ part2[q] = part[q] /\ deep2[q] = deep[q]
    BY <1>14, <1>16, <1>18, <1>19, <2>1
  <2>3. \A j \in DOMAIN kids[q] :
          /\ kids[q][j] \in Nodes \cup {Null}
          /\ kids[q][j] # Null => span1[kids[q][j]] = span[kids[q][j]]
    BY <1>6, <2>1, LiveKids
  <2>4. \A j \in DOMAIN kids[q] :
          /\ deep2[kids[q][j]] = deep[kids[q][j]]
          /\ kids[q][j] # Null => span2[kids[q][j]] = span[kids[q][j]]
    BY <1>16, <1>19, <2>3
  <2>5. NodeOrdered(q, deep2, span2, part2)'
    BY <2>1, <2>2, <2>4 DEF NodeOrdered
  <2>6. span2[q] = part[q]
    BY <1>6, <1>16, <1>23, <2>1
  <2> QED
    BY <2>2, <2>5, <2>6
<1>24. PICK Y : Y = IF q = Null THEN {a, b} ELSE {a, b, q}
  OBVIOUS
<1>25. \A x \in Nodes \ Own(t) : SameGhost(x, deep, span, part, deep2, span2, part2)
  <2>1. SUFFICES ASSUME NEW x \in Nodes \ Own(t)
                 PROVE  SameGhost(x, deep, span, part, deep2, span2, part2)
    OBVIOUS
  <2>2. x # q /\ x # a /\ x \in Addr \ {a, b} /\ x \in Pointer \ {b}
    BY <1>4, <1>6, <1>19, AddrAssumption DEF Nodes, Enters
  <2> QED
    BY <1>6, <1>16, <1>18, <2>2 DEF SameGhost
<1>26. \A x \in Nodes' \ Y : NodeStays(x, deep, span, part, deep2, span2, part2)
  <2>1. SUFFICES ASSUME NEW x \in Addr, x \notin Y, strong'[x] # 0
                 PROVE  NodeStays(x, deep, span, part, deep2, span2, part2)
    BY DEF Nodes
  <2>2. x \in Addr \ {a, b} /\ x # q /\ x \in Nodes
    BY <1>14, <1>24, <2>1, AddrAssumption DEF Nodes
  <2>3. SameGhost(x, deep, span, part, deep2, span2, part2)
    BY <1>6, <1>16, <1>18, <1>19, <2>2 DEF SameGhost
  <2>4. \A j \in DOMAIN kids[x] :
          /\ kids[x][j] \in Nodes \cup {Null}
          /\ kids[x][j] # Null => span1[kids[x][j]] = span[kids[x][j]]
    BY <1>6, <2>2, LiveKids
  <2>5. \A j \in DOMAIN kids[x] :
          /\ deep2[kids[x][j]] = deep[kids[x][j]]
          /\ kids[x][j] # Null => span2[kids[x][j]] = span[kids[x][j]]
    BY <1>16, <1>19, <2>4
  <2> QED
    BY <1>14, <2>2, <2>3, <2>5 DEF NodeStays
<1>27. Here(t)' = a
  <2>1. CASE above = << >>
    BY <1>2, <1>13, <2>1 DEF Above, Here
  <2>2. CASE above # << >>
    <3>1. Len(above) \in DOMAIN above
      BY <2>2, EmptySeq, LenProperties DEF Above
    <3>2. Last(above)[1] \in OnPath(t) /\ Last(above)[1] # a
      BY <3>1 DEF Above, OnPath, Node, Last
    <3>3. Last(above)[1] \in Addr \ {a, b}
      BY <1>4, <3>2, OwnedByOne DEF Own
    <3> QED
      BY <1>13, <1>14, <2>2, <3>3 DEF Above, Here
  <2> QED
    BY <2>1, <2>2
<1>28. \A x \in Nodes' \cap Y :
         /\ NodeOrdered(x, deep2, span2, part2)'
         /\ part2[x] # span2[x] => pc'[t] = "carry" /\ Here(t)' = x
  BY <1>13, <1>16, <1>18, <1>21, <1>22, <1>23, <1>24, <1>27
<1>29. pc[t] = "carry" => Here(t) \in Y
  <2>1. pc[t] = "carry" => q = Here(t)
    BY DEF Enters
  <2>2. Here(t) # Null
    BY <1>3, HereIsANode, AddrAssumption
  <2> QED
    BY <1>24, <2>1, <2>2
<1>30. ThreadOrdered(t, deep2, span2, part2)'
  <2>1. root[t] # Null => span2[root[t]] = Key
    BY <1>6, <1>16, <1>19
  <2> QED
    BY <1>2, <1>3, <1>8, <1>9, <1>13, <1>16, <1>18, <1>20, <1>27, <2>1 DEF ThreadOrdered
<1>31. \A u \in Thread \ {t} : \A g \in OnPath(u) : kids'[g] = kids[g]
  <2>1. {a, b} \cap Nodes \subseteq Own(t)
    BY <1>4 DEF Enters
  <2> QED
    BY <1>14, <2>1, OwnPathsStay
<1>32. OnlyOf(t) /\ GhostType(deep2, span2, part2)
  BY <1>13, <1>18
<1>33. Ordered(deep2, span2, part2)'
  BY <1>25, <1>26, <1>28, <1>29, <1>30, <1>31, <1>32, OrderStays
<1> QED
  BY <1>33 DEF OrderInv

LEMMA PutAndSplitOrder ==
  ASSUME TreeInv, NEW t \in Thread, NEW a, Changes(t, a), NEW i, NEW above, Above(t, above, a),
         PutAndSplit(t, a, i, above), UNCHANGED <<replace, root, copy, dropping>>, NEW q,
         NEW deep, NEW span, NEW part, Ordered(deep, span, part),
         Enters(t, a, i, q, deep, span, part)
  PROVE  OrderInv'
<1>1. CASE Puts(t, a, i)
  BY <1>1, PutsOrder
<1>2. CASE Free # {} /\ Splits(t, a, i, above, New)
  BY <1>2, SplitsOrder
<1>3. Puts(t, a, i) \/ (Free # {} /\ Splits(t, a, i, above, New))
  BY DEF PutAndSplit, Puts, Splits, AllOf, BelowOf, Middle, LeftOf, Goto
<1> QED
  BY <1>1, <1>2, <1>3

LEMMA PutOrder ==
  ASSUME TreeInv, NEW t \in Thread, Put(t), OrderInv
  PROVE  OrderInv'
<1>0. PICK h, k : h = Here(t) /\ k = Place(t)
  OBVIOUS
<1>1. /\ PutAndSplit(t, h, k, path[t]) /\ UNCHANGED <<replace, root, copy, dropping>>
  BY <1>0 DEF Put
<1>2. Changes(t, h) /\ Above(t, path[t], h)
  BY <1>0, PutChanges
<1>3. PICK deep, span, part : Ordered(deep, span, part)
  BY DEF OrderInv
<1>4. Enters(t, h, k, Null, deep, span, part)
  BY <1>0, <1>3, PutEnters
<1> QED
  BY <1>1, <1>2, <1>3, <1>4, PutAndSplitOrder

LEMMA CarryOrder ==
  ASSUME TreeInv, NEW t \in Thread, Carry(t), OrderInv
  PROVE  OrderInv'
<1>0. PICK a, i : a = Last(path[t])[1] /\ i = Last(path[t])[2]
  OBVIOUS
<1>1. /\ pc[t] = "carry" /\ path[t] # << >> /\ PutAndSplit(t, a, i, Front(path[t]))
      /\ UNCHANGED <<replace, root, copy, dropping>>
  BY <1>0 DEF Carry
<1>2. Changes(t, a) /\ Above(t, Front(path[t]), a)
  BY <1>0, <1>1, CarryChanges
<1>3. PICK deep, span, part : Ordered(deep, span, part)
  BY DEF OrderInv
<1>4. Enters(t, a, i, Here(t), deep, span, part)
  BY <1>0, <1>1, <1>3, CarryEnters
<1> QED
  BY <1>1, <1>2, <1>3, <1>4, PutAndSplitOrder

LEMMA GrowOrder ==
  ASSUME TreeInv, NEW t \in Thread, Grow(t), OrderInv
  PROVE  OrderInv'
<1>0. PICK b, q, r, e : b = New /\ q = root[t] /\ r = right[t] /\ e = entry[t]
  OBVIOUS
<1>1. TreeType /\ CountsOwners /\ Locals(t)
  BY DEF TreeInv, OfThread
<1>2. /\ pc[t] = "carry" /\ path[t] = << >> /\ Free # {}
      /\ entries' = [entries EXCEPT ![b] = <<e>>] /\ kids' = [kids EXCEPT ![b] = <<q, r>>]
      /\ strong' = [strong EXCEPT ![b] = 1] /\ root' = [root EXCEPT ![t] = b]
      /\ copy' = copy /\ dropping' = dropping
      /\ entry' = [entry EXCEPT ![t] = << >>] /\ right' = [right EXCEPT ![t] = Null]
      /\ path' = [path EXCEPT ![t] = << >>] /\ pc' = [pc EXCEPT ![t] = "idle"]
  BY <1>0 DEF Grow, Done, Goto
<1>3. Inserting(t) /\ copy[t] = Null /\ r # Null /\ e \in Entry
  BY <1>0, <1>1, <1>2 DEF Inserting, Locals
<1>4. /\ b \in Addr /\ b # Null /\ b \notin Nodes /\ b \notin Own(t)
      /\ \A g \in Addr : \A j \in DOMAIN kids[g] : kids[g][j] # b
  BY <1>0, <1>2, NewIsNotReached
<1>5. q = Here(t) /\ q \in Own(t)
  BY <1>0, <1>2 DEF Here, Own
<1>6. /\ q \in Addr /\ q # Null /\ q \in Nodes /\ r # q
      /\ \A g \in Addr : \A j \in DOMAIN kids[g] : kids[g][j] # q
  <2>1. /\ q \in Addr /\ strong[q] = 1 /\ right[t] # q
        /\ \A g \in Addr : \A j \in DOMAIN kids[g] : kids[g][j] = q => g \in OnPath(t)
    BY <1>5, OwnedByOne
  <2>2. OnPath(t) = {}
    BY <1>2 DEF OnPath
  <2> QED
    BY <1>0, <2>1, <2>2, AddrAssumption DEF Nodes
<1>7. r \in Nodes
  <2>1. Owners(r) # 0
    BY <1>0, <1>1, RightOwns
  <2> QED
    BY <1>0, <1>1, <1>3, <2>1 DEF TreeType, Pointer, CountsOwners, Nodes
<1>8. PICK deep, span, part : Ordered(deep, span, part)
  BY DEF OrderInv
<1>9. /\ GhostType(deep, span, part) /\ ThreadOrdered(t, deep, span, part)
      /\ NodeOrdered(q, deep, span, part)
  BY <1>6, <1>8 DEF Ordered
<1>10. /\ span[q] = Key /\ e[1] \in Key /\ deep[r] = deep[q]
       /\ span[r] = {k \in Key : e[1] < k} /\ part[q] = {k \in Key : k < e[1]}
  BY <1>0, <1>3, <1>5, <1>6, <1>9 DEF ThreadOrdered
<1>11. PICK d : d = deep[q] + 1 /\ d \in Nat
  BY <1>6, <1>9 DEF GhostType, Pointer
<1>12. PICK span1 : span1 = [span EXCEPT ![q] = part[q]]
  OBVIOUS
<1>13. /\ GhostType(deep, span1, part) /\ span1[q] = part[q]
       /\ \A x \in Addr \ {q} : span1[x] = span[x]
  BY <1>6, <1>9, <1>12 DEF GhostType
<1>14. PICK deep2, span2, part2 : /\ deep2 = [deep EXCEPT ![b] = d]
                                  /\ span2 = [span1 EXCEPT ![b] = Key]
                                  /\ part2 = [part EXCEPT ![b] = Key]
  OBVIOUS
<1>15. /\ GhostType(deep2, span2, part2)
       /\ deep2[b] = d /\ span2[b] = Key /\ part2[b] = Key
       /\ \A x \in Pointer \ {b} : deep2[x] = deep[x]
       /\ \A x \in Addr \ {b} : span2[x] = span1[x] /\ part2[x] = part[x]
  <2>1. GhostType(deep, span1, part)
    BY <1>13
  <2>2. b \in Addr /\ d \in Nat /\ Key \in SUBSET Key
    BY <1>4, <1>11
  <2>3. Renewed(b, d, Key, Key, deep, span1, part, deep2, span2, part2)
    BY <1>14, <2>1, <2>2 DEF Renewed
  <2> QED
    BY <2>3, NewGhost
<1>16. /\ \A x \in Nodes \cup {Null} : x \in Pointer \ {b}
       /\ \A x \in Nodes : x \in Addr \ {b}
  BY <1>4 DEF Nodes, Pointer
<1>17. /\ OnlyOf(t) /\ root'[t] = b /\ right'[t] = Null /\ pc'[t] = "idle"
       /\ entries'[b] = <<e>> /\ kids'[b] = <<q, r>> /\ strong'[b] = 1
       /\ \A g \in Addr \ {b} : kids'[g] = kids[g] /\ entries'[g] = entries[g] /\ strong'[g] = strong[g]
  BY <1>1, <1>2, <1>4 DEF OnlyOf, TreeType
<1>18. NodeOrdered(b, deep2, span2, part2)'
  <2>1. InOrder(<<e>>, Key)
    BY <1>10 DEF InOrder
  <2>2. Between(<<e>>, 1, Key) = {k \in Key : k < e[1]} /\ Between(<<e>>, 2, Key) = {k \in Key : e[1] < k}
    BY DEF Between
  <2>3. /\ d = deep2[q] + 1 /\ d = deep2[r] + 1
        /\ span2[q] = Between(<<e>>, 1, Key) /\ span2[r] = Between(<<e>>, 2, Key)
    BY <1>6, <1>7, <1>10, <1>11, <1>13, <1>15, <1>16, <2>2
  <2>4. \A j \in DOMAIN <<q, r>> : (j = 1 /\ <<q, r>>[j] = q) \/ (j = 2 /\ <<q, r>>[j] = r)
    OBVIOUS
  <2>5. \A j \in DOMAIN <<q, r>> :
          /\ d = deep2[<<q, r>>[j]] + 1
          /\ span2[<<q, r>>[j]] = Between(<<e>>, j, Key)
    BY <2>3, <2>4
  <2> QED
    BY <1>15, <1>17, <2>1, <2>5 DEF NodeOrdered
<1>19. \A x \in Nodes : \A j \in DOMAIN kids[x] :
         /\ deep2[kids[x][j]] = deep[kids[x][j]]
         /\ kids[x][j] # Null => span2[kids[x][j]] = span[kids[x][j]]
  <2>1. SUFFICES ASSUME NEW x \in Nodes, NEW j \in DOMAIN kids[x]
                 PROVE  /\ deep2[kids[x][j]] = deep[kids[x][j]]
                        /\ kids[x][j] # Null => span2[kids[x][j]] = span[kids[x][j]]
    OBVIOUS
  <2>2. x \in Addr
    BY DEF Nodes
  <2>3. kids[x][j] \in Nodes \cup {Null} /\ kids[x][j] # q
    BY <1>6, <2>2, LiveKids
  <2> QED
    BY <1>13, <1>15, <1>16, <2>3
<1>20. NodeOrdered(q, deep2, span2, part2)' /\ part2[q] = span2[q]
  <2>1. entries'[q] = entries[q] /\ kids'[q] = kids[q] /\ part2[q] = part[q] /\ deep2[q] = deep[q]
    BY <1>6, <1>15, <1>16, <1>17
  <2>2. NodeOrdered(q, deep2, span2, part2)'
    BY <1>6, <1>9, <1>19, <2>1 DEF NodeOrdered
  <2>3. part2[q] = span2[q]
    BY <1>6, <1>13, <1>15, <1>16
  <2> QED
    BY <2>2, <2>3
<1>21. PICK Y : Y = {b, q}
  OBVIOUS
<1>22. \A x \in Nodes \ Own(t) : SameGhost(x, deep, span, part, deep2, span2, part2)
  <2>1. SUFFICES ASSUME NEW x \in Nodes \ Own(t)
                 PROVE  SameGhost(x, deep, span, part, deep2, span2, part2)
    OBVIOUS
  <2>2. x # q /\ x \in Addr \ {b} /\ x \in Pointer \ {b}
    BY <1>5, <1>16
  <2> QED
    BY <1>13, <1>15, <2>2 DEF SameGhost
<1>23. \A x \in Nodes' \ Y : NodeStays(x, deep, span, part, deep2, span2, part2)
  <2>1. SUFFICES ASSUME NEW x \in Addr, x \notin Y, strong'[x] # 0
                 PROVE  NodeStays(x, deep, span, part, deep2, span2, part2)
    BY DEF Nodes
  <2>2. x \in Addr \ {b} /\ x # q /\ x \in Nodes
    BY <1>17, <1>21, <2>1 DEF Nodes
  <2>3. SameGhost(x, deep, span, part, deep2, span2, part2)
    BY <1>13, <1>15, <1>16, <2>2 DEF SameGhost
  <2> QED
    BY <1>17, <1>19, <2>2, <2>3 DEF NodeStays
<1>24. \A x \in Nodes' \cap Y :
         /\ NodeOrdered(x, deep2, span2, part2)'
         /\ part2[x] # span2[x] => pc'[t] = "carry" /\ Here(t)' = x
  BY <1>15, <1>18, <1>20, <1>21
<1>25. pc[t] = "carry" => Here(t) \in Y
  BY <1>5, <1>21
<1>26. ThreadOrdered(t, deep2, span2, part2)'
  BY <1>2, <1>3, <1>15, <1>17 DEF ThreadOrdered, Inserting
<1>27. \A u \in Thread \ {t} : \A g \in OnPath(u) : kids'[g] = kids[g]
  <2>1. {b} \cap Nodes \subseteq Own(t)
    BY <1>4
  <2> QED
    BY <1>17, <2>1, OwnPathsStay
<1>28. OnlyOf(t) /\ GhostType(deep2, span2, part2)
  BY <1>15, <1>17
<1>29. Ordered(deep2, span2, part2)'
  BY <1>8, <1>22, <1>23, <1>24, <1>25, <1>26, <1>27, <1>28, OrderStays
<1> QED
  BY <1>29 DEF OrderInv

-----------------------------------------------------------------------------

LEMMA InitOrder == Init => OrderInv
<1>1. SUFFICES ASSUME Init PROVE OrderInv
  OBVIOUS
<1>2. /\ root = [t \in Thread |-> Null] /\ right = [t \in Thread |-> Null] /\ copy = [t \in Thread |-> Null]
      /\ pc = [t \in Thread |-> "idle"] /\ strong = [a \in Addr |-> 0]
  BY <1>1 DEF Init
<1>3. PICK deep, span : deep = [p \in Pointer |-> 0] /\ span = [a \in Addr |-> Key]
  OBVIOUS
<1>4. GhostType(deep, span, span)
  BY <1>3 DEF GhostType, Pointer
<1>5. Nodes = {}
  BY <1>2 DEF Nodes
<1>6. \A t \in Thread : ThreadOrdered(t, deep, span, span)
  BY <1>2 DEF ThreadOrdered, Inserting
<1>7. Ordered(deep, span, span)
  BY <1>4, <1>5, <1>6 DEF Ordered
<1> QED
  BY <1>7 DEF OrderInv

LEMMA NextOrder == TreeInv /\ OrderInv /\ [Next]_vars => OrderInv'
<1>1. SUFFICES ASSUME TreeInv, OrderInv, [Next]_vars PROVE OrderInv'
  OBVIOUS
<1>2. CASE UNCHANGED vars
  <2>1. /\ root' = root /\ entries' = entries /\ kids' = kids /\ strong' = strong /\ pc' = pc
        /\ entry' = entry /\ right' = right /\ path' = path /\ copy' = copy /\ dropping' = dropping
    BY <1>2 DEF vars, heap, insert
  <2>2. PICK deep, span, part : Ordered(deep, span, part)
    BY <1>1 DEF OrderInv
  <2>3. Nodes' = Nodes /\ \A t : Here(t)' = Here(t)
    BY <2>1 DEF Nodes, Here
  <2>4. GhostType(deep, span, part)'
    BY <2>2 DEF Ordered, GhostType, Pointer
  <2>5. \A a \in Nodes : NodeOrdered(a, deep, span, part)'
    BY <2>1, <2>2 DEF Ordered, NodeOrdered
  <2>6. \A t \in Thread : ThreadOrdered(t, deep, span, part)'
    BY <2>1, <2>2, <2>3 DEF Ordered, ThreadOrdered, Inserting
  <2>7. \A a \in Nodes : part[a] # span[a] => \E t \in Thread : pc'[t] = "carry" /\ Here(t)' = a
    BY <2>1, <2>2, <2>3 DEF Ordered
  <2>8. Ordered(deep, span, part)'
    BY <2>3, <2>4, <2>5, <2>6, <2>7 DEF Ordered
  <2> QED
    BY <2>8 DEF OrderInv
<1>3. ASSUME NEW t \in Thread, Step(t)
      PROVE  OrderInv'
  <2>1. CASE DropNone(t) \/ DropShared(t) \/ DropLast(t)
    BY <1>1, <2>1, DropNoneOrder, DropSharedOrder, DropLastOrder
  <2>2. CASE IsUnique(t) \/ CloneNode(t) \/ Assign(t)
    BY <1>1, <2>2, IsUniqueOrder, CloneNodeOrder, AssignOrder
  <2>3. CASE Descend(t) \/ ReplaceValue(t)
    BY <1>1, <2>3, DescendOrder, ReplaceValueOrder
  <2>4. CASE Put(t) \/ Carry(t) \/ Grow(t)
    BY <1>1, <2>4, PutOrder, CarryOrder, GrowOrder
  <2> QED
    BY <1>3, <2>1, <2>2, <2>3, <2>4 DEF Step
<1>4. ASSUME NEW t \in Thread, Call(t)
      PROVE  OrderInv'
  <2>1. ASSUME NEW e \in Key \X Value, InsertFirst(t, e) \/ Insert(t, e)
        PROVE  OrderInv'
    BY <1>1, <2>1, InsertFirstOrder, InsertCallOrder DEF Entry
  <2>2. ASSUME NEW u \in Thread, Clone(t, u)
        PROVE  OrderInv'
    BY <1>1, <2>2, CloneOrder
  <2>3. CASE Drop(t)
    BY <1>1, <2>3, DropTreeOrder
  <2> QED
    BY <1>4, <2>1, <2>2, <2>3 DEF Call
<1> QED
  BY <1>1, <1>2, <1>3, <1>4 DEF Next

\* Every node has a height, and the keys that belong in it and below it are those
\* that belong between the entries on either side of the pointers to it.
THEOREM OrderTheorem == Spec => []OrderInv
<1>1. Init => TreeInv /\ OrderInv
  BY InitInv, InitOrder
<1>2. (TreeInv /\ OrderInv) /\ [Next]_vars => (TreeInv /\ OrderInv)'
  BY NextInv, NextOrder
<1> QED
  BY <1>1, <1>2, PTL DEF Spec

-----------------------------------------------------------------------------
(* Depth *)

\* A set of natural numbers has a least one.
LEMMA LeastOf ==
  ASSUME NEW S \in SUBSET Nat, S # {}
  PROVE  \E m \in S : \A n \in S : m <= n
<1> DEFINE R == {ss \in Nat \X Nat : ss[1] < ss[2]}
<1>1. IsWellFoundedOn(R, Nat)
  BY NatLessThanWellFounded DEF OpToRel
<1>2. PICK m \in S : \A n \in S : ~(<<n, m>> \in R)
  <2> HIDE DEF R
  <2>1. S \subseteq Nat
    OBVIOUS
  <2> QED
    BY <1>1, <2>1, WFMin
<1>3. \A n \in S : ~(n < m)
  BY <1>2
<1> QED
  BY <1>3

\* The ranks of finitely many things have a bound.
LEMMA RanksAreBounded ==
  ASSUME NEW D, IsFiniteSet(D), NEW rank \in [D -> Nat]
  PROVE  \E n \in Nat : \A q \in D : rank[q] < n
<1> DEFINE Bounded(T) == \E n \in Nat : \A q \in T : rank[q] < n
           Size == {n \in Nat : \E T \in SUBSET D : Cardinality(T) = n /\ ~Bounded(T)}
<1>1. SUFFICES ASSUME ~Bounded(D) PROVE FALSE
  OBVIOUS
<1>2. Cardinality(D) \in Size
  BY <1>1, FS_CardinalityType
<1>3. PICK m \in Size : \A n \in Size : m <= n
  <2>1. Size \in SUBSET Nat /\ Size # {}
    BY <1>2
  <2> HIDE DEF Size
  <2> QED
    BY <2>1, LeastOf
<1>4. PICK T \in SUBSET D : Cardinality(T) = m /\ ~Bounded(T)
  OBVIOUS
<1>5. T # {}
  BY <1>4
<1>6. PICK x \in T : TRUE
  BY <1>5
<1>7. IsFiniteSet(T)
  BY FS_Subset
<1>8. m \in Nat /\ Cardinality(T \ {x}) = m - 1 /\ Cardinality(T \ {x}) \in Nat
  BY <1>4, <1>6, <1>7, FS_RemoveElement, FS_CardinalityType
<1>9. Bounded(T \ {x})
  <2>1. SUFFICES ASSUME ~Bounded(T \ {x}) PROVE FALSE
    OBVIOUS
  <2>2. m - 1 \in Size
    <3>1. T \ {x} \in SUBSET D
      OBVIOUS
    <3> HIDE DEF Bounded
    <3> QED
      BY <1>8, <2>1, <3>1
  <2>3. m <= m - 1
    BY <1>3, <2>2
  <2> QED
    BY <1>8, <2>3
<1>10. PICK n \in Nat : \A q \in T \ {x} : rank[q] < n
  BY <1>9
<1>11. rank[x] \in Nat
  BY <1>6
<1>12. PICK k \in Nat : n <= k /\ rank[x] < k
  <2>1. n <= n + rank[x] + 1 /\ rank[x] < n + rank[x] + 1 /\ n + rank[x] + 1 \in Nat
    BY <1>11
  <2> QED
    BY <2>1
<1>13. \A q \in T : rank[q] < k
  <2>1. \A q \in T : rank[q] \in Nat
    OBVIOUS
  <2> QED
    BY <1>10, <1>12, <2>1
<1> QED
  BY <1>4, <1>13

\* A function whose value at each place depends on its values at those of less
\* rank exists.
Contracts(D, V, rank, F) ==
  /\ F \in [[D -> V] -> [D -> V]]
  /\ \A f, g \in [D -> V] : \A q \in D :
       (\A x \in D : rank[x] < rank[q] => f[x] = g[x]) => F[f][q] = F[g][q]

LEMMA FixpointExists ==
  ASSUME NEW D, NEW V, NEW rank \in [D -> Nat], NEW F, Contracts(D, V, rank, F),
         NEW N \in Nat, \A q \in D : rank[q] < N, NEW f0 \in [D -> V]
  PROVE  \E f \in [D -> V] : F[f] = f
<1> USE DEF Contracts
<1> DEFINE Fixed(n, f) == \A q \in D : rank[q] < n => F[f][q] = f[q]
           Missing == {n \in Nat : ~\E f \in [D -> V] : Fixed(n, f)}
<1>1. \E f \in [D -> V] : Fixed(N, f)
  <2>1. SUFFICES ASSUME Missing # {} PROVE FALSE
    OBVIOUS
  <2>2. PICK m \in Missing : \A n \in Missing : m <= n
    <3>1. Missing \in SUBSET Nat
      OBVIOUS
    <3> HIDE DEF Missing
    <3> QED
      BY <2>1, <3>1, LeastOf
  <2>3. m \in Nat /\ ~\E f \in [D -> V] : Fixed(m, f)
    OBVIOUS
  <2>4. m # 0
    <3>1. Fixed(0, f0)
      OBVIOUS
    <3> HIDE DEF Fixed
    <3> QED
      BY <2>3, <3>1
  <2>5. m - 1 \in Nat /\ ~(m <= m - 1)
    BY <2>3, <2>4
  <2>6. PICK f \in [D -> V] : Fixed(m - 1, f)
    <3> HIDE DEF Fixed
    <3> QED
      BY <2>2, <2>5
  <2>7. F[f] \in [D -> V]
    OBVIOUS
  <2>8. Fixed(m, F[f])
    <3>1. SUFFICES ASSUME NEW q \in D, rank[q] < m
                   PROVE  F[F[f]][q] = F[f][q]
      OBVIOUS
    <3>2. \A x \in D : rank[x] < rank[q] => F[f][x] = f[x]
      <4>1. \A x \in D : rank[x] < rank[q] => rank[x] < m - 1
        BY <2>3, <3>1
      <4> QED
        BY <2>6, <4>1
    <3> QED
      BY <2>7, <3>2
  <2> HIDE DEF Fixed
  <2> QED
    BY <2>3, <2>7, <2>8
<1>2. PICK f \in [D -> V] : Fixed(N, f)
  BY <1>1
<1>3. \A q \in D : F[f][q] = f[q]
  BY <1>2
<1>4. F[f] = f
  BY <1>3
<1> QED
  BY <1>4

\* What Depth computes, in terms of what it computes below.
Below(f, q, S) == {f[kids[q][i]][Between(entries[q], i, S)] : i \in DOMAIN kids[q]}
DepthFrom(q, S, below) ==
  IF /\ Len(entries[q]) \in 1 .. SPLIT_LIMIT - 1 /\ Len(kids[q]) = Len(entries[q]) + 1
     /\ InOrder(entries[q], S)
     /\ \E d \in below : d # -1 /\ below = {d}
  THEN 1 + CHOOSE d \in below : TRUE
  ELSE -1
DepthOf(f, q, S) ==
  IF q = Null THEN 0
  ELSE DepthFrom(q, S, Below(f, q, S))
Depths(f) == [q \in Nodes \cup {Null} |-> [S \in SUBSET Key |-> DepthOf(f, q, S)]]

LEMMA DepthsType ==
  ASSUME TreeInv, NEW f \in [Nodes \cup {Null} -> [SUBSET Key -> Int]]
  PROVE  Depths(f) \in [Nodes \cup {Null} -> [SUBSET Key -> Int]]
<1>1. SUFFICES ASSUME NEW q \in Nodes \cup {Null}, NEW S \in SUBSET Key
               PROVE  DepthOf(f, q, S) \in Int
  BY DEF Depths
<1>2. CASE q = Null
  BY <1>2 DEF DepthOf
<1>3. CASE q # Null
  <2>1. q \in Addr
    BY <1>3 DEF Nodes
  <2>2. \A i \in DOMAIN kids[q] : kids[q][i] \in Nodes \cup {Null} /\ Between(entries[q], i, S) \in SUBSET Key
    BY <2>1, LiveKids DEF Between
  <2>3. Below(f, q, S) \subseteq Int
    BY <2>2 DEF Below
  <2>4. \A B \in SUBSET Int : DepthFrom(q, S, B) \in Int
    BY DEF DepthFrom
  <2> QED
    BY <1>3, <2>3, <2>4 DEF DepthOf
<1> QED
  BY <1>2, <1>3

LEMMA DepthExists ==
  ASSUME TreeInv, NEW deep, NEW span, NEW part, Ordered(deep, span, part)
  PROVE  \E f : f = Depths(f)
<1> DEFINE D == Nodes \cup {Null}
           V == [SUBSET Key -> Int]
           rank == [q \in D |-> deep[q]]
           F == [f \in [D -> V] |-> Depths(f)]
           f0 == [q \in D |-> [S \in SUBSET Key |-> 0]]
<1>1. rank \in [D -> Nat] /\ \A q \in D : rank[q] = deep[q]
  BY DEF Ordered, GhostType, Nodes, Pointer
<1>2. F \in [[D -> V] -> [D -> V]] /\ f0 \in [D -> V]
  <2>1. \A f \in [D -> V] : Depths(f) \in [D -> V]
    BY DepthsType
  <2>2. f0 \in [D -> V]
    OBVIOUS
  <2> HIDE DEF D, V, f0
  <2> QED
    BY <2>1, <2>2
<1>3. PICK N \in Nat : \A q \in D : rank[q] < N
  <2>1. IsFiniteSet(D)
    <3>1. IsFiniteSet(Addr) /\ Nodes \subseteq Addr
      BY AddrAssumption DEF Nodes
    <3>2. IsFiniteSet(Nodes)
      BY <3>1, FS_Subset
    <3> QED
      BY <3>2, FS_AddElement
  <2> HIDE DEF rank, D
  <2> QED
    BY <1>1, <2>1, RanksAreBounded
<1>4. ASSUME NEW f \in [D -> V], NEW g \in [D -> V], NEW q \in D,
             \A x \in D : rank[x] < rank[q] => f[x] = g[x]
      PROVE  F[f][q] = F[g][q]
  <2>1. \A S \in SUBSET Key : DepthOf(f, q, S) = DepthOf(g, q, S)
    <3>1. CASE q = Null
      BY <3>1 DEF DepthOf
    <3>2. CASE q # Null
      <4>1. q \in Nodes /\ q \in Addr
        BY <3>2 DEF Nodes
      <4>2. NodeOrdered(q, deep, span, part)
        BY <4>1 DEF Ordered
      <4>3. ASSUME NEW i \in DOMAIN kids[q]
            PROVE  f[kids[q][i]] = g[kids[q][i]]
        <5>1. kids[q][i] \in D
          BY <4>1, LiveKids
        <5>2. rank[q] = rank[kids[q][i]] + 1
          BY <1>1, <4>2, <5>1 DEF NodeOrdered
        <5>3. rank[kids[q][i]] \in Nat
          BY <1>1, <5>1
        <5>4. rank[kids[q][i]] < rank[q]
          BY <5>2, <5>3
        <5> QED
          BY <1>4, <5>1, <5>4
      <4>4. SUFFICES ASSUME NEW S \in SUBSET Key
                     PROVE  DepthOf(f, q, S) = DepthOf(g, q, S)
        OBVIOUS
      <4>5. Below(f, q, S) = Below(g, q, S)
        BY <4>3 DEF Below
      <4> QED
        BY <4>5 DEF DepthOf
    <3> QED
      BY <3>1, <3>2
  <2>2. F[f] = Depths(f) /\ F[g] = Depths(g)
    OBVIOUS
  <2>3. Depths(f)[q] = [S \in SUBSET Key |-> DepthOf(f, q, S)]
    BY DEF Depths
  <2>4. Depths(g)[q] = [S \in SUBSET Key |-> DepthOf(g, q, S)]
    BY DEF Depths
  <2> QED
    BY <2>1, <2>2, <2>3, <2>4
<1>5. \A f \in [D -> V] : F[f] = Depths(f)
  OBVIOUS
<1>6. \A f, g \in [D -> V] : \A q \in D :
        (\A x \in D : rank[x] < rank[q] => f[x] = g[x]) => F[f][q] = F[g][q]
  <2> HIDE DEF D, V, rank, F
  <2> QED
    BY <1>4
<1>7. PICK f \in [D -> V] : F[f] = f
  <2> HIDE DEF D, V, rank, F, f0
  <2>1. Contracts(D, V, rank, F)
    BY <1>2, <1>6 DEF Contracts
  <2> QED
    BY <1>1, <1>2, <1>3, <2>1, FixpointExists
<1> QED
  BY <1>5, <1>7

\* A node that no insert has made its own has the depth that is its height.
LEMMA DepthIsHeight ==
  ASSUME TreeInv, NEW deep, NEW span, NEW part, Ordered(deep, span, part),
         NEW f, f = Depths(f),
         NEW p \in Nodes, \A u \in Thread : p \notin Own(u)
  PROVE  f[p][span[p]] = deep[p]
<1> DEFINE Shared(q) == q \in Nodes /\ \A u \in Thread : q \notin Own(u)
           Wrong == {n \in Nat : \E q \in Nodes : /\ Shared(q) /\ deep[q] = n
                                                  /\ f[q][span[q]] # deep[q]}
<1>1. /\ GhostType(deep, span, part) /\ \A q \in Nodes : NodeOrdered(q, deep, span, part)
      /\ TreeType /\ NodesFit
  BY DEF Ordered, TreeInv
<1>2. \A q \in Nodes : q \in Addr /\ q # Null /\ deep[q] \in Nat /\ span[q] \in SUBSET Key
  BY <1>1, AddrAssumption DEF GhostType, Pointer, Nodes
<1>3. \A q \in Nodes \cup {Null} : \A S \in SUBSET Key : f[q][S] = DepthOf(f, q, S)
  BY DEF Depths
<1>4. SUFFICES ASSUME Wrong # {} PROVE FALSE
  BY <1>2
<1>5. PICK m \in Wrong : \A n \in Wrong : m <= n
  <2>1. Wrong \in SUBSET Nat
    OBVIOUS
  <2> HIDE DEF Wrong
  <2> QED
    BY <1>4, <2>1, LeastOf
<1>6. PICK q \in Nodes : Shared(q) /\ deep[q] = m /\ f[q][span[q]] # deep[q]
  OBVIOUS
<1>7. part[q] = span[q]
  <2>1. SUFFICES ASSUME NEW u \in Thread, pc[u] = "carry", Here(u) = q
                 PROVE  FALSE
    BY DEF Ordered
  <2>2. q \in Own(u)
    BY <2>1 DEF Own
  <2> QED
    BY <1>6, <2>2
<1>8. ASSUME NEW i \in DOMAIN kids[q]
      PROVE  f[kids[q][i]][Between(entries[q], i, span[q])] = m - 1
  <2>1. kids[q][i] \in Nodes \cup {Null} /\ m = deep[kids[q][i]] + 1
    BY <1>1, <1>2, <1>6, LiveKids DEF NodeOrdered
  <2>2. CASE kids[q][i] = Null
    <3>1. Between(entries[q], i, span[q]) \in SUBSET Key
      BY <1>2 DEF Between
    <3>2. f[Null][Between(entries[q], i, span[q])] = 0
      BY <1>3, <3>1 DEF DepthOf
    <3>3. deep[Null] = 0
      BY <1>1 DEF GhostType
    <3> QED
      BY <2>1, <2>2, <3>2, <3>3
  <2>3. CASE kids[q][i] # Null
    <3>1. PICK k \in Nodes : k = kids[q][i]
      BY <2>1, <2>3
    <3>2. Shared(k)
      <4>1. ASSUME NEW u \in Thread, k \in Own(u)
            PROVE  FALSE
        <5>1. q \in OnPath(u)
          BY <1>2, <3>1, <4>1, OwnedByOne
        <5> QED
          BY <1>6, <5>1 DEF Own
      <4> QED
        BY <4>1
    <3>3. span[k] = Between(entries[q], i, span[q])
      BY <1>1, <1>7, <2>3, <3>1 DEF NodeOrdered
    <3>4. deep[k] \in Nat /\ m = deep[k] + 1 /\ ~(m <= deep[k])
      BY <1>2, <2>1, <3>1
    <3>5. f[k][span[k]] = deep[k]
      BY <1>5, <3>2, <3>4
    <3> QED
      BY <3>1, <3>3, <3>4, <3>5
  <2> QED
    BY <2>2, <2>3
<1>9. f[q][span[q]] = m
  <2>0. PICK below : below = Below(f, q, span[q])
    OBVIOUS
  <2>1. Len(entries[q]) \in 1 .. SPLIT_LIMIT - 1 /\ Len(kids[q]) = Len(entries[q]) + 1
    BY <1>1, <1>2 DEF NodesFit, Fits, Nodes
  <2>2. InOrder(entries[q], span[q])
    BY <1>1, <1>7 DEF NodeOrdered
  <2>3. 1 \in DOMAIN kids[q]
    <3>1. DOMAIN kids[q] = 1 .. Len(kids[q])
      BY <1>1, <1>2, LenProperties DEF TreeType
    <3>2. Len(entries[q]) \in Nat
      BY <1>1, <1>2, LenProperties DEF TreeType
    <3> QED
      BY <2>1, <3>1, <3>2
  <2>4. below = {m - 1}
    BY <1>8, <2>0, <2>3 DEF Below
  <2>5. m \in Nat /\ m - 1 # -1
    <3>1. m = deep[kids[q][1]] + 1 /\ kids[q][1] \in Nodes \cup {Null}
      BY <1>1, <1>2, <1>6, <2>3, LiveKids DEF NodeOrdered
    <3>2. deep[kids[q][1]] \in Nat
      BY <1>1, <1>2, <3>1 DEF GhostType
    <3> QED
      BY <3>1, <3>2
  <2>6. (CHOOSE d \in below : TRUE) = m - 1
    BY <2>4
  <2>7. \E d \in below : d # -1 /\ below = {d}
    BY <2>4, <2>5
  <2>8. DepthOf(f, q, span[q]) = DepthFrom(q, span[q], below)
    BY <1>2, <2>0 DEF DepthOf
  <2>9. DepthOf(f, q, span[q]) = m
    BY <2>1, <2>2, <2>5, <2>6, <2>7, <2>8 DEF DepthFrom
  <2> QED
    BY <1>2, <1>3, <2>9
<1> QED
  BY <1>6, <1>9

\* Between inserts a tree is a B-tree, whatever other inserts do to the nodes it
\* shares with theirs: every search for a key goes down the only path it can be
\* on, and all paths are equally long.
THEOREM IsBTreeTheorem == Spec => []IsBTree
<1>1. ASSUME TreeInv, OrderInv PROVE IsBTree
  <2>1. SUFFICES ASSUME NEW t \in Thread, pc[t] = "idle"
                 PROVE  Depth(root[t]) # -1
    BY DEF IsBTree
  <2>2. PICK deep, span, part : Ordered(deep, span, part)
    BY <1>1 DEF OrderInv
  <2>3. PICK f : f = CHOOSE g : g = Depths(g)
    OBVIOUS
  <2>4. f = Depths(f)
    BY <1>1, <2>2, <2>3, DepthExists
  <2>5. Depth(root[t]) = f[root[t]][Key]
    BY <2>3 DEF Depth, Depths, DepthOf, DepthFrom, Below
  <2>6. CASE root[t] = Null
    <3>1. f[Null][Key] = 0
      BY <2>4 DEF Depths, DepthOf
    <3> QED
      BY <2>5, <2>6, <3>1
  <2>7. CASE root[t] # Null
    <3>1. TreeType /\ CountsOwners
      BY <1>1 DEF TreeInv
    <3>2. root[t] \in Nodes
      <4>1. Owners(root[t]) # 0
        BY <3>1, RootOwns
      <4> QED
        BY <2>7, <3>1, <4>1 DEF TreeType, Pointer, CountsOwners, Nodes
    <3>3. \A u \in Thread : root[t] \notin Own(u)
      <4>1. Own(t) = {}
        BY <1>1, <2>1, IdleOwnsNothing DEF Inserting
      <4> QED
        BY <1>1, <4>1, OwnedByOne
    <3>4. span[root[t]] = Key /\ deep[root[t]] \in Nat
      BY <2>2, <2>7, <3>2 DEF Ordered, ThreadOrdered, GhostType, Nodes, Pointer
    <3>5. f[root[t]][span[root[t]]] = deep[root[t]]
      BY <1>1, <2>2, <2>4, <3>2, <3>3, DepthIsHeight
    <3> QED
      BY <2>5, <3>4, <3>5
  <2> QED
    BY <2>6, <2>7
<1>2. TreeInv /\ OrderInv => IsBTree
  BY <1>1
<1> QED
  BY <1>2, TreeInvTheorem, OrderTheorem, PTL

-----------------------------------------------------------------------------
(* What a search finds *)

\* Search and Look, of a node with the entries es and the nodes ks below.
SearchIn(es, k) ==
  LET larger == {i \in 1 .. Len(es) : es[i][1] >= k}
  IN IF larger = {} THEN Len(es) + 1 ELSE Min(larger)
LookIn(es, ks, k, get) ==
  LET i == SearchIn(es, k)
  IN IF i <= Len(es) /\ es[i][1] = k THEN es[i][2] ELSE get[ks[i]]

LEMMA LookIsLookIn ==
  ASSUME NEW a, NEW k, NEW get
  PROVE  Look(a, k, get) = LookIn(entries[a], kids[a], k, get)
BY DEF Look, LookIn, Search, SearchIn, Holds

\* Entries in order, and a key to search for.
Sorted(es, k) == es \in Seq(Entry) /\ InOrder(es, Key) /\ k \in Key

\* The search ends at the entry with its key, or between the keys around it.
LEMMA SearchInEnds ==
  ASSUME NEW es, NEW k, Sorted(es, k), NEW m, m = SearchIn(es, k)
  PROVE  /\ m \in 1 .. Len(es) + 1 /\ Len(es) \in Nat
         /\ (m <= Len(es) /\ es[m][1] = k) \/ k \in Between(es, m, Key)
<1> DEFINE n == Len(es)
           larger == {i \in 1 .. n : es[i][1] >= k}
<1>1. /\ n \in Nat /\ DOMAIN es = 1 .. n /\ \A j \in 1 .. n : es[j][1] \in Nat
  BY KeysAreNumbers DEF Sorted
<1>2. k \in Nat /\ k \in Key
  BY KeyAssumption DEF Sorted
<1>3. m = IF larger = {} THEN n + 1 ELSE Min(larger)
  BY DEF SearchIn
<1>4. \A i, j \in 1 .. n : i < j => es[i][1] < es[j][1]
  BY <1>1 DEF InOrder, Sorted
<1>5. larger # {} => Min(larger) \in larger /\ \A i \in larger : Min(larger) <= i
  <2>1. larger \in SUBSET (1 .. n)
    OBVIOUS
  <2> HIDE DEF larger
  <2> QED
    BY <1>1, <2>1, LeastNumber
<1> HIDE DEF n
<1>6. m \in 1 .. n + 1
  <2>1. larger # {} => m \in 1 .. n
    BY <1>3, <1>5
  <2> QED
    BY <1>1, <1>3, <2>1
<1>7. ASSUME ~(m <= n /\ es[m][1] = k), NEW j \in 1 .. n
      PROVE  IF j < m THEN es[j][1] < k ELSE k < es[j][1]
  <2>1. CASE larger = {}
    BY <1>1, <1>2, <1>3, <2>1
  <2>2. CASE larger # {}
    <3>1. m \in larger /\ \A i \in larger : m <= i
      BY <1>3, <1>5, <2>2
    <3>2. m \in 1 .. n /\ es[m][1] >= k /\ es[m][1] \in Nat /\ es[j][1] \in Nat
      BY <1>1, <3>1
    <3>3. k < es[m][1]
      BY <1>2, <1>7, <3>2
    <3>4. j < m => es[j][1] < k
      BY <1>1, <1>2, <3>1, <3>2
    <3>5. m < j => es[m][1] < es[j][1]
      BY <1>4, <3>2
    <3> QED
      BY <1>2, <3>2, <3>3, <3>4, <3>5
  <2> QED
    BY <2>1, <2>2
<1>8. ~(m <= n /\ es[m][1] = k) => k \in Between(es, m, Key)
  BY <1>1, <1>2, <1>7 DEF Between
<1> QED
  BY <1>1, <1>6, <1>8 DEF n

\* A key is at most one of: that of one entry, or between two.
LEMMA PlacesAreApart ==
  ASSUME NEW es, NEW k, Sorted(es, k), NEW i \in 1 .. Len(es) + 1, NEW j \in 1 .. Len(es) + 1
  PROVE  /\ i <= Len(es) /\ j <= Len(es) /\ es[i][1] = k /\ es[j][1] = k => i = j
         /\ i <= Len(es) /\ es[i][1] = k => k \notin Between(es, j, Key)
         /\ k \in Between(es, i, Key) /\ k \in Between(es, j, Key) => i = j
<1>1. /\ Len(es) \in Nat /\ DOMAIN es = 1 .. Len(es) /\ \A m \in 1 .. Len(es) : es[m][1] \in Nat
  BY KeysAreNumbers DEF Sorted
<1>2. k \in Nat
  BY KeyAssumption DEF Sorted
<1>3. \A m, l \in 1 .. Len(es) : m < l => es[m][1] < es[l][1]
  BY <1>1 DEF InOrder, Sorted
<1>4. i <= Len(es) /\ j <= Len(es) /\ es[i][1] = k /\ es[j][1] = k => i = j
  <2>1. SUFFICES ASSUME i <= Len(es), j <= Len(es), es[i][1] = k, es[j][1] = k, i # j
                 PROVE  FALSE
    OBVIOUS
  <2>2. i \in 1 .. Len(es) /\ j \in 1 .. Len(es)
    BY <1>1, <2>1
  <2>3. i < j \/ j < i
    BY <1>1, <2>1, <2>2
  <2>4. k < k
    BY <1>3, <2>1, <2>2, <2>3
  <2> QED
    BY <1>2, <2>4
<1>5. ASSUME i <= Len(es), es[i][1] = k, k \in Between(es, j, Key)
      PROVE  FALSE
  <2>1. i \in DOMAIN es
    BY <1>1, <1>5
  <2>2. k < k
    BY <1>5, <2>1 DEF Between
  <2> QED
    BY <1>2, <2>2
<1>6. ASSUME k \in Between(es, i, Key), k \in Between(es, j, Key), i # j
      PROVE  FALSE
  <2>1. \A m, l \in 1 .. Len(es) + 1 : m < l /\ k \in Between(es, m, Key) => k \notin Between(es, l, Key)
    <3>1. SUFFICES ASSUME NEW m \in 1 .. Len(es) + 1, NEW l \in 1 .. Len(es) + 1, m < l,
                          k \in Between(es, m, Key), k \in Between(es, l, Key)
                   PROVE  FALSE
      OBVIOUS
    <3>2. m \in DOMAIN es /\ ~(m < m)
      BY <1>1, <3>1
    <3>3. es[m][1] < k /\ k < es[m][1] /\ es[m][1] \in Nat
      BY <1>1, <3>1, <3>2 DEF Between
    <3> QED
      BY <1>2, <3>3
  <2>2. i < j \/ j < i
    BY <1>1, <1>6
  <2> QED
    BY <1>6, <2>1, <2>2
<1> QED
  BY <1>4, <1>5, <1>6

\* What a search finds, wherever its key is.
LEMMA LookFinds ==
  ASSUME NEW es, NEW k, Sorted(es, k), NEW ks, NEW get
  PROVE  /\ Len(es) \in Nat
         /\ \A i \in 1 .. Len(es) : es[i][1] = k => LookIn(es, ks, k, get) = es[i][2]
         /\ \A i \in 1 .. Len(es) + 1 : k \in Between(es, i, Key) => LookIn(es, ks, k, get) = get[ks[i]]
         /\ \/ \E i \in 1 .. Len(es) : es[i][1] = k
            \/ \E i \in 1 .. Len(es) + 1 : k \in Between(es, i, Key)
<1>1. PICK m : m = SearchIn(es, k)
  OBVIOUS
<1>2. /\ m \in 1 .. Len(es) + 1 /\ Len(es) \in Nat
      /\ (m <= Len(es) /\ es[m][1] = k) \/ k \in Between(es, m, Key)
  BY <1>1, SearchInEnds
<1>3. LookIn(es, ks, k, get) = IF m <= Len(es) /\ es[m][1] = k THEN es[m][2] ELSE get[ks[m]]
  BY <1>1 DEF LookIn
<1>4. ASSUME NEW i \in 1 .. Len(es), es[i][1] = k
      PROVE  LookIn(es, ks, k, get) = es[i][2]
  <2>1. i \in 1 .. Len(es) + 1 /\ i <= Len(es)
    BY <1>2
  <2>2. k \notin Between(es, m, Key)
    BY <1>2, <1>4, <2>1, PlacesAreApart
  <2>3. m <= Len(es) /\ es[m][1] = k
    BY <1>2, <2>2
  <2>4. m = i
    BY <1>2, <1>4, <2>1, <2>3, PlacesAreApart
  <2> QED
    BY <1>3, <2>3, <2>4
<1>5. ASSUME NEW i \in 1 .. Len(es) + 1, k \in Between(es, i, Key)
      PROVE  LookIn(es, ks, k, get) = get[ks[i]]
  <2>1. ~(m <= Len(es) /\ es[m][1] = k)
    BY <1>2, <1>5, PlacesAreApart
  <2>2. m = i
    BY <1>2, <1>5, <2>1, PlacesAreApart
  <2> QED
    BY <1>3, <2>1, <2>2
<1>6. \/ \E i \in 1 .. Len(es) : es[i][1] = k
      \/ \E i \in 1 .. Len(es) + 1 : k \in Between(es, i, Key)
  BY <1>2
<1> QED
  BY <1>2, <1>4, <1>5, <1>6

\* It finds the same in what is the same below.
LEMMA LookSame ==
  ASSUME NEW es, NEW k, Sorted(es, k), NEW ks, NEW get, NEW ks2, NEW get2,
         \A i \in 1 .. Len(es) + 1 : get2[ks2[i]] = get[ks[i]]
  PROVE  LookIn(es, ks2, k, get2) = LookIn(es, ks, k, get)
<1>1. PICK m : m = SearchIn(es, k)
  OBVIOUS
<1>2. m \in 1 .. Len(es) + 1
  BY <1>1, SearchInEnds
<1> QED
  BY <1>1, <1>2 DEF LookIn

\* An entry and the node to its right enter at i, between the keys around it.
Arriving(es, ks, i, e, r, k, all, below) ==
  /\ Sorted(es, k) /\ ks \in Seq(Pointer) /\ Len(ks) = Len(es) + 1
  /\ i \in 1 .. Len(es) + 1 /\ e \in Entry /\ e[1] \in Between(es, i, Key) /\ r \in Pointer
  /\ all = InsertAt(es, i, e) /\ below = InsertAt(ks, i + 1, r)

\* The node then has the entry, and on either side of it what is left and right
\* of it; the rest is found as before.
LEMMA LookArrived ==
  ASSUME NEW es, NEW ks, NEW i, NEW e, NEW r, NEW k, NEW all, NEW below,
         Arriving(es, ks, i, e, r, k, all, below), NEW g, NEW g2,
         \A j \in 1 .. Len(es) + 1 : j # i => g2[ks[j]] = g[ks[j]]
  PROVE  LookIn(all, below, k, g) =
           IF k = e[1] THEN e[2]
           ELSE IF k \in Between(es, i, Key) THEN IF k < e[1] THEN g[ks[i]] ELSE g[r]
           ELSE LookIn(es, ks, k, g2)
<1>1. /\ Sorted(es, k) /\ ks \in Seq(Pointer) /\ Len(ks) = Len(es) + 1
      /\ i \in 1 .. Len(es) + 1 /\ e \in Entry /\ e[1] \in Between(es, i, Key) /\ r \in Pointer
      /\ all = InsertAt(es, i, e) /\ below = InsertAt(ks, i + 1, r)
  BY DEF Arriving
<1>2. es \in Seq(Entry) /\ InOrder(es, Key) /\ k \in Key /\ k \in Nat /\ Len(es) \in Nat /\ i \in Nat
  BY <1>1, KeyAssumption, LenProperties DEF Sorted
<1>3. /\ all \in Seq(Entry) /\ Len(all) = Len(es) + 1
      /\ \A j \in 1 .. Len(es) + 1 : all[j] = IF j < i THEN es[j] ELSE IF j = i THEN e ELSE es[j - 1]
  <2>1. Inserted(Entry, es, i, e, all)
    BY <1>1, <1>2 DEF Inserted
  <2> QED
    BY <2>1, InsertAtElements
<1>4. \A j \in 1 .. Len(es) + 2 :
         below[j] = IF j < i + 1 THEN ks[j] ELSE IF j = i + 1 THEN r ELSE ks[j - 1]
  <2>1. i + 1 \in 1 .. Len(ks) + 1 /\ Len(ks) + 1 = Len(es) + 2
    BY <1>1, <1>2
  <2>2. Inserted(Pointer, ks, i + 1, r, below)
    BY <1>1, <2>1 DEF Inserted
  <2> QED
    BY <2>1, <2>2, InsertAtElements
<1>5. /\ InOrder(all, Key)
      /\ \A j \in 1 .. Len(es) + 2 : Between(all, j, Key) =
           IF j < i THEN Between(es, j, Key)
           ELSE IF j = i THEN {x \in Between(es, i, Key) : x < e[1]}
           ELSE IF j = i + 1 THEN {x \in Between(es, i, Key) : e[1] < x}
           ELSE Between(es, j - 1, Key)
  <2>1. Key \in SUBSET Key
    OBVIOUS
  <2> QED
    BY <1>1, <1>2, <2>1, InsertOrder
<1>6. Sorted(all, k)
  BY <1>2, <1>3, <1>5 DEF Sorted
<1>7. /\ \A j \in 1 .. Len(es) + 1 : all[j][1] = k => LookIn(all, below, k, g) = all[j][2]
      /\ \A j \in 1 .. Len(es) + 2 : k \in Between(all, j, Key) => LookIn(all, below, k, g) = g[below[j]]
  <2>1. Len(all) = Len(es) + 1 /\ Len(all) + 1 = Len(es) + 2
    BY <1>2, <1>3
  <2> QED
    BY <1>6, <2>1, LookFinds
<1>8. CASE k = e[1]
  <2>1. all[i] = e /\ i \in 1 .. Len(es) + 1
    BY <1>1, <1>3
  <2> QED
    BY <1>7, <1>8, <2>1
<1>9. CASE k # e[1] /\ k \in Between(es, i, Key)
  <2>1. e[1] \in Nat
    BY <1>1, KeyAssumption DEF Entry
  <2>2. CASE k < e[1]
    <3>1. i \in 1 .. Len(es) + 2 /\ k \in Between(all, i, Key) /\ below[i] = ks[i]
      BY <1>1, <1>2, <1>4, <1>5, <1>9, <2>2
    <3> QED
      BY <1>7, <1>9, <2>2, <3>1
  <2>3. CASE e[1] < k
    <3>1. i + 1 \in 1 .. Len(es) + 2 /\ ~(i + 1 < i) /\ i + 1 # i /\ ~(k < e[1])
      BY <1>1, <1>2, <2>1, <2>3
    <3>2. k \in Between(all, i + 1, Key) /\ below[i + 1] = r
      BY <1>4, <1>5, <1>9, <2>3, <3>1
    <3> QED
      BY <1>7, <1>9, <3>1, <3>2
  <2> QED
    BY <1>2, <1>9, <2>1, <2>2, <2>3
<1>10. CASE k # e[1] /\ k \notin Between(es, i, Key)
  <2>1. /\ \A j \in 1 .. Len(es) : es[j][1] = k => LookIn(es, ks, k, g2) = es[j][2]
        /\ \A j \in 1 .. Len(es) + 1 : k \in Between(es, j, Key) => LookIn(es, ks, k, g2) = g2[ks[j]]
        /\ \/ \E j \in 1 .. Len(es) : es[j][1] = k
           \/ \E j \in 1 .. Len(es) + 1 : k \in Between(es, j, Key)
    BY <1>1, LookFinds
  <2>2. ASSUME NEW j \in 1 .. Len(es), es[j][1] = k
        PROVE  LookIn(all, below, k, g) = LookIn(es, ks, k, g2)
    <3>1. PICK m : m = IF j < i THEN j ELSE j + 1
      OBVIOUS
    <3>2. m \in 1 .. Len(es) + 1 /\ (j < i => m < i /\ m = j) /\ (~(j < i) => ~(m < i) /\ m # i /\ m - 1 = j)
      BY <1>2, <3>1
    <3>3. all[m] = es[j]
      BY <1>3, <3>2
    <3>4. LookIn(all, below, k, g) = all[m][2]
      BY <1>7, <2>2, <3>2, <3>3
    <3> QED
      BY <2>1, <2>2, <3>3, <3>4
  <2>3. ASSUME NEW j \in 1 .. Len(es) + 1, k \in Between(es, j, Key)
        PROVE  LookIn(all, below, k, g) = LookIn(es, ks, k, g2)
    <3>1. PICK m : m = IF j < i THEN j ELSE j + 1
      OBVIOUS
    <3>2. j # i
      BY <1>10, <2>3
    <3>3. /\ m \in 1 .. Len(es) + 2 /\ (j < i => m < i /\ m = j /\ m < i + 1)
          /\ ~(j < i) => ~(m < i) /\ m # i /\ m # i + 1 /\ ~(m < i + 1) /\ m - 1 = j
      BY <1>2, <3>1, <3>2
    <3>4. Between(all, m, Key) = Between(es, j, Key) /\ below[m] = ks[j]
      BY <1>4, <1>5, <3>3
    <3>5. LookIn(all, below, k, g) = g[below[m]]
      BY <1>7, <2>3, <3>3, <3>4
    <3>6. LookIn(es, ks, k, g2) = g2[ks[j]]
      BY <2>1, <2>3
    <3>7. g2[ks[j]] = g[ks[j]]
      BY <3>2
    <3> QED
      BY <3>4, <3>5, <3>6, <3>7
  <2> QED
    BY <1>10, <2>1, <2>2, <2>3
<1> QED
  BY <1>8, <1>9, <1>10

\* The first n of a sequence, and those from behind the n-th.
LEMMA FirstOf ==
  ASSUME NEW S, NEW s \in Seq(S), NEW n \in 0 .. Len(s), NEW l, l = SubSeq(s, 1, n)
  PROVE  l \in Seq(S) /\ Len(l) = n /\ \A j \in 1 .. n : l[j] = s[j]
<1>1. Len(s) \in Nat /\ \A j \in 1 .. Len(s) : s[j] \in S
  BY LenProperties, ElementOfSeq
<1>2. /\ SubSeq(s, 1, n) \in Seq(S)
      /\ Len(SubSeq(s, 1, n)) = IF 1 <= n THEN n - 1 + 1 ELSE 0
      /\ \A j \in 1 .. n - 1 + 1 : SubSeq(s, 1, n)[j] = s[1 + j - 1]
  BY <1>1, SubSeqProperties
<1>3. n - 1 + 1 = n /\ \A j \in 1 .. n : 1 + j - 1 = j
  BY <1>1
<1>4. (IF 1 <= n THEN n - 1 + 1 ELSE 0) = n
  BY <1>1
<1> QED
  BY <1>2, <1>3, <1>4

LEMMA RestOf ==
  ASSUME NEW S, NEW s \in Seq(S), NEW n \in 0 .. Len(s), NEW r, r = SubSeq(s, n + 1, Len(s))
  PROVE  r \in Seq(S) /\ Len(r) = Len(s) - n /\ \A j \in 1 .. Len(s) - n : r[j] = s[n + j]
<1>1. Len(s) \in Nat /\ \A j \in 1 .. Len(s) : s[j] \in S
  BY LenProperties, ElementOfSeq
<1>2. /\ SubSeq(s, n + 1, Len(s)) \in Seq(S)
      /\ Len(SubSeq(s, n + 1, Len(s))) = IF n + 1 <= Len(s) THEN Len(s) - (n + 1) + 1 ELSE 0
      /\ \A j \in 1 .. Len(s) - (n + 1) + 1 : SubSeq(s, n + 1, Len(s))[j] = s[n + 1 + j - 1]
  BY <1>1, SubSeqProperties
<1>3. Len(s) - (n + 1) + 1 = Len(s) - n /\ \A j \in 1 .. Len(s) - n : n + 1 + j - 1 = n + j
  BY <1>1
<1>4. (IF n + 1 <= Len(s) THEN Len(s) - (n + 1) + 1 ELSE 0) = Len(s) - n
  BY <1>1
<1> QED
  BY <1>2, <1>3, <1>4

\* A node that splits around the entry at p.
Parting(all, below, p, k, el, er, l, r) ==
  /\ Sorted(all, k) /\ below \in Seq(Pointer) /\ Len(below) = Len(all) + 1
  /\ p \in 1 .. Len(all)
  /\ el = SubSeq(all, 1, p - 1) /\ er = SubSeq(all, p + 1, Len(all))
  /\ l = SubSeq(below, 1, p) /\ r = SubSeq(below, p + 1, Len(below))

LEMMA LookParted ==
  ASSUME NEW all, NEW below, NEW p, NEW k, NEW el, NEW er, NEW l, NEW r,
         Parting(all, below, p, k, el, er, l, r), NEW g
  PROVE  /\ LookIn(all, below, k, g) =
              IF k = all[p][1] THEN all[p][2]
              ELSE IF k > all[p][1] THEN LookIn(er, r, k, g)
              ELSE LookIn(el, l, k, g)
         /\ Sorted(el, k) /\ Sorted(er, k)
<1>1. /\ Sorted(all, k) /\ below \in Seq(Pointer) /\ Len(below) = Len(all) + 1
      /\ p \in 1 .. Len(all)
      /\ el = SubSeq(all, 1, p - 1) /\ er = SubSeq(all, p + 1, Len(all))
      /\ l = SubSeq(below, 1, p) /\ r = SubSeq(below, p + 1, Len(below))
  BY DEF Parting
<1>2. /\ all \in Seq(Entry) /\ InOrder(all, Key) /\ k \in Key /\ k \in Nat /\ Len(all) \in Nat /\ p \in Nat
      /\ Len(below) \in Nat
  BY <1>1, KeyAssumption, LenProperties DEF Sorted
<1>3. PICK L, R : L = {x \in Key : x < all[p][1]} /\ R = {x \in Key : all[p][1] < x}
  OBVIOUS
<1>4. /\ InOrder(el, L) /\ InOrder(er, R)
      /\ \A j \in 1 .. p : Between(el, j, L) = Between(all, j, Key)
      /\ \A j \in 1 .. Len(all) + 1 - p : Between(er, j, R) = Between(all, p + j, Key)
  <2>1. Key \in SUBSET Key
    OBVIOUS
  <2>2. Halved(all, Key, p, el, er, L, R)
    BY <1>1, <1>2, <1>3, <2>1 DEF Halved
  <2> QED
    BY <2>2, SplitOrder
<1>5. el \in Seq(Entry) /\ Len(el) = p - 1 /\ \A j \in 1 .. p - 1 : el[j] = all[j]
  <2>1. p - 1 \in 0 .. Len(all) /\ el = SubSeq(all, 1, p - 1)
    BY <1>1, <1>2
  <2>2. all \in Seq(Entry)
    BY <1>2
  <2> QED
    BY <2>1, <2>2, FirstOf
<1>6. er \in Seq(Entry) /\ Len(er) = Len(all) - p /\ \A j \in 1 .. Len(all) - p : er[j] = all[p + j]
  <2>1. p \in 0 .. Len(all) /\ er = SubSeq(all, p + 1, Len(all))
    BY <1>1, <1>2
  <2>2. all \in Seq(Entry)
    BY <1>2
  <2> QED
    BY <2>1, <2>2, RestOf
<1>7. /\ \A j \in 1 .. p : l[j] = below[j]
      /\ \A j \in 1 .. Len(all) + 1 - p : r[j] = below[p + j]
  <2>1. /\ p \in 0 .. Len(below) /\ l = SubSeq(below, 1, p) /\ r = SubSeq(below, p + 1, Len(below))
        /\ Len(below) - p = Len(all) + 1 - p
    BY <1>1, <1>2
  <2>2. below \in Seq(Pointer)
    BY <1>1
  <2>3. \A j \in 1 .. p : l[j] = below[j]
    BY <2>1, <2>2, FirstOf
  <2>4. \A j \in 1 .. Len(below) - p : r[j] = below[p + j]
    BY <2>1, <2>2, RestOf
  <2> QED
    BY <2>1, <2>3, <2>4
<1>8. Sorted(el, k) /\ Sorted(er, k)
  BY <1>2, <1>3, <1>4, <1>5, <1>6 DEF Sorted, InOrder
<1>9. \A S \in SUBSET Key : \A es, j : Between(es, j, S) = Between(es, j, Key) \cap S
  BY DEF Between
<1>10. /\ Len(all) \in Nat
       /\ \A i \in 1 .. Len(all) : all[i][1] = k => LookIn(all, below, k, g) = all[i][2]
       /\ \A i \in 1 .. Len(all) + 1 : k \in Between(all, i, Key) => LookIn(all, below, k, g) = g[below[i]]
       /\ \/ \E i \in 1 .. Len(all) : all[i][1] = k
          \/ \E i \in 1 .. Len(all) + 1 : k \in Between(all, i, Key)
  <2>1. Sorted(all, k)
    BY <1>1
  <2> QED
    BY <2>1, LookFinds
<1>11. /\ \A i \in 1 .. p - 1 : el[i][1] = k => LookIn(el, l, k, g) = el[i][2]
       /\ \A i \in 1 .. p : k \in Between(el, i, Key) => LookIn(el, l, k, g) = g[l[i]]
  <2>1. Len(el) = p - 1 /\ Len(el) + 1 = p
    BY <1>2, <1>5
  <2> QED
    BY <1>8, <2>1, LookFinds
<1>12. /\ \A i \in 1 .. Len(all) - p : er[i][1] = k => LookIn(er, r, k, g) = er[i][2]
       /\ \A i \in 1 .. Len(all) + 1 - p : k \in Between(er, i, Key) => LookIn(er, r, k, g) = g[r[i]]
  <2>1. Len(er) = Len(all) - p /\ Len(er) + 1 = Len(all) + 1 - p
    BY <1>2, <1>6
  <2> QED
    BY <1>8, <2>1, LookFinds
<1>13. /\ \A j \in 1 .. Len(all) : all[j][1] \in Nat
       /\ \A i, j \in 1 .. Len(all) : i < j => all[i][1] < all[j][1]
  BY <1>2, KeysAreNumbers DEF InOrder
<1>14. CASE k = all[p][1]
  <2>1. LookIn(all, below, k, g) = all[p][2]
    BY <1>1, <1>10, <1>14
  <2> QED
    BY <1>8, <1>14, <2>1
<1>15. CASE k > all[p][1]
  <2>1. k # all[p][1] /\ k \in R
    BY <1>1, <1>2, <1>3, <1>13, <1>15
  <2>2. ASSUME NEW i \in 1 .. Len(all), all[i][1] = k
        PROVE  LookIn(all, below, k, g) = LookIn(er, r, k, g)
    <3>1. p < i
      <4>1. i # p /\ ~(i < p)
        BY <1>1, <1>2, <1>13, <1>15, <2>1, <2>2
      <4> QED
        BY <1>2, <4>1
    <3>2. i - p \in 1 .. Len(all) - p /\ p + (i - p) = i
      BY <1>2, <3>1
    <3> QED
      BY <1>6, <1>10, <1>12, <2>2, <3>2
  <2>3. ASSUME NEW i \in 1 .. Len(all) + 1, k \in Between(all, i, Key)
        PROVE  LookIn(all, below, k, g) = LookIn(er, r, k, g)
    <3>1. p < i
      <4>1. p \in DOMAIN all /\ all[p][1] \in Nat
        BY <1>1, <1>2, <1>13, LenProperties
      <4>2. ~(k < all[p][1])
        BY <1>2, <1>15, <4>1
      <4> QED
        BY <2>3, <4>1, <4>2 DEF Between
    <3>2. i - p \in 1 .. Len(all) + 1 - p /\ p + (i - p) = i
      BY <1>2, <3>1
    <3>3. k \in Between(er, i - p, R) /\ r[i - p] = below[i]
      BY <1>4, <1>7, <2>3, <3>2
    <3>4. k \in Between(er, i - p, Key)
      BY <1>3, <1>9, <3>3
    <3> QED
      BY <1>10, <1>12, <2>3, <3>2, <3>3, <3>4
  <2>4. LookIn(all, below, k, g) = LookIn(er, r, k, g)
    BY <1>10, <2>2, <2>3
  <2> QED
    BY <1>8, <1>15, <2>1, <2>4
<1>16. CASE k < all[p][1]
  <2>1. k # all[p][1] /\ ~(k > all[p][1])
    BY <1>1, <1>2, <1>13, <1>16
  <2>2. ASSUME NEW i \in 1 .. Len(all), all[i][1] = k
        PROVE  LookIn(all, below, k, g) = LookIn(el, l, k, g)
    <3>1. i < p
      <4>1. i # p /\ ~(p < i)
        BY <1>1, <1>2, <1>13, <1>16, <2>1, <2>2
      <4> QED
        BY <1>2, <4>1
    <3>2. i \in 1 .. p - 1
      BY <1>2, <3>1
    <3> QED
      BY <1>5, <1>10, <1>11, <2>2, <3>2
  <2>3. ASSUME NEW i \in 1 .. Len(all) + 1, k \in Between(all, i, Key)
        PROVE  LookIn(all, below, k, g) = LookIn(el, l, k, g)
    <3>1. ~(p < i)
      <4>1. p \in DOMAIN all /\ all[p][1] \in Nat
        BY <1>1, <1>2, <1>13, LenProperties
      <4>2. ~(all[p][1] < k)
        BY <1>2, <1>16, <4>1
      <4> QED
        BY <2>3, <4>1, <4>2 DEF Between
    <3>2. i \in 1 .. p
      BY <1>2, <3>1
    <3>3. k \in Between(el, i, L) /\ l[i] = below[i]
      BY <1>4, <1>7, <2>3, <3>2
    <3>4. k \in Between(el, i, Key)
      BY <1>3, <1>9, <3>3
    <3> QED
      BY <1>10, <1>11, <2>3, <3>2, <3>3, <3>4
  <2>4. LookIn(all, below, k, g) = LookIn(el, l, k, g)
    BY <1>10, <2>2, <2>3
  <2> QED
    BY <1>8, <1>16, <2>1, <2>4
<1>17. all[p][1] \in Nat
  BY <1>1, <1>13
<1> QED
  BY <1>2, <1>8, <1>14, <1>15, <1>16, <1>17

-----------------------------------------------------------------------------
(* The values that a tree has *)

\* get[p] is the value for k under the pointer p: for a node, what a search finds
\* from there, unless an insert has split it and carries the right half up, which
\* is still a part of it.
NodeGets(a, k, get) ==
  \/ get[a] = LookIn(entries[a], kids[a], k, get)
  \/ \E t \in Thread : pc[t] = "carry" /\ Here(t) = a

\* A copy has what the node has that it is to replace, and what a set is about to
\* insert is not there yet.
Awaits(t) == Inserting(t) /\ pc[t] # "carry"
ThreadGets(t, k, get) ==
  /\ pc[t] = "carry" =>
       get[Here(t)] = IF k = entry[t][1] THEN entry[t][2]
                      ELSE IF k > entry[t][1] THEN get[right[t]]
                      ELSE LookIn(entries[Here(t)], kids[Here(t)], k, get)
  /\ copy[t] # Null => get[copy[t]] = get[Here(t)]
  /\ Awaits(t) /\ entry[t][1] = k /\ ~replace => get[root[t]] = Null

Gets(k, get) ==
  /\ get[Null] = Null
  /\ \A a \in Nodes : NodeGets(a, k, get)
  /\ \A t \in Thread : ThreadGets(t, k, get)

MapInv == \A k \in Key : \E get : Gets(k, get)

\* A step of t gives its tree the value v for k, and leaves those of the others.
Becomes(t, k, get, v) == \E get2 :
  Gets(k, get2)' /\ \A u \in Thread : get2[root'[u]] = IF u = t THEN v ELSE get[root[u]]

LEMMA NodeIsSorted ==
  ASSUME TreeInv, OrderInv, NEW a \in Nodes, NEW k \in Key
  PROVE  /\ a \in Addr /\ a # Null /\ Sorted(entries[a], k)
         /\ entries[a] \in Seq(Entry) /\ kids[a] \in Seq(Pointer)
         /\ Len(entries[a]) \in Nat /\ Len(kids[a]) = Len(entries[a]) + 1
         /\ DOMAIN kids[a] = 1 .. Len(entries[a]) + 1
         /\ \A i \in 1 .. Len(entries[a]) + 1 : kids[a][i] \in Nodes \cup {Null}
<1>1. TreeType /\ NodesFit
  BY DEF TreeInv
<1>2. a \in Addr /\ a # Null /\ strong[a] # 0
  BY AddrAssumption DEF Nodes
<1>3. entries[a] \in Seq(Entry) /\ kids[a] \in Seq(Pointer)
  BY <1>1, <1>2 DEF TreeType
<1>4. /\ Len(entries[a]) \in Nat /\ Len(kids[a]) = Len(entries[a]) + 1
      /\ DOMAIN kids[a] = 1 .. Len(entries[a]) + 1
  BY <1>1, <1>2, <1>3, LenProperties DEF NodesFit, Fits
<1>5. \A i \in DOMAIN kids[a] : kids[a][i] \in Nodes \cup {Null}
  BY <1>2, LiveKids
<1>6. InOrder(entries[a], Key)
  <2>1. PICK deep, span, part : Ordered(deep, span, part)
    BY DEF OrderInv
  <2>2. InOrder(entries[a], part[a]) /\ part[a] \in SUBSET Key
    BY <1>2, <2>1 DEF Ordered, NodeOrdered, GhostType
  <2> QED
    BY <2>2 DEF InOrder
<1> QED
  BY <1>2, <1>3, <1>4, <1>5, <1>6 DEF Sorted

\* What a step has to show: that the nodes it changes and its thread have their
\* values.
NodeKeeps(a, t, get, get2) ==
  /\ a \in Nodes /\ entries'[a] = entries[a] /\ kids'[a] = kids[a]
  /\ get2[a] = get[a] /\ \A i \in DOMAIN kids[a] : get2[kids[a][i]] = get[kids[a][i]]
  /\ pc[t] = "carry" => Here(t) # a

\* The step leaves what others have made their own.
Leaves(t) ==
  /\ OnlyOf(t) /\ replace' = replace
  /\ \A u \in Thread \ {t} : \A g \in Own(u) : kids'[g] = kids[g] /\ entries'[g] = entries[g]

LEMMA OthersGet ==
  ASSUME TreeInv, OrderInv, NEW t \in Thread, Leaves(t),
         NEW k \in Key, NEW get, Gets(k, get),
         NEW get2, get2[Null] = Null, \A a \in Nodes \ Own(t) : get2[a] = get[a],
         NEW u \in Thread \ {t}
  PROVE  Here(u)' = Here(u) /\ ThreadGets(u, k, get2)' /\ get2[root'[u]] = get[root[u]]
<1>1. /\ root'[u] = root[u] /\ pc'[u] = pc[u] /\ entry'[u] = entry[u] /\ right'[u] = right[u]
      /\ path'[u] = path[u] /\ copy'[u] = copy[u] /\ replace' = replace
  BY DEF OnlyOf, Leaves
<1>2. PICK h : h = Here(u)
  OBVIOUS
<1>3. \A g \in OnPath(u) : kids'[g] = kids[g]
  BY DEF Own, Leaves
<1>4. Here(u)' = h
  BY <1>1, <1>2, <1>3, HereStays
<1>5. /\ root[u] # Null => root[u] \in Nodes \ Own(t)
      /\ copy[u] # Null => copy[u] \in Nodes \ Own(t)
      /\ right[u] # Null => right[u] \in Nodes \ Own(t)
      /\ Inserting(u) => h \in Nodes \ Own(t)
  BY <1>2, OthersAreApart
<1>6. get[Null] = Null /\ ThreadGets(u, k, get)
  BY DEF Gets
<1>7. (copy[u] # Null => Inserting(u)) /\ (pc[u] = "carry" => Inserting(u))
  BY DEF TreeInv, OfThread, Locals, Inserting
<1>8. get2[root[u]] = get[root[u]] /\ get2[copy[u]] = get[copy[u]] /\ get2[right[u]] = get[right[u]]
  BY <1>5, <1>6
<1>9. ASSUME pc[u] = "carry"
      PROVE  /\ entries'[h] = entries[h] /\ kids'[h] = kids[h]
             /\ LookIn(entries[h], kids[h], k, get2) = LookIn(entries[h], kids[h], k, get)
  <2>1. h \in Own(u) /\ Inserting(u)
    BY <1>2, <1>7, <1>9 DEF Own
  <2>2. entries'[h] = entries[h] /\ kids'[h] = kids[h]
    BY <2>1 DEF Leaves
  <2>3. \A i \in DOMAIN kids[h] : kids[h][i] \notin Own(t)
    BY <1>2, <2>1, OwnIsApart
  <2>4. h \in Nodes
    BY <1>5, <2>1
  <2>5. /\ Sorted(entries[h], k) /\ DOMAIN kids[h] = 1 .. Len(entries[h]) + 1
        /\ \A i \in 1 .. Len(entries[h]) + 1 : kids[h][i] \in Nodes \cup {Null}
    BY <2>4, NodeIsSorted
  <2>6. \A i \in 1 .. Len(entries[h]) + 1 : get2[kids[h][i]] = get[kids[h][i]]
    BY <1>6, <2>3, <2>5
  <2>7. LookIn(entries[h], kids[h], k, get2) = LookIn(entries[h], kids[h], k, get)
    BY <2>5, <2>6, LookSame
  <2> QED
    BY <2>2, <2>7
<1>10. Inserting(u) => get2[h] = get[h]
  BY <1>5
<1>11. Awaits(u)' = Awaits(u)
  BY <1>1 DEF Awaits, Inserting
<1>12. /\ pc[u] = "carry" =>
            get[h] = IF k = entry[u][1] THEN entry[u][2]
                     ELSE IF k > entry[u][1] THEN get[right[u]]
                     ELSE LookIn(entries[h], kids[h], k, get)
       /\ copy[u] # Null => get[copy[u]] = get[h]
       /\ Awaits(u) /\ entry[u][1] = k /\ ~replace => get[root[u]] = Null
  BY <1>2, <1>6 DEF ThreadGets
<1>13. pc[u] = "carry" =>
            get2[h] = IF k = entry[u][1] THEN entry[u][2]
                      ELSE IF k > entry[u][1] THEN get2[right[u]]
                      ELSE LookIn(entries'[h], kids'[h], k, get2)
  BY <1>7, <1>8, <1>9, <1>10, <1>12
<1>14. ThreadGets(u, k, get2)'
  BY <1>1, <1>4, <1>7, <1>8, <1>10, <1>11, <1>12, <1>13 DEF ThreadGets
<1> QED
  BY <1>1, <1>2, <1>4, <1>8, <1>14

LEMMA GetsStay ==
  ASSUME TreeInv, OrderInv, NEW t \in Thread, Leaves(t),
         NEW k \in Key, NEW get, Gets(k, get),
         NEW get2, get2[Null] = Null, \A a \in Nodes \ Own(t) : get2[a] = get[a],
         \A a \in Nodes' : \/ NodeKeeps(a, t, get, get2)
                           \/ get2[a] = LookIn(entries'[a], kids'[a], k, get2)
                           \/ pc'[t] = "carry" /\ Here(t)' = a,
         ThreadGets(t, k, get2)',
         NEW v, v = get2[root'[t]]
  PROVE  Becomes(t, k, get, v)
<1>1. \A u \in Thread \ {t} :
        Here(u)' = Here(u) /\ ThreadGets(u, k, get2)' /\ get2[root'[u]] = get[root[u]]
  BY OthersGet
<1>2. \A u \in Thread : ThreadGets(u, k, get2)'
  BY <1>1
<1>3. ASSUME NEW a \in Nodes'
      PROVE  NodeGets(a, k, get2)'
  <2>1. CASE NodeKeeps(a, t, get, get2)
    <3>1. /\ a \in Nodes /\ entries'[a] = entries[a] /\ kids'[a] = kids[a]
          /\ get2[a] = get[a] /\ \A i \in DOMAIN kids[a] : get2[kids[a][i]] = get[kids[a][i]]
          /\ pc[t] = "carry" => Here(t) # a
      BY <2>1 DEF NodeKeeps
    <3>2. NodeGets(a, k, get)
      BY <3>1 DEF Gets
    <3>3. CASE get[a] = LookIn(entries[a], kids[a], k, get)
      <4>1. Sorted(entries[a], k) /\ DOMAIN kids[a] = 1 .. Len(entries[a]) + 1
        BY <3>1, NodeIsSorted
      <4>2. \A i \in 1 .. Len(entries[a]) + 1 : get2[kids[a][i]] = get[kids[a][i]]
        BY <3>1, <4>1
      <4>3. LookIn(entries[a], kids[a], k, get2) = LookIn(entries[a], kids[a], k, get)
        BY <4>1, <4>2, LookSame
      <4> QED
        BY <3>1, <3>3, <4>3 DEF NodeGets
    <3>4. CASE \E u \in Thread : pc[u] = "carry" /\ Here(u) = a
      <4>1. PICK u \in Thread : pc[u] = "carry" /\ Here(u) = a
        BY <3>4
      <4>2. u # t
        BY <3>1, <4>1
      <4>3. pc'[u] = "carry" /\ Here(u)' = a
        BY <1>1, <4>1, <4>2 DEF Leaves, OnlyOf
      <4> QED
        BY <4>3 DEF NodeGets
    <3> QED
      BY <3>2, <3>3, <3>4 DEF NodeGets
  <2>2. CASE get2[a] = LookIn(entries'[a], kids'[a], k, get2)
    BY <2>2 DEF NodeGets
  <2>3. CASE pc'[t] = "carry" /\ Here(t)' = a
    BY <2>3 DEF NodeGets
  <2> QED
    BY <2>1, <2>2, <2>3
<1>4. Gets(k, get2)'
  BY <1>2, <1>3 DEF Gets
<1>5. \A u \in Thread : get2[root'[u]] = IF u = t THEN v ELSE get[root[u]]
  BY <1>1
<1> QED
  BY <1>4, <1>5 DEF Becomes

\* When no node changes, and none is half carried up, it is enough to show that
\* the thread has its values.
LEMMA HeapGets ==
  ASSUME TreeInv, OrderInv, NEW t \in Thread, Leaves(t), pc[t] # "carry",
         NEW k \in Key, NEW get, Gets(k, get),
         \A a \in Nodes' : a \in Nodes /\ entries'[a] = entries[a] /\ kids'[a] = kids[a],
         ThreadGets(t, k, get)',
         NEW v, v = get[root'[t]]
  PROVE  Becomes(t, k, get, v)
<1>1. get[Null] = Null
  BY DEF Gets
<1>2. \A a \in Nodes' : NodeKeeps(a, t, get, get)
  BY DEF NodeKeeps
<1> QED
  BY <1>1, <1>2, GetsStay

\* A thread that only goes on, and has no copy any more or yet, waits as before.
LEMMA StillGets ==
  ASSUME TreeInv, NEW t \in Thread, NEW k \in Key, NEW get, Gets(k, get),
         root'[t] = root[t], entry'[t] = entry[t], replace' = replace, copy'[t] = Null,
         pc'[t] # "carry", Inserting(t)' => Inserting(t) /\ pc[t] # "carry"
  PROVE  ThreadGets(t, k, get)'
<1>1. Awaits(t)' => Awaits(t)
  BY DEF Awaits, Inserting
<1>2. Awaits(t) /\ entry[t][1] = k /\ ~replace => get[root[t]] = Null
  BY DEF Gets, ThreadGets
<1> QED
  BY <1>1, <1>2 DEF ThreadGets

LEMMA DropGets ==
  ASSUME TreeInv, OrderInv, NEW t \in Thread, dropping[t] # << >>,
         NEW rest \in Seq(Pointer), DropRest(t, rest),
         \A u \in Thread : \A g \in Own(u) : kids'[g] = kids[g] /\ entries'[g] = entries[g],
         \A u \in Thread : \A g \in Own(u) : kids'[g] = kids[g] /\ strong'[g] = strong[g],
         \A a \in Nodes' : a \in Nodes /\ entries'[a] = entries[a] /\ kids'[a] = kids[a],
         NEW k \in Key, NEW get, Gets(k, get)
  PROVE  Becomes(t, k, get, get[root[t]])
<1>1. TreeType /\ Locals(t)
  BY DEF TreeInv, OfThread
<1>2. /\ root' = root /\ entry' = entry /\ copy' = copy /\ replace' = replace
      /\ pc' = [pc EXCEPT ![t] = IF rest # << >> THEN pc[t]
                                 ELSE IF pc[t] = "drop_node" THEN "mutate" ELSE "idle"]
  BY DEF DropRest, Goto, insert
<1>3. Leaves(t)
  BY <1>2, DropStays DEF Leaves
<1>4. pc[t] \in {"drop_node", "drop_tree"} /\ copy[t] = Null
  BY <1>1 DEF Locals
<1>5. pc'[t] = IF rest # << >> THEN pc[t] ELSE IF pc[t] = "drop_node" THEN "mutate" ELSE "idle"
  BY <1>1, <1>2 DEF TreeType
<1>6. ThreadGets(t, k, get)'
  <2>1. Inserting(t)' => Inserting(t) /\ pc[t] # "carry"
    BY <1>4, <1>5 DEF Inserting
  <2>2. root'[t] = root[t] /\ entry'[t] = entry[t] /\ copy'[t] = Null /\ pc'[t] # "carry"
    BY <1>2, <1>4, <1>5
  <2> QED
    BY <1>2, <2>1, <2>2, StillGets
<1>7. get[root[t]] = get[root'[t]] /\ pc[t] # "carry"
  BY <1>2, <1>4
<1> QED
  BY <1>3, <1>6, <1>7, HeapGets

LEMMA DropNoneGets ==
  ASSUME TreeInv, OrderInv, NEW t \in Thread, DropNone(t), NEW k \in Key, NEW get, Gets(k, get)
  PROVE  Becomes(t, k, get, get[root[t]])
<1>1. dropping[t] # << >> /\ DropRest(t, Tail(dropping[t]))
  BY DEF DropNone
<1>2. entries' = entries /\ kids' = kids /\ strong' = strong
  BY DEF DropNone, heap
<1>3. Tail(dropping[t]) \in Seq(Pointer)
  BY <1>1, HeadTailProperties DEF TreeInv, TreeType
<1>4. \A a \in Nodes' : a \in Nodes /\ entries'[a] = entries[a] /\ kids'[a] = kids[a]
  BY <1>2 DEF Nodes
<1> QED
  BY <1>1, <1>2, <1>3, <1>4, DropGets

LEMMA DropSharedGets ==
  ASSUME TreeInv, OrderInv, NEW t \in Thread, DropShared(t), NEW k \in Key, NEW get, Gets(k, get)
  PROVE  Becomes(t, k, get, get[root[t]])
<1> DEFINE h == Head(dropping[t])
<1>1. Dropping(t) /\ DropRest(t, Tail(dropping[t]))
  BY DEF DropShared
<1>2. entries' = entries /\ kids' = kids /\ strong' = [strong EXCEPT ![h] = @ - 1]
  BY DEF DropShared
<1>3. /\ dropping[t] # << >> /\ h \in Addr /\ strong[h] \in Nat \ {0}
      /\ Tail(dropping[t]) \in Seq(Pointer) /\ \A u \in Thread : h \notin Own(u)
  BY <1>1, DroppedNode
<1>4. strong \in [Addr -> Nat]
  BY DEF TreeInv, TreeType
<1> HIDE DEF h
<1>5. \A u \in Thread : \A g \in Own(u) : kids'[g] = kids[g] /\ strong'[g] = strong[g]
  BY <1>2, <1>3, <1>4, OwnedByOne
<1>6. \A a \in Nodes' : a \in Nodes /\ entries'[a] = entries[a] /\ kids'[a] = kids[a]
  BY <1>2, <1>3, <1>4 DEF Nodes
<1>7. \A u \in Thread : \A g \in Own(u) : kids'[g] = kids[g] /\ entries'[g] = entries[g]
  BY <1>2
<1> QED
  BY <1>1, <1>3, <1>5, <1>6, <1>7, DropGets

LEMMA DropLastGets ==
  ASSUME TreeInv, OrderInv, NEW t \in Thread, DropLast(t), NEW k \in Key, NEW get, Gets(k, get)
  PROVE  Becomes(t, k, get, get[root[t]])
<1> DEFINE h == Head(dropping[t])
           rest == kids[h] \o Tail(dropping[t])
<1>1. Dropping(t) /\ FreeNode(h) /\ DropRest(t, rest)
  BY DEF DropLast
<1>2. /\ strong' = [strong EXCEPT ![h] = 0]
      /\ entries' = [entries EXCEPT ![h] = << >>]
      /\ kids' = [kids EXCEPT ![h] = << >>]
  BY <1>1 DEF FreeNode
<1>3. /\ dropping[t] # << >> /\ h \in Addr
      /\ Tail(dropping[t]) \in Seq(Pointer) /\ \A u \in Thread : h \notin Own(u)
  BY <1>1, DroppedNode
<1>4. TreeType
  BY DEF TreeInv
<1>5. rest \in Seq(Pointer)
  BY <1>3, <1>4, ConcatProperties DEF TreeType
<1> HIDE DEF h, rest
<1>6. \A u \in Thread : \A g \in Own(u) : kids'[g] = kids[g] /\ strong'[g] = strong[g]
  BY <1>2, <1>3, <1>4, OwnedByOne DEF TreeType
<1>7. \A u \in Thread : \A g \in Own(u) : kids'[g] = kids[g] /\ entries'[g] = entries[g]
  BY <1>2, <1>3, <1>4, OwnedByOne DEF TreeType
<1>8. \A a \in Nodes' : a \in Nodes /\ entries'[a] = entries[a] /\ kids'[a] = kids[a]
  BY <1>2, <1>3, <1>4 DEF Nodes, TreeType
<1> QED
  BY <1>1, <1>3, <1>5, <1>6, <1>7, <1>8, DropGets

LEMMA CloneGets ==
  ASSUME TreeInv, OrderInv, NEW t \in Thread, NEW u \in Thread, Clone(t, u),
         NEW k \in Key, NEW get, Gets(k, get)
  PROVE  Becomes(t, k, get, get[root[u]])
<1>1. TreeType /\ Locals(t)
  BY DEF TreeInv, OfThread
<1>2. /\ root[u] # Null /\ pc[t] = "idle"
      /\ root' = [root EXCEPT ![t] = root[u]]
      /\ strong' = [strong EXCEPT ![root[u]] = @ + 1]
      /\ replace' = replace /\ entries' = entries /\ kids' = kids /\ pc' = pc /\ entry' = entry
      /\ right' = right /\ path' = path /\ copy' = copy /\ dropping' = dropping
  BY DEF Clone, insert
<1>3. Leaves(t) /\ root'[t] = root[u]
  BY <1>1, <1>2 DEF OnlyOf, TreeType, Leaves
<1>4. ~Inserting(t)' /\ copy'[t] = Null /\ pc'[t] # "carry" /\ pc[t] # "carry"
  BY <1>1, <1>2 DEF Inserting, Locals
<1>5. root[u] \in Nodes
  <2>1. Owners(root[u]) # 0
    BY <1>1, RootOwns
  <2> QED
    BY <1>1, <1>2, <2>1 DEF TreeInv, TreeType, Pointer, CountsOwners, Nodes
<1>6. \A a \in Nodes' : a \in Nodes /\ entries'[a] = entries[a] /\ kids'[a] = kids[a]
  BY <1>1, <1>2, <1>5 DEF Nodes, TreeType
<1>7. ThreadGets(t, k, get)'
  BY <1>4 DEF ThreadGets, Awaits
<1>8. get[root[u]] = get[root'[t]]
  BY <1>3
<1> QED
  BY <1>3, <1>4, <1>6, <1>7, <1>8, HeapGets

LEMMA DropTreeGets ==
  ASSUME TreeInv, OrderInv, NEW t \in Thread, Drop(t), NEW k \in Key, NEW get, Gets(k, get)
  PROVE  Becomes(t, k, get, Null)
<1>1. TreeType /\ Locals(t)
  BY DEF TreeInv, OfThread
<1>2. /\ pc[t] = "idle" /\ pc' = [pc EXCEPT ![t] = "drop_tree"]
      /\ root' = [root EXCEPT ![t] = Null]
      /\ dropping' = [dropping EXCEPT ![t] = <<root[t]>>]
      /\ replace' = replace /\ strong' = strong /\ entries' = entries /\ kids' = kids
      /\ entry' = entry /\ right' = right /\ path' = path /\ copy' = copy
  BY DEF Drop, Goto, heap, insert
<1>3. Leaves(t) /\ root'[t] = Null /\ pc'[t] = "drop_tree" /\ pc[t] # "carry"
  BY <1>1, <1>2 DEF OnlyOf, TreeType, Leaves
<1>4. ~Inserting(t)' /\ copy'[t] = Null
  BY <1>1, <1>2, <1>3 DEF Inserting, Locals
<1>5. \A a \in Nodes' : a \in Nodes /\ entries'[a] = entries[a] /\ kids'[a] = kids[a]
  BY <1>2 DEF Nodes
<1>6. ThreadGets(t, k, get)'
  BY <1>3, <1>4 DEF ThreadGets, Awaits
<1>7. Null = get[root'[t]]
  BY <1>3 DEF Gets
<1> QED
  BY <1>3, <1>5, <1>6, <1>7, HeapGets

LEMMA InsertCallGets ==
  ASSUME TreeInv, OrderInv, NEW t \in Thread, NEW e \in Entry, Insert(t, e),
         NEW k \in Key, NEW get, Gets(k, get), Get(root[t], k) = get[root[t]]
  PROVE  Becomes(t, k, get, get[root[t]])
<1>1. TreeType /\ Locals(t)
  BY DEF TreeInv, OfThread
<1>2. /\ pc[t] = "idle" /\ root[t] # Null
      /\ replace \/ Get(root[t], e[1]) = Null
      /\ entry' = [entry EXCEPT ![t] = e]
      /\ pc' = [pc EXCEPT ![t] = "make_mut"]
      /\ replace' = replace /\ root' = root /\ strong' = strong /\ entries' = entries /\ kids' = kids
      /\ right' = right /\ path' = path /\ copy' = copy /\ dropping' = dropping
  BY DEF Insert, Goto, heap
<1>3. Leaves(t) /\ entry'[t] = e /\ pc'[t] = "make_mut" /\ pc[t] # "carry"
  BY <1>1, <1>2 DEF OnlyOf, TreeType, Leaves
<1>4. copy'[t] = Null
  BY <1>1, <1>2 DEF Inserting, Locals
<1>5. \A a \in Nodes' : a \in Nodes /\ entries'[a] = entries[a] /\ kids'[a] = kids[a]
  BY <1>2 DEF Nodes
<1>6. ThreadGets(t, k, get)'
  <2>1. e[1] = k /\ ~replace => get[root[t]] = Null
    BY <1>2
  <2> QED
    BY <1>2, <1>3, <1>4, <2>1 DEF ThreadGets
<1>7. get[root[t]] = get[root'[t]]
  BY <1>2
<1> QED
  BY <1>3, <1>5, <1>6, <1>7, HeapGets

LEMMA IsUniqueGets ==
  ASSUME TreeInv, OrderInv, NEW t \in Thread, IsUnique(t), NEW k \in Key, NEW get, Gets(k, get)
  PROVE  Becomes(t, k, get, get[root[t]])
<1>1. TreeType /\ Locals(t)
  BY DEF TreeInv, OfThread
<1>2. /\ pc[t] = "make_mut"
      /\ pc' = [pc EXCEPT ![t] = IF strong[Here(t)] = 1 THEN "mutate" ELSE "clone"]
      /\ replace' = replace /\ root' = root /\ strong' = strong /\ entries' = entries /\ kids' = kids
      /\ entry' = entry /\ right' = right /\ path' = path /\ copy' = copy /\ dropping' = dropping
  BY DEF IsUnique, Goto, heap, insert
<1>3. Leaves(t) /\ Inserting(t) /\ pc[t] # "carry"
  BY <1>1, <1>2 DEF OnlyOf, TreeType, Inserting, Leaves
<1>4. copy'[t] = Null /\ pc'[t] # "carry" /\ root'[t] = root[t] /\ entry'[t] = entry[t]
  BY <1>1, <1>2 DEF TreeType, Locals
<1>5. \A a \in Nodes' : a \in Nodes /\ entries'[a] = entries[a] /\ kids'[a] = kids[a]
  BY <1>2 DEF Nodes
<1>6. ThreadGets(t, k, get)'
  BY <1>2, <1>3, <1>4, StillGets
<1>7. get[root[t]] = get[root'[t]]
  BY <1>2
<1> QED
  BY <1>3, <1>5, <1>6, <1>7, HeapGets

LEMMA DescendGets ==
  ASSUME TreeInv, OrderInv, NEW t \in Thread, Descend(t), NEW k \in Key, NEW get, Gets(k, get)
  PROVE  Becomes(t, k, get, get[root[t]])
<1>1. TreeType /\ Locals(t)
  BY DEF TreeInv, OfThread
<1>2. /\ pc[t] = "mutate"
      /\ path' = [path EXCEPT ![t] = Append(@, <<Here(t), Place(t)>>)]
      /\ pc' = [pc EXCEPT ![t] = "make_mut"]
      /\ replace' = replace /\ entries' = entries /\ kids' = kids /\ strong' = strong /\ root' = root
      /\ entry' = entry /\ right' = right /\ copy' = copy /\ dropping' = dropping
  BY DEF Descend, Goto, heap
<1>3. Leaves(t) /\ Inserting(t) /\ pc[t] # "carry"
  BY <1>1, <1>2 DEF OnlyOf, TreeType, Inserting, Leaves
<1>4. copy'[t] = Null /\ pc'[t] # "carry" /\ root'[t] = root[t] /\ entry'[t] = entry[t]
  BY <1>1, <1>2 DEF TreeType, Locals
<1>5. \A a \in Nodes' : a \in Nodes /\ entries'[a] = entries[a] /\ kids'[a] = kids[a]
  BY <1>2 DEF Nodes
<1>6. ThreadGets(t, k, get)'
  BY <1>2, <1>3, <1>4, StillGets
<1>7. get[root[t]] = get[root'[t]]
  BY <1>2
<1> QED
  BY <1>3, <1>5, <1>6, <1>7, HeapGets

\* A search goes on as before where only a node that is free gets a value.
Extends(b, v, t, get, get2) ==
  /\ Free # {} /\ b = New /\ pc[t] # "carry" /\ get[Null] = Null
  /\ get2 = [x \in Pointer |-> IF x = b THEN v ELSE get[x]]
  /\ \A g \in Addr \ {b} : kids'[g] = kids[g] /\ entries'[g] = entries[g]
  /\ \A g \in Nodes' \ {b} : g \in Nodes

LEMMA NewGets ==
  ASSUME TreeInv, NEW b, NEW v, NEW t, NEW get, NEW get2, Extends(b, v, t, get, get2)
  PROVE  /\ get2[Null] = Null /\ get2[b] = v /\ \A a \in Nodes : get2[a] = get[a]
         /\ \A a \in Nodes' \ {b} : NodeKeeps(a, t, get, get2)
<1>1. /\ b \in Addr /\ b # Null /\ b \notin Nodes
      /\ \A g \in Addr : \A i \in DOMAIN kids[g] : kids[g][i] # b
  BY NewIsNotReached DEF Extends
<1>2. /\ Null \in Pointer /\ b \in Pointer /\ Nodes \subseteq Pointer
  BY <1>1 DEF Pointer, Nodes
<1>3. get2[Null] = Null /\ get2[b] = v /\ \A a \in Nodes : get2[a] = get[a]
  BY <1>1, <1>2 DEF Extends
<1>4. ASSUME NEW a \in Nodes' \ {b}
      PROVE  NodeKeeps(a, t, get, get2)
  <2>1. a \in Nodes /\ a \in Addr \ {b}
    BY <1>4 DEF Nodes, Extends
  <2>2. \A i \in DOMAIN kids[a] : kids[a][i] \in Nodes \cup {Null}
    BY <2>1, LiveKids
  <2>3. \A i \in DOMAIN kids[a] : get2[kids[a][i]] = get[kids[a][i]]
    BY <1>3, <2>2 DEF Extends
  <2> QED
    BY <1>3, <1>4, <2>1, <2>3 DEF NodeKeeps, Extends
<1> QED
  BY <1>3, <1>4

\* The first entry is the only one.
LEMMA LookAtOne ==
  ASSUME NEW e \in Entry, NEW k \in Key, NEW p, NEW q, NEW get
  PROVE  LookIn(<<e>>, <<p, q>>, k, get) =
           IF k = e[1] THEN e[2] ELSE IF k > e[1] THEN get[q] ELSE get[p]
<1>1. e[1] \in Key /\ e[1] \in Nat /\ k \in Nat
  BY KeyAssumption DEF Entry
<1>2. Sorted(<<e>>, k)
  BY <1>1 DEF Sorted, InOrder
<1>3. Len(<<e>>) = 1
  OBVIOUS
<1>4. /\ \A i \in 1 .. 1 : <<e>>[i][1] = k => LookIn(<<e>>, <<p, q>>, k, get) = <<e>>[i][2]
      /\ \A i \in 1 .. 2 : k \in Between(<<e>>, i, Key) => LookIn(<<e>>, <<p, q>>, k, get) = get[<<p, q>>[i]]
  BY <1>2, <1>3, LookFinds
<1>5. /\ Between(<<e>>, 1, Key) = {x \in Key : x < e[1]}
      /\ Between(<<e>>, 2, Key) = {x \in Key : e[1] < x}
  BY DEF Between
<1>6. CASE k = e[1]
  BY <1>4, <1>6
<1>7. CASE k < e[1]
  <2>1. LookIn(<<e>>, <<p, q>>, k, get) = get[<<p, q>>[1]]
    BY <1>4, <1>5, <1>7
  <2>2. k # e[1] /\ ~(k > e[1])
    BY <1>1, <1>7
  <2> QED
    BY <2>1, <2>2
<1>8. CASE k > e[1]
  <2>1. LookIn(<<e>>, <<p, q>>, k, get) = get[<<p, q>>[2]]
    BY <1>4, <1>5, <1>8
  <2>2. k # e[1]
    BY <1>1, <1>8
  <2> QED
    BY <1>8, <2>1, <2>2
<1> QED
  BY <1>1, <1>6, <1>7, <1>8

LEMMA InsertFirstGets ==
  ASSUME TreeInv, OrderInv, NEW t \in Thread, NEW e \in Entry, InsertFirst(t, e),
         NEW k \in Key, NEW get, Gets(k, get)
  PROVE  root[t] = Null /\ Becomes(t, k, get, IF k = e[1] THEN e[2] ELSE Null)
<1>0. PICK b : b = New
  OBVIOUS
<1>1. TreeType /\ Locals(t)
  BY DEF TreeInv, OfThread
<1>2. /\ pc[t] = "idle" /\ root[t] = Null /\ Free # {}
      /\ root' = [root EXCEPT ![t] = b]
      /\ entries' = [entries EXCEPT ![b] = <<e>>]
      /\ kids' = [kids EXCEPT ![b] = <<Null, Null>>]
      /\ strong' = [strong EXCEPT ![b] = 1]
      /\ replace' = replace /\ pc' = pc /\ dropping' = dropping
      /\ entry' = entry /\ right' = right /\ path' = path /\ copy' = copy
  BY <1>0 DEF InsertFirst, insert
<1>3. b \in Addr /\ \A u \in Thread : b \notin Own(u)
  BY <1>0, <1>2, NewIsNotReached
<1>4. /\ OnlyOf(t) /\ root'[t] = b /\ kids'[b] = <<Null, Null>> /\ entries'[b] = <<e>>
      /\ \A g \in Addr \ {b} : kids'[g] = kids[g] /\ entries'[g] = entries[g] /\ strong'[g] = strong[g]
  BY <1>1, <1>2, <1>3 DEF OnlyOf, TreeType
<1>5. Leaves(t)
  BY <1>2, <1>3, <1>4, OwnedByOne DEF Leaves
<1>6. PICK v, get2 : /\ v = (IF k = e[1] THEN e[2] ELSE Null)
                     /\ get2 = [x \in Pointer |-> IF x = b THEN v ELSE get[x]]
  OBVIOUS
<1>7. pc[t] # "carry" /\ get[Null] = Null
  BY <1>2 DEF Gets
<1>8. /\ get2[Null] = Null /\ get2[b] = v /\ \A a \in Nodes : get2[a] = get[a]
      /\ \A a \in Nodes' \ {b} : NodeKeeps(a, t, get, get2)
  <2>1. \A g \in Nodes' \ {b} : g \in Nodes
    BY <1>4 DEF Nodes
  <2>2. \A g \in Addr \ {b} : kids'[g] = kids[g] /\ entries'[g] = entries[g]
    BY <1>4
  <2>3. Extends(b, v, t, get, get2)
    BY <1>0, <1>2, <1>6, <1>7, <2>1, <2>2 DEF Extends
  <2> QED
    BY <2>3, NewGets
<1>9. get2[b] = LookIn(entries'[b], kids'[b], k, get2)
  <2>1. LookIn(<<e>>, <<Null, Null>>, k, get2) = IF k = e[1] THEN e[2] ELSE get2[Null]
    BY LookAtOne
  <2> QED
    BY <1>4, <1>6, <1>8, <2>1
<1>10. ThreadGets(t, k, get2)'
  <2>1. ~Inserting(t)' /\ copy'[t] = Null /\ pc'[t] # "carry"
    BY <1>1, <1>2 DEF Inserting, Locals
  <2> QED
    BY <2>1 DEF ThreadGets, Awaits
<1>11. \A a \in Nodes' : NodeKeeps(a, t, get, get2) \/ get2[a] = LookIn(entries'[a], kids'[a], k, get2)
  BY <1>8, <1>9
<1>12. v = get2[root'[t]]
  BY <1>4, <1>8
<1>13. Becomes(t, k, get, v)
  BY <1>5, <1>8, <1>10, <1>11, <1>12, GetsStay
<1> QED
  BY <1>2, <1>6, <1>13

LEMMA CloneNodeGets ==
  ASSUME TreeInv, OrderInv, NEW t \in Thread, CloneNode(t), NEW k \in Key, NEW get, Gets(k, get)
  PROVE  Becomes(t, k, get, get[root[t]])
<1>0. PICK b, h : b = New /\ h = Here(t)
  OBVIOUS
<1>1. TreeType /\ CountsOwners /\ Locals(t)
  BY DEF TreeInv, OfThread
<1>2. /\ pc[t] = "clone" /\ Free # {}
      /\ entries' = [entries EXCEPT ![b] = entries[h]]
      /\ kids' = [kids EXCEPT ![b] = kids[h]]
      /\ strong' = [q \in Addr |-> IF q = b THEN 1 ELSE strong[q] + Count(kids[h], q)]
      /\ copy' = [copy EXCEPT ![t] = b]
      /\ pc' = [pc EXCEPT ![t] = "assign"]
      /\ replace' = replace /\ root' = root /\ entry' = entry /\ right' = right /\ path' = path
      /\ dropping' = dropping
  BY <1>0 DEF CloneNode, Goto, Count, Holders
<1>3. Inserting(t)
  BY <1>2 DEF Inserting
<1>4. /\ b \in Addr /\ b # Null /\ b \notin Nodes /\ root[t] # b /\ \A u \in Thread : b \notin Own(u)
      /\ \A g \in Addr : \A i \in DOMAIN kids[g] : kids[g][i] # b
  BY <1>0, <1>2, NewIsNotReached
<1>5. h \in Addr /\ h \in Nodes /\ h # b /\ kids[h] \in Seq(Pointer)
  BY <1>0, <1>1, <1>3, <1>4, HereIsANode DEF TreeType, Nodes
<1>6. /\ OnlyOf(t) /\ copy'[t] = b /\ pc'[t] = "assign"
      /\ kids'[b] = kids[h] /\ entries'[b] = entries[h]
      /\ \A g \in Addr \ {b} : /\ kids'[g] = kids[g] /\ entries'[g] = entries[g]
                               /\ strong'[g] = strong[g] + Count(kids[h], g)
  BY <1>1, <1>2, <1>4 DEF OnlyOf, TreeType
<1>7. \A a \in Addr : Count(kids[h], a) # 0 => strong[a] # 0
  <2>1. SUFFICES ASSUME NEW a \in Addr, Count(kids[h], a) # 0
                 PROVE  strong[a] # 0
    OBVIOUS
  <2>2. PICK i \in DOMAIN kids[h] : kids[h][i] = a
    BY <1>5, <2>1, CountType
  <2>3. Owners(a) # 0
    BY <1>1, <1>5, <2>2, KidOwns
  <2> QED
    BY <1>1, <2>3 DEF CountsOwners
<1>8. \A a \in Nodes' \ {b} : a \in Nodes
  <2>1. SUFFICES ASSUME NEW a \in Addr \ {b}, strong[a] + Count(kids[h], a) # 0
                 PROVE  strong[a] # 0
    BY <1>6 DEF Nodes
  <2>2. Count(kids[h], a) \in Nat /\ strong[a] \in Nat
    BY <1>1, <1>5, CountType DEF TreeType
  <2> QED
    BY <1>7, <2>1, <2>2
<1>9. Leaves(t)
  BY <1>2, <1>4, <1>6, OwnedByOne DEF Leaves
<1>10. PICK v, get2 : v = get[h] /\ get2 = [x \in Pointer |-> IF x = b THEN v ELSE get[x]]
  OBVIOUS
<1>11. pc[t] # "carry" /\ get[Null] = Null
  BY <1>2 DEF Gets
<1>12. /\ get2[Null] = Null /\ get2[b] = v /\ \A a \in Nodes : get2[a] = get[a]
       /\ \A a \in Nodes' \ {b} : NodeKeeps(a, t, get, get2)
  <2>1. \A g \in Addr \ {b} : kids'[g] = kids[g] /\ entries'[g] = entries[g]
    BY <1>6
  <2>2. Extends(b, v, t, get, get2)
    BY <1>0, <1>2, <1>8, <1>10, <1>11, <2>1 DEF Extends
  <2> QED
    BY <2>2, NewGets
<1>13. get[h] = LookIn(entries[h], kids[h], k, get)
  <2>1. ASSUME NEW u \in Thread, pc[u] = "carry", Here(u) = h
        PROVE  FALSE
    <3>1. u # t /\ h \in Own(u)
      BY <1>2, <2>1 DEF Own
    <3> QED
      BY <1>0, <1>3, <3>1, OwnIsApart
  <2>2. NodeGets(h, k, get)
    BY <1>5 DEF Gets
  <2> QED
    BY <2>1, <2>2 DEF NodeGets
<1>14. get2[b] = LookIn(entries'[b], kids'[b], k, get2)
  <2>1. /\ Sorted(entries[h], k)
        /\ \A i \in 1 .. Len(entries[h]) + 1 : kids[h][i] \in Nodes \cup {Null}
    BY <1>5, NodeIsSorted
  <2>2. \A i \in 1 .. Len(entries[h]) + 1 : get2[kids[h][i]] = get[kids[h][i]]
    BY <1>11, <1>12, <2>1
  <2>3. LookIn(entries[h], kids[h], k, get2) = LookIn(entries[h], kids[h], k, get)
    BY <2>1, <2>2, LookSame
  <2> QED
    BY <1>6, <1>10, <1>12, <1>13, <2>3
<1>15. Here(t)' = h
  <2>1. \A g \in OnPath(t) : kids'[g] = kids[g]
    BY <1>4, <1>6, OwnedByOne DEF Own
  <2> QED
    BY <1>0, <1>2, <2>1, HereStays
<1>16. get2[root[t]] = get[root[t]]
  <2>1. Owners(root[t]) # 0
    BY <1>1, RootOwns
  <2>2. root[t] \in Nodes \cup {Null}
    BY <1>1, <2>1 DEF TreeType, Pointer, CountsOwners, Nodes
  <2> QED
    BY <1>11, <1>12, <2>2
<1>17. ThreadGets(t, k, get2)'
  <2>1. get2[b] = get2[h]
    BY <1>5, <1>10, <1>12
  <2>2. Awaits(t) /\ (Awaits(t) /\ entry[t][1] = k /\ ~replace => get[root[t]] = Null)
    BY <1>2, <1>3 DEF Gets, ThreadGets, Awaits
  <2> QED
    BY <1>2, <1>6, <1>15, <1>16, <2>1, <2>2 DEF ThreadGets
<1>18. \A a \in Nodes' : NodeKeeps(a, t, get, get2) \/ get2[a] = LookIn(entries'[a], kids'[a], k, get2)
  BY <1>12, <1>14
<1>19. get[root[t]] = get2[root'[t]]
  BY <1>2, <1>16
<1> QED
  BY <1>9, <1>12, <1>17, <1>18, <1>19, GetsStay

LEMMA AssignGets ==
  ASSUME TreeInv, OrderInv, NEW t \in Thread, Assign(t), NEW k \in Key, NEW get, Gets(k, get)
  PROVE  Becomes(t, k, get, get[root[t]])
<1>0. PICK c, h, l, i : c = copy[t] /\ h = Here(t) /\ l = Last(path[t])[1] /\ i = Last(path[t])[2]
  OBVIOUS
<1>1. TreeType /\ Locals(t)
  BY DEF TreeInv, OfThread
<1>2. /\ pc[t] = "assign"
      /\ IF path[t] = << >>
           THEN root' = [root EXCEPT ![t] = c] /\ kids' = kids
           ELSE kids' = [kids EXCEPT ![l][i] = c] /\ root' = root
      /\ dropping' = [dropping EXCEPT ![t] = <<h>>]
      /\ copy' = [copy EXCEPT ![t] = Null]
      /\ pc' = [pc EXCEPT ![t] = "drop_node"]
      /\ replace' = replace /\ entries' = entries /\ strong' = strong
      /\ entry' = entry /\ right' = right /\ path' = path
  BY <1>0 DEF Assign, Goto
<1>3. Inserting(t) /\ c # Null
  BY <1>0, <1>1, <1>2 DEF Inserting, Locals
<1>4. /\ h \in Addr
      /\ path[t] # << >> => /\ l \in OnPath(t) /\ l \in Addr
                            /\ i \in DOMAIN kids[l] /\ h = kids[l][i]
  BY <1>0, <1>3, HereIsANode DEF OnPath
<1>5. /\ OnlyOf(t) /\ copy'[t] = Null /\ pc'[t] = "drop_node"
      /\ root'[t] = IF path[t] = << >> THEN c ELSE root[t]
  BY <1>1, <1>2 DEF OnlyOf, TreeType
<1>6. path[t] # << >> => /\ kids'[l] = [kids[l] EXCEPT ![i] = c]
                         /\ \A g \in Addr \ {l} : kids'[g] = kids[g]
  BY <1>1, <1>2, <1>4 DEF TreeType
<1>7. Leaves(t)
  <2>1. ASSUME NEW u \in Thread \ {t}, NEW g \in Own(u)
        PROVE  kids'[g] = kids[g]
    <3>1. g \in Addr /\ (path[t] # << >> => g # l)
      BY <1>4, OwnedByOne, OwnIsApart
    <3> QED
      BY <1>2, <1>6, <3>1
  <2> QED
    BY <1>2, <1>5, <2>1 DEF Leaves
<1>8. /\ get[Null] = Null /\ get[c] = get[h]
      /\ Awaits(t) /\ (Awaits(t) /\ entry[t][1] = k /\ ~replace => get[root[t]] = Null)
  BY <1>0, <1>2, <1>3 DEF Gets, ThreadGets, Awaits
<1>9. get[root'[t]] = get[root[t]]
  BY <1>0, <1>5, <1>8 DEF Here
<1>10. ThreadGets(t, k, get)'
  BY <1>2, <1>5, <1>8, <1>9 DEF ThreadGets
<1>11. ASSUME NEW a \in Nodes'
       PROVE  NodeKeeps(a, t, get, get) \/ get[a] = LookIn(entries'[a], kids'[a], k, get)
  <2>1. a \in Nodes /\ a \in Addr /\ entries'[a] = entries[a] /\ pc[t] # "carry"
    BY <1>2 DEF Nodes
  <2>2. CASE path[t] = << >> \/ a # l
    <3>1. kids'[a] = kids[a]
      BY <1>2, <1>6, <2>1, <2>2
    <3> QED
      BY <2>1, <3>1 DEF NodeKeeps
  <2>3. CASE path[t] # << >> /\ a = l
    <3>1. ASSUME NEW u \in Thread, pc[u] = "carry", Here(u) = a
          PROVE  FALSE
      <4>1. u # t /\ a \in Own(u)
        BY <2>1, <3>1 DEF Own
      <4> QED
        BY <1>4, <2>3, <4>1, OwnIsApart
    <3>2. get[a] = LookIn(entries[a], kids[a], k, get)
      BY <2>1, <3>1 DEF Gets, NodeGets
    <3>3. Sorted(entries[a], k) /\ DOMAIN kids[a] = 1 .. Len(entries[a]) + 1
      BY <2>1, NodeIsSorted
    <3>4. \A j \in 1 .. Len(entries[a]) + 1 : get[kids'[a][j]] = get[kids[a][j]]
      BY <1>4, <1>6, <1>8, <2>3, <3>3
    <3>5. LookIn(entries[a], kids'[a], k, get) = LookIn(entries[a], kids[a], k, get)
      BY <3>3, <3>4, LookSame
    <3> QED
      BY <2>1, <3>2, <3>5
  <2> QED
    BY <2>2, <2>3
<1> QED
  BY <1>7, <1>8, <1>9, <1>10, <1>11, GetsStay

\* The key of an insert belongs under every pointer it went through.
LEMMA PathHoldsKey ==
  ASSUME TreeInv, OrderInv, NEW t \in Thread, Inserting(t), NEW j \in DOMAIN path[t]
  PROVE  entry[t][1] \in Between(entries[Node(t, j)], path[t][j][2], Key)
<1>1. PICK deep, span, part : Ordered(deep, span, part)
  BY DEF OrderInv
<1>2. TreeType /\ PathLeads(t)
  BY DEF TreeInv, OfThread
<1>3. PICK key, n : key = entry[t][1] /\ n = Len(path[t])
  OBVIOUS
<1>4. n \in Nat /\ DOMAIN path[t] = 1 .. n
  BY <1>2, <1>3, LenProperties DEF TreeType
<1>5. key \in span[Here(t)]
  BY <1>1, <1>3 DEF Ordered, ThreadOrdered
<1>6. ASSUME NEW i \in 1 .. n
      PROVE  /\ Node(t, i) \in Nodes
             /\ part[Node(t, i)] = span[Node(t, i)] /\ part[Node(t, i)] \in SUBSET Key
             /\ span[Kid(t, i)] = Between(entries[Node(t, i)], path[t][i][2], part[Node(t, i)])
  <2>1. Node(t, i) \in OnPath(t)
    BY <1>4 DEF OnPath
  <2>2. Node(t, i) \in Nodes
    BY <2>1, OwnedByOne DEF Own, Nodes
  <2>3. part[Node(t, i)] = span[Node(t, i)]
    BY <1>1, <2>1, PathIsWhole
  <2>4. NodeOrdered(Node(t, i), deep, span, part) /\ part[Node(t, i)] \in SUBSET Key
    BY <1>1, <2>2 DEF Ordered, GhostType, Nodes
  <2>5. path[t][i][2] \in DOMAIN kids[Node(t, i)] /\ Kid(t, i) # Null
    BY <1>2, <1>4 DEF PathLeads
  <2> QED
    BY <2>2, <2>3, <2>4, <2>5 DEF NodeOrdered, Kid
<1>7. \A i \in 1 .. n : Kid(t, i) = IF i = n THEN Here(t) ELSE Node(t, i + 1)
  <2>1. SUFFICES ASSUME NEW i \in 1 .. n
                 PROVE  Kid(t, i) = IF i = n THEN Here(t) ELSE Node(t, i + 1)
    OBVIOUS
  <2>2. CASE i = n
    <3>1. path[t] # << >>
      BY <1>2, <1>3, <1>4, <2>2, EmptySeq DEF TreeType
    <3> QED
      BY <1>3, <2>2, <3>1 DEF Here, Last, Kid, Node
  <2>3. CASE i # n
    <3>1. i + 1 \in DOMAIN path[t]
      BY <1>4, <2>3
    <3> QED
      BY <1>2, <1>4, <2>3, <3>1 DEF PathLeads
  <2> QED
    BY <2>2, <2>3
<1> DEFINE Strays(i) == key \notin span[Kid(t, i)]
           Bad == {m \in Nat : \E i \in 1 .. n : i + m = n /\ Strays(i)}
<1>8. ~Strays(j)
  <2>1. SUFFICES ASSUME Strays(j) PROVE FALSE
    OBVIOUS
  <2>2. Bad # {}
    <3>1. j \in 1 .. n /\ n - j \in Nat /\ j + (n - j) = n
      BY <1>4
    <3> QED
      BY <2>1, <3>1
  <2>3. PICK m \in Bad : \A x \in Bad : m <= x
    <3>1. Bad \in SUBSET Nat
      OBVIOUS
    <3> HIDE DEF Bad
    <3> QED
      BY <2>2, <3>1, LeastOf
  <2>4. PICK i \in 1 .. n : m \in Nat /\ i + m = n /\ Strays(i)
    BY <2>3
  <2>5. i # n
    BY <1>5, <1>7, <2>4
  <2>6. i + 1 \in 1 .. n /\ m - 1 \in Nat /\ (i + 1) + (m - 1) = n /\ ~(m <= m - 1)
    BY <1>4, <2>4, <2>5
  <2>7. key \in span[Kid(t, i + 1)]
    BY <2>3, <2>6
  <2>8. key \in span[Node(t, i + 1)]
    BY <1>6, <2>6, <2>7 DEF Between
  <2>9. Node(t, i + 1) = Kid(t, i)
    BY <1>7, <2>5
  <2> QED
    BY <2>4, <2>8, <2>9
<1>9. key \in Between(entries[Node(t, j)], path[t][j][2], part[Node(t, j)]) /\ part[Node(t, j)] \in SUBSET Key
  BY <1>4, <1>6, <1>8
<1> QED
  BY <1>3, <1>9 DEF Between

\* The nodes on the path of an insert and the one that it reached get the value v
\* for its key.
Arrives(t, v, get, get2) ==
  pc[t] = "mutate" /\ get2 = [x \in Pointer |-> IF x \in Own(t) THEN v ELSE get[x]]

LEMMA ArrivedGets ==
  ASSUME TreeInv, OrderInv, NEW t \in Thread, NEW k \in Key, k = entry[t][1],
         NEW get, Gets(k, get), NEW v, NEW get2, Arrives(t, v, get, get2)
  PROVE  /\ get2[Null] = Null /\ get2[root[t]] = v /\ get2[Here(t)] = v
         /\ \A a \in Nodes \ Own(t) :
              get2[a] = get[a] /\ \A i \in DOMAIN kids[a] : get2[kids[a][i]] = get[kids[a][i]]
         /\ \A a \in OnPath(t) : get2[a] = LookIn(entries[a], kids[a], k, get2)
         /\ Own(t) = OnPath(t) \cup {Here(t)}
<1>1. TreeType /\ PathLeads(t) /\ Locals(t)
  BY DEF TreeInv, OfThread
<1>2. pc[t] = "mutate" /\ \A x \in Pointer : get2[x] = IF x \in Own(t) THEN v ELSE get[x]
  BY DEF Arrives
<1>3. Own(t) = OnPath(t) \cup {Here(t)} /\ Inserting(t)
  BY <1>1, <1>2 DEF Own, Locals, Inserting
<1>4. \A a \in Own(t) : a \in Addr /\ a \in Nodes /\ a \in Pointer /\ get2[a] = v
  BY <1>2, OwnedByOne DEF Nodes, Pointer
<1>5. get2[Null] = Null
  <2>1. Null \in Pointer /\ Null \notin Own(t)
    BY <1>4, AddrAssumption DEF Pointer
  <2> QED
    BY <1>2, <2>1 DEF Gets
<1>6. root[t] \in Own(t)
  <2>1. CASE path[t] = << >>
    BY <1>3, <2>1 DEF Here
  <2>2. CASE path[t] # << >>
    <3>1. 1 \in DOMAIN path[t]
      BY <1>1, <2>2, EmptySeq, LenProperties DEF TreeType
    <3> QED
      BY <1>1, <1>3, <2>2, <3>1 DEF PathLeads, OnPath
  <2> QED
    BY <2>1, <2>2
<1>7. ASSUME NEW a \in Nodes \ Own(t)
      PROVE  get2[a] = get[a] /\ \A i \in DOMAIN kids[a] : get2[kids[a][i]] = get[kids[a][i]]
  <2>1. a \in Addr /\ a \in Pointer
    BY DEF Nodes, Pointer
  <2>2. ASSUME NEW i \in DOMAIN kids[a]
        PROVE  get2[kids[a][i]] = get[kids[a][i]]
    <3>1. kids[a][i] \in Pointer
      BY <2>1, LiveKids DEF Nodes, Pointer
    <3>2. kids[a][i] \notin Own(t)
      <4>1. kids[a][i] \in Own(t) => a \in OnPath(t)
        BY <2>1, OwnedByOne
      <4> QED
        BY <1>3, <4>1
    <3> QED
      BY <1>2, <3>1, <3>2
  <2> QED
    BY <1>2, <2>1, <2>2
<1>8. ASSUME NEW a \in OnPath(t)
      PROVE  get2[a] = LookIn(entries[a], kids[a], k, get2)
  <2>1. PICK j \in DOMAIN path[t] : a = Node(t, j)
    BY DEF OnPath
  <2>2. PICK i : i = path[t][j][2]
    OBVIOUS
  <2>3. k \in Between(entries[a], i, Key)
    BY <1>3, <2>1, <2>2, PathHoldsKey
  <2>4. a \in Nodes /\ get2[a] = v
    BY <1>3, <1>4
  <2>5. i \in DOMAIN kids[a] /\ kids[a][i] = Kid(t, j)
    BY <1>1, <2>1, <2>2 DEF PathLeads, Kid
  <2>6. kids[a][i] \in Own(t)
    <3>1. CASE j + 1 \in DOMAIN path[t]
      <4>1. kids[a][i] = Node(t, j + 1)
        BY <1>1, <2>5, <3>1 DEF PathLeads
      <4> QED
        BY <1>3, <3>1, <4>1 DEF OnPath
    <3>2. CASE j + 1 \notin DOMAIN path[t]
      <4>1. path[t] # << >> /\ DOMAIN path[t] = 1 .. Len(path[t]) /\ Len(path[t]) \in Nat
        BY <1>1, <2>1, EmptySeq, LenProperties DEF TreeType
      <4>2. j = Len(path[t])
        BY <3>2, <4>1
      <4>3. Here(t) = kids[a][i]
        BY <2>1, <2>2, <4>1, <4>2 DEF Here, Last, Node
      <4> QED
        BY <1>3, <4>3
    <3> QED
      BY <3>1, <3>2
  <2>7. Sorted(entries[a], k) /\ DOMAIN kids[a] = 1 .. Len(entries[a]) + 1
    BY <2>4, NodeIsSorted
  <2>8. LookIn(entries[a], kids[a], k, get2) = get2[kids[a][i]]
    BY <2>3, <2>5, <2>7, LookFinds
  <2> QED
    BY <1>4, <2>4, <2>6, <2>8
<1> QED
  BY <1>3, <1>4, <1>5, <1>6, <1>7, <1>8

\* An entry takes the place of one with its key.
Replaces(es, i, e, es2) ==
  /\ i \in 1 .. Len(es) /\ e \in Entry /\ es[i][1] = e[1] /\ es2 = [es EXCEPT ![i] = e]

LEMMA LookReplaced ==
  ASSUME NEW es, NEW k, Sorted(es, k), NEW i, NEW e, NEW es2, Replaces(es, i, e, es2),
         NEW ks, NEW get
  PROVE  LookIn(es2, ks, k, get) = IF k = e[1] THEN e[2] ELSE LookIn(es, ks, k, get)
<1>1. /\ es \in Seq(Entry) /\ Len(es) \in Nat /\ DOMAIN es = 1 .. Len(es) /\ InOrder(es, Key) /\ k \in Key
      /\ i \in 1 .. Len(es) /\ e \in Entry /\ es[i][1] = e[1]
  BY KeysAreNumbers DEF Sorted, Replaces
<1>2. /\ es2 \in Seq(Entry) /\ Len(es2) = Len(es) /\ DOMAIN es2 = DOMAIN es
      /\ es2[i] = e /\ \A j \in 1 .. Len(es) : j # i => es2[j] = es[j]
  BY <1>1, ExceptSeq DEF Replaces
<1>3. \A j \in DOMAIN es : es2[j][1] = es[j][1]
  BY <1>1, <1>2
<1>4. InOrder(es2, Key) /\ \A j : Between(es2, j, Key) = Between(es, j, Key)
  BY <1>1, <1>2, <1>3 DEF InOrder, Between
<1>5. Sorted(es2, k)
  BY <1>1, <1>2, <1>4 DEF Sorted
<1>6. /\ \A j \in 1 .. Len(es) : es2[j][1] = k => LookIn(es2, ks, k, get) = es2[j][2]
      /\ \A j \in 1 .. Len(es) + 1 : k \in Between(es2, j, Key) => LookIn(es2, ks, k, get) = get[ks[j]]
  <2>1. /\ \A j \in 1 .. Len(es2) : es2[j][1] = k => LookIn(es2, ks, k, get) = es2[j][2]
        /\ \A j \in 1 .. Len(es2) + 1 : k \in Between(es2, j, Key) => LookIn(es2, ks, k, get) = get[ks[j]]
    BY <1>5, LookFinds
  <2>2. Len(es2) = Len(es)
    BY <1>2
  <2> QED
    BY <2>1, <2>2
<1>7. /\ \A j \in 1 .. Len(es) : es[j][1] = k => LookIn(es, ks, k, get) = es[j][2]
      /\ \A j \in 1 .. Len(es) + 1 : k \in Between(es, j, Key) => LookIn(es, ks, k, get) = get[ks[j]]
      /\ \/ \E j \in 1 .. Len(es) : es[j][1] = k
         \/ \E j \in 1 .. Len(es) + 1 : k \in Between(es, j, Key)
  BY LookFinds
<1>8. CASE k = e[1]
  <2>1. LookIn(es2, ks, k, get) = es2[i][2]
    BY <1>1, <1>2, <1>6, <1>8
  <2> QED
    BY <1>2, <1>8, <2>1
<1>9. CASE k # e[1]
  <2>1. \A j \in 1 .. Len(es) : es[j][1] = k => LookIn(es2, ks, k, get) = es[j][2]
    BY <1>1, <1>2, <1>3, <1>6, <1>9
  <2>2. \A j \in 1 .. Len(es) + 1 : k \in Between(es, j, Key) => LookIn(es2, ks, k, get) = get[ks[j]]
    BY <1>4, <1>6
  <2>3. LookIn(es2, ks, k, get) = LookIn(es, ks, k, get)
    BY <1>7, <2>1, <2>2
  <2> QED
    BY <1>9, <2>3
<1> QED
  BY <1>8, <1>9

LEMMA ReplaceValueGets ==
  ASSUME TreeInv, OrderInv, NEW t \in Thread, ReplaceValue(t), NEW k \in Key, NEW get, Gets(k, get)
  PROVE  Becomes(t, k, get, IF k = entry[t][1] THEN entry[t][2] ELSE get[root[t]])
<1>0. PICK h, i : h = Here(t) /\ i = Place(t)
  OBVIOUS
<1>1. TreeType /\ Locals(t)
  BY DEF TreeInv, OfThread
<1>2. /\ pc[t] = "mutate" /\ Holds(h, i, entry[t][1])
      /\ entry' = [entry EXCEPT ![t] = << >>] /\ right' = [right EXCEPT ![t] = Null]
      /\ path' = [path EXCEPT ![t] = << >>] /\ pc' = [pc EXCEPT ![t] = "idle"]
      /\ entries' = [entries EXCEPT ![h][i] = entry[t]]
      /\ replace' = replace /\ kids' = kids /\ strong' = strong /\ root' = root /\ copy' = copy
      /\ dropping' = dropping
  BY <1>0 DEF ReplaceValue, Done, Goto
<1>3. Inserting(t) /\ copy[t] = Null /\ entry[t] \in Entry
  BY <1>1, <1>2 DEF Inserting, Locals
<1>4. h \in Addr /\ h \in Nodes /\ entries[h] \in Seq(Entry) /\ h \in Own(t)
  BY <1>0, <1>1, <1>2, <1>3, HereIsANode DEF TreeType, Nodes, Own
<1>5. i \in DOMAIN entries[h] /\ entries[h][i][1] = entry[t][1] /\ i \in 1 .. Len(entries[h])
  <2>1. i \in 1 .. Len(entries[h]) + 1 /\ Len(entries[h]) \in Nat /\ DOMAIN entries[h] = 1 .. Len(entries[h])
    BY <1>0, <1>1, <1>4, SearchEnds, LenProperties DEF Place
  <2> QED
    BY <1>2, <2>1 DEF Holds
<1>6. /\ entries'[h] = [entries[h] EXCEPT ![i] = entry[t]]
      /\ \A g \in Addr \ {h} : entries'[g] = entries[g]
  BY <1>1, <1>2, <1>4, <1>5 DEF TreeType
<1>7. OnlyOf(t) /\ pc'[t] = "idle" /\ copy'[t] = Null
  BY <1>1, <1>2, <1>3 DEF OnlyOf, TreeType
<1>8. \A u \in Thread \ {t} : h \notin Own(u)
  BY <1>0, <1>3, OwnIsApart
<1>9. Leaves(t)
  BY <1>2, <1>6, <1>7, <1>8, OwnedByOne DEF Leaves
<1>10. \A get2 : ThreadGets(t, k, get2)'
  BY <1>7 DEF ThreadGets, Awaits, Inserting
<1>11. \A get2 : LookIn(entries'[h], kids'[h], k, get2) =
                   IF k = entry[t][1] THEN entry[t][2] ELSE LookIn(entries[h], kids[h], k, get2)
  <2>1. Sorted(entries[h], k)
    BY <1>4, NodeIsSorted
  <2>2. Replaces(entries[h], i, entry[t], entries'[h])
    BY <1>3, <1>5, <1>6 DEF Replaces
  <2>3. \A get2 : LookIn(entries'[h], kids[h], k, get2) =
                  IF k = entry[t][1] THEN entry[t][2] ELSE LookIn(entries[h], kids[h], k, get2)
    BY <2>1, <2>2, LookReplaced
  <2> QED
    BY <1>2, <2>3
<1>12. Nodes' = Nodes /\ \A a \in Nodes : a \in Addr
  BY <1>2 DEF Nodes
<1>13. CASE k = entry[t][1]
  <2>1. PICK v, get2 : v = entry[t][2] /\ get2 = [x \in Pointer |-> IF x \in Own(t) THEN v ELSE get[x]]
    OBVIOUS
  <2>2. Arrives(t, v, get, get2)
    BY <1>2, <2>1 DEF Arrives
  <2>3. /\ get2[Null] = Null /\ get2[root[t]] = v /\ get2[Here(t)] = v
        /\ \A a \in Nodes \ Own(t) :
             get2[a] = get[a] /\ \A j \in DOMAIN kids[a] : get2[kids[a][j]] = get[kids[a][j]]
        /\ \A a \in OnPath(t) : get2[a] = LookIn(entries[a], kids[a], k, get2)
        /\ Own(t) = OnPath(t) \cup {Here(t)}
    BY <1>13, <2>2, ArrivedGets
  <2>4. ASSUME NEW a \in Nodes
        PROVE  NodeKeeps(a, t, get, get2) \/ get2[a] = LookIn(entries'[a], kids'[a], k, get2)
    <3>1. CASE a = h
      BY <1>0, <1>11, <1>13, <2>1, <2>3, <3>1
    <3>2. CASE a # h
      <4>1. entries'[a] = entries[a] /\ kids'[a] = kids[a]
        BY <1>2, <1>6, <1>12, <3>2
      <4>2. CASE a \in Own(t)
        BY <1>0, <2>3, <3>2, <4>1, <4>2
      <4>3. CASE a \notin Own(t)
        BY <1>2, <2>3, <4>1, <4>3 DEF NodeKeeps
      <4> QED
        BY <4>2, <4>3
    <3> QED
      BY <3>1, <3>2
  <2>5. v = get2[root'[t]]
    BY <1>2, <2>3
  <2>6. Becomes(t, k, get, v)
    BY <1>9, <1>10, <1>12, <2>3, <2>4, <2>5, GetsStay
  <2> QED
    BY <1>13, <2>1, <2>6
<1>14. CASE k # entry[t][1]
  <2>1. get[Null] = Null
    BY DEF Gets
  <2>2. ASSUME NEW a \in Nodes
        PROVE  NodeKeeps(a, t, get, get) \/ get[a] = LookIn(entries'[a], kids'[a], k, get)
    <3>1. CASE a = h
      <4>1. ASSUME NEW u \in Thread, pc[u] = "carry", Here(u) = h
            PROVE  FALSE
        <5>1. u # t /\ h \in Own(u)
          BY <1>2, <1>4, <4>1 DEF Own
        <5> QED
          BY <1>8, <5>1
      <4>2. get[h] = LookIn(entries[h], kids[h], k, get)
        BY <1>4, <4>1 DEF Gets, NodeGets
      <4> QED
        BY <1>11, <1>14, <3>1, <4>2
    <3>2. CASE a # h
      BY <1>2, <1>6, <1>12, <3>2 DEF NodeKeeps
    <3> QED
      BY <3>1, <3>2
  <2>3. get[root[t]] = get[root'[t]]
    BY <1>2
  <2>4. Becomes(t, k, get, get[root[t]])
    BY <1>9, <1>10, <1>12, <2>1, <2>2, <2>3, GetsStay
  <2> QED
    BY <1>14, <2>4
<1> QED
  BY <1>13, <1>14

\* A node of its own has what a search finds there, but for one it has split.
LEMMA OwnGets ==
  ASSUME TreeInv, NEW t \in Thread, NEW k \in Key, NEW get, Gets(k, get),
         NEW x \in Own(t), pc[t] = "carry" => x # Here(t)
  PROVE  x \in Nodes /\ get[x] = LookIn(entries[x], kids[x], k, get)
<1>1. x \in Nodes
  BY OwnedByOne DEF Nodes
<1>2. ASSUME NEW u \in Thread, pc[u] = "carry", Here(u) = x
      PROVE  FALSE
  <2>1. u # t /\ x \in Own(u)
    BY <1>2 DEF Own
  <2>2. OnPath(t) \cap Own(u) = {} /\ (Inserting(t) => Here(t) \notin Own(u)) /\ copy[t] # x
    BY <2>1, OwnIsApart, OwnedByOne
  <2>3. pc[t] \in {"mutate", "drop_node", "carry"} => Inserting(t)
    BY DEF Inserting
  <2> QED
    BY <2>1, <2>2, <2>3 DEF Own
<1> QED
  BY <1>1, <1>2 DEF Gets, NodeGets

\* The values once the entry of t and the node to its right belong to the node at a.
Settled(t, a, i, k, get, get1) ==
  /\ a \in Own(t) /\ (pc[t] = "carry" => Here(t) \in Own(t))
  /\ get1[Null] = Null
  /\ get1[a] = LookIn(AllOf(t, a, i), BelowOf(t, a, i), k, get1)
  /\ \A x \in Nodes \ Own(t) :
       get1[x] = get[x] /\ \A j \in DOMAIN kids[x] : get1[kids[x][j]] = get[kids[x][j]]
  /\ \A x \in Own(t) \ {a} : get1[x] = LookIn(entries[x], kids[x], k, get1)

LEMMA PutsGets ==
  ASSUME TreeInv, OrderInv, NEW t \in Thread, NEW a, Changes(t, a), NEW i, Puts(t, a, i),
         replace' = replace, NEW k \in Key, NEW get, Gets(k, get),
         NEW get1, Settled(t, a, i, k, get, get1), NEW v, v = get1[root[t]]
  PROVE  Becomes(t, k, get, v)
<1>0. PICK all, below : all = AllOf(t, a, i) /\ below = BelowOf(t, a, i)
  OBVIOUS
<1>1. TreeType /\ Locals(t)
  BY DEF TreeInv, OfThread
<1>2. /\ Inserting(t) /\ copy[t] = Null /\ a \in Addr
      /\ entries' = [entries EXCEPT ![a] = all] /\ kids' = [kids EXCEPT ![a] = below]
      /\ strong' = strong /\ root' = root /\ copy' = copy /\ dropping' = dropping
      /\ entry' = [entry EXCEPT ![t] = << >>] /\ right' = [right EXCEPT ![t] = Null]
      /\ path' = [path EXCEPT ![t] = << >>] /\ pc' = [pc EXCEPT ![t] = "idle"]
      /\ \A x \in Thread \ {t} : a \notin Own(x)
  BY <1>0 DEF Changes, Puts, Done, Goto
<1>3. /\ OnlyOf(t) /\ pc'[t] = "idle" /\ copy'[t] = Null
      /\ entries'[a] = all /\ kids'[a] = below
      /\ \A x \in Addr \ {a} : entries'[x] = entries[x] /\ kids'[x] = kids[x]
  BY <1>1, <1>2 DEF OnlyOf, TreeType
<1>4. Leaves(t)
  BY <1>2, <1>3, OwnedByOne DEF Leaves
<1>5. ThreadGets(t, k, get1)'
  BY <1>3 DEF ThreadGets, Awaits, Inserting
<1>6. /\ a \in Own(t) /\ (pc[t] = "carry" => Here(t) \in Own(t))
      /\ get1[Null] = Null /\ get1[a] = LookIn(all, below, k, get1)
      /\ \A x \in Nodes \ Own(t) :
           get1[x] = get[x] /\ \A j \in DOMAIN kids[x] : get1[kids[x][j]] = get[kids[x][j]]
      /\ \A x \in Own(t) \ {a} : get1[x] = LookIn(entries[x], kids[x], k, get1)
  BY <1>0 DEF Settled
<1>7. ASSUME NEW x \in Nodes'
      PROVE  NodeKeeps(x, t, get, get1) \/ get1[x] = LookIn(entries'[x], kids'[x], k, get1)
  <2>1. x \in Nodes /\ x \in Addr
    BY <1>2 DEF Nodes
  <2>2. CASE x = a
    BY <1>3, <1>6, <2>2
  <2>3. CASE x # a /\ x \in Own(t)
    BY <1>3, <1>6, <2>1, <2>3
  <2>4. CASE x \notin Own(t)
    BY <1>3, <1>6, <2>1, <2>4 DEF NodeKeeps
  <2> QED
    BY <2>2, <2>3, <2>4
<1>8. v = get1[root'[t]]
  BY <1>2
<1>9. \A x \in Nodes \ Own(t) : get1[x] = get[x]
  BY <1>6
<1> QED
  BY <1>4, <1>5, <1>6, <1>7, <1>8, <1>9, GetsStay

LEMMA SplitsGets ==
  ASSUME TreeInv, OrderInv, NEW t \in Thread, NEW a, Changes(t, a), NEW i, NEW above, Above(t, above, a),
         Free # {}, Splits(t, a, i, above, New), NEW q,
         NEW deep, NEW span, NEW part, Ordered(deep, span, part),
         Enters(t, a, i, q, deep, span, part),
         replace' = replace, NEW k \in Key, NEW get, Gets(k, get),
         NEW get1, Settled(t, a, i, k, get, get1), NEW v, v = get1[root[t]]
  PROVE  Becomes(t, k, get, v)
<1>0. PICK all, below, p, b :
        all = AllOf(t, a, i) /\ below = BelowOf(t, a, i) /\ p = Middle /\ b = New
  OBVIOUS
<1>1. TreeType /\ CountsOwners /\ Locals(t)
  BY DEF TreeInv, OfThread
<1>2. /\ Len(all) = SPLIT_LIMIT
      /\ entries' = [entries EXCEPT ![a] = SubSeq(all, 1, p - 1), ![b] = SubSeq(all, p + 1, SPLIT_LIMIT)]
      /\ kids' = [kids EXCEPT ![a] = SubSeq(below, 1, p), ![b] = SubSeq(below, p + 1, SPLIT_LIMIT + 1)]
      /\ strong' = [strong EXCEPT ![b] = 1]
      /\ entry' = [entry EXCEPT ![t] = all[p]] /\ right' = [right EXCEPT ![t] = b]
      /\ path' = [path EXCEPT ![t] = above] /\ pc' = [pc EXCEPT ![t] = "carry"]
      /\ root' = root /\ copy' = copy /\ dropping' = dropping
  BY <1>0 DEF Splits
<1>3. Inserting(t) /\ copy[t] = Null /\ a \in Addr /\ \A x \in Thread \ {t} : a \notin Own(x)
  BY DEF Changes
<1>4. /\ b \in Addr /\ b # Null /\ b \notin Nodes /\ \A u \in Thread : b \notin Own(u)
      /\ \A g \in Addr : \A j \in DOMAIN kids[g] : kids[g][j] # b
  BY <1>0, NewIsNotReached
<1>5. PICK span1 : span1 = [x \in Addr |-> IF x = q THEN part[x] ELSE span[x]]
  OBVIOUS
<1>6. /\ all \in Seq(Entry) /\ below \in Seq(Pointer) /\ Len(below) = Len(all) + 1
      /\ InOrder(all, part[a]) /\ \A j \in 1 .. Len(below) : below[j] \in Nodes \cup {Null}
  BY <1>0, <1>3, <1>5, EntersNode
<1>7. Sorted(all, k)
  <2>1. part[a] \in SUBSET Key
    BY <1>3 DEF Ordered, GhostType
  <2> QED
    BY <1>6, <2>1 DEF Sorted, InOrder
<1>8. p \in 1 .. Len(all)
  BY <1>0, <1>2, LimitAssumption DEF Middle
<1>9. PICK l, r, el, er : /\ l = SubSeq(below, 1, p) /\ r = SubSeq(below, p + 1, Len(below))
                          /\ el = SubSeq(all, 1, p - 1) /\ er = SubSeq(all, p + 1, Len(all))
  OBVIOUS
<1>10. /\ LookIn(all, below, k, get1) =
            IF k = all[p][1] THEN all[p][2]
            ELSE IF k > all[p][1] THEN LookIn(er, r, k, get1)
            ELSE LookIn(el, l, k, get1)
       /\ Sorted(el, k) /\ Sorted(er, k)
  <2>1. below \in Seq(Pointer) /\ Len(below) = Len(all) + 1
    BY <1>6
  <2>2. Parting(all, below, p, k, el, er, l, r)
    BY <1>7, <1>8, <1>9, <2>1 DEF Parting
  <2> QED
    BY <2>2, LookParted
<1>11. /\ Len(el) + 1 = p /\ Len(er) + 1 = Len(below) - p
       /\ \A j \in 1 .. p : l[j] \in Nodes \cup {Null}
       /\ \A j \in 1 .. Len(below) - p : r[j] \in Nodes \cup {Null}
  <2>1. Len(all) \in Nat /\ Len(below) \in Nat /\ p \in Nat
    BY <1>6, <1>8, LenProperties
  <2>2. p - 1 \in 0 .. Len(all) /\ p \in 0 .. Len(all) /\ p \in 0 .. Len(below)
    BY <1>6, <1>8, <2>1
  <2>3. Len(el) = p - 1
    BY <1>6, <1>9, <2>2, FirstOf
  <2>4. Len(er) = Len(all) - p
    BY <1>6, <1>9, <2>2, RestOf
  <2>5. \A j \in 1 .. p : l[j] = below[j]
    BY <1>6, <1>9, <2>2, FirstOf
  <2>6. \A j \in 1 .. Len(below) - p : r[j] = below[p + j]
    BY <1>6, <1>9, <2>2, RestOf
  <2>7. /\ \A j \in 1 .. p : j \in 1 .. Len(below)
        /\ \A j \in 1 .. Len(below) - p : p + j \in 1 .. Len(below)
    BY <1>6, <1>8, <2>1
  <2>8. Len(el) + 1 = p /\ Len(er) + 1 = Len(below) - p
    BY <1>6, <2>1, <2>3, <2>4
  <2> QED
    BY <1>6, <2>5, <2>6, <2>7, <2>8
<1>12. /\ a \in Own(t) /\ (pc[t] = "carry" => Here(t) \in Own(t))
       /\ get1[Null] = Null /\ get1[a] = LookIn(all, below, k, get1)
       /\ \A x \in Nodes \ Own(t) :
            get1[x] = get[x] /\ \A j \in DOMAIN kids[x] : get1[kids[x][j]] = get[kids[x][j]]
       /\ \A x \in Own(t) \ {a} : get1[x] = LookIn(entries[x], kids[x], k, get1)
  BY <1>0 DEF Settled
<1>13. a # b /\ \A x \in Own(t) : x \in Nodes
  BY <1>4, <1>12, OwnedByOne DEF Nodes
<1>14. /\ OnlyOf(t) /\ entry'[t] = all[p] /\ right'[t] = b /\ path'[t] = above /\ pc'[t] = "carry"
       /\ copy'[t] = Null
  BY <1>1, <1>2, <1>3 DEF OnlyOf, TreeType
<1>15. /\ entries'[a] = el /\ entries'[b] = er /\ kids'[a] = l /\ kids'[b] = r
       /\ \A g \in Addr \ {a, b} : entries'[g] = entries[g] /\ kids'[g] = kids[g]
       /\ \A g \in Addr \ {b} : strong'[g] = strong[g]
  <2>1. Len(below) = SPLIT_LIMIT + 1
    BY <1>2, <1>6
  <2> QED
    BY <1>1, <1>2, <1>3, <1>4, <1>9, <1>13, <2>1 DEF TreeType
<1>16. PICK get2 : get2 = [x \in Pointer |-> IF x = b THEN LookIn(er, r, k, get1) ELSE get1[x]]
  OBVIOUS
<1>17. get2[b] = LookIn(er, r, k, get1) /\ \A x \in Nodes \cup {Null} : get2[x] = get1[x]
  <2>1. \A x \in Nodes \cup {Null} : x \in Pointer /\ x # b
    BY <1>4 DEF Nodes, Pointer
  <2>2. b \in Pointer
    BY <1>4 DEF Pointer
  <2> QED
    BY <1>16, <2>1, <2>2
<1>18. LookIn(el, l, k, get2) = LookIn(el, l, k, get1)
  <2>1. \A j \in 1 .. Len(el) + 1 : get2[l[j]] = get1[l[j]]
    BY <1>11, <1>17
  <2>2. Sorted(el, k)
    BY <1>10
  <2> QED
    BY <2>1, <2>2, LookSame
<1>19. LookIn(er, r, k, get2) = LookIn(er, r, k, get1)
  <2>1. \A j \in 1 .. Len(er) + 1 : get2[r[j]] = get1[r[j]]
    BY <1>11, <1>17
  <2>2. Sorted(er, k)
    BY <1>10
  <2> QED
    BY <2>1, <2>2, LookSame
<1>20. Leaves(t)
  BY <1>3, <1>4, <1>14, <1>15, OwnedByOne DEF Leaves
<1>21. Here(t)' = a
  <2>1. CASE above = << >>
    BY <1>2, <1>14, <2>1 DEF Above, Here
  <2>2. CASE above # << >>
    <3>1. Len(above) \in DOMAIN above
      BY <2>2, EmptySeq, LenProperties DEF Above
    <3>2. Last(above)[1] \in OnPath(t) /\ Last(above)[1] # a
      BY <3>1 DEF Above, OnPath, Node, Last
    <3>3. Last(above)[1] \in Addr \ {a, b}
      BY <1>4, <3>2, OwnedByOne DEF Own
    <3> QED
      BY <1>14, <1>15, <2>2, <3>3 DEF Above, Here
  <2> QED
    BY <2>1, <2>2
<1>22. get2[a] = IF k = all[p][1] THEN all[p][2]
                 ELSE IF k > all[p][1] THEN get2[b] ELSE LookIn(el, l, k, get2)
  BY <1>10, <1>12, <1>13, <1>17, <1>18
<1>23. ThreadGets(t, k, get2)'
  <2>1. get2[a] = IF k = entry'[t][1] THEN entry'[t][2]
                  ELSE IF k > entry'[t][1] THEN get2[right'[t]] ELSE LookIn(entries'[a], kids'[a], k, get2)
    BY <1>14, <1>15, <1>22
  <2> QED
    BY <1>14, <1>21, <2>1 DEF ThreadGets, Awaits
<1>24. ASSUME NEW x \in Nodes'
       PROVE  \/ NodeKeeps(x, t, get, get2)
              \/ get2[x] = LookIn(entries'[x], kids'[x], k, get2)
              \/ pc'[t] = "carry" /\ Here(t)' = x
  <2>1. CASE x = b
    BY <1>15, <1>17, <1>19, <2>1
  <2>2. CASE x = a
    BY <1>14, <1>21, <2>2
  <2>3. CASE x \notin {a, b}
    <3>1. x \in Nodes /\ x \in Addr \ {a, b}
      BY <1>15, <2>3 DEF Nodes
    <3>2. entries'[x] = entries[x] /\ kids'[x] = kids[x]
      BY <1>15, <3>1
    <3>3. /\ Sorted(entries[x], k) /\ DOMAIN kids[x] = 1 .. Len(entries[x]) + 1
          /\ \A j \in 1 .. Len(entries[x]) + 1 : kids[x][j] \in Nodes \cup {Null}
      BY <3>1, NodeIsSorted
    <3>4. \A j \in 1 .. Len(entries[x]) + 1 : get2[kids[x][j]] = get1[kids[x][j]]
      BY <1>17, <3>3
    <3>5. CASE x \in Own(t)
      <4>1. LookIn(entries[x], kids[x], k, get2) = LookIn(entries[x], kids[x], k, get1)
        BY <3>3, <3>4, LookSame
      <4> QED
        BY <1>12, <1>17, <2>3, <3>1, <3>2, <3>5, <4>1
    <3>6. CASE x \notin Own(t)
      <4>1. \A j \in DOMAIN kids[x] : get2[kids[x][j]] = get[kids[x][j]]
        BY <1>12, <3>1, <3>3, <3>4, <3>6
      <4>2. get2[x] = get[x] /\ (pc[t] = "carry" => Here(t) # x)
        BY <1>12, <1>17, <3>1, <3>6
      <4> QED
        BY <3>1, <3>2, <4>1, <4>2 DEF NodeKeeps
    <3> QED
      BY <3>5, <3>6
  <2> QED
    BY <2>1, <2>2, <2>3
<1>25. v = get2[root'[t]]
  <2>1. Owners(root[t]) # 0
    BY <1>1, RootOwns
  <2>2. root[t] \in Nodes \cup {Null}
    BY <1>1, <2>1 DEF TreeType, Pointer, CountsOwners, Nodes
  <2> QED
    BY <1>2, <1>17, <2>2
<1>26. get2[Null] = Null /\ \A x \in Nodes \ Own(t) : get2[x] = get[x]
  BY <1>12, <1>17
<1> QED
  BY <1>20, <1>23, <1>24, <1>25, <1>26, GetsStay

LEMMA PutAndSplitGets ==
  ASSUME TreeInv, OrderInv, NEW t \in Thread, NEW a, Changes(t, a), NEW i, NEW above, Above(t, above, a),
         PutAndSplit(t, a, i, above), UNCHANGED <<replace, root, copy, dropping>>, NEW q,
         NEW deep, NEW span, NEW part, Ordered(deep, span, part),
         Enters(t, a, i, q, deep, span, part),
         NEW k \in Key, NEW get, Gets(k, get),
         NEW get1, Settled(t, a, i, k, get, get1), NEW v, v = get1[root[t]]
  PROVE  Becomes(t, k, get, v)
<1>0. replace' = replace
  OBVIOUS
<1>1. CASE Puts(t, a, i)
  BY <1>0, <1>1, PutsGets
<1>2. CASE Free # {} /\ Splits(t, a, i, above, New)
  BY <1>0, <1>2, SplitsGets
<1>3. Puts(t, a, i) \/ (Free # {} /\ Splits(t, a, i, above, New))
  BY DEF PutAndSplit, Puts, Splits, AllOf, BelowOf, Middle, LeftOf, Goto
<1> QED
  BY <1>1, <1>2, <1>3

\* What enters a node, as the operands of LookArrived.
LEMMA EntryArrives ==
  ASSUME TreeInv, OrderInv, NEW t \in Thread, Inserting(t), NEW a, NEW i, NEW q, NEW k \in Key,
         NEW deep, NEW span, NEW part, Ordered(deep, span, part),
         Enters(t, a, i, q, deep, span, part)
  PROVE  /\ a \in Nodes
         /\ Arriving(entries[a], kids[a], i, entry[t], right[t], k, AllOf(t, a, i), BelowOf(t, a, i))
<1>1. TreeType /\ Locals(t)
  BY DEF TreeInv, OfThread
<1>2. a \in Nodes /\ a \in Addr
  BY OwnedByOne DEF Enters, Nodes
<1>3. /\ Sorted(entries[a], k) /\ kids[a] \in Seq(Pointer) /\ Len(kids[a]) = Len(entries[a]) + 1
  BY <1>2, NodeIsSorted
<1>4. entry[t] \in Entry /\ right[t] \in Pointer
  BY <1>1 DEF TreeType, Locals
<1>5. i \in 1 .. Len(entries[a]) + 1 /\ entry[t][1] \in Between(entries[a], i, Key)
  <2>1. part[a] \in SUBSET Key
    BY <1>2 DEF Ordered, GhostType
  <2> QED
    BY <2>1 DEF Enters, Between
<1> QED
  BY <1>2, <1>3, <1>4, <1>5 DEF Arriving, AllOf, BelowOf

LEMMA PutGets ==
  ASSUME TreeInv, OrderInv, NEW t \in Thread, Put(t), NEW k \in Key, NEW get, Gets(k, get)
  PROVE  Becomes(t, k, get, IF k = entry[t][1] THEN entry[t][2] ELSE get[root[t]])
<1>0. PICK h, i, e : h = Here(t) /\ i = Place(t) /\ e = entry[t]
  OBVIOUS
<1>1. /\ PutAndSplit(t, h, i, path[t]) /\ UNCHANGED <<replace, root, copy, dropping>>
      /\ pc[t] = "mutate" /\ kids[h][i] = Null
  BY <1>0 DEF Put
<1>2. Changes(t, h) /\ Above(t, path[t], h)
  BY <1>0, PutChanges
<1>3. PICK deep, span, part : Ordered(deep, span, part)
  BY DEF OrderInv
<1>4. Enters(t, h, i, Null, deep, span, part)
  BY <1>0, <1>3, PutEnters
<1>5. Inserting(t) /\ right[t] = Null /\ h \in Own(t)
  BY <1>1, <1>4 DEF Inserting, TreeInv, OfThread, Locals, Enters
<1>6. PICK es, ks, all, below :
        es = entries[h] /\ ks = kids[h] /\ all = AllOf(t, h, i) /\ below = BelowOf(t, h, i)
  OBVIOUS
<1>7. h \in Nodes /\ Arriving(es, ks, i, e, Null, k, all, below)
  BY <1>0, <1>3, <1>4, <1>5, <1>6, EntryArrives
<1>8. Sorted(es, k) /\ i \in 1 .. Len(es) + 1 /\ e[1] \in Between(es, i, Key)
  BY <1>7 DEF Arriving
<1>9. ASSUME NEW g, g[Null] = Null
      PROVE  LookIn(all, below, k, g) = IF k = e[1] THEN e[2] ELSE LookIn(es, ks, k, g)
  <2>1. \A j \in 1 .. Len(es) + 1 : j # i => g[ks[j]] = g[ks[j]]
    OBVIOUS
  <2>2. LookIn(all, below, k, g) =
          IF k = e[1] THEN e[2]
          ELSE IF k \in Between(es, i, Key) THEN IF k < e[1] THEN g[ks[i]] ELSE g[Null]
          ELSE LookIn(es, ks, k, g)
    BY <1>7, <2>1, LookArrived
  <2>3. k \in Between(es, i, Key) => LookIn(es, ks, k, g) = g[ks[i]]
    BY <1>8, LookFinds
  <2>4. ks[i] = Null
    BY <1>1, <1>6
  <2> QED
    BY <1>9, <2>2, <2>3, <2>4
<1>10. ASSUME NEW get1, NEW v, v = get1[root[t]], Settled(t, h, i, k, get, get1)
       PROVE  Becomes(t, k, get, v)
  BY <1>1, <1>2, <1>3, <1>4, <1>10, PutAndSplitGets
<1>11. CASE k = e[1]
  <2>1. PICK v, get1 : v = e[2] /\ get1 = [x \in Pointer |-> IF x \in Own(t) THEN v ELSE get[x]]
    OBVIOUS
  <2>2. Arrives(t, v, get, get1)
    BY <1>1, <2>1 DEF Arrives
  <2>3. /\ get1[Null] = Null /\ get1[root[t]] = v /\ get1[h] = v
        /\ \A a \in Nodes \ Own(t) :
             get1[a] = get[a] /\ \A j \in DOMAIN kids[a] : get1[kids[a][j]] = get[kids[a][j]]
        /\ \A a \in OnPath(t) : get1[a] = LookIn(entries[a], kids[a], k, get1)
        /\ Own(t) = OnPath(t) \cup {h}
    BY <1>0, <1>11, <2>2, ArrivedGets
  <2>4. get1[h] = LookIn(all, below, k, get1)
    BY <1>9, <1>11, <2>1, <2>3
  <2>5. Settled(t, h, i, k, get, get1)
    BY <1>1, <1>5, <1>6, <2>3, <2>4 DEF Settled
  <2>6. Becomes(t, k, get, v)
    BY <1>10, <2>3, <2>5
  <2> QED
    BY <1>0, <1>11, <2>1, <2>6
<1>12. CASE k # e[1]
  <2>1. get[Null] = Null
    BY DEF Gets
  <2>2. \A x \in Own(t) : get[x] = LookIn(entries[x], kids[x], k, get)
    BY <1>1, OwnGets
  <2>3. get[h] = LookIn(all, below, k, get)
    BY <1>5, <1>6, <1>9, <1>12, <2>1, <2>2
  <2>4. Settled(t, h, i, k, get, get)
    BY <1>1, <1>5, <1>6, <2>1, <2>2, <2>3 DEF Settled
  <2>5. Becomes(t, k, get, get[root[t]])
    BY <1>10, <2>4
  <2> QED
    BY <1>0, <1>12, <2>5
<1> QED
  BY <1>11, <1>12

LEMMA CarryGets ==
  ASSUME TreeInv, OrderInv, NEW t \in Thread, Carry(t), NEW k \in Key, NEW get, Gets(k, get)
  PROVE  Becomes(t, k, get, get[root[t]])
<1>0. PICK a, i, q, e, r : /\ a = Last(path[t])[1] /\ i = Last(path[t])[2] /\ q = Here(t)
                           /\ e = entry[t] /\ r = right[t]
  OBVIOUS
<1>1. /\ PutAndSplit(t, a, i, Front(path[t])) /\ UNCHANGED <<replace, root, copy, dropping>>
      /\ pc[t] = "carry" /\ path[t] # << >>
  BY <1>0 DEF Carry
<1>2. Changes(t, a) /\ Above(t, Front(path[t]), a)
  BY <1>0, CarryChanges
<1>3. PICK deep, span, part : Ordered(deep, span, part)
  BY DEF OrderInv
<1>4. Enters(t, a, i, q, deep, span, part)
  BY <1>0, <1>1, <1>3, CarryEnters
<1>5. TreeType /\ CountsOwners /\ Locals(t) /\ Inserting(t)
  BY <1>1 DEF Inserting, TreeInv, OfThread
<1>6. q \in Addr /\ q # Null
  BY <1>0, <1>5, HereIsANode, AddrAssumption
<1>7. /\ a \in Own(t) /\ q \in Own(t) /\ q # a /\ q # root[t] /\ q = kids[a][i]
      /\ \A g \in Addr : \A j \in DOMAIN kids[g] : kids[g][j] = q => g = a /\ j = i
  BY <1>4, <1>6 DEF Enters
<1>8. /\ \A x \in Own(t) : x \in Addr /\ x \in Nodes
      /\ r # q
  BY <1>0, <1>7, OwnedByOne DEF Nodes
<1>9. PICK es, ks, all, below :
        es = entries[a] /\ ks = kids[a] /\ all = AllOf(t, a, i) /\ below = BelowOf(t, a, i)
  OBVIOUS
<1>10. a \in Nodes /\ Arriving(es, ks, i, e, r, k, all, below)
  BY <1>0, <1>3, <1>4, <1>5, <1>9, EntryArrives
<1>11. /\ Sorted(es, k) /\ i \in 1 .. Len(es) + 1 /\ e[1] \in Between(es, i, Key) /\ r \in Pointer
  BY <1>10 DEF Arriving
<1>12. PICK w, get1 : w = LookIn(entries[q], kids[q], k, get) /\ get1 = [x \in Pointer |-> IF x = q THEN w ELSE get[x]]
  OBVIOUS
<1>13. get1[q] = w /\ \A x \in Pointer \ {q} : get1[x] = get[x]
  BY <1>6, <1>12 DEF Pointer
<1>14. /\ get[Null] = Null
       /\ get[q] = IF k = e[1] THEN e[2] ELSE IF k > e[1] THEN get[r] ELSE w
  BY <1>0, <1>1, <1>12 DEF Gets, ThreadGets
<1>15. get1[Null] = Null /\ get1[r] = get[r]
  BY <1>6, <1>8, <1>11, <1>13, <1>14 DEF Pointer
<1>16. get1[root[t]] = get[root[t]]
  BY <1>5, <1>7, <1>13 DEF TreeType
<1>17. ASSUME NEW x \in Nodes \ {a}, NEW j \in DOMAIN kids[x]
       PROVE  get1[kids[x][j]] = get[kids[x][j]]
  <2>1. x \in Addr
    BY DEF Nodes
  <2>2. kids[x][j] \in Pointer /\ kids[x][j] # q
    BY <1>7, <2>1, LiveKids DEF Nodes, Pointer
  <2> QED
    BY <1>13, <2>2
<1>18. ASSUME NEW x \in Nodes \ {a}
       PROVE  LookIn(entries[x], kids[x], k, get1) = LookIn(entries[x], kids[x], k, get)
  <2>1. Sorted(entries[x], k) /\ DOMAIN kids[x] = 1 .. Len(entries[x]) + 1
    BY NodeIsSorted
  <2>2. \A j \in 1 .. Len(entries[x]) + 1 : get1[kids[x][j]] = get[kids[x][j]]
    BY <1>17, <2>1
  <2> QED
    BY <2>1, <2>2, LookSame
<1>19. \A x \in Own(t) \ {q} : get[x] = LookIn(entries[x], kids[x], k, get)
  BY <1>0, OwnGets
<1>20. \A x \in Own(t) \ {a} : get1[x] = LookIn(entries[x], kids[x], k, get1)
  <2>1. SUFFICES ASSUME NEW x \in Own(t) \ {a}
                 PROVE  get1[x] = LookIn(entries[x], kids[x], k, get1)
    OBVIOUS
  <2>2. LookIn(entries[x], kids[x], k, get1) = LookIn(entries[x], kids[x], k, get)
    BY <1>8, <1>18
  <2>3. CASE x = q
    BY <1>12, <1>13, <2>2, <2>3
  <2>4. CASE x # q
    BY <1>8, <1>13, <1>19, <2>2, <2>4 DEF Pointer
  <2> QED
    BY <2>3, <2>4
<1>21. get1[a] = LookIn(all, below, k, get1)
  <2>1. \A j \in 1 .. Len(es) + 1 : j # i => get[ks[j]] = get1[ks[j]]
    <3>1. DOMAIN kids[a] = 1 .. Len(es) + 1 /\ a \in Addr
      BY <1>9, <1>10, NodeIsSorted
    <3>2. SUFFICES ASSUME NEW j \in 1 .. Len(es) + 1, j # i
                   PROVE  get[ks[j]] = get1[ks[j]]
      OBVIOUS
    <3>3. kids[a][j] \in Pointer /\ kids[a][j] # q
      BY <1>7, <1>10, <3>1, <3>2, LiveKids DEF Nodes, Pointer
    <3> QED
      BY <1>9, <1>13, <3>3
  <2>2. LookIn(all, below, k, get1) =
          IF k = e[1] THEN e[2]
          ELSE IF k \in Between(es, i, Key) THEN IF k < e[1] THEN get1[ks[i]] ELSE get1[r]
          ELSE LookIn(es, ks, k, get)
    BY <1>10, <2>1, LookArrived
  <2>3. k \in Between(es, i, Key) => LookIn(es, ks, k, get) = get[ks[i]]
    BY <1>11, LookFinds
  <2>4. ks[i] = q
    BY <1>7, <1>9
  <2>5. k \in Nat /\ e[1] \in Nat
    BY <1>11, KeyAssumption DEF Between
  <2>6. get1[a] = LookIn(es, ks, k, get)
    BY <1>7, <1>8, <1>9, <1>13, <1>19 DEF Pointer
  <2>7. CASE k = e[1]
    BY <1>11, <1>14, <2>2, <2>3, <2>4, <2>6, <2>7
  <2>8. CASE k # e[1] /\ k \in Between(es, i, Key)
    <3>1. IF k > e[1] THEN ~(k < e[1]) ELSE k < e[1]
      BY <2>5, <2>8
    <3> QED
      BY <1>13, <1>14, <1>15, <2>2, <2>3, <2>4, <2>6, <2>8, <3>1
  <2>9. CASE k # e[1] /\ k \notin Between(es, i, Key)
    BY <2>2, <2>6, <2>9
  <2> QED
    BY <2>7, <2>8, <2>9
<1>22. Settled(t, a, i, k, get, get1)
  <2>1. ASSUME NEW x \in Nodes \ Own(t)
        PROVE  get1[x] = get[x] /\ \A j \in DOMAIN kids[x] : get1[kids[x][j]] = get[kids[x][j]]
    <3>1. x \in Pointer \ {q} /\ x # a
      BY <1>7 DEF Nodes, Pointer
    <3> QED
      BY <1>13, <1>17, <3>1
  <2> QED
    BY <1>0, <1>7, <1>9, <1>15, <1>20, <1>21, <2>1 DEF Settled
<1>23. PICK v : v = get[root[t]]
  OBVIOUS
<1>24. Becomes(t, k, get, v)
  BY <1>1, <1>2, <1>3, <1>4, <1>16, <1>22, <1>23, PutAndSplitGets
<1> QED
  BY <1>23, <1>24

LEMMA GrowGets ==
  ASSUME TreeInv, OrderInv, NEW t \in Thread, Grow(t), NEW k \in Key, NEW get, Gets(k, get)
  PROVE  Becomes(t, k, get, get[root[t]])
<1>0. PICK b, q, r, e : b = New /\ q = root[t] /\ r = right[t] /\ e = entry[t]
  OBVIOUS
<1>1. TreeType /\ CountsOwners /\ Locals(t)
  BY DEF TreeInv, OfThread
<1>2. /\ pc[t] = "carry" /\ path[t] = << >> /\ Free # {}
      /\ entries' = [entries EXCEPT ![b] = <<e>>] /\ kids' = [kids EXCEPT ![b] = <<q, r>>]
      /\ strong' = [strong EXCEPT ![b] = 1] /\ root' = [root EXCEPT ![t] = b]
      /\ copy' = copy /\ dropping' = dropping /\ replace' = replace
      /\ entry' = [entry EXCEPT ![t] = << >>] /\ right' = [right EXCEPT ![t] = Null]
      /\ path' = [path EXCEPT ![t] = << >>] /\ pc' = [pc EXCEPT ![t] = "idle"]
  BY <1>0 DEF Grow, Done, Goto
<1>3. Inserting(t) /\ copy[t] = Null /\ r # Null /\ e \in Entry
  BY <1>0, <1>1, <1>2 DEF Inserting, Locals
<1>4. /\ b \in Addr /\ b # Null /\ b \notin Nodes /\ \A u \in Thread : b \notin Own(u)
      /\ \A g \in Addr : \A j \in DOMAIN kids[g] : kids[g][j] # b
  BY <1>0, <1>2, NewIsNotReached
<1>5. q = Here(t) /\ q \in Own(t)
  BY <1>0, <1>2 DEF Here, Own
<1>6. /\ q \in Addr /\ q # Null /\ q \in Nodes /\ r # q
      /\ \A g \in Addr : \A j \in DOMAIN kids[g] : kids[g][j] # q
  <2>1. /\ q \in Addr /\ strong[q] = 1 /\ right[t] # q
        /\ \A g \in Addr : \A j \in DOMAIN kids[g] : kids[g][j] = q => g \in OnPath(t)
    BY <1>5, OwnedByOne
  <2>2. OnPath(t) = {}
    BY <1>2 DEF OnPath
  <2> QED
    BY <1>0, <2>1, <2>2, AddrAssumption DEF Nodes
<1>7. r \in Nodes
  <2>1. Owners(r) # 0
    BY <1>0, <1>1, RightOwns
  <2> QED
    BY <1>0, <1>1, <1>3, <2>1 DEF TreeType, Pointer, CountsOwners, Nodes
<1>8. /\ OnlyOf(t) /\ root'[t] = b /\ copy'[t] = Null /\ pc'[t] = "idle"
      /\ entries'[b] = <<e>> /\ kids'[b] = <<q, r>> /\ strong'[b] = 1
      /\ \A g \in Addr \ {b} : kids'[g] = kids[g] /\ entries'[g] = entries[g] /\ strong'[g] = strong[g]
  BY <1>1, <1>2, <1>3, <1>4 DEF OnlyOf, TreeType
<1>9. Leaves(t)
  BY <1>2, <1>4, <1>8, OwnedByOne DEF Leaves
<1>10. PICK w, v : w = LookIn(entries[q], kids[q], k, get) /\ v = get[q]
  OBVIOUS
<1>11. get[Null] = Null /\ v = IF k = e[1] THEN e[2] ELSE IF k > e[1] THEN get[r] ELSE w
  BY <1>0, <1>2, <1>5, <1>10 DEF Gets, ThreadGets
<1>12. PICK get2 : get2 = [x \in Pointer |-> IF x = b THEN v ELSE IF x = q THEN w ELSE get[x]]
  OBVIOUS
<1>13. get2[b] = v /\ get2[q] = w /\ \A x \in (Nodes \cup {Null}) \ {q} : get2[x] = get[x]
  <2>1. /\ b \in Pointer /\ q \in Pointer /\ q # b
        /\ \A x \in Nodes \cup {Null} : x \in Pointer /\ x # b
    BY <1>4, <1>6 DEF Nodes, Pointer
  <2> QED
    BY <1>12, <2>1
<1>14. ThreadGets(t, k, get2)'
  BY <1>8 DEF ThreadGets, Awaits, Inserting
<1>15. get2[b] = LookIn(entries'[b], kids'[b], k, get2)
  <2>1. LookIn(<<e>>, <<q, r>>, k, get2) =
          IF k = e[1] THEN e[2] ELSE IF k > e[1] THEN get2[r] ELSE get2[q]
    BY <1>3, LookAtOne
  <2>2. get2[r] = get[r]
    BY <1>6, <1>7, <1>13
  <2> QED
    BY <1>8, <1>11, <1>13, <2>1, <2>2
<1>16. ASSUME NEW x \in Nodes' \ {b}
       PROVE  NodeKeeps(x, t, get, get2) \/ get2[x] = LookIn(entries'[x], kids'[x], k, get2)
  <2>1. x \in Nodes /\ x \in Addr \ {b}
    BY <1>8 DEF Nodes
  <2>2. /\ Sorted(entries[x], k) /\ DOMAIN kids[x] = 1 .. Len(entries[x]) + 1
        /\ \A j \in 1 .. Len(entries[x]) + 1 : kids[x][j] \in Nodes \cup {Null}
    BY <2>1, NodeIsSorted
  <2>3. \A j \in 1 .. Len(entries[x]) + 1 : get2[kids[x][j]] = get[kids[x][j]]
    BY <1>6, <1>13, <2>1, <2>2
  <2>4. entries'[x] = entries[x] /\ kids'[x] = kids[x]
    BY <1>8, <2>1
  <2>5. CASE x = q
    <3>1. LookIn(entries[x], kids[x], k, get2) = LookIn(entries[x], kids[x], k, get)
      BY <2>2, <2>3, LookSame
    <3> QED
      BY <1>10, <1>13, <2>4, <2>5, <3>1
  <2>6. CASE x # q
    BY <1>5, <1>13, <2>1, <2>2, <2>3, <2>4, <2>6 DEF NodeKeeps
  <2> QED
    BY <2>5, <2>6
<1>17. v = get2[root'[t]]
  BY <1>8, <1>13
<1>18. get2[Null] = Null /\ \A x \in Nodes \ Own(t) : get2[x] = get[x]
  BY <1>5, <1>6, <1>11, <1>13, AddrAssumption
<1>19. \A x \in Nodes' : NodeKeeps(x, t, get, get2) \/ get2[x] = LookIn(entries'[x], kids'[x], k, get2)
  BY <1>15, <1>16
<1>20. Becomes(t, k, get, v)
  BY <1>9, <1>14, <1>17, <1>18, <1>19, GetsStay
<1> QED
  BY <1>0, <1>10, <1>20

LEMMA InitMaps == Init => MapInv
<1>1. SUFFICES ASSUME Init, NEW k \in Key
               PROVE  \E get : Gets(k, get)
  BY DEF MapInv
<1>2. PICK get : get = [x \in Pointer |-> Null]
  OBVIOUS
<1>3. get[Null] = Null
  BY <1>2 DEF Pointer
<1>4. Nodes = {}
  BY <1>1 DEF Init, Nodes
<1>5. \A t \in Thread : ThreadGets(t, k, get)
  BY <1>1 DEF Init, ThreadGets, Awaits, Inserting
<1> QED
  BY <1>3, <1>4, <1>5 DEF Gets

-----------------------------------------------------------------------------
(* What ValueOf and Get compute *)

Half(t) == IF pc[t] = "carry" THEN Here(t) ELSE Null
ValueFrom(t, k, q, f) ==
  IF q = Null THEN Null
  ELSE IF q = Half(t) /\ k >= entry[t][1]
       THEN IF k = entry[t][1] THEN entry[t][2] ELSE f[right[t]]
       ELSE Look(q, k, f)
ValuesFrom(t, k, f) == [q \in Nodes \cup {Null} |-> ValueFrom(t, k, q, f)]

\* A node comes after those below it, and one that was split after its right half.
RankOf(t, deep, q) == 2 * deep[q] + (IF q = Half(t) THEN 1 ELSE 0)

LEMMA RanksFall ==
  ASSUME TreeInv, NEW t \in Thread, NEW deep, NEW span, NEW part, Ordered(deep, span, part)
  PROVE  /\ \A q \in Nodes \cup {Null} : RankOf(t, deep, q) \in Nat
         /\ \A q \in Nodes : \A i \in DOMAIN kids[q] :
              /\ kids[q][i] \in Nodes \cup {Null}
              /\ RankOf(t, deep, kids[q][i]) < RankOf(t, deep, q)
         /\ \A q \in Nodes : q = Half(t) =>
              /\ pc[t] = "carry" /\ q = Here(t) /\ entry[t] \in Entry
              /\ right[t] \in Nodes /\ RankOf(t, deep, right[t]) < RankOf(t, deep, q)
<1>1. TreeType /\ CountsOwners /\ Locals(t)
  BY DEF TreeInv, OfThread
<1>2. \A q \in Nodes \cup {Null} : deep[q] \in Nat
  BY DEF Ordered, GhostType, Nodes, Pointer
<1>3. \A q \in Nodes \cup {Null} :
        RankOf(t, deep, q) \in Nat /\ 2 * deep[q] <= RankOf(t, deep, q) /\ RankOf(t, deep, q) <= 2 * deep[q] + 1
  <2>1. SUFFICES ASSUME NEW q \in Nodes \cup {Null}
                 PROVE  RankOf(t, deep, q) \in Nat /\ 2 * deep[q] <= RankOf(t, deep, q) /\ RankOf(t, deep, q) <= 2 * deep[q] + 1
    OBVIOUS
  <2>2. PICK d \in Nat : d = deep[q]
    BY <1>2
  <2>3. RankOf(t, deep, q) = 2 * d + 1 \/ RankOf(t, deep, q) = 2 * d + 0
    BY <2>2 DEF RankOf
  <2> QED
    BY <2>2, <2>3
<1>4. ASSUME NEW q \in Nodes, NEW i \in DOMAIN kids[q]
      PROVE  kids[q][i] \in Nodes \cup {Null} /\ RankOf(t, deep, kids[q][i]) < RankOf(t, deep, q)
  <2>1. q \in Addr
    BY DEF Nodes
  <2>2. PICK h \in Nodes \cup {Null} : h = kids[q][i]
    BY <2>1, LiveKids
  <2>3. deep[q] = deep[h] + 1
    BY <2>2 DEF Ordered, NodeOrdered
  <2>4. deep[q] \in Nat /\ deep[h] \in Nat
    BY <1>2
  <2>5. /\ RankOf(t, deep, q) \in Nat /\ 2 * deep[q] <= RankOf(t, deep, q)
        /\ RankOf(t, deep, h) \in Nat /\ RankOf(t, deep, h) <= 2 * deep[h] + 1
    BY <1>3
  <2>6. RankOf(t, deep, h) < RankOf(t, deep, q)
    BY <2>3, <2>4, <2>5
  <2> QED
    BY <2>2, <2>6
<1>5. ASSUME NEW q \in Nodes, q = Half(t)
      PROVE  /\ pc[t] = "carry" /\ q = Here(t) /\ entry[t] \in Entry
             /\ right[t] \in Nodes /\ RankOf(t, deep, right[t]) < RankOf(t, deep, q)
  <2>1. q # Null
    BY AddrAssumption DEF Nodes
  <2>2. pc[t] = "carry" /\ q = Here(t)
    BY <1>5, <2>1 DEF Half
  <2>3. Inserting(t) /\ right[t] # Null /\ entry[t] \in Entry
    BY <1>1, <2>2 DEF Inserting, Locals
  <2>4. right[t] \in Nodes
    <3>1. Owners(right[t]) # 0
      BY <1>1, RightOwns
    <3> QED
      BY <1>1, <2>3, <3>1 DEF TreeType, Pointer, CountsOwners, Nodes
  <2>5. right[t] # q
    <3>1. q \in Own(t)
      BY <2>2 DEF Own
    <3> QED
      BY <3>1, OwnedByOne
  <2>6. deep[right[t]] = deep[q]
    BY <2>2, <2>3 DEF Ordered, ThreadOrdered
  <2>7. PICK d \in Nat : d = deep[q] /\ d = deep[right[t]]
    BY <1>2, <2>6
  <2>8. RankOf(t, deep, q) = 2 * d + 1 /\ RankOf(t, deep, right[t]) = 2 * d + 0
    BY <1>5, <2>5, <2>7 DEF RankOf
  <2>9. RankOf(t, deep, right[t]) < RankOf(t, deep, q)
    BY <2>8
  <2> QED
    BY <2>2, <2>3, <2>4, <2>9
<1> QED
  BY <1>3, <1>4, <1>5

\* What is below a node and what else it depends on decides its value.
LEMMA ValueDepends ==
  ASSUME TreeInv, OrderInv, NEW t \in Thread, NEW k \in Key, NEW q \in Nodes,
         NEW f, NEW g,
         \A i \in DOMAIN kids[q] : f[kids[q][i]] = g[kids[q][i]],
         q = Half(t) => f[right[t]] = g[right[t]]
  PROVE  ValueFrom(t, k, q, f) = ValueFrom(t, k, q, g)
<1>1. Sorted(entries[q], k) /\ DOMAIN kids[q] = 1 .. Len(entries[q]) + 1
  BY NodeIsSorted
<1>2. \A i \in 1 .. Len(entries[q]) + 1 : f[kids[q][i]] = g[kids[q][i]]
  BY <1>1
<1>3. LookIn(entries[q], kids[q], k, f) = LookIn(entries[q], kids[q], k, g)
  BY <1>1, <1>2, LookSame
<1>4. Look(q, k, f) = Look(q, k, g)
  BY <1>3, LookIsLookIn
<1> QED
  BY <1>4 DEF ValueFrom

LEMMA ValuesType ==
  ASSUME TreeInv, OrderInv, NEW t \in Thread, NEW k \in Key,
         NEW f \in [Nodes \cup {Null} -> Value \cup {Null}]
  PROVE  ValuesFrom(t, k, f) \in [Nodes \cup {Null} -> Value \cup {Null}]
<1>1. SUFFICES ASSUME NEW q \in Nodes \cup {Null}
               PROVE  ValueFrom(t, k, q, f) \in Value \cup {Null}
  BY DEF ValuesFrom
<1>2. CASE q = Null
  BY <1>2 DEF ValueFrom
<1>3. CASE q # Null
  <2>1. q \in Nodes
    BY <1>3
  <2>2. PICK deep, span, part : Ordered(deep, span, part)
    BY DEF OrderInv
  <2>3. q = Half(t) => entry[t] \in Entry /\ right[t] \in Nodes
    BY <2>1, <2>2, RanksFall
  <2>4. Look(q, k, f) \in Value \cup {Null}
    <3>1. PICK m : m = SearchIn(entries[q], k)
      OBVIOUS
    <3>2. Sorted(entries[q], k)
      BY <2>1, NodeIsSorted
    <3>3. m \in 1 .. Len(entries[q]) + 1 /\ Len(entries[q]) \in Nat
      BY <3>1, <3>2, SearchInEnds
    <3>4. m <= Len(entries[q]) => entries[q][m] \in Entry
      <4>1. entries[q] \in Seq(Entry)
        BY <3>2 DEF Sorted
      <4>2. m <= Len(entries[q]) => m \in 1 .. Len(entries[q])
        BY <3>3
      <4> QED
        BY <4>1, <4>2, ElementOfSeq
    <3>5. kids[q][m] \in Nodes \cup {Null}
      BY <2>1, <3>3, NodeIsSorted
    <3>6. Look(q, k, f) = IF m <= Len(entries[q]) /\ entries[q][m][1] = k
                          THEN entries[q][m][2] ELSE f[kids[q][m]]
      BY <3>1, LookIsLookIn DEF LookIn
    <3> QED
      BY <3>4, <3>5, <3>6 DEF Entry
  <2> QED
    BY <1>3, <2>3, <2>4 DEF ValueFrom, Entry
<1> QED
  BY <1>2, <1>3

LEMMA ValuesExist ==
  ASSUME TreeInv, OrderInv, NEW t \in Thread, NEW k \in Key
  PROVE  \E f : f = ValuesFrom(t, k, f)
<1> DEFINE D == Nodes \cup {Null}
           V == Value \cup {Null}
           F == [f \in [D -> V] |-> ValuesFrom(t, k, f)]
           f0 == [q \in D |-> Null]
<1>0. PICK deep, span, part : Ordered(deep, span, part)
  BY DEF OrderInv
<1> DEFINE rank == [q \in D |-> RankOf(t, deep, q)]
<1>1. rank \in [D -> Nat] /\ \A q \in D : rank[q] = RankOf(t, deep, q)
  BY <1>0, RanksFall
<1>2. F \in [[D -> V] -> [D -> V]] /\ f0 \in [D -> V]
  <2>1. \A f \in [D -> V] : ValuesFrom(t, k, f) \in [D -> V]
    BY ValuesType
  <2>2. f0 \in [D -> V]
    OBVIOUS
  <2> HIDE DEF D, V, f0
  <2> QED
    BY <2>1, <2>2
<1>3. PICK N \in Nat : \A q \in D : rank[q] < N
  <2>1. IsFiniteSet(D)
    <3>1. IsFiniteSet(Addr) /\ Nodes \subseteq Addr
      BY AddrAssumption DEF Nodes
    <3>2. IsFiniteSet(Nodes)
      BY <3>1, FS_Subset
    <3> QED
      BY <3>2, FS_AddElement
  <2> HIDE DEF rank, D
  <2> QED
    BY <1>1, <2>1, RanksAreBounded
<1>4. ASSUME NEW f \in [D -> V], NEW g \in [D -> V], NEW q \in D,
             \A x \in D : rank[x] < rank[q] => f[x] = g[x]
      PROVE  F[f][q] = F[g][q]
  <2>1. ValueFrom(t, k, q, f) = ValueFrom(t, k, q, g)
    <3>1. CASE q = Null
      BY <3>1 DEF ValueFrom
    <3>2. CASE q # Null
      <4>1. q \in Nodes
        BY <3>2
      <4>2. /\ \A i \in DOMAIN kids[q] :
                 kids[q][i] \in D /\ RankOf(t, deep, kids[q][i]) < RankOf(t, deep, q)
            /\ q = Half(t) => right[t] \in D /\ RankOf(t, deep, right[t]) < RankOf(t, deep, q)
        BY <1>0, <4>1, RanksFall
      <4>3. \A i \in DOMAIN kids[q] : f[kids[q][i]] = g[kids[q][i]]
        BY <1>1, <1>4, <4>2
      <4>4. q = Half(t) => f[right[t]] = g[right[t]]
        BY <1>1, <1>4, <4>2
      <4> QED
        BY <4>1, <4>3, <4>4, ValueDepends
    <3> QED
      BY <3>1, <3>2
  <2>2. F[f] = ValuesFrom(t, k, f) /\ F[g] = ValuesFrom(t, k, g)
    OBVIOUS
  <2> QED
    BY <2>1, <2>2 DEF ValuesFrom
<1>5. \A f \in [D -> V] : F[f] = ValuesFrom(t, k, f)
  OBVIOUS
<1>6. \A f, g \in [D -> V] : \A q \in D :
        (\A x \in D : rank[x] < rank[q] => f[x] = g[x]) => F[f][q] = F[g][q]
  <2> HIDE DEF D, V, rank, F
  <2> QED
    BY <1>4
<1>7. PICK f \in [D -> V] : F[f] = f
  <2> HIDE DEF D, V, rank, F, f0
  <2>1. Contracts(D, V, rank, F)
    BY <1>2, <1>6 DEF Contracts
  <2> QED
    BY <1>1, <1>2, <1>3, <2>1, FixpointExists
<1> QED
  BY <1>5, <1>7

\* They are those that get has, wherever no other insert has made nodes its own.
LEMMA ValuesGet ==
  ASSUME TreeInv, OrderInv, NEW t \in Thread, NEW k \in Key, NEW get, Gets(k, get),
         NEW f, f = ValuesFrom(t, k, f)
  PROVE  f[root[t]] = get[root[t]]
<1> DEFINE Mine(q) == q \in Nodes /\ \A u \in Thread \ {t} : q \notin Own(u)
<1>0. PICK deep, span, part : Ordered(deep, span, part)
  BY DEF OrderInv
<1> DEFINE Wrong == {n \in Nat : \E q \in Nodes : /\ Mine(q) /\ RankOf(t, deep, q) = n
                                                  /\ f[q] # get[q]}
<1>1. TreeType /\ CountsOwners
  BY DEF TreeInv
<1>2. /\ \A q \in Nodes : RankOf(t, deep, q) \in Nat
      /\ \A q \in Nodes : \A i \in DOMAIN kids[q] :
           /\ kids[q][i] \in Nodes \cup {Null}
           /\ RankOf(t, deep, kids[q][i]) < RankOf(t, deep, q)
      /\ \A q \in Nodes : q = Half(t) =>
           /\ pc[t] = "carry" /\ q = Here(t) /\ entry[t] \in Entry
           /\ right[t] \in Nodes /\ RankOf(t, deep, right[t]) < RankOf(t, deep, q)
  BY <1>0, RanksFall
<1>3. \A q \in Nodes : q # Null /\ f[q] = ValueFrom(t, k, q, f)
  BY AddrAssumption DEF ValuesFrom, Nodes
<1>4. f[Null] = Null /\ get[Null] = Null
  BY DEF ValuesFrom, ValueFrom, Gets
<1>5. ASSUME Wrong # {} PROVE FALSE
  <2>1. PICK m \in Wrong : \A n \in Wrong : m <= n
    <3>1. Wrong \in SUBSET Nat
      OBVIOUS
    <3> HIDE DEF Wrong
    <3> QED
      BY <1>5, <3>1, LeastOf
  <2>2. PICK q \in Nodes : Mine(q) /\ RankOf(t, deep, q) = m /\ f[q] # get[q]
    BY <2>1
  <2>3. \A x \in Nodes : Mine(x) /\ RankOf(t, deep, x) < m => f[x] = get[x]
    <3>1. SUFFICES ASSUME NEW x \in Nodes, Mine(x), RankOf(t, deep, x) < m, f[x] # get[x]
                   PROVE  FALSE
      OBVIOUS
    <3>2. RankOf(t, deep, x) \in Nat
      BY <1>2
    <3>3. RankOf(t, deep, x) \in Wrong
      BY <3>1, <3>2
    <3>4. m <= RankOf(t, deep, x) /\ m \in Nat
      BY <2>1, <3>3
    <3> QED
      BY <3>1, <3>2, <3>4
  <2>4. ASSUME NEW i \in DOMAIN kids[q]
        PROVE  f[kids[q][i]] = get[kids[q][i]]
    <3>1. kids[q][i] \in Nodes \cup {Null} /\ RankOf(t, deep, kids[q][i]) < m
      BY <1>2, <2>2
    <3>2. ASSUME NEW u \in Thread \ {t}, kids[q][i] \in Own(u)
          PROVE  FALSE
      <4>1. q \in OnPath(u)
        BY <3>2, OwnedByOne DEF Nodes
      <4> QED
        BY <2>2, <4>1 DEF Own
    <3> QED
      BY <1>4, <2>3, <3>1, <3>2
  <2>5. q = Half(t) => f[right[t]] = get[right[t]]
    <3>1. SUFFICES ASSUME q = Half(t)
                   PROVE  f[right[t]] = get[right[t]]
      OBVIOUS
    <3>2. right[t] \in Nodes /\ RankOf(t, deep, right[t]) < m
      BY <1>2, <2>2, <3>1
    <3>3. \A u \in Thread : right[t] \notin Own(u)
      BY OwnedByOne
    <3> QED
      BY <2>3, <3>2, <3>3
  <2>6. ValueFrom(t, k, q, f) = ValueFrom(t, k, q, get)
    BY <2>4, <2>5, ValueDepends
  <2>7. Look(q, k, get) = LookIn(entries[q], kids[q], k, get)
    BY LookIsLookIn
  <2>8. CASE q = Half(t)
    <3>1. get[q] = IF k = entry[t][1] THEN entry[t][2]
                   ELSE IF k > entry[t][1] THEN get[right[t]]
                   ELSE LookIn(entries[q], kids[q], k, get)
      BY <1>2, <2>8 DEF Gets, ThreadGets
    <3>2. k \in Nat /\ entry[t][1] \in Nat
      BY <1>2, <2>8, KeyAssumption DEF Entry
    <3>3. k >= entry[t][1] <=> k = entry[t][1] \/ k > entry[t][1]
      BY <3>2
    <3>4. get[q] = ValueFrom(t, k, q, get)
      BY <1>3, <2>7, <2>8, <3>1, <3>3 DEF ValueFrom
    <3> QED
      BY <1>3, <2>2, <2>6, <3>4
  <2>9. CASE q # Half(t)
    <3>1. ASSUME NEW u \in Thread, pc[u] = "carry", Here(u) = q
          PROVE  FALSE
      <4>1. u # t /\ q \in Own(u)
        BY <2>9, <3>1 DEF Own, Half
      <4> QED
        BY <2>2, <4>1
    <3>2. get[q] = LookIn(entries[q], kids[q], k, get)
      BY <3>1 DEF Gets, NodeGets
    <3>3. get[q] = ValueFrom(t, k, q, get)
      BY <1>3, <2>7, <2>9, <3>2 DEF ValueFrom
    <3> QED
      BY <1>3, <2>2, <2>6, <3>3
  <2> QED
    BY <2>8, <2>9
<1>6. CASE root[t] = Null
  BY <1>4, <1>6
<1>7. CASE root[t] # Null
  <2>1. root[t] \in Nodes
    <3>1. Owners(root[t]) # 0
      BY <1>1, RootOwns
    <3> QED
      BY <1>1, <1>7, <3>1 DEF TreeType, Pointer, CountsOwners, Nodes
  <2>2. \A u \in Thread \ {t} : root[t] \notin Own(u)
    BY OwnedByOne
  <2>3. RankOf(t, deep, root[t]) \in Nat
    BY <1>2, <2>1
  <2> QED
    BY <1>5, <2>1, <2>2, <2>3
<1> QED
  BY <1>6, <1>7

\* What a search finds, and what a tree is said to have, is what get has.
Values == \A k \in Key : \A get : Gets(k, get) => \A t \in Thread :
  ValueOf(t, k) = get[root[t]] /\ (pc[t] = "idle" => Get(root[t], k) = get[root[t]])

LEMMA ValuesAre == TreeInv /\ OrderInv => Values
<1>1. SUFFICES ASSUME TreeInv, OrderInv, NEW k \in Key, NEW get, Gets(k, get), NEW t \in Thread
               PROVE  ValueOf(t, k) = get[root[t]] /\ (pc[t] = "idle" => Get(root[t], k) = get[root[t]])
  BY DEF Values
<1>2. ValueOf(t, k) = get[root[t]]
  <2>1. PICK f : f = CHOOSE g : g = ValuesFrom(t, k, g)
    OBVIOUS
  <2>2. f = ValuesFrom(t, k, f)
    BY <1>1, <2>1, ValuesExist
  <2>3. ValueOf(t, k) = f[root[t]]
    BY <2>1 DEF ValueOf, ValuesFrom, ValueFrom, Half
  <2> QED
    BY <1>1, <2>2, <2>3, ValuesGet
<1>3. ASSUME pc[t] = "idle"
      PROVE  Get(root[t], k) = get[root[t]]
  <2> DEFINE Finds(g) == [q \in Nodes \cup {Null} |-> IF q = Null THEN Null ELSE Look(q, k, g)]
  <2>1. Half(t) = Null
    BY <1>3 DEF Half
  <2>2. \A g : Finds(g) = ValuesFrom(t, k, g)
    BY <2>1 DEF ValuesFrom, ValueFrom
  <2>3. PICK f : f = CHOOSE g : g = Finds(g)
    OBVIOUS
  <2>4. Get(root[t], k) = f[root[t]]
    BY <2>3 DEF Get
  <2> HIDE DEF Finds
  <2>5. \E g : g = Finds(g)
    BY <1>1, <2>2, ValuesExist
  <2>6. f = Finds(f)
    BY <2>3, <2>5
  <2>7. f = ValuesFrom(t, k, f)
    BY <2>2, <2>6
  <2> QED
    BY <1>1, <2>4, <2>7, ValuesGet
<1> QED
  BY <1>2, <1>3

-----------------------------------------------------------------------------
(* The maps of the threads are their own *)

\* What a step gives the tree of its thread, which is what it may become.
Gives(t, w) == \A k \in Key : \A get : Gets(k, get) => Becomes(t, k, get, w[k])

Held(t) == [k \in Key |-> ValueOf(t, k)]
Nothing == [k \in Key |-> Null]
Promised(t, w) ==
  \/ w = Held(t)
  \/ \E e \in Entry : (Held(t)[e[1]] = Null \/ replace) /\ w = [Held(t) EXCEPT ![e[1]] = e[2]]
  \/ \E u \in Thread : Held(t) = Nothing /\ w = Held(u)
  \/ w = Nothing

\* A step that leaves what its tree has.
LEMMA KeepsWhatItHas ==
  ASSUME Values, NEW t \in Thread,
         \A k \in Key : \A get : Gets(k, get) => Becomes(t, k, get, get[root[t]])
  PROVE  \E w : Gives(t, w) /\ Promised(t, w)
<1>1. PICK w : w = Held(t)
  OBVIOUS
<1>2. ASSUME NEW k \in Key, NEW get, Gets(k, get)
      PROVE  Becomes(t, k, get, w[k])
  <2>1. w[k] = get[root[t]]
    BY <1>1, <1>2 DEF Held, Values
  <2>2. Becomes(t, k, get, get[root[t]])
    BY <1>2
  <2> QED
    BY <2>1, <2>2
<1>3. Gives(t, w)
  BY <1>2 DEF Gives
<1> QED
  BY <1>1, <1>3 DEF Promised

\* One that gives it an entry, which it has not, or replaces.
LEMMA GetsTheEntry ==
  ASSUME Values, NEW t \in Thread, NEW e \in Entry,
         \A k \in Key : \A get : Gets(k, get) =>
           Becomes(t, k, get, IF k = e[1] THEN e[2] ELSE get[root[t]]),
         ValueOf(t, e[1]) = Null \/ replace
  PROVE  \E w : Gives(t, w) /\ Promised(t, w)
<1>1. PICK w : w = [Held(t) EXCEPT ![e[1]] = e[2]]
  OBVIOUS
<1>2. e[1] \in Key
  BY DEF Entry
<1>3. ASSUME NEW k \in Key, NEW get, Gets(k, get)
      PROVE  Becomes(t, k, get, w[k])
  <2>1. PICK v : v = IF k = e[1] THEN e[2] ELSE get[root[t]]
    OBVIOUS
  <2>2. Becomes(t, k, get, v)
    BY <1>3, <2>1
  <2>3. ValueOf(t, k) = get[root[t]]
    BY <1>3 DEF Values
  <2>4. w[k] = v
    BY <1>1, <2>1, <2>3 DEF Held
  <2> QED
    BY <2>2, <2>4
<1>4. Gives(t, w)
  BY <1>3 DEF Gives
<1>5. Held(t)[e[1]] = Null \/ replace
  BY <1>2 DEF Held
<1> QED
  BY <1>1, <1>4, <1>5 DEF Promised

LEMMA EmptyTree ==
  ASSUME Values, MapInv, NEW t \in Thread, root[t] = Null
  PROVE  Held(t) = Nothing /\ \A k \in Key : ValueOf(t, k) = Null
<1>1. ASSUME NEW k \in Key
      PROVE  ValueOf(t, k) = Null
  <2>1. PICK get : Gets(k, get)
    BY DEF MapInv
  <2>2. ValueOf(t, k) = get[root[t]] /\ get[Null] = Null
    BY <2>1 DEF Values, Gets
  <2> QED
    BY <2>2
<1> QED
  BY <1>1 DEF Held, Nothing

\* A set does not have what it is about to insert.
LEMMA WaitsForItsEntry ==
  ASSUME TreeInv, Values, MapInv, NEW t \in Thread, pc[t] = "mutate"
  PROVE  entry[t] \in Entry /\ (ValueOf(t, entry[t][1]) = Null \/ replace)
<1>1. Inserting(t) /\ entry[t] \in Entry
  BY DEF Inserting, TreeInv, OfThread, Locals
<1>2. PICK k \in Key : k = entry[t][1]
  BY <1>1 DEF Entry
<1>3. PICK get : Gets(k, get)
  BY DEF MapInv
<1>4. ValueOf(t, k) = get[root[t]]
  BY <1>3 DEF Values
<1>5. ~replace => get[root[t]] = Null
  BY <1>1, <1>2, <1>3 DEF Gets, ThreadGets, Awaits
<1> QED
  BY <1>1, <1>2, <1>4, <1>5

LEMMA StepMaps ==
  ASSUME TreeInv, OrderInv, Values, MapInv, NEW t \in Thread, Step(t)
  PROVE  replace' = replace /\ \E w : Gives(t, w) /\ Promised(t, w)
<1>1. CASE DropNone(t)
  <2>1. \A k \in Key : \A get : Gets(k, get) => Becomes(t, k, get, get[root[t]])
    BY <1>1, DropNoneGets
  <2> QED
    BY <1>1, <2>1, KeepsWhatItHas DEF DropNone, DropRest
<1>2. CASE DropShared(t)
  <2>1. \A k \in Key : \A get : Gets(k, get) => Becomes(t, k, get, get[root[t]])
    BY <1>2, DropSharedGets
  <2> QED
    BY <1>2, <2>1, KeepsWhatItHas DEF DropShared, DropRest
<1>3. CASE DropLast(t)
  <2>1. \A k \in Key : \A get : Gets(k, get) => Becomes(t, k, get, get[root[t]])
    BY <1>3, DropLastGets
  <2> QED
    BY <1>3, <2>1, KeepsWhatItHas DEF DropLast, DropRest
<1>4. CASE IsUnique(t)
  <2>1. \A k \in Key : \A get : Gets(k, get) => Becomes(t, k, get, get[root[t]])
    BY <1>4, IsUniqueGets
  <2> QED
    BY <1>4, <2>1, KeepsWhatItHas DEF IsUnique
<1>5. CASE CloneNode(t)
  <2>1. \A k \in Key : \A get : Gets(k, get) => Becomes(t, k, get, get[root[t]])
    BY <1>5, CloneNodeGets
  <2> QED
    BY <1>5, <2>1, KeepsWhatItHas DEF CloneNode
<1>6. CASE Assign(t)
  <2>1. \A k \in Key : \A get : Gets(k, get) => Becomes(t, k, get, get[root[t]])
    BY <1>6, AssignGets
  <2> QED
    BY <1>6, <2>1, KeepsWhatItHas DEF Assign
<1>7. CASE Descend(t)
  <2>1. \A k \in Key : \A get : Gets(k, get) => Becomes(t, k, get, get[root[t]])
    BY <1>7, DescendGets
  <2> QED
    BY <1>7, <2>1, KeepsWhatItHas DEF Descend
<1>8. CASE Carry(t)
  <2>1. \A k \in Key : \A get : Gets(k, get) => Becomes(t, k, get, get[root[t]])
    BY <1>8, CarryGets
  <2> QED
    BY <1>8, <2>1, KeepsWhatItHas DEF Carry
<1>9. CASE Grow(t)
  <2>1. \A k \in Key : \A get : Gets(k, get) => Becomes(t, k, get, get[root[t]])
    BY <1>9, GrowGets
  <2> QED
    BY <1>9, <2>1, KeepsWhatItHas DEF Grow
<1>10. CASE ReplaceValue(t)
  <2>1. PICK e \in Entry : e = entry[t] /\ (ValueOf(t, e[1]) = Null \/ replace)
    BY <1>10, WaitsForItsEntry DEF ReplaceValue
  <2>2. \A k \in Key : \A get : Gets(k, get) =>
          Becomes(t, k, get, IF k = e[1] THEN e[2] ELSE get[root[t]])
    BY <1>10, <2>1, ReplaceValueGets
  <2> QED
    BY <1>10, <2>1, <2>2, GetsTheEntry DEF ReplaceValue
<1>11. CASE Put(t)
  <2>1. PICK e \in Entry : e = entry[t] /\ (ValueOf(t, e[1]) = Null \/ replace)
    BY <1>11, WaitsForItsEntry DEF Put
  <2>2. \A k \in Key : \A get : Gets(k, get) =>
          Becomes(t, k, get, IF k = e[1] THEN e[2] ELSE get[root[t]])
    BY <1>11, <2>1, PutGets
  <2> QED
    BY <1>11, <2>1, <2>2, GetsTheEntry DEF Put
<1> QED
  BY <1>1, <1>2, <1>3, <1>4, <1>5, <1>6, <1>7, <1>8, <1>9, <1>10, <1>11 DEF Step

LEMMA CallMaps ==
  ASSUME TreeInv, OrderInv, Values, MapInv, NEW t \in Thread, Call(t)
  PROVE  replace' = replace /\ \E w : Gives(t, w) /\ Promised(t, w)
<1>1. ASSUME NEW e \in Entry, InsertFirst(t, e)
      PROVE  replace' = replace /\ \E w : Gives(t, w) /\ Promised(t, w)
  <2>1. root[t] = Null
    BY <1>1 DEF InsertFirst
  <2>2. ValueOf(t, e[1]) = Null
    BY <2>1, EmptyTree DEF Entry
  <2>3. ASSUME NEW k \in Key, NEW get, Gets(k, get)
        PROVE  Becomes(t, k, get, IF k = e[1] THEN e[2] ELSE get[root[t]])
    <3>1. Becomes(t, k, get, IF k = e[1] THEN e[2] ELSE Null)
      BY <1>1, <2>3, InsertFirstGets
    <3>2. get[root[t]] = Null
      BY <2>1, <2>3 DEF Gets
    <3> QED
      BY <3>1, <3>2
  <2> QED
    BY <1>1, <2>2, <2>3, GetsTheEntry DEF InsertFirst
<1>2. ASSUME NEW e \in Entry, Insert(t, e)
      PROVE  replace' = replace /\ \E w : Gives(t, w) /\ Promised(t, w)
  <2>1. ASSUME NEW k \in Key, NEW get, Gets(k, get)
        PROVE  Becomes(t, k, get, get[root[t]])
    <3>1. Get(root[t], k) = get[root[t]]
      BY <1>2, <2>1 DEF Values, Insert
    <3> QED
      BY <1>2, <2>1, <3>1, InsertCallGets
  <2> QED
    BY <1>2, <2>1, KeepsWhatItHas DEF Insert
<1>3. ASSUME NEW u \in Thread, Clone(t, u)
      PROVE  replace' = replace /\ \E w : Gives(t, w) /\ Promised(t, w)
  <2>1. Held(t) = Nothing
    BY <1>3, EmptyTree DEF Clone
  <2>2. ASSUME NEW k \in Key, NEW get, Gets(k, get)
        PROVE  Becomes(t, k, get, Held(u)[k])
    <3>1. Becomes(t, k, get, get[root[u]])
      BY <1>3, <2>2, CloneGets
    <3>2. Held(u)[k] = get[root[u]]
      BY <2>2 DEF Values, Held
    <3> QED
      BY <3>1, <3>2
  <2>3. Gives(t, Held(u))
    BY <2>2 DEF Gives
  <2> QED
    BY <1>3, <2>1, <2>3 DEF Promised, Clone
<1>4. CASE Drop(t)
  <2>1. ASSUME NEW k \in Key, NEW get, Gets(k, get)
        PROVE  Becomes(t, k, get, Nothing[k])
    <3>1. Becomes(t, k, get, Null)
      BY <1>4, <2>1, DropTreeGets
    <3> QED
      BY <3>1 DEF Nothing
  <2>2. Gives(t, Nothing)
    BY <2>1 DEF Gives
  <2> QED
    BY <1>4, <2>2 DEF Promised, Drop
<1> QED
  BY <1>1, <1>2, <1>3, <1>4 DEF Call, Entry

LEMMA NextMaps == TreeInv /\ OrderInv /\ MapInv /\ [Next]_vars => MapInv'
<1>1. SUFFICES ASSUME TreeInv, OrderInv, MapInv, [Next]_vars
               PROVE  MapInv'
  OBVIOUS
<1>2. CASE UNCHANGED vars
  <2>1. /\ replace' = replace /\ root' = root /\ entries' = entries /\ kids' = kids /\ strong' = strong
        /\ pc' = pc /\ entry' = entry /\ right' = right /\ path' = path /\ copy' = copy
    BY <1>2 DEF vars, heap, insert
  <2>2. Nodes' = Nodes /\ \A t \in Thread : Here(t)' = Here(t)
    BY <2>1 DEF Nodes, Here
  <2>3. \A k, get : Gets(k, get) => Gets(k, get)'
    BY <2>1, <2>2 DEF Gets, NodeGets, ThreadGets, Awaits, Inserting
  <2> QED
    BY <1>1, <2>3 DEF MapInv
<1>3. ASSUME NEW t \in Thread, Step(t) \/ Call(t)
      PROVE  MapInv'
  <2>1. PICK w : Gives(t, w)
    BY <1>1, <1>3, ValuesAre, StepMaps, CallMaps
  <2>2. ASSUME NEW k \in Key
        PROVE  \E get : Gets(k, get)'
    <3>1. PICK get : Gets(k, get)
      BY <1>1 DEF MapInv
    <3>2. Becomes(t, k, get, w[k])
      BY <2>1, <3>1 DEF Gives
    <3> QED
      BY <3>2 DEF Becomes
  <2> QED
    BY <2>2 DEF MapInv
<1> QED
  BY <1>1, <1>2, <1>3 DEF Next

LEMMA InitPromise == Init => Promise!Init
<1>1. SUFFICES ASSUME Init, NEW t \in Thread, NEW k \in Key
               PROVE  ValueOf(t, k) = Null
  BY DEF Init, Promise!Init, Promise!Empty
<1>2. TreeInv /\ OrderInv /\ MapInv /\ root[t] = Null
  BY <1>1, InitInv, InitOrder, InitMaps DEF Init
<1> QED
  BY <1>2, ValuesAre, EmptyTree

LEMMA NextPromise ==
  ASSUME TreeInv, OrderInv, MapInv, Values', [Next]_vars
  PROVE  [Promise!Next]_Promise!vars
<1>1. CASE UNCHANGED vars
  <2>1. /\ replace' = replace /\ root' = root /\ entries' = entries /\ kids' = kids /\ strong' = strong
        /\ pc' = pc /\ entry' = entry /\ right' = right /\ path' = path
    BY <1>1 DEF vars, heap, insert
  <2> QED
    BY <2>1 DEF Promise!vars, ValueOf, Look, Search, Holds, Here, Nodes
<1>2. ASSUME NEW t \in Thread, Step(t) \/ Call(t)
      PROVE  [Promise!Next]_Promise!vars
  <2>1. Values
    BY ValuesAre
  <2>2. PICK w : replace' = replace /\ Gives(t, w) /\ Promised(t, w)
    BY <1>2, <2>1, StepMaps, CallMaps
  <2>3. ASSUME NEW u \in Thread, NEW k \in Key
        PROVE  ValueOf(u, k)' = IF u = t THEN w[k] ELSE ValueOf(u, k)
    <3>1. PICK get : Gets(k, get)
      BY DEF MapInv
    <3>2. Becomes(t, k, get, w[k])
      BY <2>2, <3>1 DEF Gives
    <3>3. PICK get2 : Gets(k, get2)' /\ \A x \in Thread : get2[root'[x]] = IF x = t THEN w[k] ELSE get[root[x]]
      BY <3>2 DEF Becomes
    <3>4. ValueOf(u, k)' = get2[root'[u]]
      BY <3>3 DEF Values
    <3>5. ValueOf(u, k) = get[root[u]]
      BY <2>1, <3>1 DEF Values
    <3> QED
      BY <3>3, <3>4, <3>5
  <2>4. w = [k \in Key |-> w[k]]
    BY <2>2 DEF Promised, Held, Nothing
  <2>5. PICK held, held2 : held = [u \in Thread |-> Held(u)] /\ held2 = [u \in Thread |-> Held(u)']
    OBVIOUS
  <2>6. held2 = [held EXCEPT ![t] = w]
    <3>1. Held(t)' = w
      BY <2>3, <2>4 DEF Held
    <3>2. \A u \in Thread \ {t} : Held(u)' = Held(u)
      BY <2>3 DEF Held
    <3> QED
      BY <2>5, <3>1, <3>2
  <2>7. CASE w = Held(t)
    <3>1. held2 = held
      BY <2>5, <2>6, <2>7
    <3> QED
      BY <2>2, <2>5, <3>1 DEF Promise!vars, Held
  <2>8. ASSUME NEW e \in Entry, Held(t)[e[1]] = Null \/ replace, w = [Held(t) EXCEPT ![e[1]] = e[2]]
        PROVE  [Promise!Next]_Promise!vars
    <3>1. e[1] \in Key /\ e[2] \in Value
      BY DEF Entry
    <3>2. held[t] = Held(t)
      BY <2>5
    <3>3. held2 = [held EXCEPT ![t][e[1]] = e[2]]
      BY <2>6, <2>8, <3>2
    <3>4. Promise!Insert(t, e[1], e[2])
      BY <2>2, <2>5, <2>8, <3>2, <3>3 DEF Promise!Insert, Held
    <3> QED
      BY <3>1, <3>4 DEF Promise!Next
  <2>9. ASSUME NEW u \in Thread, Held(t) = Nothing, w = Held(u)
        PROVE  [Promise!Next]_Promise!vars
    <3>1. held[t] = Nothing /\ held2 = [held EXCEPT ![t] = held[u]]
      BY <2>5, <2>6, <2>9
    <3>2. Promise!Clone(t, u)
      BY <2>2, <2>5, <3>1 DEF Promise!Clone, Promise!Empty, Held, Nothing
    <3> QED
      BY <3>2 DEF Promise!Next
  <2>10. CASE w = Nothing
    <3>1. held2 = [held EXCEPT ![t] = Nothing]
      BY <2>6, <2>10
    <3>2. Promise!Drop(t)
      BY <2>2, <2>5, <3>1 DEF Promise!Drop, Promise!Empty, Held, Nothing
    <3> QED
      BY <3>2 DEF Promise!Next
  <2> QED
    BY <2>2, <2>7, <2>8, <2>9, <2>10 DEF Promised
<1> QED
  BY <1>1, <1>2 DEF Next

\* Every key has a value in each tree at every moment of its inserts: the nodes on
\* the way of one, its copies, and what it carries up agree about it, and a set
\* that does not replace has not yet what it is about to insert.
THEOREM MapInvTheorem == Spec => []MapInv
<1>1. Init => MapInv
  BY InitMaps
<1>2. TreeInv /\ OrderInv /\ MapInv /\ [Next]_vars => MapInv'
  BY NextMaps
<1> QED
  BY <1>1, <1>2, TreeInvTheorem, OrderTheorem, PTL DEF Spec

\* Trees that share nodes are maps of their own: an insert gives one tree one
\* entry, all at once, and leaves what every other tree holds.
THEOREM ImplementsOwnMapsTheorem == Spec => ImplementsOwnMaps
<1>1. Init => Promise!Init
  BY InitPromise
<1>2. TreeInv /\ OrderInv => Values
  BY ValuesAre
<1>3. TreeInv /\ OrderInv /\ MapInv /\ Values' /\ [Next]_vars => [Promise!Next]_Promise!vars
  BY NextPromise
<1> QED
  BY <1>1, <1>2, <1>3, TreeInvTheorem, OrderTheorem, MapInvTheorem, PTL
     DEF Spec, ImplementsOwnMaps, Promise!Spec
=============================================================================
