--------------------------- MODULE LinkingProofs ---------------------------
(***************************************************************************)
(* Proofs about Linking and the modules it is composed of, for any number  *)
(* of threads, handles, traits, tables and wakers: a checked import is     *)
(* written by one use alone and before it is borrowed, what is called      *)
(* through trait objects, interfaces and imports is what the caller's      *)
(* declarations say, values behind trait objects are destroyed once, and   *)
(* wakers are counted and lead to the executor.                            *)
(***************************************************************************)
EXTENDS Linking, FiniteSetTheorems, SequenceTheorems, WellFoundedInduction, TLAPS

-----------------------------------------------------------------------------
(* The import *)

\* The word `checked` says who may touch the result: LOCKED, the one thread
\* that writes it, VALIDATED, all of them; otherwise nobody and it is empty.
\* The checker always answers the same, so INVALIDATED never meets the others.
Locked ==
  /\ \A t, u \in Thread : Writing(t) => checked = "LOCKED" /\ (Writing(u) => u = t)
  /\ checked = "LOCKED" => \E t \in Thread : Writing(t)

Lent == \A t \in Thread : HasResult(t) => checked = "VALIDATED"

Held ==
  /\ checked = "VALIDATED" => result = "F"
  /\ HoldsIfValidated
  /\ \A t \in Thread : (pc[t] = "write" => result = Null) /\ (pc[t] = "publish" => result = "F")

Verdict ==
  /\ compatible => checked # "INVALIDATED" /\ \A t \in Thread : pc[t] # "invalidate"
  /\ ~compatible => /\ checked \notin {"VALIDATED", "LOCKED"}
                    /\ \A t \in Thread : pc[t] # "lock" /\ ~Writing(t)

Seen ==
  /\ \A t \in Thread : pc[t] = "publish" => t \in sees
  /\ inOrder => \A t \in Thread : (pc[t] = "borrow" => t \in sees) /\ got[t] # "garbage"

ImportInv == TypeOK /\ Locked /\ Lent /\ Held /\ Verdict /\ Seen

LEMMA InitImport == Init => ImportInv
BY NullAssumption DEF Init, ImportInv, TypeOK, Checked, Locked, Lent, Held, HoldsIfValidated,
     Verdict, Seen, Writing, HasResult

LEMMA NextImport == ImportInv /\ [Next]_vars => ImportInv'
<1> SUFFICES ASSUME ImportInv, [Next]_vars PROVE ImportInv'
  OBVIOUS
<1> USE NullAssumption DEF ImportInv, TypeOK, Checked, Step, Locked, Lent, Held,
     HoldsIfValidated, Verdict, Seen, Writing, HasResult, import, Goto
<1>1. ASSUME NEW t \in Thread, Call(t) PROVE ImportInv'
  BY <1>1 DEF Call
<1>2. ASSUME NEW t \in Thread, Load(t) PROVE ImportInv'
  BY <1>2 DEF Load
<1>3. ASSUME NEW t \in Thread, Check(t) PROVE ImportInv'
  BY <1>3 DEF Check
<1>4. ASSUME NEW t \in Thread, Lock(t) PROVE ImportInv'
  BY <1>4 DEF Lock
<1>5. ASSUME NEW t \in Thread, FailToLock(t) PROVE ImportInv'
  BY <1>5 DEF FailToLock
<1>6. ASSUME NEW t \in Thread, Write(t) PROVE ImportInv'
  BY <1>6 DEF Write
<1>7. ASSUME NEW t \in Thread, Publish(t) PROVE ImportInv'
  <2>1. \A u \in Thread : u # t => ~Writing(u) /\ ~Writing(u)'
    BY <1>7 DEF Publish
  <2>2. result = "F" /\ compatible /\ checked' = "VALIDATED" /\ ~Writing(t)'
    BY <1>7 DEF Publish
  <2>3. Locked'
    BY <2>1, <2>2
  <2>4. (TypeOK /\ Lent /\ Held /\ Verdict)'
    BY <1>7, <2>1, <2>2 DEF Publish
  <2>5. Seen'
    BY <1>7, <2>1 DEF Publish
  <2>6. QED
    BY <2>3, <2>4, <2>5
<1>8. ASSUME NEW t \in Thread, Invalidate(t) PROVE ImportInv'
  BY <1>8 DEF Invalidate
<1>9. ASSUME NEW t \in Thread, Borrow(t) PROVE ImportInv'
  BY <1>9 DEF Borrow
<1>10. ASSUME NEW t \in Thread, Report(t) PROVE ImportInv'
  BY <1>10 DEF Report
<1>11. ASSUME NEW t \in Thread, Reach(t) PROVE ImportInv'
  BY <1>11 DEF Reach
<1>12. ASSUME NEW t \in Thread, Release(t) PROVE ImportInv'
  BY <1>12 DEF Release
<1>13. CASE Drop
  BY <1>13 DEF Drop
<1>14. CASE UNCHANGED vars
  BY <1>14 DEF vars
<1>15. QED
  BY <1>1, <1>2, <1>3, <1>4, <1>5, <1>6, <1>7, <1>8, <1>9, <1>10, <1>11, <1>12, <1>13, <1>14
     DEF Next, Advance

\* The invariant holds of every behaviour.
THEOREM ImportTheorem == Spec => []ImportInv
BY InitImport, NextImport, PTL DEF Spec

\* No thread writes the result while another does or anyone borrows it.
THEOREM WrittenAloneTheorem == Spec => []WrittenAlone
<1>1. ImportInv => WrittenAlone
  BY DEF ImportInv, Locked, Lent, WrittenAlone
<1>2. QED
  BY <1>1, ImportTheorem, PTL

\* What is borrowed was written, and is seen so where loads stay in order.
THEOREM ReadsTheResultTheorem == Spec => []ReadsTheResult
<1>1. ImportInv => ReadsTheResult
  BY NullAssumption DEF ImportInv, Lent, Held, Seen, ReadsTheResult
<1>2. QED
  BY <1>1, ImportTheorem, PTL

\* An import that is not validated, when it is dropped, holds nothing.
THEOREM HoldsIfValidatedTheorem == Spec => []HoldsIfValidated
<1>1. ImportInv => HoldsIfValidated
  BY DEF ImportInv, Held
<1>2. QED
  BY <1>1, ImportTheorem, PTL

-----------------------------------------------------------------------------
(* Reports *)

LEMMA PathOf ==
  ASSUME NEW i \in Nat, NEW q \in Seq(Nat)
  PROVE  /\ <<i>> \o q # << >> /\ Head(<<i>> \o q) = i /\ Tail(<<i>> \o q) = q
<1>1. /\ <<i>> \o q \in Seq(Nat) /\ Len(<<i>> \o q) = 1 + Len(q)
      /\ \A k \in 1 .. 1 + Len(q) : (<<i>> \o q)[k] = IF k <= 1 THEN i ELSE q[k - 1]
  BY ConcatProperties
<1>2. PICK s \in Seq(Nat) : s = <<i>> \o q
  BY <1>1
<1>3. PICK n \in Nat : n = Len(q) /\ DOMAIN q = 1 .. n
  BY LenProperties
<1>4. Len(s) = n + 1 /\ s[1] = i /\ \A k \in 1 .. n : s[k + 1] = q[k]
  BY <1>1, <1>2, <1>3
<1>5. s # << >> /\ Head(s) = i
  BY <1>4, HeadTailProperties, EmptySeq
<1>6. Tail(s) \in Seq(Nat) /\ Len(Tail(s)) = n /\ \A k \in 1 .. n : Tail(s)[k] = q[k]
  <2>1. Tail(s) \in Seq(Nat) /\ Len(Tail(s)) = Len(s) - 1
    BY <1>5, HeadTailProperties
  <2>2. \A k \in 1 .. Len(Tail(s)) : Tail(s)[k] = s[k + 1]
    BY <1>5, HeadTailProperties
  <2> QED
    BY <1>3, <1>4, <2>1, <2>2
<1>7. Tail(s) = q
  BY <1>3, <1>6, SeqEqual
<1> QED
  BY <1>2, <1>5, <1>7

\* A list of reports.
Listed(list, n) ==
  /\ DOMAIN list = 1 .. n
  /\ \A k \in 1 .. n : << >> \in DOMAIN list[k] /\ DOMAIN list[k] \subseteq Seq(Nat)

LEMMA SaidOfField ==
  ASSUME NEW m, NEW name, NEW v, NEW t, NEW list, NEW n \in Nat, Listed(list, n),
         NEW k \in 1 .. n, NEW q \in DOMAIN list[k]
  PROVE  /\ <<k>> \o q \in DOMAIN TypeReport(m, name, v, t, list)
         /\ TypeReport(m, name, v, t, list)[<<k>> \o q] = list[k][q]
<1>1. k \in DOMAIN list /\ q \in Seq(Nat) /\ k \in Nat
  BY DEF Listed
<1>2. <<k>> \o q # << >> /\ Head(<<k>> \o q) = k /\ Tail(<<k>> \o q) = q
  BY <1>1, PathOf
<1>3. PICK place : place = <<k>> \o q
  OBVIOUS
<1>4. place \in {<<k>> \o r : r \in DOMAIN list[k]}
  BY <1>3
<1>5. place \in DOMAIN TypeReport(m, name, v, t, list)
  BY <1>1, <1>4 DEF TypeReport
<1>6. TypeReport(m, name, v, t, list)[place] = list[Head(place)][Tail(place)]
  BY <1>2, <1>3, <1>5 DEF TypeReport
<1> QED
  BY <1>2, <1>3, <1>5, <1>6

LEMMA FieldOfPlace ==
  ASSUME NEW m, NEW name, NEW v, NEW t, NEW list, NEW n \in Nat, Listed(list, n),
         NEW k \in Nat, NEW q \in Seq(Nat), <<k>> \o q \in DOMAIN TypeReport(m, name, v, t, list)
  PROVE  k \in 1 .. n /\ q \in DOMAIN list[k]
<1>1. <<k>> \o q # << >> /\ Head(<<k>> \o q) = k /\ Tail(<<k>> \o q) = q
  BY PathOf
<1>2. PICK i \in DOMAIN list : \E r \in DOMAIN list[i] : <<k>> \o q = <<i>> \o r
  BY <1>1 DEF TypeReport
<1>3. PICK r \in DOMAIN list[i] : <<k>> \o q = <<i>> \o r
  BY <1>2
<1>4. i \in 1 .. n /\ i \in Nat /\ r \in Seq(Nat)
  BY <1>3 DEF Listed
<1>5. Head(<<i>> \o r) = i /\ Tail(<<i>> \o r) = r
  BY <1>4, PathOf
<1> QED
  BY <1>1, <1>3, <1>4, <1>5

\* A report tells what its fields are, and the root's name and kind.
LEMMA FieldsAreTold ==
  ASSUME NEW m1, NEW name1, NEW v1, NEW t1, NEW list1, NEW n1 \in Nat, Listed(list1, n1),
         NEW m2, NEW name2, NEW v2, NEW t2, NEW list2, NEW n2 \in Nat, Listed(list2, n2),
         TypeReport(m1, name1, v1, t1, list1) = TypeReport(m2, name2, v2, t2, list2)
  PROVE  /\ n1 = n2
         /\ \A k \in 1 .. n1 : /\ DOMAIN list1[k] = DOMAIN list2[k]
                               /\ \A q \in DOMAIN list1[k] : list1[k][q] = list2[k][q]
<1>1. ASSUME NEW k \in 1 .. n1, NEW q \in DOMAIN list1[k]
      PROVE  k \in 1 .. n2 /\ q \in DOMAIN list2[k] /\ list1[k][q] = list2[k][q]
  <2>1. k \in Nat /\ q \in Seq(Nat)
    BY DEF Listed
  <2>2. /\ <<k>> \o q \in DOMAIN TypeReport(m1, name1, v1, t1, list1)
        /\ TypeReport(m1, name1, v1, t1, list1)[<<k>> \o q] = list1[k][q]
    BY SaidOfField
  <2>3. k \in 1 .. n2 /\ q \in DOMAIN list2[k]
    BY <2>1, <2>2, FieldOfPlace
  <2>4. TypeReport(m2, name2, v2, t2, list2)[<<k>> \o q] = list2[k][q]
    BY <2>3, SaidOfField
  <2> QED
    BY <2>2, <2>3, <2>4
<1>2. ASSUME NEW k \in 1 .. n2, NEW q \in DOMAIN list2[k]
      PROVE  k \in 1 .. n1 /\ q \in DOMAIN list1[k]
  <2>1. k \in Nat /\ q \in Seq(Nat)
    BY DEF Listed
  <2>2. <<k>> \o q \in DOMAIN TypeReport(m2, name2, v2, t2, list2)
    BY SaidOfField
  <2> QED
    BY <2>1, <2>2, FieldOfPlace
<1>3. n1 = n2
  <2>1. n1 > 0 => n1 \in 1 .. n2
    <3>1. CASE n1 > 0
      <4>1. n1 \in 1 .. n1 /\ << >> \in DOMAIN list1[n1]
        BY <3>1 DEF Listed
      <4> QED
        BY <1>1, <4>1
    <3> QED
      BY <3>1
  <2>2. n2 > 0 => n2 \in 1 .. n1
    <3>1. CASE n2 > 0
      <4>1. n2 \in 1 .. n2 /\ << >> \in DOMAIN list2[n2]
        BY <3>1 DEF Listed
      <4> QED
        BY <1>2, <4>1
    <3> QED
      BY <3>1
  <2> QED
    BY <2>1, <2>2
<1>4. ASSUME NEW k \in 1 .. n1
      PROVE  /\ DOMAIN list1[k] = DOMAIN list2[k]
             /\ \A q \in DOMAIN list1[k] : list1[k][q] = list2[k][q]
  BY <1>1, <1>2, <1>3
<1> QED
  BY <1>3, <1>4

LEMMA ReversedList ==
  ASSUME NEW list, NEW n \in Nat, list = [k \in 1 .. n |-> list[k]]
  PROVE  DOMAIN Reverse(list) = 1 .. n /\ \A k \in 1 .. n : Reverse(list)[k] = list[n - k + 1]
<1>1. list \in Seq({list[k] : k \in 1 .. n})
  <2>1. list \in [1 .. n -> {list[k] : k \in 1 .. n}]
    OBVIOUS
  <2> QED
    BY <2>1, SeqDef
<1>2. DOMAIN list = 1 .. n
  OBVIOUS
<1>3. Len(list) = n
  <2>1. Len(list) \in Nat /\ DOMAIN list = 1 .. Len(list)
    BY <1>1, LenProperties
  <2> QED
    BY <1>2, <2>1
<1> QED
  BY <1>3 DEF Reverse

\* The reports of a table's fields, in the order they are declared.
FnFields(i) == [k \in DOMAIN i.methods |-> Field(<<i.methods[k].name>>, FnType(i, i.methods[k]))]

LEMMA FnTypeIs ==
  ASSUME NEW i, NEW m
  PROVE  /\ << >> \in DOMAIN FnType(i, m)
         /\ FnType(i, m)[<< >>] = [field |-> << >>, module |-> <<"stabby_abi">>, name |-> <<"extern C fn">>,
                                   version |-> 0, tyty |-> <<"struct">>]
BY DEF FnType, Function, Wrapper, TypeReport

LEMMA FieldIs ==
  ASSUME NEW i \in Declarations, NEW k \in DOMAIN i.methods
  PROVE  /\ DOMAIN FnFields(i)[k] = DOMAIN FnType(i, i.methods[k])
         /\ << >> \in DOMAIN FnFields(i)[k] /\ DOMAIN FnFields(i)[k] \subseteq Seq(Nat)
         /\ FnFields(i)[k][<< >>].field = <<i.methods[k].name>>
         /\ \A q \in DOMAIN FnType(i, i.methods[k]) : q # << >> =>
              FnFields(i)[k][q] = FnType(i, i.methods[k])[q]
<1> DEFINE fn == FnType(i, i.methods[k])
           root == fn[<< >>]
<1>1. << >> \in DOMAIN fn /\ "field" \in DOMAIN root
  <2>1. /\ << >> \in DOMAIN fn
        /\ root = [field |-> << >>, module |-> <<"stabby_abi">>, name |-> <<"extern C fn">>,
                   version |-> 0, tyty |-> <<"struct">>]
    BY FnTypeIs
  <2>2. DOMAIN root = {"field", "module", "name", "version", "tyty"}
    <3> HIDE DEF root
    <3> QED
      BY <2>1
  <2> HIDE DEF root
  <2> QED
    BY <2>1, <2>2
<1>2. DOMAIN fn \subseteq Seq(Nat)
  BY DeclarationAssumption DEF IsReport
<1>3. FnFields(i)[k] = [fn EXCEPT ![<< >>].field = <<i.methods[k].name>>]
  BY DEF FnFields, Field
<1> HIDE DEF fn
<1>4. FnFields(i)[k] = [fn EXCEPT ![<< >>] = [root EXCEPT !.field = <<i.methods[k].name>>]]
  BY <1>3
<1> HIDE DEF root
<1>5. FnFields(i)[k][<< >>] = [root EXCEPT !.field = <<i.methods[k].name>>]
  BY <1>1, <1>4
<1>6. FnFields(i)[k][<< >>].field = <<i.methods[k].name>>
  BY <1>1, <1>5
<1> QED
  BY <1>1, <1>2, <1>4, <1>6 DEF fn

\* A table's report tells the names and types of its functions, in order.
LEMMA TablesAreTold ==
  ASSUME NEW i \in Declarations, NEW j \in Declarations, VTableReport(i) = VTableReport(j)
  PROVE  /\ DOMAIN i.methods = DOMAIN j.methods
         /\ \A k \in DOMAIN i.methods : /\ i.methods[k].name = j.methods[k].name
                                        /\ FnType(i, i.methods[k]) = FnType(j, j.methods[k])
<1>1. PICK n1 \in Nat : n1 = Len(i.methods) /\ DOMAIN i.methods = 1 .. n1
  BY DeclarationAssumption
<1>2. PICK n2 \in Nat : n2 = Len(j.methods) /\ DOMAIN j.methods = 1 .. n2
  BY DeclarationAssumption
<1>3. PICK f1 : f1 = FnFields(i)
  OBVIOUS
<1>4. PICK f2 : f2 = FnFields(j)
  OBVIOUS
<1>5. f1 = [k \in 1 .. n1 |-> f1[k]] /\ f2 = [k \in 1 .. n2 |-> f2[k]]
  BY <1>1, <1>2, <1>3, <1>4 DEF FnFields
<1>6. DOMAIN Reverse(f1) = 1 .. n1 /\ \A k \in 1 .. n1 : Reverse(f1)[k] = f1[n1 - k + 1]
  BY <1>5, ReversedList
<1>7. DOMAIN Reverse(f2) = 1 .. n2 /\ \A k \in 1 .. n2 : Reverse(f2)[k] = f2[n2 - k + 1]
  BY <1>5, ReversedList
<1>8. Listed(Reverse(f1), n1)
  <2>1. ASSUME NEW k \in 1 .. n1
        PROVE  << >> \in DOMAIN Reverse(f1)[k] /\ DOMAIN Reverse(f1)[k] \subseteq Seq(Nat)
    <3>1. n1 - k + 1 \in 1 .. n1
      OBVIOUS
    <3>2. << >> \in DOMAIN f1[n1 - k + 1] /\ DOMAIN f1[n1 - k + 1] \subseteq Seq(Nat)
      BY <1>1, <1>3, <3>1, FieldIs
    <3> QED
      BY <1>6, <3>2
  <2> QED
    BY <1>6, <2>1 DEF Listed
<1>9. Listed(Reverse(f2), n2)
  <2>1. ASSUME NEW k \in 1 .. n2
        PROVE  << >> \in DOMAIN Reverse(f2)[k] /\ DOMAIN Reverse(f2)[k] \subseteq Seq(Nat)
    <3>1. n2 - k + 1 \in 1 .. n2
      OBVIOUS
    <3>2. << >> \in DOMAIN f2[n2 - k + 1] /\ DOMAIN f2[n2 - k + 1] \subseteq Seq(Nat)
      BY <1>2, <1>4, <3>1, FieldIs
    <3> QED
      BY <1>7, <3>2
  <2> QED
    BY <1>7, <2>1 DEF Listed
<1>10. TypeReport(i.module, i.trait \o <<"VTable">>, 0, <<"struct">>, Reverse(f1))
         = TypeReport(j.module, j.trait \o <<"VTable">>, 0, <<"struct">>, Reverse(f2))
  BY <1>3, <1>4 DEF VTableReport, Declared, FnFields
<1>11. /\ n1 = n2
       /\ \A k \in 1 .. n1 : /\ DOMAIN Reverse(f1)[k] = DOMAIN Reverse(f2)[k]
                             /\ \A q \in DOMAIN Reverse(f1)[k] : Reverse(f1)[k][q] = Reverse(f2)[k][q]
  BY <1>8, <1>9, <1>10, FieldsAreTold
<1>12. ASSUME NEW k \in 1 .. n1
       PROVE  DOMAIN f1[k] = DOMAIN f2[k] /\ \A q \in DOMAIN f1[k] : f1[k][q] = f2[k][q]
  <2>1. PICK l \in 1 .. n1 : l = n1 - k + 1 /\ n1 - l + 1 = k
    OBVIOUS
  <2>2. Reverse(f1)[l] = f1[k] /\ Reverse(f2)[l] = f2[k]
    BY <1>6, <1>7, <1>11, <2>1
  <2> QED
    BY <1>11, <2>2
<1>13. ASSUME NEW k \in DOMAIN i.methods
       PROVE  i.methods[k].name = j.methods[k].name /\ FnType(i, i.methods[k]) = FnType(j, j.methods[k])
  <2>1. k \in 1 .. n1 /\ k \in DOMAIN j.methods
    BY <1>1, <1>2, <1>11
  <2>2. PICK a : a = FnType(i, i.methods[k])
    OBVIOUS
  <2>3. PICK b : b = FnType(j, j.methods[k])
    OBVIOUS
  <2>4. /\ DOMAIN f1[k] = DOMAIN a /\ << >> \in DOMAIN f1[k] /\ f1[k][<< >>].field = <<i.methods[k].name>>
        /\ \A q \in DOMAIN a : q # << >> => f1[k][q] = a[q]
    BY <1>3, <2>2, FieldIs
  <2>5. /\ DOMAIN f2[k] = DOMAIN b /\ << >> \in DOMAIN f2[k] /\ f2[k][<< >>].field = <<j.methods[k].name>>
        /\ \A q \in DOMAIN b : q # << >> => f2[k][q] = b[q]
    BY <1>4, <2>1, <2>3, FieldIs
  <2>6. <<i.methods[k].name>> = <<j.methods[k].name>>
    BY <1>12, <2>1, <2>4, <2>5
  <2>7. a[<< >>] = b[<< >>]
    BY <2>2, <2>3, FnTypeIs
  <2>8. a = [p \in DOMAIN a |-> a[p]] /\ b = [p \in DOMAIN b |-> b[p]]
    BY <2>1, <2>2, <2>3, DeclarationAssumption DEF IsReport
  <2>9. DOMAIN a = DOMAIN b /\ \A q \in DOMAIN a : a[q] = b[q]
    BY <1>12, <2>1, <2>4, <2>5, <2>7
  <2>10. a = b
    BY <2>8, <2>9
  <2> QED
    BY <2>2, <2>3, <2>6, <2>10
<1> QED
  BY <1>1, <1>2, <1>11, <1>13

\* Compatible reports of one shape are one.
LEMMA SameShapeSame ==
  ASSUME NEW a, NEW b, IsReport(a), IsReport(b), SameShape(a, b), IsCompatible(a, b)
  PROVE  a = b
<1>1. DOMAIN a = DOMAIN b /\ \A p \in DOMAIN a : a[p] = b[p]
  BY DEF SameShape, IsCompatible
<1> QED
  BY <1>1 DEF IsReport

-----------------------------------------------------------------------------
(* Interfaces *)

\* The table of a handle is a provider's, and who uses it declares an interface
\* of the same report.
HandleFields == handle = [mut |-> handle.mut, erased |-> handle.erased, as |-> handle.as,
                         opaque |-> handle.opaque, table |-> handle.table]
InterfacesInv ==
  /\ HandleFields
  /\ handle # NoHandle => handle.as \in Declarations /\ \E p \in Provider :
       handle.table = Table(p) /\ VTableReport(handle.as) = VTableReport(p.interface)

LEMMA ReportIs == ASSUME NEW i \in Declarations PROVE IsReport(VTableReport(i))
<1>1. PICK n \in Nat : n = Len(i.methods) /\ DOMAIN i.methods = 1 .. n
  BY DeclarationAssumption
<1>2. PICK list : list = Reverse(FnFields(i))
  OBVIOUS
<1>3. FnFields(i) = [k \in 1 .. n |-> FnFields(i)[k]]
  BY <1>1 DEF FnFields
<1>4. DOMAIN list = 1 .. n /\ \A k \in 1 .. n : list[k] = FnFields(i)[n - k + 1]
  BY <1>2, <1>3, ReversedList
<1>5. PICK r : r = TypeReport(i.module, i.trait \o <<"VTable">>, 0, <<"struct">>, list)
  OBVIOUS
<1>6. VTableReport(i) = r
  BY <1>2, <1>5 DEF VTableReport, Declared, FnFields
<1>7. DOMAIN r = {<< >>} \cup UNION {{<<k>> \o q : q \in DOMAIN list[k]} : k \in DOMAIN list}
      /\ r = [p \in DOMAIN r |-> r[p]]
  BY <1>5 DEF TypeReport
<1>8. ASSUME NEW p \in DOMAIN r PROVE p \in Seq(Nat)
  <2>1. CASE p = << >>
    BY <2>1
  <2>2. CASE p # << >>
    <3>1. PICK k \in DOMAIN list : \E q \in DOMAIN list[k] : p = <<k>> \o q
      BY <1>7, <2>2
    <3>2. PICK q \in DOMAIN list[k] : p = <<k>> \o q
      BY <3>1
    <3>3. k \in 1 .. n /\ n - k + 1 \in DOMAIN i.methods
      BY <1>1, <1>4
    <3>4. q \in Seq(Nat)
      BY <1>4, <3>2, <3>3, FieldIs
    <3> QED
      BY <3>2, <3>3, <3>4
  <2> QED
    BY <2>1, <2>2
<1> QED
  BY <1>6, <1>7, <1>8 DEF IsReport

LEMMA InitInterfaces == InterfacesInit => InterfacesInv
BY DEF InterfacesInit, InterfacesInv, HandleFields, NoHandle

LEMMA SameInterfaces == InterfacesInv /\ UNCHANGED handle => InterfacesInv'
BY DEF InterfacesInv, HandleFields

LEMMA QueryKeeps ==
  ASSUME InterfacesInv, IdsTellLengths, NEW p \in Provider, NEW i \in Interface, Query(p, i)
  PROVE  InterfacesInv'
<1>1. i \in Declarations /\ p.interface \in Declarations
  BY DEF Declarations
<1>2. /\ Id(VTableReport(i)) = Id(VTableReport(p.interface))
      /\ IsCompatible(VTableReport(p.interface), VTableReport(i))
      /\ handle' = [mut |-> handle.mut, erased |-> TRUE, as |-> i, opaque |-> handle.opaque, table |-> Table(p)]
  BY DEF Query, Found
<1>3. SameShape(VTableReport(p.interface), VTableReport(i))
  BY <1>2 DEF IdsTellLengths
<1>4. VTableReport(p.interface) = VTableReport(i)
  BY <1>1, <1>2, <1>3, ReportIs, SameShapeSame
<1> QED
  BY <1>1, <1>2, <1>4 DEF InterfacesInv, HandleFields

LEMMA InterfacesKeep ==
  ASSUME InterfacesInv, IdsTellLengths, InterfacesNext
  PROVE  InterfacesInv'
<1>1. ASSUME NEW p \in Provider, Bind(p) PROVE InterfacesInv'
  <2>1. PICK mut : handle' = [mut |-> mut, erased |-> FALSE, as |-> p.interface,
                              opaque |-> p.interface.opaque, table |-> Table(p)]
    BY <1>1 DEF Bind
  <2>2. p.interface \in Declarations
    BY DEF Declarations
  <2> QED
    BY <2>1, <2>2 DEF InterfacesInv, HandleFields
<1>2. ASSUME NEW p \in Provider, NEW i \in Interface, Query(p, i) PROVE InterfacesInv'
  BY <1>2, QueryKeeps
<1>3. ASSUME NEW e, NEW mut, handle # NoHandle,
             handle' = [handle EXCEPT !.erased = e] \/ handle' = [handle EXCEPT !.mut = mut]
      PROVE  InterfacesInv'
  <2>1. handle = [mut |-> handle.mut, erased |-> handle.erased, as |-> handle.as,
                  opaque |-> handle.opaque, table |-> handle.table]
    BY DEF InterfacesInv, HandleFields
  <2>2. \/ handle' = [mut |-> handle.mut, erased |-> e, as |-> handle.as,
                      opaque |-> handle.opaque, table |-> handle.table]
        \/ handle' = [mut |-> mut, erased |-> handle.erased, as |-> handle.as,
                      opaque |-> handle.opaque, table |-> handle.table]
    BY <1>3, <2>1
  <2>3. handle'.as = handle.as /\ handle'.table = handle.table /\ HandleFields'
    BY <2>2 DEF HandleFields
  <2> QED
    BY <1>3, <2>3 DEF InterfacesInv
<1>4. CASE AssumeVtable
  <2>1. handle # NoHandle
    BY <1>4 DEF AssumeVtable, NoHandle
  <2> QED
    BY <1>3, <1>4, <2>1 DEF AssumeVtable
<1>5. CASE Erase
  BY <1>3, <1>5 DEF Erase
<1>6. CASE AsSharedHandle
  <2>1. NoHandle.mut = "none" /\ "none" # "Mut"
    BY DEF NoHandle
  <2>2. handle.mut = "Mut"
    BY <1>6 DEF AsSharedHandle
  <2>3. handle # NoHandle
    <3> HIDE DEF NoHandle
    <3> QED
      BY <2>1, <2>2
  <2> QED
    BY <1>3, <1>6, <2>3 DEF AsSharedHandle
<1>7. CASE ForgetHandle
  BY <1>7 DEF ForgetHandle, InterfacesInv, HandleFields, NoHandle
<1> QED
  BY <1>1, <1>2, <1>4, <1>5, <1>6, <1>7 DEF InterfacesNext

LEMMA InterfacesLead == InterfacesInv => InterfaceCalls
<1> SUFFICES ASSUME InterfacesInv, NEW k \in Callable(handle)
             PROVE  /\ k \in DOMAIN handle.table
                    /\ handle.table[k] = [name |-> handle.as.methods[k].name,
                                          type |-> FnType(handle.as, handle.as.methods[k])]
  BY DEF InterfaceCalls
<1>1. handle # NoHandle /\ k \in DOMAIN handle.as.methods
  BY DEF Callable
<1>2. PICK p \in Provider : handle.table = Table(p) /\ VTableReport(handle.as) = VTableReport(p.interface)
  BY <1>1 DEF InterfacesInv
<1>3. handle.as \in Declarations /\ p.interface \in Declarations
  BY <1>1 DEF InterfacesInv, Declarations
<1> DEFINE i == p.interface
<1>4. /\ k \in DOMAIN i.methods /\ i.methods[k].name = handle.as.methods[k].name
      /\ FnType(i, i.methods[k]) = FnType(handle.as, handle.as.methods[k])
  BY <1>1, <1>2, <1>3, TablesAreTold
<1>5. p.order[k] = k
  BY <1>4, ProviderAssumption DEF InOrder
<1>6. k \in DOMAIN Table(p)
      /\ Table(p)[k] = [name |-> i.methods[k].name, type |-> FnType(i, i.methods[k])]
  BY <1>4, <1>5 DEF Table
<1> QED
  BY <1>2, <1>4, <1>6

-----------------------------------------------------------------------------
(* Trait objects *)

\* The handles through which the value is reached, and those that borrow it to
\* change it.
Reaching == Live(IPtr \cup {"DynRef"})
MutBorrowed(h) == \E g \in Borrowers(h) : handles[g].ptr = "AnonymRefMut"

ObjectTypes ==
  /\ value.kept \in {"nowhere", "local"} \cup Owners
  /\ value = [of |-> value.of, kept |-> value.kept, drops |-> value.drops]
  /\ value.kept = "nowhere" => value = NoValue
  /\ value.kept # "nowhere" => value.of \in Type
  /\ handles \in [Handle -> Dyn \cup {NoDyn}]
  /\ value = NoValue => \A h \in Handle : Free(h)

\* A handle's table is of the value's type, and has each trait of the handle's
\* static type at its level.
Leads(list, heads) == \A k \in Heads(list) : Level(list, k) \in DOMAIN heads /\ heads[Level(list, k)] = list[k]
TablesLead == \A h \in Live(Ptr) :
  /\ handles[h].table.of = value.of
  /\ Leads(handles[h].as, handles[h].table.heads)

\* An owner owns itself, and of what kind it is the value was kept for.
OwnersKeep ==
  /\ \A h \in Live({"Box", "Arc", "Weak"}) : handles[h].from = h
  /\ \A h \in Live({"Box"}) : value.kept = "Box" /\ Live({"Box"}) = {h}
  /\ Live({"Arc", "Weak"}) # {} => value.kept = "Arc"
  /\ Live({"&mut"}) # {} => value.kept = "local"

\* What borrows leads back to a handle that stands for itself: an owner, or a
\* borrow of a local variable.
BorrowsLead ==
  /\ \A h \in Reaching : handles[h].from \in Reaching
                         /\ (handles[h].from # h => handles[handles[h].from].ptr \in IPtr)
  /\ \A h \in Live({"AnonymRefMut"}) : handles[h].from # h
  /\ \A h \in Live({"DynRef"}) : handles[h].from = h => value.kept = "local"
  /\ \A S \in SUBSET Reaching : S # {} =>
       \E h \in S : handles[h].from = h \/ handles[h].from \notin S

\* An Arc that gave its value away is the only one, and where one handle may
\* change the value the others lead to it or borrow from it.
UniqueArcs == \A h \in Live({"Arc"}) : MutBorrowed(h) => IsUnique(h)
MutLeads == \A h \in Live(IPtrMut) : ~MutBorrowed(h) =>
  \A g \in Reaching \ {h} : MutBorrowed(g) \/ (handles[g].ptr = "DynRef" /\ handles[g].from = h)

\* The value lives while it can be reached.
LivesOn == Reaching # {} => value.drops = << >>

ObjectsInv ==
  /\ ObjectTypes /\ TablesLead /\ OwnersKeep /\ BorrowsLead
  /\ UniqueArcs /\ MutLeads /\ LivesOn /\ GoesOnce

-----------------------------------------------------------------------------
(* Tables and casts *)

LEMMA LevelIsNat ==
  ASSUME NEW list, NEW k \in Int
  PROVE  /\ IsFiniteSet({j \in 1 .. k - 1 : list[j] \notin AutoTrait})
         /\ Level(list, k) \in Nat
<1>1. IsFiniteSet(1 .. k - 1)
  BY FS_Interval
<1>2. IsFiniteSet({j \in 1 .. k - 1 : list[j] \notin AutoTrait})
  BY <1>1, FS_Subset
<1> QED
  BY <1>2, FS_CardinalityType DEF Level

\* A trait is a level above those before it.
LEMMA LevelsGrow ==
  ASSUME NEW list, DOMAIN list \subseteq Int, NEW j \in Heads(list), NEW k \in Heads(list), 1 <= j, j < k
  PROVE  Level(list, j) < Level(list, k)
<1> DEFINE Below(n) == {i \in 1 .. n - 1 : list[i] \notin AutoTrait}
<1>1. j \in Int /\ k \in Int /\ list[j] \notin AutoTrait
  BY DEF Heads
<1>2. IsFiniteSet(Below(j)) /\ IsFiniteSet(Below(k))
  BY <1>1, LevelIsNat
<1>3. j \notin Below(j) /\ Below(j) \cup {j} \subseteq Below(k)
  BY <1>1
<1>4. Level(list, j) = Cardinality(Below(j)) /\ Level(list, k) = Cardinality(Below(k))
  BY DEF Level
<1> HIDE DEF Below
<1>5. Cardinality(Below(j) \cup {j}) = Cardinality(Below(j)) + 1
  BY <1>2, <1>3, FS_AddElement
<1>6. Cardinality(Below(j) \cup {j}) <= Cardinality(Below(k))
  BY <1>2, <1>3, FS_Subset
<1>7. Cardinality(Below(j)) \in Nat /\ Cardinality(Below(k)) \in Nat
  BY <1>2, FS_CardinalityType
<1> QED
  BY <1>4, <1>5, <1>6, <1>7

\* The table made for a list of bounds has each trait of the list at its level.
LEMMA TableLeads ==
  ASSUME NEW list \in Bounds, NEW ty
  PROVE  Leads(list, TableOf(ty, list).heads)
<1>1. DOMAIN list = 1 .. Len(list) /\ Len(list) \in Nat
  BY BoundsAssumption
<1>2. SUFFICES ASSUME NEW k \in Heads(list)
               PROVE  /\ Level(list, k) \in DOMAIN TableOf(ty, list).heads
                      /\ TableOf(ty, list).heads[Level(list, k)] = list[k]
  BY DEF Leads
<1>3. \A j \in Heads(list) : Level(list, j) = Level(list, k) => j = k
  <2>1. ASSUME NEW j \in Heads(list), Level(list, j) = Level(list, k), j # k PROVE FALSE
    <3>1. j \in Int /\ k \in Int /\ 1 <= j /\ 1 <= k /\ DOMAIN list \subseteq Int
      BY <1>1 DEF Heads
    <3>2. Level(list, j) \in Nat /\ Level(list, k) \in Nat
      BY <3>1, LevelIsNat
    <3>3. CASE j < k
      BY <1>1, <2>1, <3>1, <3>2, <3>3, LevelsGrow
    <3>4. CASE k < j
      BY <1>1, <2>1, <3>1, <3>2, <3>4, LevelsGrow
    <3> QED
      BY <1>1, <2>1, <3>1, <3>3, <3>4
  <2> QED
    BY <2>1
<1>4. (CHOOSE j \in Heads(list) : Level(list, j) = Level(list, k)) = k
  BY <1>3
<1> QED
  BY <1>4 DEF TableOf

\* A list that begins like another and then has markers only.
Begins(s, list) == \A k \in Heads(s) : k \in DOMAIN list /\ \A j \in 1 .. k : s[j] = list[j]

LEMMA BeginningLeads ==
  ASSUME NEW list, NEW s, Begins(s, list), DOMAIN s \subseteq Nat \ {0}, NEW heads, Leads(list, heads)
  PROVE  Leads(s, heads)
<1>1. SUFFICES ASSUME NEW k \in Heads(s)
               PROVE  Level(s, k) \in DOMAIN heads /\ heads[Level(s, k)] = s[k]
  BY DEF Leads
<1>2. k \in Nat /\ k > 0 /\ s[k] \notin AutoTrait
  BY DEF Heads
<1>3. k \in DOMAIN list /\ s[k] = list[k] /\ \A j \in 1 .. k - 1 : s[j] = list[j]
  BY <1>2 DEF Begins
<1>4. {j \in 1 .. k - 1 : s[j] \notin AutoTrait} = {j \in 1 .. k - 1 : list[j] \notin AutoTrait}
  BY <1>3
<1>5. Level(s, k) = Level(list, k)
  BY <1>4 DEF Level
<1> QED
  BY <1>2, <1>3, <1>5 DEF Leads, Heads

\* What is left of a list when a marker or the last trait is taken away.
LEMMA PartOf ==
  ASSUME NEW D, NEW list \in Seq(D), NEW k \in 0 .. Len(list)
  PROVE  /\ SubSeq(list, 1, k) \in Seq(D) /\ Len(SubSeq(list, 1, k)) = k
         /\ \A i \in 1 .. k : SubSeq(list, 1, k)[i] = list[i]
<1>1. Len(list) \in Nat
  BY LenProperties
<1>2. k \in Nat /\ k <= Len(list) /\ k \in Int
  BY <1>1
<1>3. ASSUME NEW i \in 1 .. k PROVE list[i] \in D
  <2>1. i \in 1 .. Len(list)
    BY <1>1, <1>2
  <2> QED
    BY <2>1, ElementOfSeq
<1>4. /\ SubSeq(list, 1, k) \in Seq(D)
      /\ Len(SubSeq(list, 1, k)) = IF 1 <= k THEN k - 1 + 1 ELSE 0
      /\ \A i \in 1 .. k - 1 + 1 : SubSeq(list, 1, k)[i] = list[1 + i - 1]
  BY <1>2, <1>3, SubSeqProperties
<1>5. Len(SubSeq(list, 1, k)) = k
  BY <1>2, <1>4
<1>6. ASSUME NEW i \in 1 .. k PROVE SubSeq(list, 1, k)[i] = list[i]
  <2>1. i \in 1 .. k - 1 + 1 /\ 1 + i - 1 = i
    BY <1>2
  <2> QED
    BY <1>4, <2>1
<1> QED
  BY <1>4, <1>5, <1>6

LEMMA EndOf ==
  ASSUME NEW D, NEW list \in Seq(D), NEW i \in 1 .. Len(list)
  PROVE  /\ SubSeq(list, i + 1, Len(list)) \in Seq(D) /\ Len(SubSeq(list, i + 1, Len(list))) = Len(list) - i
         /\ \A j \in 1 .. Len(list) - i : SubSeq(list, i + 1, Len(list))[j] = list[i + j]
<1>1. Len(list) \in Nat
  BY LenProperties
<1>2. i \in Nat /\ i <= Len(list)
  BY <1>1
<1>3. PICK m \in Int, n \in Int : m = i + 1 /\ n = Len(list)
  BY <1>1, <1>2
<1>4. ASSUME NEW j \in m .. n PROVE list[j] \in D
  <2>1. j \in 1 .. Len(list)
    BY <1>1, <1>2, <1>3
  <2> QED
    BY <2>1, ElementOfSeq
<1>5. /\ SubSeq(list, m, n) \in Seq(D)
      /\ Len(SubSeq(list, m, n)) = IF m <= n THEN n - m + 1 ELSE 0
      /\ \A j \in 1 .. n - m + 1 : SubSeq(list, m, n)[j] = list[m + j - 1]
  BY <1>4, SubSeqProperties
<1>6. Len(SubSeq(list, m, n)) = n - i
  BY <1>2, <1>3, <1>5
<1>7. ASSUME NEW j \in 1 .. n - i PROVE SubSeq(list, m, n)[j] = list[i + j]
  <2>1. j \in 1 .. n - m + 1 /\ m + j - 1 = i + j
    BY <1>2, <1>3
  <2> QED
    BY <1>5, <2>1
<1> QED
  BY <1>3, <1>5, <1>6, <1>7

LEMMA RestOf ==
  ASSUME NEW D, NEW list \in Seq(D), NEW i \in 1 .. Len(list)
  PROVE  /\ RemoveAt(list, i) \in Seq(D) /\ Len(RemoveAt(list, i)) = Len(list) - 1
         /\ \A j \in 1 .. i - 1 : RemoveAt(list, i)[j] = list[j]
         /\ \A j \in i .. Len(list) - 1 : RemoveAt(list, i)[j] = list[j + 1]
<1>1. Len(list) \in Nat
  BY LenProperties
<1>2. i \in Nat /\ i > 0 /\ i <= Len(list)
  BY <1>1
<1>3. PICK m \in 0 .. Len(list) : m = i - 1
  BY <1>1, <1>2
<1>4. PICK a : a = SubSeq(list, 1, m)
  OBVIOUS
<1>5. a \in Seq(D) /\ Len(a) = m /\ \A j \in 1 .. m : a[j] = list[j]
  BY <1>4, PartOf
<1>6. PICK b : b = SubSeq(list, i + 1, Len(list))
  OBVIOUS
<1>7. b \in Seq(D) /\ Len(b) = Len(list) - i /\ \A j \in 1 .. Len(list) - i : b[j] = list[i + j]
  BY <1>6, EndOf
<1>8. /\ a \o b \in Seq(D) /\ Len(a \o b) = Len(a) + Len(b)
      /\ \A j \in 1 .. Len(a) + Len(b) : (a \o b)[j] = IF j <= Len(a) THEN a[j] ELSE b[j - Len(a)]
  BY <1>5, <1>7, ConcatProperties
<1>9. RemoveAt(list, i) = a \o b
  BY <1>3, <1>4, <1>6 DEF RemoveAt
<1>10. PICK l \in Nat : l = Len(list)
  BY <1>1
<1>11. Len(a \o b) = l - 1 /\ Len(a) + Len(b) = l - 1 /\ Len(a) = i - 1
  BY <1>2, <1>3, <1>5, <1>7, <1>8, <1>10
<1>12. ASSUME NEW j \in 1 .. i - 1 PROVE (a \o b)[j] = list[j]
  <2>1. j \in 1 .. l - 1 /\ j <= i - 1 /\ j \in 1 .. m
    BY <1>2, <1>3, <1>10
  <2> QED
    BY <1>5, <1>8, <1>11, <2>1
<1>13. ASSUME NEW j \in i .. l - 1 PROVE (a \o b)[j] = list[j + 1]
  <2>1. /\ j \in 1 .. l - 1 /\ ~(j <= i - 1)
        /\ j - (i - 1) \in 1 .. l - i /\ i + (j - (i - 1)) = j + 1
    BY <1>2, <1>10
  <2>2. (a \o b)[j] = b[j - (i - 1)]
    BY <1>8, <1>11, <2>1
  <2>3. b[j - (i - 1)] = list[i + (j - (i - 1))]
    BY <1>7, <1>10, <2>1
  <2> QED
    BY <2>1, <2>2, <2>3
<1> QED
  BY <1>8, <1>9, <1>10, <1>11, <1>12, <1>13

LEMMA SupersBegin ==
  ASSUME NEW D, NEW list \in Seq(D), NEW s \in Supers(list)
  PROVE  s \in Seq(D) /\ Begins(s, list)
<1>1. PICK n \in Nat : n = Len(list) /\ DOMAIN list = 1 .. n
  BY LenProperties
<1>2. PICK k \in Splits(list) :
        \/ \E i \in k + 1 .. Len(list) : s = RemoveAt(list, i)
        \/ s = SubSeq(list, 1, k)
        \/ k \in Heads(list) /\ (s = SubSeq(list, 1, k - 1) \/ s = RemoveAt(list, k))
  BY DEF Supers
<1>3. k \in 0 .. n /\ \A i \in k + 1 .. n : list[i] \in AutoTrait
  BY <1>1, <1>2 DEF Splits
<1>4. ASSUME NEW m \in 0 .. n, s = SubSeq(list, 1, m) PROVE s \in Seq(D) /\ Begins(s, list)
  <2>1. m \in 0 .. Len(list)
    BY <1>1
  <2>2. /\ SubSeq(list, 1, m) \in Seq(D) /\ Len(SubSeq(list, 1, m)) = m
        /\ \A i \in 1 .. m : SubSeq(list, 1, m)[i] = list[i]
    BY <2>1, PartOf
  <2>3. DOMAIN s = 1 .. m
    BY <1>4, <2>2
  <2> QED
    BY <1>1, <1>4, <2>2, <2>3 DEF Begins, Heads
<1>5. ASSUME NEW i \in 1 .. n, s = RemoveAt(list, i), \A j \in i + 1 .. n : list[j] \in AutoTrait
      PROVE  s \in Seq(D) /\ Begins(s, list)
  <2>1. i \in 1 .. Len(list)
    BY <1>1
  <2>2. /\ RemoveAt(list, i) \in Seq(D) /\ Len(RemoveAt(list, i)) = Len(list) - 1
        /\ \A j \in 1 .. i - 1 : RemoveAt(list, i)[j] = list[j]
        /\ \A j \in i .. Len(list) - 1 : RemoveAt(list, i)[j] = list[j + 1]
    BY <2>1, RestOf
  <2>3. /\ s \in Seq(D) /\ DOMAIN s = 1 .. n - 1 /\ \A j \in 1 .. i - 1 : s[j] = list[j]
        /\ \A j \in i .. n - 1 : s[j] = list[j + 1]
    BY <1>1, <1>5, <2>2
  <2>4. \A j \in Heads(s) : j \in 1 .. i - 1
    <3>1. ASSUME NEW j \in 1 .. n - 1, s[j] \notin AutoTrait, ~(j <= i - 1) PROVE FALSE
      <4>1. j \in i .. n - 1 /\ j + 1 \in i + 1 .. n
        BY <1>1, <3>1
      <4>2. s[j] = list[j + 1]
        BY <2>3, <4>1
      <4> QED
        BY <1>5, <3>1, <4>1, <4>2
    <3> QED
      BY <1>1, <2>3, <3>1 DEF Heads
  <2> QED
    BY <1>1, <2>3, <2>4 DEF Begins
<1>6. CASE \E i \in k + 1 .. Len(list) : s = RemoveAt(list, i)
  <2>1. PICK i \in k + 1 .. n : s = RemoveAt(list, i)
    BY <1>1, <1>6
  <2>2. i \in 1 .. n /\ \A j \in i + 1 .. n : list[j] \in AutoTrait
    BY <1>1, <1>3, <2>1
  <2> QED
    BY <1>5, <2>1, <2>2
<1>7. CASE s = SubSeq(list, 1, k)
  BY <1>3, <1>4, <1>7
<1>8. CASE k \in Heads(list) /\ (s = SubSeq(list, 1, k - 1) \/ s = RemoveAt(list, k))
  <2>1. k \in 1 .. n /\ k - 1 \in 0 .. n
    BY <1>1, <1>8 DEF Heads
  <2> QED
    BY <1>3, <1>4, <1>5, <1>8, <2>1
<1> QED
  BY <1>2, <1>6, <1>7, <1>8

-----------------------------------------------------------------------------
(* Handles *)

\* What a handle that is not free has.
LEMMA HandleType ==
  ASSUME ObjectTypes, NEW h \in Handle, handles[h] # NoDyn
  PROVE  /\ handles[h] \in Dyn
         /\ handles[h] = [ptr |-> handles[h].ptr, as |-> handles[h].as, table |-> handles[h].table,
                          to |-> handles[h].to, from |-> handles[h].from]
         /\ handles[h].ptr \in Ptr /\ handles[h].as \in Seq(Trait \cup AutoTrait)
         /\ handles[h].table \in Tables
         /\ handles[h].to \in {"value", "pointer"} /\ handles[h].from \in Handle
<1>1. handles[h] \in Dyn
  BY DEF ObjectTypes
<1> QED
  BY <1>1 DEF Dyn

\* What changes when one handle does.
LEMMA PutOne ==
  ASSUME ObjectTypes, NEW h \in Handle, NEW r, Put(h, r)
  PROVE  \A g \in Handle : handles'[g] = IF g = h THEN r ELSE handles[g]
BY DEF Put, ObjectTypes

\* A handle that is put where none was: those there were stay, and so do their
\* borrowers but the new one.
LEMMA NewHandle ==
  ASSUME ObjectsInv, NEW h \in Handle, Free(h), NEW r \in Dyn, Put(h, r)
  PROVE  /\ \A g \in Handle : handles'[g] = IF g = h THEN r ELSE handles[g]
         /\ handles[h] = NoDyn /\ r # NoDyn
         /\ handles' \in [Handle -> Dyn \cup {NoDyn}]
         /\ \A S : Live(S)' = IF r.ptr \in S THEN Live(S) \cup {h} ELSE Live(S)
         /\ \A g \in Handle : MutBorrowed(g)'
              <=> MutBorrowed(g) \/ (r.from = g /\ g # h /\ r.ptr = "AnonymRefMut")
<1>1. \A g \in Handle : handles'[g] = IF g = h THEN r ELSE handles[g]
  BY PutOne DEF ObjectsInv
<1>2. handles[h] = NoDyn /\ r # NoDyn
  BY NoDynAssumption DEF Free
<1>3. handles' \in [Handle -> Dyn \cup {NoDyn}]
  BY DEF Put, ObjectsInv, ObjectTypes
<1>4. ASSUME NEW S PROVE Live(S)' = IF r.ptr \in S THEN Live(S) \cup {h} ELSE Live(S)
  BY <1>1, <1>2 DEF Live
<1>5. ASSUME NEW g \in Handle
      PROVE  MutBorrowed(g)' <=> MutBorrowed(g) \/ (r.from = g /\ g # h /\ r.ptr = "AnonymRefMut")
  BY <1>1, <1>2 DEF MutBorrowed, Borrowers, Free
<1> QED
  BY <1>1, <1>2, <1>3, <1>4, <1>5

\* Nobody borrows from what is not there.
LEMMA NoneFromFree ==
  ASSUME ObjectsInv, NEW h \in Handle, Free(h)
  PROVE  \A g \in Handle : ~Free(g) => handles[g].from # h
<1>1. SUFFICES ASSUME NEW g \in Handle, ~Free(g) PROVE handles[g].from # h
  OBVIOUS
<1>2. handles[g].ptr \in Ptr
  <2>1. ObjectTypes /\ handles[g] # NoDyn
    BY <1>1 DEF ObjectsInv, Free
  <2> QED
    BY <2>1, HandleType
<1>3. CASE handles[g].ptr = "Weak"
  BY <1>1, <1>3 DEF ObjectsInv, OwnersKeep, Live, Free
<1>4. CASE handles[g].ptr # "Weak"
  <2>1. g \in Reaching
    BY <1>1, <1>2, <1>4 DEF Reaching, Live, Free, Ptr
  <2>2. handles[g].from \in Reaching
    BY <2>1 DEF ObjectsInv, BorrowsLead
  <2> QED
    BY <2>2 DEF Reaching, Live, Free
<1> QED
  BY <1>3, <1>4

\* The types and tables when a handle is made out of another.
LEMMA MadeOf ==
  ASSUME ObjectsInv, NEW h \in Handle, ~Free(h), NEW g \in Handle, Free(g), NEW r \in Dyn, Put(g, r),
         r.as = handles[h].as, r.table = handles[h].table, UNCHANGED value
  PROVE  ObjectTypes' /\ TablesLead'
<1>1. /\ \A x \in Handle : handles'[x] = IF x = g THEN r ELSE handles[x]
      /\ handles' \in [Handle -> Dyn \cup {NoDyn}] /\ r # NoDyn
  BY NewHandle
<1>2. value # NoValue
  BY DEF ObjectsInv, ObjectTypes
<1>3. ObjectTypes'
  <2>1. value' = value /\ ObjectTypes
    BY DEF ObjectsInv
  <2> QED
    BY <1>1, <1>2, <2>1 DEF ObjectTypes
<1>4. h \in Live(Ptr)
  <2>1. ObjectTypes /\ handles[h] # NoDyn
    BY DEF ObjectsInv, Free
  <2> QED
    BY <2>1, HandleType DEF Live
<1>5. ASSUME NEW x \in Live(Ptr)'
      PROVE  handles'[x].table.of = value'.of /\ Leads(handles'[x].as, handles'[x].table.heads)
  <2>1. CASE x = g
    BY <1>1, <1>4, <2>1 DEF ObjectsInv, TablesLead
  <2>2. CASE x # g
    <3>1. x \in Live(Ptr) /\ handles'[x] = handles[x]
      BY <1>1, <1>5, <2>2 DEF Live
    <3> QED
      BY <3>1 DEF ObjectsInv, TablesLead
  <2> QED
    BY <2>1, <2>2
<1> QED
  BY <1>3, <1>5 DEF TablesLead

\* No handle reaches the value besides one that owns it alone and is not borrowed.
LEMMA OnlyReaches ==
  ASSUME ObjectsInv, NEW h \in Live(Owners), Unborrowed(h),
         handles[h].ptr = "Arc" => Live({"Arc"}) = {h}
  PROVE  Reaching = {h}
<1>1. h \in Reaching /\ h \in Handle
  BY DEF Reaching, Live, IPtr, IPtrMut, Owners
<1>2. SUFFICES ASSUME Reaching \ {h} # {} PROVE FALSE
  BY <1>1
<1> DEFINE S == Reaching \ {h}
<1>3. PICK g \in S : handles[g].from = g \/ handles[g].from \notin S
  <2>1. S \in SUBSET Reaching /\ S # {}
    BY <1>2
  <2> HIDE DEF S
  <2> QED
    BY <2>1 DEF ObjectsInv, BorrowsLead
<1>4. g \in Reaching /\ g # h /\ handles[g].from \in Reaching
  BY DEF ObjectsInv, BorrowsLead
<1>5. CASE handles[g].from = h
  BY <1>4, <1>5 DEF Unborrowed, Borrowers, Reaching, Live, Free
<1>6. CASE handles[g].from = g
  <2>1. handles[g].ptr \in IPtr \cup {"DynRef"} /\ handles[g] # NoDyn /\ g \in Handle
    BY <1>4 DEF Reaching, Live
  <2>2. value.kept \in Owners
    BY DEF ObjectsInv, OwnersKeep, Live, Owners
  <2>3. value.kept # "local"
    BY <2>2 DEF Owners
  <2>4. handles[g].ptr \in Owners
    BY <1>6, <2>1, <2>3 DEF ObjectsInv, OwnersKeep, BorrowsLead, Live, IPtr, IPtrMut, Owners
  <2>5. CASE handles[g].ptr = "Box"
    <3>1. value.kept = "Box" /\ Live({"Box"}) = {g}
      BY <2>1, <2>5 DEF ObjectsInv, OwnersKeep, Live
    <3>2. Live({"Arc"}) = {}
      BY <3>1 DEF ObjectsInv, OwnersKeep, Live
    <3> QED
      BY <1>4, <3>1, <3>2 DEF Live, Owners
  <2>6. CASE handles[g].ptr = "Arc"
    <3>1. value.kept = "Arc"
      BY <2>1, <2>6 DEF ObjectsInv, OwnersKeep, Live
    <3>2. handles[h].ptr = "Arc"
      BY <3>1 DEF ObjectsInv, OwnersKeep, Live, Owners
    <3> QED
      BY <1>4, <2>1, <2>6, <3>2 DEF Live
  <2> QED
    BY <2>4, <2>5, <2>6 DEF Owners
<1> QED
  BY <1>3, <1>4, <1>5, <1>6

\* A handle made out of another.
LEMMA LikeType ==
  ASSUME ObjectTypes, NEW h \in Handle, handles[h] # NoDyn, NEW p \in Ptr, NEW f \in Handle
  PROVE  /\ Like(h, p, f) \in Dyn
         /\ Like(h, p, f).ptr = p /\ Like(h, p, f).from = f /\ Like(h, p, f).to = handles[h].to
         /\ Like(h, p, f).as = handles[h].as /\ Like(h, p, f).table = handles[h].table
<1>1. handles[h].as \in Seq(Trait \cup AutoTrait) /\ handles[h].table \in Tables /\ handles[h].to \in {"value", "pointer"}
  BY HandleType
<1> QED
  BY <1>1 DEF Dyn, Like

\* One more handle, which borrows from one there is, or stands for itself.
Extra(g, r) ==
  /\ Free(g) /\ r \in Dyn /\ Put(g, r) /\ value' = value
  /\ \/ r.ptr \in {"DynRef", "AnonymRefMut"} /\ r.from \in Reaching /\ handles[r.from].ptr \in IPtr
     \/ r.ptr = "DynRef" /\ r.from = g /\ value.kept = "local" /\ value.drops = << >>
     \/ r.ptr = "Arc" /\ r.from = g /\ Live({"Arc"}) # {}
     \/ r.ptr = "Weak" /\ r.from = g /\ Live({"Arc", "Weak"}) # {}

LEMMA ExtraType ==
  ASSUME ObjectsInv, NEW g \in Handle, NEW r, Extra(g, r)
  PROVE  /\ \A x \in Handle : handles'[x] = IF x = g THEN r ELSE handles[x]
         /\ handles[g] = NoDyn /\ r # NoDyn /\ r.ptr \in Ptr \ {"Box", "&mut"} /\ r \in Dyn
         /\ \A x \in Handle : MutBorrowed(x)'
              <=> MutBorrowed(x) \/ (r.from = x /\ r.ptr = "AnonymRefMut")
         /\ \A x \in Handle : handles[x] # NoDyn => handles[x].from # g
         /\ g \notin Reaching
         /\ Reaching' = IF r.ptr = "Weak" THEN Reaching ELSE Reaching \cup {g}
<1>1. Free(g) /\ r \in Dyn /\ Put(g, r)
  BY DEF Extra
<1>2. r.ptr \in Ptr \ {"Box", "&mut"}
  <2>1. r.ptr \in {"DynRef", "AnonymRefMut", "Arc", "Weak"}
    BY DEF Extra
  <2> QED
    BY <2>1 DEF Ptr, IPtr, IPtrMut
<1>3. /\ \A x \in Handle : handles'[x] = IF x = g THEN r ELSE handles[x]
      /\ handles[g] = NoDyn /\ r # NoDyn
      /\ \A x \in Handle : MutBorrowed(x)'
              <=> MutBorrowed(x) \/ (r.from = x /\ x # g /\ r.ptr = "AnonymRefMut")
  <2> HIDE DEF ObjectsInv
  <2> QED
    BY <1>1, NewHandle
<1>4. r.ptr = "AnonymRefMut" => r.from # g
  BY <1>3 DEF Extra, Reaching, Live
<1>5. \A x \in Handle : handles[x] # NoDyn => handles[x].from # g
  BY <1>1, NoneFromFree DEF Free
<1>6. g \notin Reaching /\ Reaching' = IF r.ptr = "Weak" THEN Reaching ELSE Reaching \cup {g}
  BY <1>2, <1>3 DEF Reaching, Live, Ptr, IPtr, IPtrMut
<1> QED
  BY <1>1, <1>2, <1>3, <1>4, <1>5, <1>6

LEMMA ExtraKeeps ==
  ASSUME ObjectsInv, NEW g \in Handle, NEW r, Extra(g, r)
  PROVE  OwnersKeep' /\ BorrowsLead' /\ LivesOn' /\ GoesOnce'
<1>1. value' = value
  BY DEF Extra
<1>2. /\ \A x \in Handle : handles'[x] = IF x = g THEN r ELSE handles[x]
      /\ handles[g] = NoDyn /\ r # NoDyn /\ r.ptr \in Ptr \ {"Box", "&mut"}
  BY ExtraType
<1>3. \A x \in Handle : handles[x] # NoDyn => handles[x].from # g
  BY ExtraType
<1>4. Reaching' = IF r.ptr = "Weak" THEN Reaching ELSE Reaching \cup {g}
  BY ExtraType
<1>5. /\ r.ptr \in {"Arc", "Weak"} => r.from = g /\ value.kept = "Arc"
      /\ r.ptr = "Arc" => Live({"Arc"}) # {}
      /\ r.ptr = "AnonymRefMut" => r.from # g
      /\ r.ptr = "DynRef" => r.from # g \/ value.kept = "local"
      /\ r.ptr # "Weak" => \/ r.from \in Reaching /\ handles[r.from].ptr \in IPtr
                          \/ r.from = g
  <2>1. Live({"Arc", "Weak"}) # {} => value.kept = "Arc"
    BY DEF ObjectsInv, OwnersKeep
  <2>2. g \notin Reaching /\ (Live({"Arc"}) # {} => Live({"Arc", "Weak"}) # {})
    BY <1>2 DEF Reaching, Live
  <2> QED
    BY <2>1, <2>2 DEF Extra
<1>6. OwnersKeep'
  BY <1>1, <1>2, <1>5 DEF ObjectsInv, OwnersKeep, Live
<1>7. BorrowsLead'
  <2>1. ASSUME NEW x \in Reaching'
        PROVE  /\ handles'[x].from \in Reaching'
               /\ handles'[x].from # x => handles'[handles'[x].from].ptr \in IPtr
    BY <1>2, <1>3, <1>4, <1>5 DEF ObjectsInv, BorrowsLead, Reaching, Live
  <2>2. \A x \in Live({"AnonymRefMut"})' : handles'[x].from # x
    BY <1>2, <1>5 DEF ObjectsInv, BorrowsLead, Live
  <2>3. \A x \in Live({"DynRef"})' : handles'[x].from = x => value'.kept = "local"
    BY <1>1, <1>2, <1>5 DEF ObjectsInv, BorrowsLead, Live
  <2>4. ASSUME NEW S \in SUBSET Reaching', S # {}
        PROVE  \E x \in S : handles'[x].from = x \/ handles'[x].from \notin S
    <3>1. CASE S = {g}
      BY <1>2, <1>5, <3>1
    <3>2. CASE S # {g}
      <4>1. PICK x \in S \ {g} : handles[x].from = x \/ handles[x].from \notin S \ {g}
        <5>1. S \ {g} \in SUBSET Reaching /\ S \ {g} # {}
          BY <1>4, <2>4, <3>2
        <5> QED
          BY <5>1 DEF ObjectsInv, BorrowsLead
      <4>2. x \in Handle /\ handles[x] # NoDyn /\ handles'[x] = handles[x]
        BY <1>2, <1>4, <4>1 DEF Reaching, Live
      <4> QED
        BY <1>3, <4>1, <4>2
    <3> QED
      BY <3>1, <3>2
  <2> QED
    BY <2>1, <2>2, <2>3, <2>4 DEF BorrowsLead
<1>8. LivesOn'
  <2>1. r.ptr # "Weak" => Reaching # {} \/ value.drops = << >>
    BY DEF Extra, Reaching, Live, IPtr
  <2> QED
    BY <1>1, <1>4, <2>1 DEF ObjectsInv, LivesOn
<1>9. GoesOnce'
  <2>1. Live(Owners)' = {} <=> Live(Owners) = {}
    BY <1>2, <1>5 DEF Live, Owners
  <2> QED
    BY <1>1, <2>1 DEF ObjectsInv, GoesOnce
<1> QED
  BY <1>6, <1>7, <1>8, <1>9

\* One more shared borrow keeps what is exclusive, if it leads to where the value
\* may be changed.
LEMMA SharedKeeps ==
  ASSUME ObjectsInv, NEW g \in Handle, NEW r, Extra(g, r), r.ptr = "DynRef",
         \A e \in Live(IPtrMut) : ~MutBorrowed(e) => r.from = e
  PROVE  UniqueArcs' /\ MutLeads'
<1>1. /\ \A x \in Handle : handles'[x] = IF x = g THEN r ELSE handles[x]
      /\ \A x \in Handle : MutBorrowed(x)' <=> MutBorrowed(x)
      /\ Reaching' = Reaching \cup {g} /\ handles[g] = NoDyn
  BY ExtraType
<1>2. UniqueArcs'
  BY <1>1 DEF ObjectsInv, UniqueArcs, Live, IsUnique
<1>3. ASSUME NEW e \in Live(IPtrMut)', ~MutBorrowed(e)', NEW x \in Reaching' \ {e}
      PROVE  MutBorrowed(x)' \/ (handles'[x].ptr = "DynRef" /\ handles'[x].from = e)
  <2>1. e \in Live(IPtrMut) /\ ~MutBorrowed(e)
    BY <1>1, <1>3 DEF Live, IPtrMut
  <2>2. CASE x = g
    BY <1>1, <2>1, <2>2
  <2>3. CASE x # g
    <3>1. x \in Reaching \ {e} /\ handles'[x] = handles[x] /\ x \in Handle
      BY <1>1, <1>3, <2>3 DEF Reaching, Live
    <3> QED
      BY <1>1, <2>1, <3>1 DEF ObjectsInv, MutLeads
  <2> QED
    BY <2>2, <2>3
<1> QED
  BY <1>2, <1>3 DEF MutLeads

\* A handle that may change the value, or is its only Arc, and is not borrowed, is
\* the only one to lead to the value: the others have given it away.
LEMMA EndsAlone ==
  ASSUME ObjectsInv, NEW h \in Handle, Unborrowed(h),
         handles[h].ptr \in IPtrMut \/ (handles[h].ptr = "Arc" /\ Live({"Arc"}) = {h})
  PROVE  h \in Reaching /\ ~MutBorrowed(h) /\ \A x \in Reaching \ {h} : MutBorrowed(x)
<1>1. h \in Reaching /\ ~MutBorrowed(h)
  BY DEF Unborrowed, Free, Reaching, Live, IPtr, MutBorrowed
<1>2. CASE handles[h].ptr \in IPtrMut
  <2>1. h \in Live(IPtrMut)
    BY <1>2 DEF Live, Unborrowed, Free
  <2>2. ASSUME NEW x \in Reaching \ {h} PROVE MutBorrowed(x)
    <3>1. MutBorrowed(x) \/ handles[x].from = h
      BY <1>1, <2>1 DEF ObjectsInv, MutLeads
    <3>2. x \in Handle \ {h} /\ ~Free(x)
      BY DEF Reaching, Live, Free
    <3> QED
      BY <3>1, <3>2 DEF Unborrowed, Borrowers
  <2> QED
    BY <1>1, <2>2
<1>3. CASE handles[h].ptr = "Arc" /\ Live({"Arc"}) = {h}
  <2>1. h \in Live(Owners)
    BY <1>3 DEF Live, Unborrowed, Free, Owners
  <2>2. Reaching = {h}
    BY <1>3, <2>1, OnlyReaches
  <2> QED
    BY <1>1, <2>2
<1> QED
  BY <1>2, <1>3

\* An exclusive borrow of such a handle.
LEMMA ExclusiveKeeps ==
  ASSUME ObjectsInv, NEW g \in Handle, NEW r, Extra(g, r), r.ptr = "AnonymRefMut",
         NEW h \in Handle, r.from = h, Unborrowed(h),
         handles[h].ptr \in IPtrMut \/ (handles[h].ptr = "Arc" /\ IsUnique(h))
  PROVE  UniqueArcs' /\ MutLeads'
<1>1. /\ \A x \in Handle : handles'[x] = IF x = g THEN r ELSE handles[x]
      /\ \A x \in Handle : MutBorrowed(x)' <=> MutBorrowed(x) \/ x = h
      /\ Reaching' = Reaching \cup {g} /\ handles[g] = NoDyn
  BY ExtraType
<1>2. h \in Reaching /\ ~MutBorrowed(h) /\ \A x \in Reaching \ {h} : MutBorrowed(x)
  <2>1. handles[h].ptr = "Arc" /\ IsUnique(h) => Live({"Arc"}) = {h}
    BY DEF IsUnique, Live, Unborrowed, Free
  <2> QED
    BY <2>1, EndsAlone
<1>3. UniqueArcs'
  <2>1. ASSUME NEW x \in Live({"Arc"})', MutBorrowed(x)' PROVE IsUnique(x)'
    <3>1. x \in Live({"Arc"}) /\ Live({"Arc", "Weak"})' = Live({"Arc", "Weak"})
      BY <1>1, <2>1 DEF Live
    <3>2. IsUnique(x)
      <4>1. CASE x = h
        BY <3>1, <4>1 DEF Live, IPtrMut
      <4>2. CASE x # h
        BY <1>1, <2>1, <3>1, <4>2 DEF ObjectsInv, UniqueArcs, Live
      <4> QED
        BY <4>1, <4>2
    <3> QED
      BY <3>1, <3>2 DEF IsUnique
  <2> QED
    BY <2>1 DEF UniqueArcs
<1>4. ASSUME NEW e \in Live(IPtrMut)', ~MutBorrowed(e)', NEW x \in Reaching' \ {e}
      PROVE  MutBorrowed(x)'
  <2>1. e = g
    <3>1. SUFFICES ASSUME e # g PROVE FALSE
      OBVIOUS
    <3>2. e \in Reaching \ {h} /\ e \in Handle
      BY <1>1, <1>4, <3>1 DEF Live, Reaching, IPtr
    <3> QED
      BY <1>1, <1>2, <1>4, <3>2
  <2>2. x \in Reaching /\ x \in Handle
    BY <1>1, <1>4, <2>1 DEF Reaching, Live
  <2> QED
    BY <1>1, <1>2, <2>2
<1> QED
  BY <1>3, <1>4 DEF MutLeads

\* One more Arc or Weak of a value that nobody may change.
LEMMA OwnerKeeps ==
  ASSUME ObjectsInv, NEW g \in Handle, NEW r, Extra(g, r), r.ptr \in {"Arc", "Weak"}, r.from = g,
         NEW h \in Handle, Shareable(h), handles[h].ptr \in {"Arc", "Weak"},
         r.ptr = "Arc" => handles[h].ptr = "Arc"
  PROVE  UniqueArcs' /\ MutLeads'
<1>1. /\ \A x \in Handle : handles'[x] = IF x = g THEN r ELSE handles[x]
      /\ \A x \in Handle : MutBorrowed(x)' <=> MutBorrowed(x)
      /\ \A x \in Handle : handles[x] # NoDyn => handles[x].from # g
      /\ Reaching' = (IF r.ptr = "Weak" THEN Reaching ELSE Reaching \cup {g}) /\ handles[g] = NoDyn
  BY ExtraType
<1>2. ~MutBorrowed(h) /\ handles[h] # NoDyn
  BY DEF Shareable, MutBorrowed, Free
<1>3. UniqueArcs'
  <2>1. ASSUME NEW x \in Live({"Arc"})', MutBorrowed(x)' PROVE FALSE
    <3>1. MutBorrowed(x) /\ x \in Handle
      BY <1>1, <2>1 DEF Live
    <3>2. x # g
      BY <1>1, <3>1 DEF MutBorrowed, Borrowers, Free
    <3>3. IsUnique(x)
      BY <1>1, <2>1, <3>1, <3>2 DEF ObjectsInv, UniqueArcs, Live
    <3>4. h = x
      BY <1>2, <3>3 DEF IsUnique, Live
    <3> QED
      BY <1>2, <3>1, <3>4
  <2> QED
    BY <2>1 DEF UniqueArcs
<1>4. ASSUME NEW e \in Live(IPtrMut)', ~MutBorrowed(e)', NEW x \in Reaching' \ {e}
      PROVE  MutBorrowed(x)' \/ (handles'[x].ptr = "DynRef" /\ handles'[x].from = e)
  <2>1. e \in Live(IPtrMut) /\ ~MutBorrowed(e)
    BY <1>1, <1>4 DEF Live, IPtrMut
  <2>2. CASE x = g
    <3>1. handles[h].ptr = "Arc" /\ h \in Reaching
      <4>1. r.ptr # "Weak"
        BY <1>1, <1>4, <2>2 DEF Reaching, Live
      <4> QED
        BY <1>2, <4>1 DEF Reaching, Live, IPtr
    <3>2. h # e
      BY <2>1, <3>1 DEF Live, IPtrMut
    <3> QED
      BY <1>2, <2>1, <3>1, <3>2 DEF ObjectsInv, MutLeads
  <2>3. CASE x # g
    <3>1. x \in Reaching \ {e} /\ handles'[x] = handles[x] /\ x \in Handle
      BY <1>1, <1>4, <2>3 DEF Reaching, Live
    <3> QED
      BY <1>1, <2>1, <3>1 DEF ObjectsInv, MutLeads
  <2> QED
    BY <2>2, <2>3
<1> QED
  BY <1>3, <1>4 DEF MutLeads

-----------------------------------------------------------------------------
(* Handles made out of others *)

LEMMA AsRefKeeps ==
  ASSUME ObjectsInv, NEW h \in Handle, NEW g \in Handle, AsRef(h, g)
  PROVE  ObjectsInv'
<1> DEFINE r == Like(h, "DynRef", h)
<1>1. /\ handles[h] # NoDyn /\ handles[h].ptr \in IPtr /\ ~MutBorrowed(h) /\ value' = value
      /\ Free(g) /\ Put(g, r)
  BY DEF AsRef, Shareable, Free, Fresh, MutBorrowed
<1>2. r \in Dyn /\ r.ptr = "DynRef" /\ r.from = h /\ r.as = handles[h].as /\ r.table = handles[h].table
  BY <1>1, LikeType DEF ObjectsInv, Ptr
<1> HIDE DEF r
<1>3. h \in Reaching /\ Extra(g, r)
  BY <1>1, <1>2 DEF Extra, Reaching, Live
<1>4. ObjectTypes' /\ TablesLead'
  BY <1>1, <1>2, MadeOf DEF Free
<1>5. OwnersKeep' /\ BorrowsLead' /\ LivesOn' /\ GoesOnce'
  BY <1>3, ExtraKeeps
<1>6. \A e \in Live(IPtrMut) : ~MutBorrowed(e) => r.from = e
  BY <1>1, <1>2, <1>3 DEF ObjectsInv, MutLeads, IPtr, IPtrMut
<1>7. UniqueArcs' /\ MutLeads'
  BY <1>2, <1>3, <1>6, SharedKeeps
<1> QED
  BY <1>4, <1>5, <1>7 DEF ObjectsInv

LEMMA CopyRefKeeps ==
  ASSUME ObjectsInv, NEW h \in Handle, NEW g \in Handle, CopyRef(h, g)
  PROVE  ObjectsInv'
<1> DEFINE r == Like(h, "DynRef", IF handles[h].from = h THEN g ELSE handles[h].from)
<1>1. handles[h] # NoDyn /\ handles[h].ptr = "DynRef" /\ value' = value /\ Free(g) /\ Put(g, r)
  BY DEF CopyRef, Fresh
<1>2. h \in Reaching
  BY <1>1 DEF Reaching, Live
<1>3. handles[h].from \in Handle
  BY <1>1, HandleType DEF ObjectsInv
<1>4. /\ r \in Dyn /\ r.ptr = "DynRef" /\ r.from = IF handles[h].from = h THEN g ELSE handles[h].from
      /\ r.as = handles[h].as /\ r.table = handles[h].table
  BY <1>1, <1>3, LikeType DEF ObjectsInv, Ptr
<1> HIDE DEF r
<1>5. Extra(g, r)
  <2>1. CASE handles[h].from = h
    <3>1. value.kept = "local" /\ value.drops = << >>
      BY <1>1, <1>2, <2>1 DEF ObjectsInv, BorrowsLead, LivesOn, Live
    <3> QED
      BY <1>1, <1>4, <2>1, <3>1 DEF Extra
  <2>2. CASE handles[h].from # h
    BY <1>1, <1>2, <1>4, <2>2 DEF ObjectsInv, BorrowsLead, Extra
  <2> QED
    BY <2>1, <2>2
<1>6. ObjectTypes' /\ TablesLead'
  BY <1>1, <1>4, MadeOf DEF Free
<1>7. OwnersKeep' /\ BorrowsLead' /\ LivesOn' /\ GoesOnce'
  BY <1>5, ExtraKeeps
<1>8. ASSUME NEW e \in Live(IPtrMut), ~MutBorrowed(e) PROVE r.from = e
  <2>1. ~MutBorrowed(h)
    <3>1. ASSUME NEW x \in Borrowers(h), handles[x].ptr = "AnonymRefMut" PROVE FALSE
      <4>1. x \in Reaching /\ handles[x].from = h /\ x # h
        BY <3>1 DEF Borrowers, Free, Reaching, Live, IPtr, IPtrMut
      <4>2. handles[h].ptr \in IPtr
        BY <4>1 DEF ObjectsInv, BorrowsLead
      <4> QED
        BY <1>1, <4>2 DEF IPtr, IPtrMut
    <3> QED
      BY <3>1 DEF MutBorrowed
  <2>2. e # h
    BY <1>1 DEF Live, IPtrMut
  <2>3. handles[h].from = e
    BY <1>2, <1>8, <2>1, <2>2 DEF ObjectsInv, MutLeads
  <2> QED
    BY <1>4, <2>2, <2>3
<1>9. UniqueArcs' /\ MutLeads'
  BY <1>4, <1>5, <1>8, SharedKeeps
<1> QED
  BY <1>6, <1>7, <1>9 DEF ObjectsInv

LEMMA AsMutKeeps ==
  ASSUME ObjectsInv, NEW h \in Handle, NEW g \in Handle, AsMut(h, g)
  PROVE  ObjectsInv'
<1> DEFINE r == Like(h, "AnonymRefMut", h)
<1>1. /\ handles[h] # NoDyn /\ handles[h].ptr \in IPtrMut /\ Unborrowed(h) /\ value' = value
      /\ Free(g) /\ Put(g, r)
  BY DEF AsMut, Unborrowed, Free, Fresh
<1>2. r \in Dyn /\ r.ptr = "AnonymRefMut" /\ r.from = h /\ r.as = handles[h].as /\ r.table = handles[h].table
  BY <1>1, LikeType DEF ObjectsInv, Ptr, IPtr, IPtrMut
<1> HIDE DEF r
<1>3. Extra(g, r)
  BY <1>1, <1>2 DEF Extra, Reaching, Live, IPtr
<1>4. ObjectTypes' /\ TablesLead'
  BY <1>1, <1>2, MadeOf DEF Free
<1>5. OwnersKeep' /\ BorrowsLead' /\ LivesOn' /\ GoesOnce'
  BY <1>3, ExtraKeeps
<1>6. UniqueArcs' /\ MutLeads'
  BY <1>1, <1>2, <1>3, ExclusiveKeeps
<1> QED
  BY <1>4, <1>5, <1>6 DEF ObjectsInv

LEMMA TryAsMutKeeps ==
  ASSUME ObjectsInv, NEW h \in Handle, NEW g \in Handle, TryAsMut(h, g)
  PROVE  ObjectsInv'
<1> DEFINE q == Like(h, "AnonymRefMut", h)
           to == IF handles[h].ptr = "Arc" THEN q.to ELSE "pointer"
           r == [q EXCEPT !.to = to]
<1>1. /\ handles[h] # NoDyn /\ handles[h].ptr \in IPtr /\ Unborrowed(h) /\ value' = value
      /\ handles[h].ptr = "Arc" => IsUnique(h)
      /\ Free(g) /\ Put(g, r)
  BY TryAsMutAssumption DEF TryAsMut, Unborrowed, Free, Fresh
<1>2. /\ q \in Dyn /\ q.ptr = "AnonymRefMut" /\ q.from = h /\ q.as = handles[h].as /\ q.table = handles[h].table
      /\ q.to = handles[h].to
  BY <1>1, LikeType DEF ObjectsInv, Ptr, IPtr, IPtrMut
<1>3. handles[h].to \in {"value", "pointer"}
  BY <1>1, HandleType DEF ObjectsInv
<1> HIDE DEF q
<1>4. to \in {"value", "pointer"}
  BY <1>2, <1>3
<1> HIDE DEF to
<1>5. r \in Dyn /\ r.ptr = "AnonymRefMut" /\ r.from = h /\ r.as = handles[h].as /\ r.table = handles[h].table
  BY <1>2, <1>4 DEF Dyn
<1> HIDE DEF r
<1>6. Extra(g, r)
  BY <1>1, <1>5 DEF Extra, Reaching, Live
<1>7. ObjectTypes' /\ TablesLead'
  BY <1>1, <1>5, MadeOf DEF Free
<1>8. OwnersKeep' /\ BorrowsLead' /\ LivesOn' /\ GoesOnce'
  BY <1>6, ExtraKeeps
<1>9. UniqueArcs' /\ MutLeads'
  BY <1>1, <1>5, <1>6, ExclusiveKeeps DEF IPtr
<1> QED
  BY <1>7, <1>8, <1>9 DEF ObjectsInv

LEMMA CloneHandleKeeps ==
  ASSUME ObjectsInv, NEW h \in Handle, NEW g \in Handle, CloneHandle(h, g) \/ Downgrade(h, g)
  PROVE  ObjectsInv'
<1>1. PICK p \in {"Arc", "Weak"} :
        /\ handles[h] # NoDyn /\ handles[h].ptr \in {"Arc", "Weak"} /\ Shareable(h) /\ value' = value
        /\ p = "Arc" => handles[h].ptr = "Arc"
        /\ Free(g) /\ Put(g, Like(h, p, g))
  BY DEF CloneHandle, Downgrade, Shareable, Free, Fresh
<1> DEFINE r == Like(h, p, g)
<1>2. r \in Dyn /\ r.ptr = p /\ r.from = g /\ r.as = handles[h].as /\ r.table = handles[h].table
  BY <1>1, LikeType DEF ObjectsInv, Ptr, IPtr
<1>3. Put(g, r)
  BY <1>1
<1> HIDE DEF r
<1>4. Extra(g, r)
  BY <1>1, <1>2, <1>3 DEF Extra, Live
<1>5. ObjectTypes' /\ TablesLead'
  BY <1>1, <1>2, <1>3, MadeOf DEF Free
<1>6. OwnersKeep' /\ BorrowsLead' /\ LivesOn' /\ GoesOnce'
  BY <1>4, ExtraKeeps
<1>7. UniqueArcs' /\ MutLeads'
  BY <1>1, <1>2, <1>4, OwnerKeeps
<1> QED
  BY <1>5, <1>6, <1>7 DEF ObjectsInv

-----------------------------------------------------------------------------
(* The first handles of a value *)

LEMMA DeclareKeeps ==
  ASSUME ObjectsInv, NEW ty \in Type, Declare(ty)
  PROVE  ObjectsInv'
<1>1. \A h \in Handle : handles'[h] = NoDyn
  BY DEF Declare, ObjectsInv, ObjectTypes, Free
<1>2. /\ handles' \in [Handle -> Dyn \cup {NoDyn}]
      /\ value' = [of |-> ty, kept |-> "local", drops |-> << >>]
  BY DEF Declare, ObjectsInv, ObjectTypes
<1>3. \A S : Live(S)' = {}
  BY <1>1 DEF Live
<1>4. Reaching' = {}
  BY <1>3 DEF Reaching
<1>5. ObjectTypes'
  BY <1>1, <1>2 DEF ObjectTypes, Free
<1>6. TablesLead' /\ OwnersKeep' /\ UniqueArcs' /\ MutLeads'
  BY <1>3 DEF TablesLead, OwnersKeep, UniqueArcs, MutLeads
<1>7. BorrowsLead'
  BY <1>3, <1>4 DEF BorrowsLead
<1>8. LivesOn' /\ GoesOnce'
  BY <1>2, <1>4 DEF LivesOn, GoesOnce
<1> QED
  BY <1>5, <1>6, <1>7, <1>8 DEF ObjectsInv

LEMMA ForgottenKeeps ==
  ASSUME ObjectsInv, Forgotten
  PROVE  ObjectsInv'
<1>1. \A h \in Handle : handles'[h] = NoDyn
  BY DEF Forgotten, Free
<1>2. handles' \in [Handle -> Dyn \cup {NoDyn}] /\ value' = NoValue
  BY DEF Forgotten, ObjectsInv, ObjectTypes
<1>3. \A S : Live(S)' = {}
  BY <1>1 DEF Live
<1>4. Reaching' = {}
  BY <1>3 DEF Reaching
<1>5. ObjectTypes'
  BY <1>1, <1>2 DEF ObjectTypes, Free, NoValue
<1>6. TablesLead' /\ OwnersKeep' /\ UniqueArcs' /\ MutLeads'
  BY <1>3 DEF TablesLead, OwnersKeep, UniqueArcs, MutLeads
<1>7. BorrowsLead'
  BY <1>3, <1>4 DEF BorrowsLead
<1>8. LivesOn' /\ GoesOnce'
  BY <1>2, <1>4 DEF LivesOn, GoesOnce, NoValue
<1> QED
  BY <1>5, <1>6, <1>7, <1>8 DEF ObjectsInv

LEMMA EndOfScopeKeeps ==
  ASSUME ObjectsInv, EndOfScope
  PROVE  ObjectsInv'
<1>1. /\ value.kept = "local" /\ value.drops = << >> /\ handles' = handles /\ Reaching = {}
      /\ value' = [value EXCEPT !.drops = Append(value.drops, value.of)]
  BY DEF EndOfScope, Reaching
<1>2. /\ value = [of |-> value.of, kept |-> value.kept, drops |-> value.drops] /\ value.of \in Type
      /\ handles \in [Handle -> Dyn \cup {NoDyn}]
  BY <1>1 DEF ObjectsInv, ObjectTypes
<1>3. value' = [of |-> value.of, kept |-> "local", drops |-> <<value.of>>]
  BY <1>1, <1>2
<1>4. value # NoValue /\ value' # NoValue
  BY <1>1, <1>3 DEF NoValue
<1>5. ObjectTypes'
  BY <1>1, <1>2, <1>3, <1>4 DEF ObjectTypes
<1>6. TablesLead' /\ OwnersKeep' /\ UniqueArcs' /\ MutLeads' /\ BorrowsLead'
  BY <1>1, <1>3 DEF ObjectsInv, TablesLead, OwnersKeep, UniqueArcs, MutLeads, BorrowsLead,
     Live, Reaching, IsUnique, MutBorrowed, Borrowers, Free
<1>7. LivesOn' /\ GoesOnce'
  BY <1>1, <1>3 DEF LivesOn, GoesOnce, Reaching, Live
<1> QED
  BY <1>5, <1>6, <1>7 DEF ObjectsInv

\* A handle that was made of no other.
LEMMA NewType ==
  ASSUME NEW h \in Handle, NEW p \in Ptr, NEW ty \in Type, NEW list \in Bounds
  PROVE  /\ New(p, list, TableOf(ty, list), h) \in Dyn
         /\ New(p, list, TableOf(ty, list), h).ptr = p
         /\ New(p, list, TableOf(ty, list), h).from = h
         /\ New(p, list, TableOf(ty, list), h).to = "value"
         /\ New(p, list, TableOf(ty, list), h).table.of = ty
         /\ Leads(New(p, list, TableOf(ty, list), h).as, New(p, list, TableOf(ty, list), h).table.heads)
<1>1. list \in Seq(Trait \cup AutoTrait) /\ TableOf(ty, list) \in Tables
  BY BoundsAssumption DEF Tables
<1>2. TableOf(ty, list).of = ty
  BY DEF TableOf
<1>3. Leads(list, TableOf(ty, list).heads)
  BY TableLeads
<1> QED
  BY <1>1, <1>2, <1>3 DEF New, Dyn

\* The only handle there is.
LEMMA FirstHandle ==
  ASSUME ObjectsInv, NEW h \in Handle, \A g \in Handle : Free(g), NEW r \in Dyn, Put(h, r),
         r.from = h, r.ptr \in {"Box", "Arc", "&mut"},
         value' = [of |-> value'.of, kept |-> value'.kept, drops |-> << >>], value'.of \in Type,
         value'.kept = IF r.ptr = "&mut" THEN "local" ELSE r.ptr,
         r.table.of = value'.of, Leads(r.as, r.table.heads)
  PROVE  ObjectsInv'
<1>1. /\ \A x \in Handle : handles'[x] = IF x = h THEN r ELSE NoDyn
      /\ handles' \in [Handle -> Dyn \cup {NoDyn}] /\ r # NoDyn
      /\ \A x \in Handle : MutBorrowed(x)' <=> MutBorrowed(x) \/ (r.from = x /\ x # h /\ r.ptr = "AnonymRefMut")
  <2>1. Free(h)
    OBVIOUS
  <2> HIDE DEF ObjectsInv
  <2>2. /\ \A x \in Handle : handles'[x] = IF x = h THEN r ELSE handles[x]
        /\ handles' \in [Handle -> Dyn \cup {NoDyn}] /\ r # NoDyn
        /\ \A x \in Handle : MutBorrowed(x)' <=> MutBorrowed(x) \/ (r.from = x /\ x # h /\ r.ptr = "AnonymRefMut")
    BY <2>1, NewHandle
  <2> QED
    BY <2>2 DEF Free
<1>2. \A S : Live(S)' = IF r.ptr \in S THEN {h} ELSE {}
  BY <1>1 DEF Live
<1>3. Reaching' = {h}
  BY <1>2 DEF Reaching, IPtr, IPtrMut
<1>4. value'.kept \in {"local", "Box", "Arc"} /\ value'.drops = << >> /\ value' # NoValue
  BY DEF NoValue
<1>5. ObjectTypes'
  BY <1>1, <1>4 DEF ObjectTypes, Owners
<1>6. TablesLead'
  BY <1>1, <1>2 DEF TablesLead, Live
<1>7. OwnersKeep'
  BY <1>1, <1>2 DEF OwnersKeep, Live
<1>8. BorrowsLead'
  <2>1. ASSUME NEW S \in SUBSET Reaching', S # {} PROVE \E x \in S : handles'[x].from = x \/ handles'[x].from \notin S
    BY <1>1, <1>3, <2>1
  <2>2. Live({"AnonymRefMut"})' = {} /\ Live({"DynRef"})' = {}
    BY <1>2
  <2> QED
    BY <1>1, <1>3, <2>1, <2>2 DEF BorrowsLead
<1>9. UniqueArcs' /\ MutLeads'
  <2>1. \A x \in Handle : ~MutBorrowed(x)'
    BY <1>1 DEF MutBorrowed, Borrowers
  <2>2. Live({"Arc"})' \subseteq Handle
    BY DEF Live
  <2> QED
    BY <1>2, <1>3, <2>1, <2>2 DEF UniqueArcs, MutLeads
<1>10. LivesOn' /\ GoesOnce'
  <2>1. r.ptr \in Owners <=> value'.kept # "local"
    BY DEF Owners
  <2> QED
    BY <1>2, <1>4, <2>1 DEF LivesOn, GoesOnce
<1> QED
  BY <1>5, <1>6, <1>7, <1>8, <1>9, <1>10 DEF ObjectsInv

LEMMA FromOwnerKeeps ==
  ASSUME ObjectsInv, NEW h \in Handle, NEW ty \in Type, NEW list \in Bounds, NEW p \in Owners,
         FromOwner(h, ty, list, p)
  PROVE  ObjectsInv'
<1> DEFINE r == New(p, list, TableOf(ty, list), h)
<1>1. /\ \A g \in Handle : Free(g)
      /\ Put(h, r) /\ value' = [of |-> ty, kept |-> p, drops |-> << >>]
  BY DEF FromOwner, ObjectsInv, ObjectTypes
<1>2. p \in Ptr /\ p \in {"Box", "Arc", "&mut"} /\ p # "&mut"
  BY DEF Owners, Ptr, IPtr, IPtrMut
<1>3. /\ r \in Dyn /\ r.ptr = p /\ r.from = h /\ r.table.of = ty /\ Leads(r.as, r.table.heads)
  BY <1>2, NewType
<1> HIDE DEF r
<1> QED
  BY <1>1, <1>2, <1>3, FirstHandle

LEMMA FromReferenceKeeps ==
  ASSUME ObjectsInv, NEW h \in Handle, NEW list \in Bounds, NEW p \in {"&mut", "DynRef"},
         FromReference(h, list, p)
  PROVE  ObjectsInv'
<1> DEFINE r == New(p, list, TableOf(value.of, list), h)
<1>1. /\ value.kept = "local" /\ value.drops = << >> /\ Free(h)
      /\ \A g \in Handle : ~Free(g) => p = "DynRef" /\ handles[g].ptr = "DynRef"
      /\ Put(h, r) /\ value' = value
  BY DEF FromReference, Fresh
<1>2. value.of \in Type /\ value = [of |-> value.of, kept |-> value.kept, drops |-> value.drops]
  BY <1>1 DEF ObjectsInv, ObjectTypes
<1>3. p \in Ptr
  BY DEF Ptr, IPtr, IPtrMut
<1>4. /\ r \in Dyn /\ r.ptr = p /\ r.from = h /\ r.table.of = value.of /\ Leads(r.as, r.table.heads)
  BY <1>2, <1>3, NewType
<1> HIDE DEF r
<1>5. CASE p = "&mut"
  BY <1>1, <1>2, <1>4, <1>5, FirstHandle
<1>6. CASE p = "DynRef"
  <2>1. Extra(h, r)
    BY <1>1, <1>4, <1>6 DEF Extra
  <2>2. OwnersKeep' /\ BorrowsLead' /\ LivesOn' /\ GoesOnce'
    BY <2>1, ExtraKeeps
  <2>3. Live(IPtrMut) = {}
    BY <1>1 DEF Live, IPtrMut, Free
  <2>4. UniqueArcs' /\ MutLeads'
    BY <1>4, <1>6, <2>1, <2>3, SharedKeeps
  <2>5. /\ \A x \in Handle : handles'[x] = IF x = h THEN r ELSE handles[x]
        /\ handles' \in [Handle -> Dyn \cup {NoDyn}] /\ r # NoDyn
    BY <1>1, <1>4, NewHandle
  <2>6. ObjectTypes'
    <3>1. value # NoValue
      BY <1>1 DEF NoValue
    <3> QED
      BY <1>1, <2>5, <3>1 DEF ObjectsInv, ObjectTypes
  <2>7. ASSUME NEW x \in Live(Ptr)'
        PROVE  handles'[x].table.of = value'.of /\ Leads(handles'[x].as, handles'[x].table.heads)
    <3>1. CASE x = h
      BY <1>1, <1>4, <2>5, <3>1
    <3>2. CASE x # h
      <4>1. x \in Live(Ptr) /\ handles'[x] = handles[x]
        BY <2>5, <2>7, <3>2 DEF Live
      <4> QED
        BY <1>1, <4>1 DEF ObjectsInv, TablesLead
    <3> QED
      BY <3>1, <3>2
  <2> QED
    BY <2>2, <2>4, <2>6, <2>7 DEF ObjectsInv, TablesLead
<1> QED
  BY <1>5, <1>6

-----------------------------------------------------------------------------
(* Casts, upgrades and drops *)

LEMMA IntoSuperKeeps ==
  ASSUME ObjectsInv, NEW h \in Handle, NEW list \in Supers(handles[h].as), IntoSuper(h, list)
  PROVE  ObjectsInv'
<1> DEFINE r == [handles[h] EXCEPT !.as = list]
<1>1. handles[h] # NoDyn /\ value' = value /\ Put(h, r)
  BY DEF IntoSuper, Unborrowed, Free
<1>2. handles[h] \in Dyn /\ handles[h].as \in Seq(Trait \cup AutoTrait) /\ handles[h].ptr \in Ptr
  BY <1>1, HandleType DEF ObjectsInv
<1>3. list \in Seq(Trait \cup AutoTrait) /\ Begins(list, handles[h].as)
  BY <1>2, SupersBegin
<1>4. /\ r \in Dyn /\ r.ptr = handles[h].ptr /\ r.from = handles[h].from /\ r.table = handles[h].table
      /\ r.as = list
  BY <1>2, <1>3 DEF Dyn
<1> HIDE DEF r
<1>5. /\ \A x \in Handle : handles'[x] = IF x = h THEN r ELSE handles[x]
      /\ handles' \in [Handle -> Dyn \cup {NoDyn}] /\ r # NoDyn
  BY <1>1, <1>4, PutOne, NoDynAssumption DEF ObjectsInv, ObjectTypes, Put
<1>6. ObjectTypes'
  <2>1. value # NoValue
    BY <1>1 DEF ObjectsInv, ObjectTypes, Free
  <2> QED
    BY <1>1, <1>5, <2>1 DEF ObjectsInv, ObjectTypes
<1>7. TablesLead'
  <2>1. h \in Live(Ptr)
    BY <1>1, <1>2 DEF Live
  <2>2. ASSUME NEW x \in Live(Ptr)'
        PROVE  handles'[x].table.of = value'.of /\ Leads(handles'[x].as, handles'[x].table.heads)
    <3>1. CASE x = h
      <4>1. DOMAIN list \subseteq Nat \ {0}
        BY <1>3
      <4>2. Leads(handles[h].as, handles[h].table.heads) /\ handles[h].table.of = value.of
        BY <2>1 DEF ObjectsInv, TablesLead
      <4>3. Leads(list, handles[h].table.heads)
        BY <1>3, <4>1, <4>2, BeginningLeads
      <4> QED
        BY <1>1, <1>4, <1>5, <3>1, <4>2, <4>3
    <3>2. CASE x # h
      <4>1. x \in Live(Ptr) /\ handles'[x] = handles[x]
        BY <1>5, <2>2, <3>2 DEF Live
      <4> QED
        BY <1>1, <4>1 DEF ObjectsInv, TablesLead
    <3> QED
      BY <3>1, <3>2
  <2> QED
    BY <2>2 DEF TablesLead
<1>8. /\ \A x \in Handle : /\ handles'[x] = NoDyn <=> handles[x] = NoDyn
                           /\ handles'[x].ptr = handles[x].ptr
                           /\ handles'[x].from = handles[x].from
  BY <1>1, <1>4, <1>5
<1>9. \A S : Live(S)' = Live(S)
  BY <1>8 DEF Live
<1>10. Reaching' = Reaching /\ Reaching \subseteq Handle
  BY <1>9 DEF Reaching, Live
<1>11. \A x \in Handle : MutBorrowed(x)' <=> MutBorrowed(x)
  BY <1>8 DEF MutBorrowed, Borrowers, Free
<1>12. OwnersKeep'
  BY <1>1, <1>8, <1>9 DEF ObjectsInv, OwnersKeep, Live
<1>13. BorrowsLead'
  <2>1. ASSUME NEW x \in Reaching
        PROVE  /\ handles'[x].from \in Reaching /\ (handles'[x].from # x => handles'[handles'[x].from].ptr \in IPtr)
    BY <1>8, <1>10 DEF ObjectsInv, BorrowsLead
  <2>2. \A x \in Live({"AnonymRefMut"}) : handles'[x].from # x
    BY <1>8 DEF ObjectsInv, BorrowsLead, Live
  <2>3. \A x \in Live({"DynRef"}) : handles'[x].from = x => value'.kept = "local"
    BY <1>1, <1>8 DEF ObjectsInv, BorrowsLead, Live
  <2>4. ASSUME NEW S \in SUBSET Reaching, S # {}
        PROVE  \E x \in S : handles'[x].from = x \/ handles'[x].from \notin S
    BY <1>8, <1>10, <2>4 DEF ObjectsInv, BorrowsLead
  <2> QED
    BY <1>9, <1>10, <2>1, <2>2, <2>3, <2>4 DEF BorrowsLead
<1>14. UniqueArcs'
  BY <1>9, <1>11 DEF ObjectsInv, UniqueArcs, IsUnique, Live
<1>15. MutLeads'
  <2>1. ASSUME NEW e \in Live(IPtrMut), ~MutBorrowed(e)', NEW x \in Reaching \ {e}
        PROVE  MutBorrowed(x)' \/ (handles'[x].ptr = "DynRef" /\ handles'[x].from = e)
    BY <1>8, <1>10, <1>11, <2>1 DEF ObjectsInv, MutLeads, Live
  <2> QED
    BY <1>9, <1>10, <2>1 DEF MutLeads
<1>16. LivesOn' /\ GoesOnce'
  BY <1>1, <1>9, <1>10 DEF ObjectsInv, LivesOn, GoesOnce
<1> QED
  BY <1>6, <1>7, <1>12, <1>13, <1>14, <1>15, <1>16 DEF ObjectsInv

\* The handle that goes was borrowed by nobody.
LEMMA GoneFacts ==
  ASSUME ObjectsInv, NEW h \in Handle, Unborrowed(h), Put(h, NoDyn)
  PROVE  /\ \A x \in Handle : handles'[x] = IF x = h THEN NoDyn ELSE handles[x]
         /\ handles' \in [Handle -> Dyn \cup {NoDyn}] /\ handles[h] # NoDyn
         /\ \A S : Live(S)' = Live(S) \ {h}
         /\ \A x \in Handle \ {h} : handles[x] # NoDyn => handles[x].from # h
         /\ \A x \in Handle : MutBorrowed(x)' => MutBorrowed(x)
         /\ \A x \in Handle : MutBorrowed(x) /\ handles[h].from # x => MutBorrowed(x)'
         /\ handles[h].ptr # "AnonymRefMut" => \A x \in Handle : MutBorrowed(x)' <=> MutBorrowed(x)
<1>1. /\ \A x \in Handle : handles'[x] = IF x = h THEN NoDyn ELSE handles[x]
      /\ handles' \in [Handle -> Dyn \cup {NoDyn}] /\ handles[h] # NoDyn
  BY PutOne DEF ObjectsInv, ObjectTypes, Put, Unborrowed, Free
<1>2. \A S : Live(S)' = Live(S) \ {h}
  BY <1>1 DEF Live
<1>3. \A x \in Handle \ {h} : handles[x] # NoDyn => handles[x].from # h
  BY DEF Unborrowed, Borrowers, Free
<1>4. \A x \in Handle : MutBorrowed(x)' => MutBorrowed(x)
  BY <1>1 DEF MutBorrowed, Borrowers, Free
<1>5. \A x \in Handle : MutBorrowed(x) /\ handles[h].from # x => MutBorrowed(x)'
  BY <1>1 DEF MutBorrowed, Borrowers, Free
<1>6. ASSUME handles[h].ptr # "AnonymRefMut", NEW x \in Handle, MutBorrowed(x) PROVE MutBorrowed(x)'
  BY <1>1, <1>6 DEF MutBorrowed, Borrowers, Free
<1> QED
  BY <1>1, <1>2, <1>3, <1>4, <1>5, <1>6

LEMMA GoneKeeps ==
  ASSUME ObjectsInv, NEW h \in Handle, Unborrowed(h), Put(h, NoDyn), value'.kept = value.kept
  PROVE  OwnersKeep' /\ BorrowsLead' /\ UniqueArcs' /\ MutLeads'
<1>1. /\ \A x \in Handle : handles'[x] = IF x = h THEN NoDyn ELSE handles[x]
      /\ \A S : Live(S)' = Live(S) \ {h}
      /\ \A x \in Handle \ {h} : handles[x] # NoDyn => handles[x].from # h
      /\ handles[h] # NoDyn
  BY GoneFacts
<1>2. Reaching' = Reaching \ {h} /\ Reaching \subseteq Handle
  BY <1>1 DEF Reaching, Live
<1>3. OwnersKeep'
  BY <1>1 DEF ObjectsInv, OwnersKeep, Live
<1>4. BorrowsLead'
  <2>1. ASSUME NEW x \in Reaching \ {h}
        PROVE  /\ handles'[x].from \in Reaching \ {h}
               /\ handles'[x].from # x => handles'[handles'[x].from].ptr \in IPtr
    <3>1. x \in Handle /\ handles[x] # NoDyn /\ handles'[x] = handles[x]
      BY <1>1 DEF Reaching, Live
    <3>2. handles[x].from \in Reaching \ {h}
      BY <1>1, <3>1 DEF ObjectsInv, BorrowsLead
    <3> QED
      BY <1>1, <1>2, <3>1, <3>2 DEF ObjectsInv, BorrowsLead
  <2>2. \A x \in Live({"AnonymRefMut"}) \ {h} : handles'[x].from # x
    BY <1>1 DEF ObjectsInv, BorrowsLead, Live
  <2>3. \A x \in Live({"DynRef"}) \ {h} : handles'[x].from = x => value'.kept = "local"
    BY <1>1 DEF ObjectsInv, BorrowsLead, Live
  <2>4. ASSUME NEW S \in SUBSET (Reaching \ {h}), S # {}
        PROVE  \E x \in S : handles'[x].from = x \/ handles'[x].from \notin S
    <3>1. PICK x \in S : handles[x].from = x \/ handles[x].from \notin S
      BY <2>4 DEF ObjectsInv, BorrowsLead
    <3>2. handles'[x] = handles[x]
      BY <1>1, <1>2
    <3> QED
      BY <3>1, <3>2
  <2> QED
    BY <1>1, <1>2, <2>1, <2>2, <2>3, <2>4 DEF BorrowsLead
<1>5. UniqueArcs'
  <2>1. ASSUME NEW x \in Live({"Arc"}) \ {h}, MutBorrowed(x)' PROVE IsUnique(x)'
    <3>1. x \in Handle /\ MutBorrowed(x)
      BY <2>1, GoneFacts DEF Live
    <3>2. IsUnique(x)
      BY <3>1 DEF ObjectsInv, UniqueArcs
    <3> QED
      BY <1>1, <3>2 DEF IsUnique
  <2> QED
    BY <1>1, <2>1 DEF UniqueArcs
<1>6. MutLeads'
  <2>1. ASSUME NEW e \in Live(IPtrMut) \ {h}, ~MutBorrowed(e)', NEW x \in (Reaching \ {h}) \ {e}
        PROVE  MutBorrowed(x)' \/ (handles'[x].ptr = "DynRef" /\ handles'[x].from = e)
    <3>1. e \in Handle /\ x \in Handle /\ handles'[x] = handles[x]
      BY <1>1, <1>2 DEF Live
    <3>2. CASE handles[h].ptr = "AnonymRefMut"
      <4>1. \A y \in Reaching \ {h} : MutBorrowed(y)
        BY <3>2, EndsAlone DEF IPtrMut
      <4>2. e \in Reaching
        BY DEF Live, Reaching, IPtr
      <4>3. handles[h].from = e
        BY <2>1, <3>1, <4>1, <4>2, GoneFacts
      <4>4. MutBorrowed(x) /\ handles[h].from # x
        BY <4>1, <4>3
      <4>5. MutBorrowed(x)'
        BY <3>1, <4>4, GoneFacts
      <4> QED
        BY <4>5
    <3>3. CASE handles[h].ptr # "AnonymRefMut"
      <4>1. (MutBorrowed(e)' <=> MutBorrowed(e)) /\ (MutBorrowed(x)' <=> MutBorrowed(x))
        BY <3>1, <3>3, GoneFacts
      <4> QED
        BY <2>1, <3>1, <4>1 DEF ObjectsInv, MutLeads
    <3> QED
      BY <3>2, <3>3
  <2> QED
    BY <1>1, <1>2, <2>1 DEF MutLeads
<1> QED
  BY <1>3, <1>4, <1>5, <1>6

\* The types and tables when a handle goes.
LEMMA GoneTypes ==
  ASSUME ObjectsInv, NEW h \in Handle, Unborrowed(h), Put(h, NoDyn), value'.kept = value.kept,
         value'.of = value.of, value' = [of |-> value'.of, kept |-> value'.kept, drops |-> value'.drops]
  PROVE  ObjectTypes' /\ TablesLead'
<1>1. /\ \A x \in Handle : handles'[x] = IF x = h THEN NoDyn ELSE handles[x]
      /\ handles' \in [Handle -> Dyn \cup {NoDyn}] /\ handles[h] # NoDyn
      /\ \A S : Live(S)' = Live(S) \ {h}
  BY GoneFacts
<1>2. value # NoValue /\ value.kept # "nowhere"
  BY <1>1 DEF ObjectsInv, ObjectTypes, Free
<1>3. value' # NoValue
  BY <1>2 DEF NoValue
<1>4. ObjectTypes'
  BY <1>1, <1>2, <1>3 DEF ObjectsInv, ObjectTypes
<1>5. TablesLead'
  BY <1>1 DEF ObjectsInv, TablesLead, Live
<1> QED
  BY <1>4, <1>5

LEMMA DropHandleKeeps ==
  ASSUME ObjectsInv, NEW h \in Handle, DropHandle(h)
  PROVE  ObjectsInv'
<1>1. Unborrowed(h) /\ Put(h, NoDyn) /\ handles[h] # NoDyn
  BY DEF DropHandle, Unborrowed, Free
<1>2. value = [of |-> value.of, kept |-> value.kept, drops |-> value.drops]
  BY DEF ObjectsInv, ObjectTypes
<1>3. \A S : Live(S)' = Live(S) \ {h}
  BY <1>1, GoneFacts
<1>4. Reaching' = Reaching \ {h}
  BY <1>3 DEF Reaching
<1>5. handles[h].ptr \in Ptr
  BY <1>1, HandleType DEF ObjectsInv
<1>6. CASE DropsValue(h)
  <2>1. h \in Live(Owners) /\ (handles[h].ptr = "Arc" => Live({"Arc"}) = {h})
    BY <1>1, <1>6 DEF DropsValue, Live, Owners
  <2>2. Reaching = {h}
    BY <1>1, <2>1, OnlyReaches
  <2>3. value.drops = << >>
    BY <2>2 DEF ObjectsInv, LivesOn
  <2>4. handles[h].table.of = value.of
    BY <1>1, <1>5 DEF ObjectsInv, TablesLead, Live
  <2>5. value' = [value EXCEPT !.drops = Append(value.drops, handles[h].table.of)]
    BY <1>6 DEF DropHandle, DropValue, DropFn
  <2>6. value' = [of |-> value.of, kept |-> value.kept, drops |-> <<value.of>>]
    BY <1>2, <2>3, <2>4, <2>5
  <2>7. ObjectTypes' /\ TablesLead' /\ OwnersKeep' /\ BorrowsLead' /\ UniqueArcs' /\ MutLeads'
    BY <1>1, <2>6, GoneKeeps, GoneTypes
  <2>8. value.kept \in Owners /\ Live(Owners) \subseteq Reaching
    BY <2>1 DEF ObjectsInv, OwnersKeep, Owners, Live, Reaching, IPtr, IPtrMut
  <2>9. LivesOn' /\ GoesOnce'
    BY <1>3, <1>4, <2>2, <2>6, <2>8 DEF LivesOn, GoesOnce, Owners
  <2> QED
    BY <2>7, <2>9 DEF ObjectsInv
<1>7. CASE ~DropsValue(h)
  <2>1. value' = value
    BY <1>7 DEF DropHandle
  <2>2. ObjectTypes' /\ TablesLead' /\ OwnersKeep' /\ BorrowsLead' /\ UniqueArcs' /\ MutLeads'
    BY <1>1, <1>2, <2>1, GoneKeeps, GoneTypes
  <2>3. Live(Owners)' = {} <=> Live(Owners) = {}
    <3>1. h \in Live(Owners) => Live({"Arc"}) \ {h} # {} /\ Live({"Arc"}) \subseteq Live(Owners)
      BY <1>1, <1>7 DEF DropsValue, Live, Owners
    <3> QED
      BY <1>3, <3>1
  <2>4. LivesOn' /\ GoesOnce'
    BY <1>4, <2>1, <2>3 DEF ObjectsInv, LivesOn, GoesOnce
  <2> QED
    BY <2>2, <2>4 DEF ObjectsInv
<1> QED
  BY <1>6, <1>7

LEMMA UpgradeKeeps ==
  ASSUME ObjectsInv, NEW h \in Handle, Upgrade(h)
  PROVE  ObjectsInv'
<1>1. Unborrowed(h) /\ handles[h] # NoDyn /\ handles[h].ptr = "Weak" /\ value' = value
  BY DEF Upgrade, Unborrowed, Free
<1>2. handles[h].from = h /\ value.kept = "Arc"
  BY <1>1 DEF ObjectsInv, OwnersKeep, Live
<1>3. value = [of |-> value.of, kept |-> value.kept, drops |-> value.drops]
  BY DEF ObjectsInv, ObjectTypes
<1>4. CASE Live({"Arc"}) = {}
  <2>1. Put(h, NoDyn)
    BY <1>4 DEF Upgrade
  <2>2. ObjectTypes' /\ TablesLead' /\ OwnersKeep' /\ BorrowsLead' /\ UniqueArcs' /\ MutLeads'
    BY <1>1, <1>3, <2>1, GoneKeeps, GoneTypes
  <2>3. Live(Owners)' = Live(Owners) /\ Reaching' = Reaching
    <3>1. \A S : Live(S)' = Live(S) \ {h}
      BY <1>1, <2>1, GoneFacts
    <3> QED
      BY <1>1, <3>1 DEF Reaching, Live, Owners, IPtr, IPtrMut
  <2>4. LivesOn' /\ GoesOnce'
    BY <1>1, <2>3 DEF ObjectsInv, LivesOn, GoesOnce
  <2> QED
    BY <2>2, <2>4 DEF ObjectsInv
<1>5. CASE Live({"Arc"}) # {}
  <2> DEFINE r == Like(h, "Arc", handles[h].from)
  <2>1. Put(h, r)
    BY <1>5 DEF Upgrade
  <2>2. /\ r \in Dyn /\ r.ptr = "Arc" /\ r.from = h /\ r.as = handles[h].as /\ r.table = handles[h].table
    BY <1>1, <1>2, LikeType DEF ObjectsInv, Ptr, IPtr
  <2> HIDE DEF r
  <2>3. PICK a \in Live({"Arc"}) : a # h
    BY <1>1, <1>5 DEF Live
  <2>4. /\ \A x \in Handle : handles'[x] = IF x = h THEN r ELSE handles[x]
        /\ handles' \in [Handle -> Dyn \cup {NoDyn}] /\ r # NoDyn
    BY <2>1, <2>2, PutOne, NoDynAssumption DEF ObjectsInv, ObjectTypes, Put
  <2>5. /\ \A x \in Handle \ {h} : handles[x] # NoDyn => handles[x].from # h
        /\ h \notin Reaching /\ Reaching' = Reaching \cup {h} /\ Reaching \subseteq Handle
        /\ a \in Reaching /\ a \in Handle
    BY <1>1, <2>2, <2>3, <2>4 DEF Unborrowed, Borrowers, Free, Reaching, Live, IPtr, IPtrMut
  <2>6. \A x \in Handle : MutBorrowed(x)' <=> MutBorrowed(x)
    BY <1>1, <2>2, <2>4 DEF MutBorrowed, Borrowers, Free
  <2>7. ObjectTypes'
    <3>1. value # NoValue
      BY <1>2 DEF NoValue
    <3> QED
      BY <1>1, <2>4, <3>1 DEF ObjectsInv, ObjectTypes
  <2>8. TablesLead'
    <3>1. h \in Live(Ptr) /\ h \in Live(Ptr)' /\ \A x \in Live(Ptr)' : x \in Live(Ptr)
      BY <1>1, <2>2, <2>4 DEF Live, Ptr, IPtr
    <3> QED
      BY <1>1, <2>2, <2>4, <3>1 DEF ObjectsInv, TablesLead, Live
  <2>9. OwnersKeep'
    BY <1>1, <1>2, <2>2, <2>4 DEF ObjectsInv, OwnersKeep, Live
  <2>10. BorrowsLead'
    <3>1. ASSUME NEW x \in Reaching \cup {h}
          PROVE  /\ handles'[x].from \in Reaching \cup {h}
                 /\ handles'[x].from # x => handles'[handles'[x].from].ptr \in IPtr
      <4>1. CASE x = h
        BY <2>2, <2>4, <4>1
      <4>2. CASE x # h
        <5>1. x \in Reaching /\ x \in Handle /\ handles'[x] = handles[x] /\ handles[x] # NoDyn
          BY <2>4, <2>5, <4>2 DEF Reaching, Live
        <5>2. handles[x].from \in Reaching /\ handles[x].from # h /\ handles[x].from \in Handle
          BY <2>5, <4>2, <5>1 DEF ObjectsInv, BorrowsLead
        <5> QED
          BY <2>4, <5>1, <5>2 DEF ObjectsInv, BorrowsLead
      <4> QED
        BY <4>1, <4>2
    <3>2. \A x \in Live({"AnonymRefMut"})' : handles'[x].from # x
      BY <2>2, <2>4 DEF ObjectsInv, BorrowsLead, Live
    <3>3. \A x \in Live({"DynRef"})' : handles'[x].from = x => value'.kept = "local"
      BY <1>1, <2>2, <2>4 DEF ObjectsInv, BorrowsLead, Live
    <3>4. ASSUME NEW S \in SUBSET (Reaching \cup {h}), S # {}
          PROVE  \E x \in S : handles'[x].from = x \/ handles'[x].from \notin S
      <4>1. CASE h \in S
        BY <2>2, <2>4, <4>1
      <4>2. CASE h \notin S
        <5>1. PICK x \in S : handles[x].from = x \/ handles[x].from \notin S
          BY <3>4, <4>2 DEF ObjectsInv, BorrowsLead
        <5> QED
          BY <2>4, <2>5, <4>2, <5>1
      <4> QED
        BY <4>1, <4>2
    <3> QED
      BY <2>5, <3>1, <3>2, <3>3, <3>4 DEF BorrowsLead
  <2>11. \A x \in Live({"Arc"})' : ~MutBorrowed(x)'
    <3>1. ASSUME NEW x \in Live({"Arc"})', MutBorrowed(x)' PROVE FALSE
      <4>1. x \in Handle /\ MutBorrowed(x)
        BY <2>6, <3>1 DEF Live
      <4>2. x # h
        BY <1>1, <4>1 DEF Unborrowed, MutBorrowed
      <4>3. IsUnique(x)
        BY <2>4, <3>1, <4>1, <4>2 DEF ObjectsInv, UniqueArcs, Live
      <4>4. h \in Live({"Arc", "Weak"})
        BY <1>1 DEF Live
      <4> QED
        BY <4>2, <4>3, <4>4 DEF IsUnique
    <3> QED
      BY <3>1
  <2>12. MutLeads'
    <3>1. ASSUME NEW e \in Live(IPtrMut)', ~MutBorrowed(e)' PROVE FALSE
      <4>1. e \in Live(IPtrMut) /\ e \in Handle /\ ~MutBorrowed(e) /\ handles[a].ptr = "Arc" /\ e # a
        BY <2>2, <2>3, <2>4, <2>6, <3>1 DEF Live, IPtrMut
      <4>2. MutBorrowed(a)
        BY <2>5, <4>1 DEF ObjectsInv, MutLeads
      <4>3. a \in Live({"Arc"})'
        BY <2>3, <2>4 DEF Live
      <4> QED
        BY <2>5, <2>6, <2>11, <4>2, <4>3
    <3> QED
      BY <3>1 DEF MutLeads
  <2>13. LivesOn'
    BY <1>1, <2>5 DEF ObjectsInv, LivesOn
  <2>14. GoesOnce'
    <3>1. a \in Live(Owners) /\ a \in Live(Owners)'
      BY <2>3, <2>4 DEF Live, Owners
    <3> QED
      BY <1>1, <3>1 DEF ObjectsInv, GoesOnce
  <2> QED
    BY <2>7, <2>8, <2>9, <2>10, <2>11, <2>12, <2>13, <2>14 DEF ObjectsInv, UniqueArcs
<1> QED
  BY <1>4, <1>5

LEMMA InitObjects == ObjectsInit => ObjectsInv
<1> SUFFICES ASSUME ObjectsInit PROVE ObjectsInv
  OBVIOUS
<1>1. value = NoValue /\ handles = [h \in Handle |-> NoDyn]
  BY DEF ObjectsInit
<1>2. \A S : Live(S) = {}
  BY <1>1 DEF Live
<1>3. Reaching = {}
  BY <1>2 DEF Reaching
<1>4. ObjectTypes
  BY <1>1 DEF ObjectTypes, Free, NoValue
<1>5. TablesLead /\ OwnersKeep /\ UniqueArcs /\ MutLeads
  BY <1>2 DEF TablesLead, OwnersKeep, UniqueArcs, MutLeads
<1>6. BorrowsLead /\ LivesOn /\ GoesOnce
  BY <1>1, <1>2, <1>3 DEF BorrowsLead, LivesOn, GoesOnce, NoValue
<1> QED
  BY <1>4, <1>5, <1>6 DEF ObjectsInv

LEMMA SameObjects == ObjectsInv /\ UNCHANGED objects => ObjectsInv'
BY DEF objects, ObjectsInv, ObjectTypes, TablesLead, OwnersKeep, BorrowsLead, UniqueArcs, MutLeads,
   LivesOn, GoesOnce, Reaching, MutBorrowed, Live, Free, Borrowers, IsUnique

LEMMA ObjectsKeep == ObjectsInv /\ ObjectsNext => ObjectsInv'
<1> SUFFICES ASSUME ObjectsInv, ObjectsNext PROVE ObjectsInv'
  OBVIOUS
<1> HIDE DEF ObjectsInv
<1>1. CASE \E ty \in Type : Declare(ty)
  BY <1>1, DeclareKeeps
<1>2. CASE \E h \in Handle, ty \in Type, dyn \in Bounds, ptr \in Owners : FromOwner(h, ty, dyn, ptr)
  BY <1>2, FromOwnerKeeps
<1>3. CASE \E h \in Handle, dyn \in Bounds, ptr \in {"&mut", "DynRef"} : FromReference(h, dyn, ptr)
  BY <1>3, FromReferenceKeeps
<1>4. CASE \E h, g \in Handle : AsRef(h, g)
  BY <1>4, AsRefKeeps
<1>5. CASE \E h, g \in Handle : CopyRef(h, g)
  BY <1>5, CopyRefKeeps
<1>6. CASE \E h, g \in Handle : AsMut(h, g)
  BY <1>6, AsMutKeeps
<1>7. CASE \E h, g \in Handle : TryAsMut(h, g)
  BY <1>7, TryAsMutKeeps
<1>8. CASE \E h, g \in Handle : CloneHandle(h, g) \/ Downgrade(h, g)
  BY <1>8, CloneHandleKeeps
<1>9. CASE \E h \in Handle : Upgrade(h)
  BY <1>9, UpgradeKeeps
<1>10. CASE \E h \in Handle : DropHandle(h)
  BY <1>10, DropHandleKeeps
<1>11. CASE \E h \in Handle : ~Free(h) /\ \E dyn \in Supers(handles[h].as) : IntoSuper(h, dyn)
  BY <1>11, IntoSuperKeeps
<1>12. CASE EndOfScope
  BY <1>12, EndOfScopeKeeps
<1>13. CASE Forgotten
  BY <1>13, ForgottenKeeps
<1> QED
  BY <1>1, <1>2, <1>3, <1>4, <1>5, <1>6, <1>7, <1>8, <1>9, <1>10, <1>11, <1>12, <1>13 DEF ObjectsNext

-----------------------------------------------------------------------------
(* What is called through a handle *)

\* As long as try_as_mut is called on Arcs only, every handle leads to the value.
AllLead == \A h \in Handle : ~Free(h) => handles[h].to = "value"
JustArcs == TryAsMutOf \subseteq {"Arc"}

LEMMA InitLead == ObjectsInit => AllLead
BY DEF ObjectsInit, AllLead, Free

LEMMA SameLead == AllLead /\ UNCHANGED objects => AllLead'
BY DEF AllLead, objects, Free

LEMMA PutLeads ==
  ASSUME ObjectTypes, AllLead, NEW h \in Handle, NEW r, Put(h, r), r = NoDyn \/ r.to = "value"
  PROVE  AllLead'
<1>1. \A g \in Handle : handles'[g] = IF g = h THEN r ELSE handles[g]
  BY PutOne
<1> QED
  BY <1>1 DEF AllLead, Free

LEMMA AllLeadKeeps ==
  ASSUME ObjectsInv, AllLead, JustArcs, ObjectsNext
  PROVE  AllLead'
<1>1. ObjectTypes
  BY DEF ObjectsInv
<1>2. ASSUME NEW h \in Handle, NEW g \in Handle, ~Free(h), NEW p, NEW f, Put(g, Like(h, p, f)) PROVE AllLead'
  <2>1. Like(h, p, f).to = "value"
    BY <1>2 DEF Like, AllLead
  <2> QED
    BY <1>1, <1>2, <2>1, PutLeads
<1>3. ASSUME NEW h \in Handle, NEW p, NEW list, NEW table, Put(h, New(p, list, table, h)) PROVE AllLead'
  <2>1. New(p, list, table, h).to = "value"
    BY DEF New
  <2> QED
    BY <1>1, <1>3, <2>1, PutLeads
<1>4. CASE \E ty \in Type : Declare(ty)
  BY <1>4 DEF Declare, AllLead, Free
<1>5. CASE \E h \in Handle, ty \in Type, dyn \in Bounds, ptr \in Owners : FromOwner(h, ty, dyn, ptr)
  BY <1>3, <1>5 DEF FromOwner
<1>6. CASE \E h \in Handle, dyn \in Bounds, ptr \in {"&mut", "DynRef"} : FromReference(h, dyn, ptr)
  BY <1>3, <1>6 DEF FromReference
<1>7. CASE \E h, g \in Handle : AsRef(h, g)
  BY <1>2, <1>7 DEF AsRef, Shareable
<1>8. CASE \E h, g \in Handle : CopyRef(h, g)
  BY <1>2, <1>8 DEF CopyRef, Free
<1>9. CASE \E h, g \in Handle : AsMut(h, g)
  BY <1>2, <1>9 DEF AsMut, Unborrowed
<1>10. CASE \E h, g \in Handle : TryAsMut(h, g)
  <2>1. PICK h \in Handle, g \in Handle : TryAsMut(h, g)
    BY <1>10
  <2>2. handles[h].ptr = "Arc" /\ ~Free(h)
    BY <2>1 DEF TryAsMut, JustArcs, Unborrowed
  <2> DEFINE q == Like(h, "AnonymRefMut", h)
             r == [q EXCEPT !.to = q.to]
  <2>3. Put(g, r)
    BY <2>1, <2>2 DEF TryAsMut
  <2>4. q.to = "value" /\ "to" \in DOMAIN q
    BY <2>2 DEF Like, AllLead
  <2> HIDE DEF q
  <2>5. r.to = "value"
    BY <2>4
  <2> QED
    BY <1>1, <2>3, <2>5, PutLeads
<1>11. CASE \E h, g \in Handle : CloneHandle(h, g) \/ Downgrade(h, g)
  BY <1>2, <1>11 DEF CloneHandle, Downgrade, Shareable
<1>12. CASE \E h \in Handle : Upgrade(h)
  <2>1. PICK h \in Handle : Upgrade(h)
    BY <1>12
  <2>2. CASE Live({"Arc"}) = {}
    BY <1>1, <2>1, <2>2, PutLeads DEF Upgrade
  <2>3. CASE Live({"Arc"}) # {}
    BY <1>2, <2>1, <2>3 DEF Upgrade, Unborrowed
  <2> QED
    BY <2>2, <2>3
<1>13. CASE \E h \in Handle : DropHandle(h)
  BY <1>1, <1>13, PutLeads DEF DropHandle
<1>14. CASE \E h \in Handle : ~Free(h) /\ \E dyn \in Supers(handles[h].as) : IntoSuper(h, dyn)
  <2>1. PICK h \in Handle : ~Free(h) /\ \E dyn \in Supers(handles[h].as) : IntoSuper(h, dyn)
    BY <1>14
  <2>2. PICK list \in Supers(handles[h].as) : ~Free(h) /\ IntoSuper(h, list)
    BY <2>1
  <2> DEFINE r == [handles[h] EXCEPT !.as = list]
  <2>3. handles[h] \in Dyn
    BY <1>1, <2>2, HandleType DEF Free
  <2>4. r.to = handles[h].to
    BY <2>3 DEF Dyn
  <2>5. r.to = "value" /\ Put(h, r)
    BY <2>2, <2>4 DEF AllLead, IntoSuper
  <2> HIDE DEF r
  <2> QED
    BY <1>1, <2>5, PutLeads
<1>15. CASE EndOfScope \/ Forgotten
  BY <1>15 DEF EndOfScope, Forgotten, AllLead, Free
<1> QED
  BY <1>4, <1>5, <1>6, <1>7, <1>8, <1>9, <1>10, <1>11, <1>12, <1>13, <1>14, <1>15 DEF ObjectsNext

LEMMA ObjectsLead ==
  ASSUME ObjectsInv, AllLead
  PROVE  TraitCalls
<1>1. SUFFICES ASSUME NEW h \in Handle, ~Free(h)
               PROVE  /\ \A m \in CallableOn(handles[h]) : CallsMethod(handles[h], m)
                      /\ \A ty \in Type : Downcasts(handles[h], ty) => ty = value.of
                      /\ Unborrowed(h) /\ handles[h].ptr \in IPtrMut => Exclusive(h)
  BY DEF TraitCalls
<1> DEFINE r == handles[h]
<1>2. /\ r.ptr \in Ptr /\ r.as \in Seq(Trait \cup AutoTrait)
  <2>1. ObjectTypes /\ handles[h] # NoDyn
    BY <1>1 DEF ObjectsInv, Free
  <2> QED
    BY <2>1, HandleType
<1>3. r.table.of = value.of /\ Leads(r.as, r.table.heads)
  BY <1>1, <1>2 DEF ObjectsInv, TablesLead, Live, Free
<1>4. ASSUME NEW m \in CallableOn(r) PROVE CallsMethod(r, m)
  <2>1. /\ m.trait \in ToSet(r.as) \ AutoTrait /\ m.fn \in ToSet(Functions(m.trait)) /\ r.ptr # "Weak"
        /\ m = [trait |-> m.trait, fn |-> m.fn]
    BY DEF CallableOn
  <2> DEFINE k == Position(r.as, m.trait)
             n == CHOOSE i \in DOMAIN Functions(m.trait) : Functions(m.trait)[i] = m.fn
             trait == r.table.heads[Level(r.as, k)]
  <2>2. k \in Heads(r.as) /\ r.as[k] = m.trait
    <3>1. \E i \in Heads(r.as) : r.as[i] = m.trait
      BY <2>1 DEF ToSet, Heads
    <3> QED
      BY <3>1 DEF Position
  <2>3. n \in DOMAIN Functions(m.trait) /\ Functions(m.trait)[n] = m.fn
    BY <2>1 DEF ToSet
  <2>4. trait = m.trait
    BY <1>3, <2>2 DEF Leads
  <2>5. Called(r, m) = [of |-> value.of, trait |-> trait, name |-> Functions(trait)[n].name]
    BY <1>3 DEF Called
  <2>6. Called(r, m) = [of |-> value.of, trait |-> m.trait, name |-> m.fn.name]
    BY <2>3, <2>4, <2>5
  <2>7. r.to = "value" /\ value.drops = << >>
    <3>1. h \in Reaching
      BY <1>1, <1>2, <2>1 DEF Reaching, Live, Free, Ptr
    <3> QED
      BY <1>1, <3>1 DEF AllLead, ObjectsInv, LivesOn
  <2> QED
    BY <2>6, <2>7 DEF CallsMethod
<1>5. ASSUME NEW ty \in Type, Downcasts(r, ty) PROVE ty = value.of
  <2>1. TableOf(ty, r.as).of = ty
    BY DEF TableOf
  <2> QED
    BY <1>3, <1>5, <2>1 DEF Downcasts
<1>6. ASSUME Unborrowed(h), r.ptr \in IPtrMut PROVE Exclusive(h)
  <2>1. \A x \in Reaching \ {h} : MutBorrowed(x)
    BY <1>6, EndsAlone
  <2>2. ASSUME NEW g \in Handle \ {h}, Shareable(g) PROVE handles[g].ptr = "Weak"
    <3>1. handles[g] # NoDyn /\ ~MutBorrowed(g)
      BY <2>2 DEF Shareable, Free, MutBorrowed
    <3>2. g \notin Reaching
      BY <2>1, <3>1
    <3>3. handles[g].ptr \in Ptr
      BY <3>1, HandleType DEF ObjectsInv
    <3> QED
      BY <3>1, <3>2, <3>3 DEF Reaching, Live, Ptr
  <2> QED
    BY <2>2 DEF Exclusive
<1> QED
  BY <1>4, <1>5, <1>6

-----------------------------------------------------------------------------
(* Wakers *)

Owned == {Executor} \cup {SharedWaker(a) : a \in Shared}

WakerTypes ==
  /\ polls \in Seq(Waker) /\ Len(polls) <= Depth
  /\ clones \in Int
  /\ strong \in [Shared -> Nat]
  /\ over \in [Shared -> Owned \cup {NoWaker}]
  /\ kept \in [Slot -> Owned \cup {NoWaker}]
  /\ hand \in [Hand -> Owned \cup {NoWaker}]
  /\ cloning \in [of : Waker \cup {NoWaker}, arcs : Nat, slot : Slot \cup {NoWaker}]

\* What a poll is over is borrowed from the one around it or from a slot.
PollsLead == \A n \in DOMAIN polls :
  \/ polls[n] = Executor
  \/ n > 1 /\ polls[n] = OverPoll(n - 1)
  \/ \E s \in Slot : kept[s] = polls[n]

\* An Arc that is counted is over a waker, and a chain of Arcs comes to an end:
\* no set of them is only over one another.
Counted == \A a \in Shared : strong[a] > 0 <=> over[a] # NoWaker
Grounded == \A A \in SUBSET {a \in Shared : strong[a] > 0} :
  A # {} => \E a \in A : \A b \in A : over[a] # SharedWaker(b)

\* What is cloned is borrowed until the clone is made, and its slot is free until
\* the clone gets there.
ClonesBorrow ==
  /\ cloning.of # NoWaker => cloning.of \in {Executor} \cup AtHand \cup Borrowed /\ hand["clone"] = NoWaker
  /\ cloning.of # NoWaker \/ hand["clone"] # NoWaker => cloning.slot \in Slot \ Kept
  /\ cloning.of = NoWaker /\ hand["clone"] = NoWaker => cloning = NoClone

WakersInv == WakerTypes /\ PollsLead /\ Counted /\ Grounded /\ ClonesBorrow /\ ClonesAreCounted

LEMMA InitWakers == WakersInit => WakersInv
<1> SUFFICES ASSUME WakersInit PROVE WakersInv
  OBVIOUS
<1>1. WakerTypes
  BY DepthAssumption DEF WakersInit, WakerTypes, NoClone
<1>2. PollsLead /\ Counted /\ Grounded
  BY DEF WakersInit, PollsLead, Counted, Grounded
<1>3. ClonesBorrow
  BY DEF WakersInit, ClonesBorrow, NoClone, Hand
<1>4. \A w \in Owned : OwnersOf(w) = 0
  <2>1. SUFFICES ASSUME NEW w \in Owned PROVE OwnersOf(w) = 0
    OBVIOUS
  <2>2. w # NoWaker
    BY NoWakerAssumption DEF Owned, Waker
  <2>3. Holding(kept, w) = {} /\ Holding(over, w) = {} /\ Holding(hand, w) = {}
    BY <2>2 DEF WakersInit, Holding
  <2> QED
    BY <2>3, FS_EmptySet DEF OwnersOf
<1>5. ClonesAreCounted
  BY <1>4 DEF WakersInit, ClonesAreCounted, Owned
<1> QED
  BY <1>1, <1>2, <1>3, <1>5 DEF WakersInv

-----------------------------------------------------------------------------

Hit(v, w) == IF v = w THEN 1 ELSE 0

\* The number of x for which f[x] is w, when one of them changes.
LEMMA HoldingType ==
  ASSUME NEW f, IsFiniteSet(DOMAIN f), NEW w
  PROVE  /\ IsFiniteSet(Holding(f, w)) /\ Cardinality(Holding(f, w)) \in Nat
         /\ Cardinality(Holding(f, w)) = 0 <=> \A x \in DOMAIN f : f[x] # w
<1>1. IsFiniteSet(Holding(f, w)) /\ Cardinality(Holding(f, w)) \in Nat
  BY FS_Subset, FS_CardinalityType DEF Holding
<1> QED
  BY <1>1, FS_EmptySet DEF Holding

LEMMA HoldingStep ==
  ASSUME NEW f, IsFiniteSet(DOMAIN f), NEW x \in DOMAIN f, NEW v, NEW w
  PROVE  Cardinality(Holding([f EXCEPT ![x] = v], w))
           = Cardinality(Holding(f, w)) - Hit(f[x], w) + Hit(v, w)
<1> DEFINE g == [f EXCEPT ![x] = v]
           R == Holding(f, w) \ {x}
<1>1. IsFiniteSet(Holding(f, w)) /\ IsFiniteSet(R) /\ Cardinality(R) \in Nat
  BY HoldingType, FS_RemoveElement, FS_CardinalityType
<1>2. Cardinality(Holding(f, w)) = Cardinality(R) + Hit(f[x], w)
  <2>1. x \in Holding(f, w) <=> f[x] = w
    BY DEF Holding
  <2> QED
    BY <1>1, <2>1, FS_RemoveElement, HoldingType DEF Hit
<1>3. Cardinality(Holding(g, w)) = Cardinality(R) + Hit(v, w)
  <2>1. Holding(g, w) = IF v = w THEN R \cup {x} ELSE R
    BY DEF Holding
  <2>2. Cardinality(R \cup {x}) = Cardinality(R) + 1
    BY <1>1, FS_AddElement
  <2> QED
    BY <2>1, <2>2, <1>1 DEF Hit
<1> QED
  BY <1>1, <1>2, <1>3 DEF Hit

\* All three kinds of owners are finitely many.
LEMMA OwnersType ==
  ASSUME WakerTypes, NEW w
  PROVE  /\ IsFiniteSet(DOMAIN kept) /\ IsFiniteSet(DOMAIN over) /\ IsFiniteSet(DOMAIN hand)
         /\ Cardinality(Holding(kept, w)) \in Nat
         /\ Cardinality(Holding(over, w)) \in Nat
         /\ Cardinality(Holding(hand, w)) \in Nat
<1>1. DOMAIN kept = Slot /\ DOMAIN over = Shared /\ DOMAIN hand = {"clone", "drop"}
  BY DEF WakerTypes, Hand
<1>2. IsFiniteSet({"clone", "drop"})
  <2>1. IsFiniteSet({"clone"})
    BY FS_Singleton
  <2>2. IsFiniteSet({"clone"} \cup {"drop"})
    BY <2>1, FS_AddElement
  <2> QED
    BY <2>2
<1> QED
  BY <1>1, <1>2, SharedAssumption, HoldingType

\* Who has a waker has one that lives.
LEMMA OwnedLives ==
  ASSUME WakersInv, NEW a \in Shared,
         \/ \E s \in Slot : kept[s] = SharedWaker(a)
         \/ \E b \in Shared : over[b] = SharedWaker(a)
         \/ \E c \in Hand : hand[c] = SharedWaker(a)
  PROVE  strong[a] > 0
<1> DEFINE w == SharedWaker(a)
<1>1. strong[a] = Cardinality(Holding(kept, w)) + Cardinality(Holding(over, w)) + Cardinality(Holding(hand, w))
  BY DEF WakersInv, ClonesAreCounted, OwnersOf
<1>2. /\ IsFiniteSet(DOMAIN kept) /\ IsFiniteSet(DOMAIN over) /\ IsFiniteSet(DOMAIN hand)
      /\ Cardinality(Holding(kept, w)) \in Nat
      /\ Cardinality(Holding(over, w)) \in Nat
      /\ Cardinality(Holding(hand, w)) \in Nat
  BY OwnersType DEF WakersInv
<1>3. DOMAIN kept = Slot /\ DOMAIN over = Shared /\ DOMAIN hand = Hand
  BY DEF WakersInv, WakerTypes
<1> HIDE DEF w
<1>4. \/ Cardinality(Holding(kept, w)) # 0
      \/ Cardinality(Holding(over, w)) # 0
      \/ Cardinality(Holding(hand, w)) # 0
  BY <1>2, <1>3, HoldingType DEF w
<1> QED
  BY <1>1, <1>2, <1>4

LEMMA PollKeeps ==
  ASSUME WakersInv, NEW w \in AtHand, Poll(w)
  PROVE  WakersInv'
<1> USE DEF WakersInv
<1>1. w \in Waker
  <2>1. Current \in Waker
    BY DEF Current, WakerTypes, Waker
  <2>2. \A s \in Kept : kept[s] \in Waker
    BY DEF Kept, WakerTypes, Owned, Waker
  <2> QED
    BY <2>1, <2>2 DEF AtHand
<1>2. /\ polls' \in Seq(Waker) /\ Len(polls') = Len(polls) + 1
      /\ \A n \in DOMAIN polls : polls'[n] = polls[n]
      /\ polls'[Len(polls) + 1] = w /\ DOMAIN polls' = DOMAIN polls \cup {Len(polls) + 1}
  BY <1>1 DEF Poll, WakerTypes
<1>3. WakerTypes'
  BY <1>2, DepthAssumption DEF Poll, WakerTypes
<1>4. PollsLead'
  <2>1. \/ w = Executor
        \/ Len(polls) + 1 > 1 /\ w = OverPoll(Len(polls))
        \/ \E s \in Slot : kept[s] = w
    BY DEF AtHand, Current, Kept, WakerTypes
  <2>2. Len(polls) \in Nat /\ Len(polls) + 1 - 1 = Len(polls)
    BY DEF WakerTypes
  <2> QED
    BY <1>2, <2>1, <2>2 DEF Poll, PollsLead
<1>5. ClonesBorrow'
  BY DEF Poll, ClonesBorrow, NoClone, Kept
<1> QED
  BY <1>3, <1>4, <1>5 DEF Poll, Counted, Grounded, ClonesAreCounted, OwnersOf

LEMMA PolledKeeps ==
  ASSUME WakersInv, Polled
  PROVE  WakersInv'
<1> USE DEF WakersInv
<1>1. /\ polls' \in Seq(Waker) /\ Len(polls') = Len(polls) - 1 /\ DOMAIN polls' \subseteq DOMAIN polls
      /\ \A n \in DOMAIN polls' : polls'[n] = polls[n]
  <2>1. polls \in Seq(Waker) /\ Len(polls) \in Nat /\ Len(polls) > 0
    BY EmptySeq, LenProperties DEF Polled, WakerTypes
  <2>2. polls' = SubSeq(polls, 1, Len(polls) - 1)
    BY DEF Polled
  <2>3. /\ polls' \in Seq(Waker) /\ Len(polls') = Len(polls) - 1
        /\ \A n \in 1 .. Len(polls) - 1 : polls'[n] = polls[n]
    <3>1. PICK k \in Nat : k = Len(polls)
      BY <2>1
    <3>2. \A i \in 1 .. k - 1 : polls[i] \in Waker
      BY <2>1, <3>1
    <3>3. /\ SubSeq(polls, 1, k - 1) \in Seq(Waker)
          /\ Len(SubSeq(polls, 1, k - 1)) = IF 1 <= k - 1 THEN k - 1 - 1 + 1 ELSE 0
          /\ \A i \in 1 .. k - 1 - 1 + 1 : SubSeq(polls, 1, k - 1)[i] = polls[1 + i - 1]
      BY <3>2, SubSeqProperties
    <3> QED
      BY <2>1, <2>2, <3>1, <3>3
  <2> QED
    BY <2>1, <2>3
<1>2. WakerTypes'
  BY <1>1, DepthAssumption DEF Polled, WakerTypes
<1>3. PollsLead'
  BY <1>1 DEF Polled, PollsLead
<1>4. ClonesBorrow'
  BY DEF Polled, ClonesBorrow, NoClone, Kept
<1> QED
  BY <1>2, <1>3, <1>4 DEF Polled, Counted, Grounded, ClonesAreCounted, OwnersOf

LEMMA KeepKeeps ==
  ASSUME WakersInv, NEW w \in AtHand, NEW s \in Slot, Keep(w, s)
  PROVE  WakersInv'
<1> USE DEF WakersInv
<1>1. w \in Waker
  <2>1. Current \in Waker
    BY DEF Current, WakerTypes, Waker
  <2>2. \A r \in Kept : kept[r] \in Waker
    BY DEF Kept, WakerTypes, Owned, Waker
  <2> QED
    BY <2>1, <2>2 DEF AtHand
<1>2. WakerTypes'
  BY <1>1 DEF Keep, WakerTypes
<1>3. ClonesBorrow'
  BY <1>1, NoWakerAssumption DEF Keep, ClonesBorrow, NoClone, Kept, AtHand, Current, Borrowed
<1> QED
  BY <1>2, <1>3 DEF Keep, PollsLead, Counted, Grounded, ClonesAreCounted, OwnersOf

LEMMA CloningType ==
  ASSUME WakerTypes
  PROVE  /\ cloning = [of |-> cloning.of, arcs |-> cloning.arcs, slot |-> cloning.slot]
         /\ cloning.of \in Waker \cup {NoWaker} /\ cloning.arcs \in Nat
         /\ cloning.slot \in Slot \cup {NoWaker}
BY DEF WakerTypes

LEMMA CloneBorrowedKeeps ==
  ASSUME WakersInv, CloneBorrowed
  PROVE  WakersInv'
<1> USE DEF WakersInv
<1>1. PICK n \in 1 .. Depth : cloning.of = OverPoll(n)
  BY NoWakerAssumption DEF CloneBorrowed, WakerTypes, Waker, Executor, SharedWaker
<1>2. n \in DOMAIN polls
  <2>1. \A w \in Owned : w.of # "poll"
    BY DEF Owned, Executor, SharedWaker
  <2>2. OverPoll(n) \notin Owned \cup {NoWaker} /\ OverPoll(n) # Executor
    BY <2>1, <1>1 DEF OverPoll, Executor, CloneBorrowed
  <2>3. \/ OverPoll(n) = Current
        \/ \E s \in Kept : kept[s] = OverPoll(n)
        \/ \E m \in DOMAIN polls : polls[m] = OverPoll(n)
    BY <1>1, <2>2 DEF CloneBorrowed, ClonesBorrow, AtHand, Borrowed
  <2>4. \A s \in Slot : kept[s] # OverPoll(n)
    BY <2>2 DEF WakerTypes
  <2>5. Len(polls) \in Nat /\ DOMAIN polls = 1 .. Len(polls)
    BY DEF WakerTypes
  <2>6. \A m \in DOMAIN polls : polls[m] = OverPoll(n) => m > 1 /\ n = m - 1
    BY <2>2, <2>4 DEF PollsLead, OverPoll
  <2>7. OverPoll(n) = Current => n = Len(polls)
    BY <2>2 DEF Current, OverPoll
  <2>8. \/ n = Len(polls)
        \/ \E m \in DOMAIN polls : m > 1 /\ n = m - 1
    <3>1. CASE OverPoll(n) = Current
      BY <2>7, <3>1
    <3>2. ~ \E s \in Kept : kept[s] = OverPoll(n)
      BY <2>4 DEF Kept
    <3>3. CASE \E m \in DOMAIN polls : polls[m] = OverPoll(n)
      BY <2>6, <3>3
    <3> QED
      BY <2>3, <3>1, <3>2, <3>3
  <2>9. n \in Nat /\ n > 0
    BY <1>1, DepthAssumption
  <2> QED
    <3>1. CASE n = Len(polls)
      BY <2>5, <2>9, <3>1
    <3>2. ASSUME NEW m \in DOMAIN polls, n = m - 1 PROVE n \in DOMAIN polls
      <4>1. m \in 1 .. Len(polls)
        BY <2>5
      <4>2. n \in 1 .. Len(polls)
        BY <2>5, <2>9, <3>2, <4>1
      <4> QED
        BY <2>5, <4>2
    <3> QED
      BY <2>8, <3>1, <3>2
<1>3. cloning' = [of |-> polls[n], arcs |-> cloning.arcs + 1, slot |-> cloning.slot]
  <2>1. cloning' = [cloning EXCEPT !.of = polls[cloning.of.at], !.arcs = cloning.arcs + 1]
    BY DEF CloneBorrowed
  <2>2. cloning.of.at = n
    BY <1>1 DEF OverPoll
  <2> QED
    BY <2>1, <2>2, CloningType
<1>4. polls[n] \in Waker /\ polls[n] \in Borrowed /\ polls[n] # NoWaker
  <2>1. polls \in Seq(Waker) /\ n \in 1 .. Len(polls)
    BY <1>2 DEF WakerTypes
  <2>2. polls[n] \in Waker
    BY <2>1, ElementOfSeq
  <2> QED
    BY <1>2, <2>2, NoWakerAssumption DEF Borrowed
<1>5. WakerTypes'
  <2>1. cloning' \in [of : Waker \cup {NoWaker}, arcs : Nat, slot : Slot \cup {NoWaker}]
    BY <1>3, <1>4, CloningType
  <2> QED
    BY <2>1 DEF CloneBorrowed, WakerTypes
<1>6. ClonesBorrow'
  <2>1. cloning.of # NoWaker /\ UNCHANGED <<polls, kept, hand>>
    BY DEF CloneBorrowed
  <2>2. cloning'.of = polls[n] /\ cloning'.slot = cloning.slot
    BY <1>3
  <2>3. cloning'.of # NoWaker
    BY <1>4, <2>2
  <2> QED
    BY <1>4, <2>1, <2>2, <2>3 DEF ClonesBorrow, Kept, Borrowed
<1> QED
  BY <1>5, <1>6 DEF CloneBorrowed, PollsLead, Counted, Grounded, ClonesAreCounted, OwnersOf

\* What changes when the hand of a call does.
LEMMA HandStep ==
  ASSUME WakerTypes, NEW c \in Hand, NEW v, hand' = [hand EXCEPT ![c] = v],
         UNCHANGED <<kept, over>>, NEW w
  PROVE  OwnersOf(w) \in Nat /\ OwnersOf(w)' = OwnersOf(w) - Hit(hand[c], w) + Hit(v, w)
<1>1. c \in DOMAIN hand
  BY DEF WakerTypes
<1>2. Cardinality(Holding(hand', w)) = Cardinality(Holding(hand, w)) - Hit(hand[c], w) + Hit(v, w)
  <2>1. IsFiniteSet(DOMAIN hand)
    BY OwnersType
  <2>2. PICK f : f = hand
    OBVIOUS
  <2>3. IsFiniteSet(DOMAIN f) /\ c \in DOMAIN f
    BY <1>1, <2>1, <2>2
  <2>4. Cardinality(Holding([f EXCEPT ![c] = v], w)) = Cardinality(Holding(f, w)) - Hit(f[c], w) + Hit(v, w)
    BY <2>3, HoldingStep
  <2> QED
    BY <2>2, <2>4
<1>3. Holding(kept', w) = Holding(kept, w) /\ Holding(over', w) = Holding(over, w)
  OBVIOUS
<1>4. Hit(hand[c], w) \in Int /\ Hit(v, w) \in Int
  BY DEF Hit
<1> QED
  BY <1>2, <1>3, <1>4, OwnersType DEF OwnersOf

LEMMA CloneExecutorKeeps ==
  ASSUME WakersInv, CloneExecutor
  PROVE  WakersInv'
<1> USE DEF WakersInv
<1>1. /\ cloning.of = Executor /\ Executor # NoWaker /\ "clone" \in Hand
      /\ hand["clone"] = NoWaker /\ Executor \in Owned
  BY NoWakerAssumption DEF CloneExecutor, ClonesBorrow, Owned, Waker, Hand
<1> cloning' = [of |-> NoWaker, arcs |-> cloning.arcs, slot |-> cloning.slot]
  BY CloningType DEF CloneExecutor
<1>2. WakerTypes'
  <2>1. cloning' \in [of : Waker \cup {NoWaker}, arcs : Nat, slot : Slot \cup {NoWaker}]
    BY CloningType
  <2>2. clones' \in Int /\ hand' \in [Hand -> Owned \cup {NoWaker}]
    BY <1>1 DEF CloneExecutor, WakerTypes
  <2> QED
    BY <2>1, <2>2 DEF CloneExecutor, WakerTypes
<1>3. ClonesBorrow'
  BY <1>1, <1>2 DEF CloneExecutor, ClonesBorrow, WakerTypes, Kept
<1>4. \A w \in Owned : OwnersOf(w) \in Nat /\ OwnersOf(w)' = OwnersOf(w) + Hit(Executor, w)
  <2>1. SUFFICES ASSUME NEW w \in Owned
                 PROVE  OwnersOf(w) \in Nat /\ OwnersOf(w)' = OwnersOf(w) + Hit(Executor, w)
    OBVIOUS
  <2>2. OwnersOf(w) \in Nat /\ OwnersOf(w)' = OwnersOf(w) - Hit(hand["clone"], w) + Hit(Executor, w)
    BY <1>1, HandStep DEF CloneExecutor
  <2>3. Hit(hand["clone"], w) = 0 /\ Hit(Executor, w) \in Nat
    BY <1>1, NoWakerAssumption DEF Hit, Owned, Waker
  <2> QED
    BY <2>2, <2>3
<1>5. ClonesAreCounted'
  <2>1. \A a \in Shared : SharedWaker(a) \in Owned /\ Hit(Executor, SharedWaker(a)) = 0
    BY DEF Owned, Hit, Executor, SharedWaker
  <2>2. Hit(Executor, Executor) = 1
    BY DEF Hit
  <2>3. clones' = OwnersOf(Executor)'
    BY <1>1, <1>4, <2>2 DEF ClonesAreCounted, CloneExecutor
  <2>4. \A a \in Shared : OwnersOf(SharedWaker(a))' = OwnersOf(SharedWaker(a))
    BY <1>4, <2>1
  <2>5. \A a \in Shared : strong'[a] = OwnersOf(SharedWaker(a))'
    BY <2>4 DEF ClonesAreCounted, CloneExecutor
  <2> QED
    BY <2>3, <2>5 DEF ClonesAreCounted
<1> QED
  BY <1>2, <1>3, <1>5 DEF CloneExecutor, PollsLead, Counted, Grounded

LEMMA CloneSharedKeeps ==
  ASSUME WakersInv, CloneShared
  PROVE  WakersInv'
<1> USE DEF WakersInv
<1>1. PICK a \in Shared : cloning.of = SharedWaker(a)
  BY NoWakerAssumption DEF CloneShared, WakerTypes, Waker, Executor, OverPoll
<1>2. /\ SharedWaker(a) # NoWaker /\ "clone" \in Hand
      /\ hand["clone"] = NoWaker /\ SharedWaker(a) \in Owned /\ SharedWaker(a).at = a
  BY <1>1, NoWakerAssumption DEF CloneShared, ClonesBorrow, Owned, Waker, Hand, SharedWaker
<1>3. \E s \in Slot : kept[s] = SharedWaker(a)
  <2>1. SharedWaker(a) # Executor /\ \A n \in Int : SharedWaker(a) # OverPoll(n)
    BY DEF SharedWaker, Executor, OverPoll
  <2>2. SharedWaker(a) # Current
    BY <2>1 DEF Current, WakerTypes
  <2>3. \A n \in DOMAIN polls : n \in Int
    BY DEF WakerTypes
  <2>4. SharedWaker(a) \in {Executor} \cup AtHand \cup Borrowed
    BY <1>1, <1>2 DEF ClonesBorrow
  <2> QED
    BY <2>1, <2>2, <2>3, <2>4 DEF AtHand, Borrowed, PollsLead, Kept
<1>4. strong[a] > 0 /\ over[a] # NoWaker
  BY <1>3, OwnedLives DEF Counted
<1>5. strong' = [strong EXCEPT ![a] = @ + 1] /\ hand' = [hand EXCEPT !["clone"] = SharedWaker(a)]
  BY <1>1, <1>2 DEF CloneShared
<1> cloning' = [of |-> NoWaker, arcs |-> cloning.arcs, slot |-> cloning.slot]
  BY CloningType DEF CloneShared
<1>6. WakerTypes'
  <2>1. cloning' \in [of : Waker \cup {NoWaker}, arcs : Nat, slot : Slot \cup {NoWaker}]
    BY CloningType
  <2>2. strong' \in [Shared -> Nat] /\ hand' \in [Hand -> Owned \cup {NoWaker}]
    BY <1>2, <1>5 DEF WakerTypes
  <2> QED
    BY <2>1, <2>2 DEF CloneShared, WakerTypes
<1>7. ClonesBorrow'
  BY <1>1, <1>2, <1>6 DEF CloneShared, ClonesBorrow, WakerTypes, Kept
<1>8. \A w \in Owned : OwnersOf(w) \in Nat /\ OwnersOf(w)' = OwnersOf(w) + Hit(SharedWaker(a), w)
  <2>1. SUFFICES ASSUME NEW w \in Owned
                 PROVE  OwnersOf(w) \in Nat /\ OwnersOf(w)' = OwnersOf(w) + Hit(SharedWaker(a), w)
    OBVIOUS
  <2>2. OwnersOf(w) \in Nat /\ OwnersOf(w)' = OwnersOf(w) - Hit(hand["clone"], w) + Hit(SharedWaker(a), w)
    <3>1. UNCHANGED <<kept, over>>
      BY DEF CloneShared
    <3> QED
      BY <1>2, <1>5, <3>1, HandStep
  <2>3. Hit(hand["clone"], w) = 0 /\ Hit(SharedWaker(a), w) \in Nat
    BY <1>2, NoWakerAssumption DEF Hit, Owned, Waker
  <2> QED
    BY <2>2, <2>3
<1>9. ClonesAreCounted'
  <2>1. Hit(SharedWaker(a), Executor) = 0 /\ Executor \in Owned
    BY DEF Owned, Hit, Executor, SharedWaker
  <2>2. clones' = OwnersOf(Executor)'
    BY <1>8, <2>1 DEF ClonesAreCounted, CloneShared
  <2>3. ASSUME NEW b \in Shared PROVE strong'[b] = OwnersOf(SharedWaker(b))'
    <3>1. SharedWaker(b) \in Owned /\ Hit(SharedWaker(a), SharedWaker(b)) = IF a = b THEN 1 ELSE 0
      BY DEF Owned, Hit, SharedWaker
    <3>2. strong'[b] = IF a = b THEN strong[b] + 1 ELSE strong[b]
      BY <1>5 DEF WakerTypes
    <3>3. strong[b] = OwnersOf(SharedWaker(b)) /\ strong[b] \in Nat
      BY DEF ClonesAreCounted, WakerTypes
    <3> QED
      BY <1>8, <3>1, <3>2, <3>3
  <2> QED
    BY <2>2, <2>3 DEF ClonesAreCounted
<1>10. \A b \in Shared : strong'[b] > 0 <=> strong[b] > 0
  BY <1>4, <1>5 DEF WakerTypes
<1>11. Counted' /\ Grounded'
  BY <1>10 DEF CloneShared, Counted, Grounded
<1> QED
  BY <1>6, <1>7, <1>9, <1>11 DEF CloneShared, PollsLead

LEMMA ClonedKeeps ==
  ASSUME WakersInv, Cloned
  PROVE  WakersInv'
<1> USE DEF WakersInv
<1> DEFINE v == hand["clone"]
           s == cloning.slot
<1>1. v \in Owned /\ v # NoWaker /\ s \in Slot /\ kept[s] = NoWaker /\ "clone" \in Hand
  BY DEF Cloned, WakerTypes, ClonesBorrow, Kept, Hand
<1>2. kept' = [kept EXCEPT ![s] = v] /\ hand' = [hand EXCEPT !["clone"] = NoWaker] /\ cloning' = NoClone
  BY DEF Cloned
<1> HIDE DEF s
<1>3. WakerTypes'
  BY <1>1, <1>2 DEF Cloned, WakerTypes, NoClone
<1>4. PollsLead'
  <2>1. \A r \in Slot : kept[r] # NoWaker => kept'[r] = kept[r]
    BY <1>1, <1>2 DEF WakerTypes
  <2>2. \A n \in DOMAIN polls : polls[n] # NoWaker
    BY NoWakerAssumption, ElementOfSeq DEF WakerTypes
  <2> QED
    BY <2>1, <2>2 DEF Cloned, PollsLead
<1>5. ClonesBorrow'
  BY <1>1, <1>2, <1>3 DEF ClonesBorrow, NoClone, WakerTypes
<1>6. ASSUME NEW w \in Owned PROVE OwnersOf(w)' = OwnersOf(w)
  <2>1. w # NoWaker
    BY NoWakerAssumption DEF Owned, Waker
  <2>2. s \in DOMAIN kept /\ "clone" \in DOMAIN hand
    BY <1>1 DEF WakerTypes
  <2>f. IsFiniteSet(DOMAIN kept) /\ IsFiniteSet(DOMAIN hand)
    BY OwnersType
  <2>3. Cardinality(Holding([kept EXCEPT ![s] = v], w)) = Cardinality(Holding(kept, w)) - Hit(kept[s], w) + Hit(v, w)
    BY <2>2, <2>f, HoldingStep
  <2>4. Cardinality(Holding([hand EXCEPT !["clone"] = NoWaker], w)) = Cardinality(Holding(hand, w)) - Hit(v, w) + Hit(NoWaker, w)
    BY <2>2, <2>f, HoldingStep
  <2>5. Hit(kept[s], w) = 0 /\ Hit(NoWaker, w) = 0 /\ Hit(v, w) \in Nat
    BY <1>1, <2>1 DEF Hit
  <2>6. Holding(over', w) = Holding(over, w)
    BY DEF Cloned
  <2> QED
    BY <1>2, <2>3, <2>4, <2>5, <2>6, OwnersType DEF OwnersOf
<1>7. ClonesAreCounted'
  BY <1>6 DEF Cloned, ClonesAreCounted, Owned
<1> QED
  BY <1>3, <1>4, <1>5, <1>7 DEF Cloned, Counted, Grounded

LEMMA MakeArcKeeps ==
  ASSUME WakersInv, MakeArc
  PROVE  WakersInv'
<1> USE DEF WakersInv
<1>1. PICK a \in Unallocated : /\ strong' = [strong EXCEPT ![a] = 1]
                              /\ over' = [over EXCEPT ![a] = hand["clone"]]
                              /\ hand' = [hand EXCEPT !["clone"] = SharedWaker(a)]
  BY DEF MakeArc
<1> DEFINE v == hand["clone"]
           u == SharedWaker(a)
<1>2. /\ v \in Owned /\ v # NoWaker /\ u \in Owned /\ u # NoWaker /\ "clone" \in Hand
      /\ a \in Shared /\ strong[a] = 0 /\ over[a] = NoWaker
  BY NoWakerAssumption DEF MakeArc, WakerTypes, Unallocated, Counted, Owned, Waker, Hand
<1>3. \A b \in Shared : over[b] # u /\ v # u
  BY <1>2, OwnedLives
<1>4. cloning' = [of |-> cloning.of, arcs |-> cloning.arcs - 1, slot |-> cloning.slot]
  BY CloningType DEF MakeArc
<1>5. WakerTypes'
  <2>1. cloning' \in [of : Waker \cup {NoWaker}, arcs : Nat, slot : Slot \cup {NoWaker}]
    BY <1>4, CloningType DEF MakeArc
  <2>2. /\ strong' \in [Shared -> Nat] /\ over' \in [Shared -> Owned \cup {NoWaker}]
        /\ hand' \in [Hand -> Owned \cup {NoWaker}]
    BY <1>1, <1>2 DEF WakerTypes
  <2> QED
    BY <2>1, <2>2 DEF MakeArc, WakerTypes
<1>6. ClonesBorrow'
  <2>1. cloning.of = NoWaker /\ hand'["clone"] = u /\ cloning'.of = cloning.of /\ cloning'.slot = cloning.slot
    BY <1>1, <1>2, <1>4 DEF ClonesBorrow, WakerTypes
  <2> QED
    BY <1>2, <2>1 DEF ClonesBorrow, Kept, MakeArc
<1>7. ASSUME NEW w \in Owned PROVE OwnersOf(w) \in Nat /\ OwnersOf(w)' = OwnersOf(w) + Hit(u, w)
  <2>1. w # NoWaker
    BY NoWakerAssumption DEF Owned, Waker
  <2>2. a \in DOMAIN over /\ "clone" \in DOMAIN hand /\ IsFiniteSet(DOMAIN over) /\ IsFiniteSet(DOMAIN hand)
    BY <1>2, OwnersType DEF WakerTypes
  <2>3. Cardinality(Holding([over EXCEPT ![a] = v], w)) = Cardinality(Holding(over, w)) - Hit(over[a], w) + Hit(v, w)
    BY <2>2, HoldingStep
  <2>4. Cardinality(Holding([hand EXCEPT !["clone"] = u], w)) = Cardinality(Holding(hand, w)) - Hit(v, w) + Hit(u, w)
    BY <2>2, HoldingStep
  <2>5. Hit(over[a], w) = 0 /\ Hit(v, w) \in Nat /\ Hit(u, w) \in Nat
    BY <1>2, <2>1 DEF Hit
  <2>6. Holding(kept', w) = Holding(kept, w)
    BY DEF MakeArc
  <2> QED
    BY <1>1, <2>3, <2>4, <2>5, <2>6, OwnersType DEF OwnersOf
<1>8. ClonesAreCounted'
  <2>1. Hit(u, Executor) = 0 /\ Executor \in Owned
    BY DEF Owned, Hit, Executor, SharedWaker
  <2>2. clones' = OwnersOf(Executor)'
    BY <1>7, <2>1 DEF ClonesAreCounted, MakeArc
  <2>3. ASSUME NEW b \in Shared PROVE strong'[b] = OwnersOf(SharedWaker(b))'
    <3>1. SharedWaker(b) \in Owned /\ Hit(u, SharedWaker(b)) = IF a = b THEN 1 ELSE 0
      BY DEF Owned, Hit, SharedWaker
    <3>2. strong'[b] = IF a = b THEN 1 ELSE strong[b]
      BY <1>1, <1>2 DEF WakerTypes
    <3>3. strong[b] = OwnersOf(SharedWaker(b)) /\ strong[b] \in Nat
      BY DEF ClonesAreCounted, WakerTypes
    <3> QED
      BY <1>2, <1>7, <3>1, <3>2, <3>3
  <2> QED
    BY <2>2, <2>3 DEF ClonesAreCounted
<1>9. \A b \in Shared : /\ strong'[b] = IF b = a THEN 1 ELSE strong[b]
                        /\ over'[b] = IF b = a THEN v ELSE over[b]
                        /\ strong[b] \in Nat /\ (strong[b] > 0 <=> over[b] # NoWaker)
  <2>1. \A b \in Shared : strong[b] \in Nat /\ (strong[b] > 0 <=> over[b] # NoWaker)
    BY DEF WakerTypes, Counted
  <2>2. \A b \in Shared : strong'[b] = IF b = a THEN 1 ELSE strong[b]
    BY <1>1, <1>2 DEF WakerTypes
  <2>3. \A b \in Shared : over'[b] = IF b = a THEN v ELSE over[b]
    BY <1>1, <1>2 DEF WakerTypes
  <2> QED
    BY <2>1, <2>2, <2>3
<1>10. Counted'
  <2>1. ASSUME NEW b \in Shared PROVE strong'[b] > 0 <=> over'[b] # NoWaker
    BY <1>2, <1>9
  <2> QED
    BY <2>1 DEF Counted
<1>11. Grounded'
  <2>1. SUFFICES ASSUME NEW A \in SUBSET {b \in Shared : strong'[b] > 0}, A # {}
                 PROVE  \E b \in A : \A c \in A : over'[b] # SharedWaker(c)
    BY DEF Grounded
  <2> DEFINE R == A \ {a}
  <2>2. R \in SUBSET {b \in Shared : strong[b] > 0}
    <3>1. \A b \in R : b \in Shared /\ strong'[b] > 0
      BY <2>1
    <3>2. \A b \in R : strong[b] > 0
      BY <1>9, <3>1
    <3> QED
      BY <3>1, <3>2
  <2>3. CASE R = {}
    <3>1. A = {a}
      BY <2>1, <2>3
    <3> QED
      <4>1. over'[a] = v /\ v # SharedWaker(a)
        BY <1>2, <1>3, <1>9
      <4> QED
        BY <3>1, <4>1
  <2>4. CASE R # {}
    <3>1. PICK b \in R : \A c \in R : over[b] # SharedWaker(c)
      BY <2>2, <2>4 DEF Grounded
    <3>2. b \in Shared /\ b # a /\ b \in A
      BY <2>2
    <3>3. over'[b] = over[b] /\ over[b] # u
      BY <1>3, <1>9, <3>2
    <3> QED
      BY <3>1, <3>2, <3>3
  <2> QED
    BY <2>3, <2>4
<1> QED
  BY <1>5, <1>6, <1>8, <1>10, <1>11 DEF MakeArc, PollsLead

LEMMA LetGoKeeps ==
  ASSUME WakersInv, NEW s \in Slot, LetGo(s)
  PROVE  WakersInv'
<1> USE DEF WakersInv
<1> DEFINE v == kept[s]
<1>1. v \in Owned /\ v # NoWaker /\ hand["drop"] = NoWaker /\ "drop" \in Hand
  BY DEF LetGo, WakerTypes, Kept, Hand
<1>2. /\ kept' = [kept EXCEPT ![s] = NoWaker] /\ hand' = [hand EXCEPT !["drop"] = v]
      /\ UNCHANGED <<polls, clones, strong, over, cloning>>
  BY DEF LetGo
<1>3. v \in (Borrowed \cup {cloning.of}) \ {Executor} => \E r \in Kept \ {s} : kept[r] = v
  BY DEF LetGo
<1>4. kept'[s] = NoWaker /\ \A r \in Slot \ {s} : kept'[r] = kept[r]
  BY <1>2 DEF WakerTypes
<1>5. WakerTypes'
  BY <1>1, <1>2 DEF WakerTypes
<1>6. PollsLead'
  <2>1. ASSUME NEW n \in DOMAIN polls, NEW r \in Slot, kept[r] = polls[n]
        PROVE  polls[n] = Executor \/ \E t \in Slot : kept'[t] = polls[n]
    <3>1. polls[n] \in Borrowed
      BY DEF Borrowed
    <3>2. CASE r = s
      BY <1>3, <1>4, <2>1, <3>1, <3>2 DEF Kept
    <3> QED
      BY <1>4, <2>1, <3>2
  <2> QED
    BY <1>2, <2>1 DEF PollsLead
<1>7. ClonesBorrow'
  <2>1. ASSUME cloning.of # NoWaker PROVE cloning.of \in {Executor} \cup AtHand' \cup Borrowed'
    <3>1. CASE cloning.of \in {Executor, Current} \cup Borrowed
      BY <1>2, <3>1 DEF AtHand, Borrowed, Current
    <3>2. ASSUME NEW r \in Kept, kept[r] = cloning.of, cloning.of # Executor
          PROVE  cloning.of \in AtHand'
      <4>1. \E t \in Kept \ {s} : kept[t] = cloning.of
        BY <1>3, <3>2
      <4>2. \A t \in Kept \ {s} : kept'[t] = kept[t] /\ t \in Kept'
        BY <1>4 DEF Kept
      <4> QED
        BY <4>1, <4>2 DEF AtHand
    <3> QED
      BY <2>1, <3>1, <3>2 DEF ClonesBorrow, AtHand
  <2>2. hand'["clone"] = hand["clone"] /\ Kept' \subseteq Kept
    BY <1>2, <1>4 DEF Kept, WakerTypes, Hand
  <2> QED
    BY <1>2, <2>1, <2>2 DEF ClonesBorrow, NoClone
<1>8. ASSUME NEW w \in Owned PROVE OwnersOf(w)' = OwnersOf(w)
  <2>1. w # NoWaker
    BY NoWakerAssumption DEF Owned, Waker
  <2>2. s \in DOMAIN kept /\ "drop" \in DOMAIN hand /\ IsFiniteSet(DOMAIN kept) /\ IsFiniteSet(DOMAIN hand)
    BY <1>1, OwnersType DEF WakerTypes
  <2>3. Cardinality(Holding([kept EXCEPT ![s] = NoWaker], w)) = Cardinality(Holding(kept, w)) - Hit(v, w) + Hit(NoWaker, w)
    BY <2>2, HoldingStep
  <2>4. Cardinality(Holding([hand EXCEPT !["drop"] = v], w)) = Cardinality(Holding(hand, w)) - Hit(hand["drop"], w) + Hit(v, w)
    BY <2>2, HoldingStep
  <2>5. Hit(hand["drop"], w) = 0 /\ Hit(NoWaker, w) = 0 /\ Hit(v, w) \in Nat
    BY <1>1, <2>1 DEF Hit
  <2>6. Holding(over', w) = Holding(over, w)
    BY <1>2
  <2> QED
    BY <1>2, <2>3, <2>4, <2>5, <2>6, OwnersType DEF OwnersOf
<1>9. ClonesAreCounted'
  BY <1>2, <1>8 DEF ClonesAreCounted, Owned
<1> QED
  BY <1>2, <1>5, <1>6, <1>7, <1>9 DEF Counted, Grounded

LEMMA DropExecutorKeeps ==
  ASSUME WakersInv, DropExecutor
  PROVE  WakersInv'
<1> USE DEF WakersInv
<1>1. hand["drop"] = Executor /\ Executor # NoWaker /\ "drop" \in Hand
  BY NoWakerAssumption DEF DropExecutor, Waker, Hand
<1>2. WakerTypes'
  BY <1>1 DEF DropExecutor, WakerTypes
<1>3. ClonesBorrow'
  <2>1. hand'["clone"] = hand["clone"]
    BY DEF DropExecutor, WakerTypes, Hand
  <2> QED
    BY <2>1 DEF DropExecutor, ClonesBorrow, NoClone, Kept, AtHand, Borrowed, Current
<1>4. ASSUME NEW w \in Owned PROVE OwnersOf(w) \in Nat /\ OwnersOf(w)' = OwnersOf(w) - Hit(Executor, w)
  <2>1. OwnersOf(w) \in Nat /\ OwnersOf(w)' = OwnersOf(w) - Hit(hand["drop"], w) + Hit(NoWaker, w)
    BY <1>1, HandStep DEF DropExecutor
  <2>2. Hit(NoWaker, w) = 0 /\ Hit(Executor, w) \in Nat
    BY NoWakerAssumption DEF Hit, Owned, Waker
  <2> QED
    BY <1>1, <2>1, <2>2
<1>5. ClonesAreCounted'
  <2>1. \A a \in Shared : SharedWaker(a) \in Owned /\ Hit(Executor, SharedWaker(a)) = 0
    BY DEF Owned, Hit, Executor, SharedWaker
  <2>2. Hit(Executor, Executor) = 1 /\ Executor \in Owned
    BY DEF Hit, Owned
  <2>3. clones' = OwnersOf(Executor)'
    BY <1>4, <2>2 DEF ClonesAreCounted, DropExecutor
  <2>4. \A a \in Shared : OwnersOf(SharedWaker(a))' = OwnersOf(SharedWaker(a))
    BY <1>4, <2>1
  <2> QED
    BY <2>3, <2>4 DEF ClonesAreCounted, DropExecutor
<1> QED
  BY <1>2, <1>3, <1>5 DEF DropExecutor, PollsLead, Counted, Grounded

LEMMA DropSharedKeeps ==
  ASSUME WakersInv, DropShared
  PROVE  WakersInv'
<1> USE DEF WakersInv
<1>1. PICK a \in Shared : hand["drop"] = SharedWaker(a)
  BY DEF DropShared, WakerTypes, Owned, Executor, Hand
<1> DEFINE u == SharedWaker(a)
           x == IF strong[a] = 1 THEN over[a] ELSE NoWaker
<1>2. /\ u \in Owned /\ u # NoWaker /\ u.at = a /\ "drop" \in Hand /\ strong[a] > 0
      /\ over[a] \in Owned /\ over[a] # NoWaker /\ strong[a] \in Nat
  <2>1. u.at = a /\ u \in Owned
    BY DEF SharedWaker, Owned
  <2>2. u # NoWaker
    BY <2>1, NoWakerAssumption DEF Owned, Waker
  <2>3. "drop" \in Hand
    BY DEF Hand
  <2>4. strong[a] > 0
    BY <1>1, <2>3, OwnedLives
  <2> QED
    BY <2>1, <2>2, <2>3, <2>4 DEF Counted, WakerTypes
<1>3. /\ strong' = [strong EXCEPT ![a] = strong[a] - 1]
      /\ over' = IF strong[a] = 1 THEN [over EXCEPT ![a] = NoWaker] ELSE over
      /\ hand' = [hand EXCEPT !["drop"] = x]
      /\ UNCHANGED <<polls, clones, kept, cloning>>
  BY <1>1, <1>2 DEF DropShared
<1> HIDE DEF u
<1>4. x \in Owned \cup {NoWaker}
  BY <1>2
<1>5. WakerTypes'
  <2>1. strong' \in [Shared -> Nat]
    BY <1>2, <1>3 DEF WakerTypes
  <2>2. over' \in [Shared -> Owned \cup {NoWaker}] /\ hand' \in [Hand -> Owned \cup {NoWaker}]
    BY <1>2, <1>3, <1>4 DEF WakerTypes
  <2> QED
    BY <1>3, <2>1, <2>2 DEF WakerTypes
<1>6. ClonesBorrow'
  <2>1. hand'["clone"] = hand["clone"]
    BY <1>3 DEF WakerTypes, Hand
  <2> QED
    BY <1>3, <2>1 DEF ClonesBorrow, NoClone, Kept, AtHand, Borrowed, Current
<1>7. ASSUME NEW w \in Owned PROVE OwnersOf(w) \in Nat /\ OwnersOf(w)' = OwnersOf(w) - Hit(u, w)
  <2>1. w # NoWaker
    BY NoWakerAssumption DEF Owned, Waker
  <2>2. a \in DOMAIN over /\ "drop" \in DOMAIN hand /\ IsFiniteSet(DOMAIN over) /\ IsFiniteSet(DOMAIN hand)
    BY <1>2, OwnersType DEF WakerTypes
  <2>3. Cardinality(Holding([over EXCEPT ![a] = NoWaker], w)) = Cardinality(Holding(over, w)) - Hit(over[a], w) + Hit(NoWaker, w)
    BY <2>2, HoldingStep
  <2>4. Cardinality(Holding([hand EXCEPT !["drop"] = x], w)) = Cardinality(Holding(hand, w)) - Hit(u, w) + Hit(x, w)
    <3>1. PICK y : y = x
      OBVIOUS
    <3>2. Cardinality(Holding([hand EXCEPT !["drop"] = y], w)) = Cardinality(Holding(hand, w)) - Hit(hand["drop"], w) + Hit(y, w)
      BY <2>2, HoldingStep
    <3> QED
      BY <1>1, <3>1, <3>2 DEF u
  <2>5. Hit(NoWaker, w) = 0 /\ Hit(over[a], w) \in Nat /\ Hit(u, w) \in Nat
    BY <2>1 DEF Hit
  <2>6. Holding(kept', w) = Holding(kept, w)
    BY <1>3
  <2>7. CASE strong[a] = 1
    BY <1>3, <2>3, <2>4, <2>5, <2>6, <2>7, OwnersType DEF OwnersOf
  <2>8. CASE strong[a] # 1
    BY <1>3, <2>4, <2>5, <2>6, <2>8, OwnersType DEF OwnersOf
  <2> QED
    BY <2>7, <2>8
<1>8. ClonesAreCounted'
  <2>1. Hit(u, Executor) = 0 /\ Executor \in Owned
    BY DEF Owned, Hit, Executor, SharedWaker, u
  <2>2. clones' = OwnersOf(Executor)'
    BY <1>3, <1>7, <2>1 DEF ClonesAreCounted
  <2>3. ASSUME NEW b \in Shared PROVE strong'[b] = OwnersOf(SharedWaker(b))'
    <3>1. SharedWaker(b) \in Owned /\ Hit(u, SharedWaker(b)) = IF a = b THEN 1 ELSE 0
      BY DEF Owned, Hit, SharedWaker, u
    <3>2. strong'[b] = IF a = b THEN strong[b] - 1 ELSE strong[b]
      BY <1>3 DEF WakerTypes
    <3>3. strong[b] = OwnersOf(SharedWaker(b)) /\ strong[b] \in Nat
      BY DEF ClonesAreCounted, WakerTypes
    <3> QED
      BY <1>7, <3>1, <3>2, <3>3
  <2> QED
    BY <2>2, <2>3 DEF ClonesAreCounted
<1>9. \A b \in Shared : /\ strong'[b] = IF b = a THEN strong[b] - 1 ELSE strong[b]
                        /\ over'[b] = IF b = a /\ strong[a] = 1 THEN NoWaker ELSE over[b]
                        /\ strong[b] \in Nat /\ (strong[b] > 0 <=> over[b] # NoWaker)
  <2>1. \A b \in Shared : strong[b] \in Nat /\ (strong[b] > 0 <=> over[b] # NoWaker)
    BY DEF WakerTypes, Counted
  <2>2. \A b \in Shared : strong'[b] = IF b = a THEN strong[b] - 1 ELSE strong[b]
    BY <1>3 DEF WakerTypes
  <2>3. \A b \in Shared : over'[b] = IF b = a /\ strong[a] = 1 THEN NoWaker ELSE over[b]
    BY <1>3 DEF WakerTypes
  <2> QED
    BY <2>1, <2>2, <2>3
<1>10. Counted'
  <2>1. ASSUME NEW b \in Shared PROVE strong'[b] > 0 <=> over'[b] # NoWaker
    BY <1>2, <1>9
  <2> QED
    BY <2>1 DEF Counted
<1>11. Grounded'
  <2>1. \A b \in Shared : strong'[b] > 0 => strong[b] > 0 /\ over'[b] = over[b]
    <3>1. ASSUME NEW b \in Shared, strong'[b] > 0 PROVE strong[b] > 0 /\ over'[b] = over[b]
      BY <1>2, <1>9, <3>1
    <3> QED
      BY <3>1
  <2>2. ASSUME NEW A \in SUBSET {b \in Shared : strong'[b] > 0}, A # {}
        PROVE  \E b \in A : \A c \in A : over'[b] # SharedWaker(c)
    <3>1. A \in SUBSET {b \in Shared : strong[b] > 0}
      BY <2>1
    <3>2. PICK b \in A : \A c \in A : over[b] # SharedWaker(c)
      BY <2>2, <3>1 DEF Grounded
    <3>3. over'[b] = over[b]
      BY <2>1
    <3> QED
      BY <3>2, <3>3
  <2> QED
    BY <2>2 DEF Grounded
<1> QED
  BY <1>3, <1>5, <1>6, <1>8, <1>10, <1>11 DEF PollsLead

LEMMA WakersKeep ==
  ASSUME WakersInv, WakersNext
  PROVE  WakersInv'
<1>1. ASSUME NEW w \in AtHand, Poll(w) PROVE WakersInv'
  BY <1>1, PollKeeps
<1>2. ASSUME NEW w \in AtHand, NEW s \in Slot, Keep(w, s) PROVE WakersInv'
  BY <1>2, KeepKeeps
<1>3. ASSUME NEW s \in Slot, LetGo(s) PROVE WakersInv'
  BY <1>3, LetGoKeeps
<1> QED
  BY <1>1, <1>2, <1>3, PolledKeeps, CloneBorrowedKeeps, CloneExecutorKeeps, CloneSharedKeeps,
     MakeArcKeeps, ClonedKeeps, DropExecutorKeeps, DropSharedKeeps DEF WakersNext

\* A set of natural numbers has a least one.
LEMMA LeastOf ==
  ASSUME NEW S \in SUBSET Nat, S # {}
  PROVE  \E m \in S : \A n \in S : m <= n
<1> DEFINE R == {ss \in Nat \X Nat : ss[1] < ss[2]}
<1>1. IsWellFoundedOn(R, Nat)
  BY NatLessThanWellFounded DEF OpToRel
<1>2. PICK m \in S : \A n \in S : ~(<<n, m>> \in R)
  <2> HIDE DEF R
  <2>1. S \subseteq Nat
    OBVIOUS
  <2> QED
    BY <1>1, <2>1, WFMin
<1>3. \A n \in S : ~(n < m)
  BY <1>2
<1> QED
  BY <1>3

LEMMA WakersLead == WakersInv => WakersWake
<1> SUFFICES ASSUME WakersInv, NEW W \in SUBSET Waker, Executor \in W,
                    \A w \in Waker : Lives(w) /\ Under(w) \in W => w \in W
             PROVE  AtHand \cup Borrowed \subseteq W
  BY DEF WakersWake
<1> USE DEF WakersInv
<1>1. ASSUME NEW a \in Shared, strong[a] > 0 PROVE SharedWaker(a) \in W
  <2> DEFINE A == {b \in Shared : strong[b] > 0 /\ SharedWaker(b) \notin W}
  <2>1. SUFFICES ASSUME A # {} PROVE FALSE
    BY <1>1
  <2>2. A \in SUBSET {b \in Shared : strong[b] > 0}
    OBVIOUS
  <2>3. PICK b \in A : \A c \in A : over[b] # SharedWaker(c)
    <3> HIDE DEF A
    <3> QED
      BY <2>1, <2>2 DEF Grounded
  <2>4. b \in Shared /\ strong[b] > 0 /\ SharedWaker(b) \notin W
    BY <2>3
  <2>5. over[b] \in Owned
    BY <2>4 DEF Counted, WakerTypes
  <2>6. over[b] \in W
    <3>1. CASE over[b] = Executor
      BY <3>1
    <3>2. ASSUME NEW c \in Shared, over[b] = SharedWaker(c) PROVE over[b] \in W
      <4>1. strong[c] > 0
        BY <2>4, <3>2, OwnedLives
      <4>2. c \notin A
        BY <2>3, <3>2
      <4> QED
        BY <3>2, <4>1, <4>2
    <3> QED
      BY <2>5, <3>1, <3>2 DEF Owned
  <2>7. Lives(SharedWaker(b)) /\ Under(SharedWaker(b)) = over[b] /\ SharedWaker(b) \in Waker
    BY <2>4 DEF Lives, Under, SharedWaker, Waker
  <2> QED
    BY <2>4, <2>6, <2>7
<1>2. \A s \in Slot : kept[s] # NoWaker => kept[s] \in W
  <2>1. ASSUME NEW s \in Slot, NEW a \in Shared, kept[s] = SharedWaker(a) PROVE kept[s] \in W
    BY <1>1, <2>1, OwnedLives
  <2> QED
    BY <2>1 DEF WakerTypes, Owned
<1>3. Len(polls) \in Nat /\ DOMAIN polls = 1 .. Len(polls) /\ Len(polls) <= Depth
      /\ \A n \in DOMAIN polls : polls[n] \in Waker
  <2>1. polls \in Seq(Waker)
    BY DEF WakerTypes
  <2> QED
    BY <2>1, ElementOfSeq DEF WakerTypes
<1>4. ASSUME NEW n \in DOMAIN polls, n > 1 => OverPoll(n - 1) \in W PROVE polls[n] \in W
  <2>1. polls[n] # NoWaker
    BY <1>3, NoWakerAssumption
  <2> QED
    BY <1>2, <1>4, <2>1 DEF PollsLead
<1>5. ASSUME NEW n \in DOMAIN polls, polls[n] \in W PROVE OverPoll(n) \in W
  <2>1. n \in 1 .. Depth
    BY <1>3, DepthAssumption
  <2>2. OverPoll(n) \in Waker
    BY <2>1 DEF Waker
  <2>3. Lives(OverPoll(n)) /\ Under(OverPoll(n)) = polls[n]
    BY DEF Lives, Under, OverPoll
  <2> QED
    BY <1>5, <2>2, <2>3
<1>6. \A n \in DOMAIN polls : OverPoll(n) \in W
  <2> DEFINE S == {n \in DOMAIN polls : OverPoll(n) \notin W}
  <2>1. SUFFICES ASSUME S # {} PROVE FALSE
    OBVIOUS
  <2>2. S \in SUBSET Nat
    BY <1>3
  <2>3. PICK m \in S : \A n \in S : m <= n
    <3> HIDE DEF S
    <3> QED
      BY <2>1, <2>2, LeastOf
  <2>4. m \in DOMAIN polls /\ m \in 1 .. Len(polls) /\ OverPoll(m) \notin W
    BY <1>3, <2>3
  <2>5. m > 1 => OverPoll(m - 1) \in W
    <3>1. ASSUME m > 1 PROVE m - 1 \in DOMAIN polls /\ ~(m <= m - 1)
      BY <1>3, <2>4, <3>1
    <3> QED
      BY <2>3, <3>1
  <2> QED
    BY <1>4, <1>5, <2>4, <2>5
<1>7. Borrowed \subseteq W
  <2>1. ASSUME NEW n \in DOMAIN polls PROVE polls[n] \in W
    <3>1. n > 1 => n - 1 \in DOMAIN polls
      BY <1>3
    <3> QED
      BY <1>4, <1>6, <3>1
  <2> QED
    BY <2>1 DEF Borrowed
<1>8. Current \in W
  <2>1. polls # << >> => Len(polls) \in DOMAIN polls
    <3>1. polls \in Seq(Waker)
      BY DEF WakerTypes
    <3>2. polls # << >> => Len(polls) > 0
      BY <3>1, EmptySeq
    <3> QED
      BY <1>3, <3>2
  <2> QED
    BY <1>6, <2>1 DEF Current
<1> QED
  BY <1>2, <1>7, <1>8 DEF AtHand, Kept

-----------------------------------------------------------------------------
(* Linking *)

\* The parts go on by themselves, and the checker answers for the link there is.
LinkInv ==
  /\ ImportInv /\ link \in Link /\ compatible = IsCompatible(link.loaded, link.local)
  /\ ObjectsInv /\ WakersInv

LEMMA SameImport == ImportInv /\ UNCHANGED vars => ImportInv'
BY NextImport

LEMMA SameWakers == WakersInv /\ UNCHANGED wakers => WakersInv'
<1> SUFFICES ASSUME WakersInv, UNCHANGED wakers PROVE WakersInv'
  OBVIOUS
<1>1. /\ polls' = polls /\ clones' = clones /\ strong' = strong /\ over' = over /\ kept' = kept
      /\ cloning' = cloning /\ hand' = hand
  BY DEF wakers
<1>2. \A w : OwnersOf(w)' = OwnersOf(w)
  BY <1>1 DEF OwnersOf, Holding
<1>3. ClonesAreCounted'
  BY <1>1, <1>2 DEF WakersInv, ClonesAreCounted
<1>4. AtHand' = AtHand /\ Borrowed' = Borrowed /\ Kept' = Kept
  BY <1>1 DEF AtHand, Current, Kept, Borrowed
<1>5. ClonesBorrow'
  BY <1>1, <1>4 DEF WakersInv, ClonesBorrow
<1>6. WakerTypes' /\ PollsLead' /\ Counted' /\ Grounded'
  BY <1>1 DEF WakersInv, WakerTypes, PollsLead, Counted, Grounded
<1> QED
  BY <1>3, <1>5, <1>6 DEF WakersInv

LEMMA SameChecker == Next => compatible' = compatible
BY DEF Next, Advance, Call, Load, Check, Lock, FailToLock, Write, Publish, Invalidate, Borrow, Report,
   Reach, Release, Drop, import

LEMMA InitLink == LinkInit => LinkInv
BY InitImport, InitObjects, InitWakers DEF LinkInit, LinkInv

LEMMA NextLink == LinkInv /\ [LinkNext]_linkVars => LinkInv'
<1> SUFFICES ASSUME LinkInv, [LinkNext]_linkVars PROVE LinkInv'
  OBVIOUS
<1>1. ImportInv /\ ObjectsInv /\ WakersInv /\ link \in Link /\ compatible = IsCompatible(link.loaded, link.local)
  BY DEF LinkInv
<1> HIDE DEF ImportInv, ObjectsInv, WakersInv
<1>2. link' = link
  BY DEF LinkNext, linkVars
<1>3. CASE Next /\ UNCHANGED <<objects, wakers>>
  BY <1>1, <1>2, <1>3, NextImport, SameChecker, SameObjects, SameWakers DEF LinkInv
<1>4. CASE ObjectsNext /\ UNCHANGED <<vars, wakers>>
  BY <1>1, <1>2, <1>4, ObjectsKeep, SameImport, SameWakers DEF LinkInv, vars, import
<1>5. CASE WakersNext /\ UNCHANGED <<vars, objects>>
  BY <1>1, <1>2, <1>5, WakersKeep, SameImport, SameObjects DEF LinkInv, vars, import
<1>6. CASE UNCHANGED <<vars, objects, wakers>>
  BY <1>1, <1>2, <1>6, SameImport, SameObjects, SameWakers DEF LinkInv, vars, import
<1> QED
  BY <1>3, <1>4, <1>5, <1>6 DEF LinkNext, linkVars

\* The invariant holds of every behaviour of the linked programs.
THEOREM LinkTheorem == LinkSpec => []LinkInv
BY InitLink, NextLink, PTL DEF LinkSpec

\* The value behind a trait object is destroyed once and as what it is, when its
\* last owner goes, and the clones of a waker are as many as its owners.
THEOREM DestroyedOnceTheorem == LinkSpec => []DestroyedOnce
<1>1. LinkInv => DestroyedOnce
  BY DEF LinkInv, ObjectsInv, WakersInv, DestroyedOnce
<1> QED
  BY <1>1, LinkTheorem, PTL

\* A reference is handed out for compatible reports only, which are the same if
\* they have the same places.
LEMMA ImportsLead == LinkInv => ImportedCalls
<1> SUFFICES ASSUME LinkInv, NEW t \in Thread, got[t] = "reference", SameShape(link.loaded, link.local)
             PROVE  link.loaded = link.local
  BY DEF ImportedCalls
<1>1. compatible
  BY DEF LinkInv, ImportInv, TypeOK, Lent, HasResult, Verdict
<1>2. IsCompatible(link.loaded, link.local) /\ IsReport(link.loaded) /\ IsReport(link.local)
  BY <1>1, LinkAssumption DEF LinkInv
<1> QED
  BY <1>2, SameShapeSame

\* The invariant from which it follows what is called.
CallsInv == LinkInv /\ AllLead /\ InterfacesInv

LEMMA InitCalls == LinkInit => CallsInv
BY InitLink, InitLead, InitInterfaces DEF LinkInit, CallsInv

LEMMA NextCalls ==
  ASSUME JustArcs, IdsTellLengths
  PROVE  CallsInv /\ [LinkNext]_linkVars => CallsInv'
<1> SUFFICES ASSUME CallsInv, [LinkNext]_linkVars PROVE CallsInv'
  OBVIOUS
<1>1. LinkInv /\ AllLead /\ InterfacesInv /\ ObjectsInv
  BY DEF CallsInv, LinkInv
<1>2. LinkInv'
  BY <1>1, NextLink
<1> HIDE DEF LinkInv, AllLead, InterfacesInv, ObjectsInv
<1>3. AllLead'
  <2>1. ObjectsNext \/ UNCHANGED objects
    BY DEF LinkNext, linkVars
  <2> QED
    BY <1>1, <2>1, AllLeadKeeps, SameLead
<1>4. InterfacesInv'
  <2>1. InterfacesNext \/ UNCHANGED handle
    BY DEF LinkNext, linkVars
  <2> QED
    BY <1>1, <2>1, InterfacesKeep, SameInterfaces
<1> QED
  BY <1>2, <1>3, <1>4 DEF CallsInv

\* Through a trait object, an interface, an import or a waker the caller reaches what
\* its declarations say, if try_as_mut is called on Arcs only and the IDs of tables
\* tell their lengths apart.
THEOREM CallsMatchTheorem ==
  ASSUME JustArcs, IdsTellLengths
  PROVE  LinkSpec => []CallsMatch
<1>1. LinkInit => CallsInv
  BY InitCalls
<1>2. CallsInv /\ [LinkNext]_linkVars => CallsInv'
  BY NextCalls
<1>3. CallsInv => CallsMatch
  BY ObjectsLead, InterfacesLead, ImportsLead, WakersLead DEF CallsInv, LinkInv, CallsMatch
<1> QED
  BY <1>1, <1>2, <1>3, PTL DEF LinkSpec
=============================================================================
