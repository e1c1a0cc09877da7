------------------------------ MODULE SumTypes ------------------------------
(***************************************************************************)
(* Result, and the enums made of it (stabby-abi/src/result.rs, option.rs   *)
(* and what #[repr(stabby)] generates): a value of one of several types,   *)
(* of which one is at a time in memory.  It is matched by reference or     *)
(* through guards, which may be nested, assigned to, cloned and moved.     *)
(*                                                                         *)
(* The variable `stored` has what was last put in memory, as the program   *)
(* means it; the code has only `mem`.                                      *)
(***************************************************************************)
EXTENDS Determinants

CONSTANTS
  Types,   \* the types that are looked at
  Depth    \* of each of them and of what it is made of: how many Results are in it

Parts == DOMAIN Depth

-----------------------------------------------------------------------------

\* The variants of an enum are split in two halves, again and again.
EnumOf(Ts) ==
  LET of[first \in DOMAIN Ts, last \in DOMAIN Ts] ==
        LET second == first + (last - first + 1) \div 2
        IN IF first = last THEN Ts[first]
           ELSE ResultOf(of[first, second - 1], of[second, last])
  IN of[1, Len(Ts)]

\* Results are made of types that are as the choice of a determinant relies on,
\* or of other Results.  Unless the larger variant is padded to the alignment of
\* both, there are Results with a determinant behind their end, or whose storage
\* is too short for their values.
IsPart(T) ==
  IF IsSum(T)
  THEN /\ {T.ok, T.err} \subseteq Parts /\ Depth[T.ok] < Depth[T] /\ Depth[T.err] < Depth[T]
       /\ T = ResultOf(T.ok, T.err)
       /\ Larger(T.ok.size, T.err.size) % Larger(T.ok.align, T.err.align) = 0
  ELSE Honest(T)

ASSUME TypesAssumption ==
  Depth \in [Parts -> Nat] /\ Types \subseteq Parts /\ \A T \in Parts : IsPart(T)

-----------------------------------------------------------------------------

VARIABLES
  type,     \* the type of the value, one of Types
  masks,    \* how this build reads a tag
  mem,      \* the bits of the storage that are one, and those undefined
  stored,   \* what these bits stand for
  guards,   \* of the Results that are matched and not released: where each is, and
            \* in which variant; outermost first
  polled,   \* the closure that the guards were given to has run
  yields    \* how often a MaybeResolved was ready

vars == <<type, masks, mem, stored, guards, polled, yields>>

Image(v) == [one |-> v.one, undef |-> v.undef]
Meaning(v) == [one |-> v.one \cap v.care, care |-> v.care, choices |-> v.choices]

Init ==
  /\ type \in Types /\ masks \in BOOLEAN
  /\ \E v \in type.vals : mem = Image(v) /\ stored = Meaning(v)
  /\ guards = <<>> /\ polled = FALSE /\ yields = 0

\* Where the innermost guard leads.
SwappedInside(place, ok) == \* mutant: each at the offset of the other
  [type |-> IF ok THEN place.type.ok ELSE place.type.err,
   at |-> place.at + IF ok THEN place.type.errAt ELSE place.type.okAt]

Inside(place, ok) ==
  [type |-> IF ok THEN place.type.ok ELSE place.type.err,
   at |-> place.at + IF ok THEN place.type.okAt ELSE place.type.errAt]
Whole == [type |-> type, at |-> 0]
PlaceOf(gs) == IF gs = <<>> THEN Whole ELSE Inside(Last(gs), Last(gs).ok)

Guard(place, ok) == [type |-> place.type, at |-> place.at, ok |-> ok]
ChoiceOf(g) == Choice(g.type.det, g.at, g.ok)
OpenChoices == {ChoiceOf(guards[i]) : i \in DOMAIN guards}

IsMaybeResolved == IsSum(type) /\ IsSum(type.err) /\ type.err.ok = Unit

\* match_mut, at the innermost guard.
Enter ==
  LET place == PlaceOf(guards) IN
  /\ IsSum(place.type) /\ ~polled
  /\ \E ok \in ReadsAs(place.type.det, masks, mem, place.at) : guards' = Append(guards, Guard(place, ok))
  /\ UNCHANGED <<type, masks, mem, stored, polled, yields>>

\* A new value is assigned to what the innermost guard gives access to: in an
\* enum, to the value of a variant.
Assign ==
  LET place == PlaceOf(guards) IN
  /\ ~polled /\ (IsMaybeResolved => guards = <<>> \/ ~IsSum(place.type))
  /\ \E v \in place.type.vals :
       /\ mem' = Write(mem, v, place.at, place.type.size)
       /\ stored' = [one |-> ShiftBits(v.one \cap v.care, place.at),
                     care |-> ShiftBits(v.care, place.at),
                     choices |-> OpenChoices \cup ShiftValue(v, place.at).choices]
  /\ yields' = IF guards = <<>> THEN 0 ELSE yields
  /\ UNCHANGED <<type, masks, guards, polled>>

\* The innermost guard is dropped, which sets the determinant again when it
\* shares its place with the value.
Forget == \* mutant: the determinant is left as the value that was assigned has it
  /\ guards # <<>>
  /\ guards' = Front(guards) /\ polled' = (polled /\ guards' # <<>>)
  /\ UNCHANGED <<type, masks, mem, stored, yields>>

Exit ==
  /\ guards # <<>>
  /\ LET c == ChoiceOf(Last(guards))
     IN mem' = IF IsNicheTrick(c.det) THEN MarkAs(c.det, c.ok, mem, c.at) ELSE mem
  /\ guards' = Front(guards) /\ polled' = (polled /\ guards' # <<>>)
  /\ UNCHANGED <<type, masks, stored, yields>>

\* The value is read, the result forgotten, and the value wrapped again, as it
\* is by map, and_then and the conversions from and to Rust's Result.
Read(at, size) ==
  [one |-> {b - 8 * at : b \in mem.one \cap BitsOfBytes(at, size)},
   undef |-> {b - 8 * at : b \in mem.undef \cap BitsOfBytes(at, size)},
   care |-> {}, choices |-> {}]

Rewrap ==
  /\ guards = <<>> /\ IsSum(type)
  /\ \E ok \in ReadsAs(type.det, masks, mem, 0) :
       LET place == Inside(Whole, ok)
       IN mem' = Image(Made(Choice(type.det, 0, ok), Read(place.at, place.type.size), place.at, place.type.size))
  /\ UNCHANGED <<type, masks, stored, guards, polled, yields>>

\* A clone takes the place of what it was made of: another image of the value.
\* Which of the fields of a union is meant cannot be read, and is not changed.
Reads(v) ==
  /\ v.care = stored.care
  /\ \A c \in v.choices : c.ok \in ReadsAs(c.det, masks, mem, c.at)
  /\ mem.one \cap v.care = v.one \cap v.care

Clone ==
  /\ guards = <<>>
  /\ \E v \in type.vals : Reads(v) /\ mem' = Image(v)
  /\ UNCHANGED <<type, masks, stored, guards, polled, yields>>

-----------------------------------------------------------------------------
(* MaybeResolved::poll takes the value out of the guards that lead to it and *)
(* writes Empty over the whole; the guards are dropped after that.           *)

EmptyValue ==
  LET inner == Made(Choice(type.err.det, 0, TRUE), Plain(0, <<>>), type.err.okAt, 0)
  IN Made(Choice(type.det, 0, FALSE), inner, type.errAt, type.err.size)

MaxYields == 2
Matched == [i \in DOMAIN guards |-> guards[i].ok]
CanYield == IsMaybeResolved /\ Matched \in {<<TRUE>>, <<FALSE, FALSE>>} /\ ~polled

YieldAndKeep == \* mutant: without the write
  /\ CanYield /\ yields < MaxYields
  /\ polled' = TRUE /\ yields' = yields + 1
  /\ UNCHANGED <<type, masks, mem, stored, guards>>

Yield ==
  /\ CanYield /\ yields < MaxYields
  /\ mem' = Image(EmptyValue) /\ stored' = Meaning(EmptyValue)
  /\ polled' = TRUE /\ yields' = yields + 1
  /\ UNCHANGED <<type, masks, guards>>

Next == Enter \/ Assign \/ Exit \/ Rewrap \/ Clone \/ Yield

Spec == Init /\ [][Next]_vars

-----------------------------------------------------------------------------
(* Properties *)

\* A determinant stands in the byte of a tag, in bits that the tag leaves free.
Overlaid(c) == \E d \in stored.choices : d.det.kind = "bit" /\ d.at + d.det.byte = c.at

\* Dropping the guard of this variant writes to a Result that was overwritten.
SetsAgain(det, ok) == det.kind = "bit" \/ (det.kind = "value" /\ ok = det.not)
EmptyIsOverwritten ==
  IsMaybeResolved /\ (SetsAgain(type.det, TRUE) \/ SetsAgain(type.err.det, FALSE))

\* What was stored is read back: the variant and the bits of its value, of all
\* that no guard is open on, and whatever was assigned through the guards, which
\* share their determinants with the unused bits of the value.  A tag that has
\* another determinant in its byte is read right by the builds that mask it.
ReadsBack ==
  (yields = 0 \/ ~EmptyIsOverwritten) =>
    /\ \A c \in stored.choices \ OpenChoices :
         ReadsAs(c.det, masks, mem, c.at) = {c.ok}
         \/ (c.det.kind = "tag" /\ ~masks /\ Overlaid(c))
    /\ stored.care \cap mem.undef = {}
    /\ mem.one \cap stored.care = stored.one

\* The bits that a type declares unused are looked at by nobody, and none of
\* the values it declares forbidden ever shows in memory: both are what the
\* determinants of an enclosing type rely on.
ByteIn(S, o) == \E b \in {{8 * o + i : i \in BitsOf(value)} : value \in S} :
                  mem.one \cap BitsOfByte(o) = b
NichesStayFree ==
  guards = <<>> =>
    /\ Positions(type.ub) \cap
         (stored.care \cup UNION {LooksAt(c.det, TRUE, c.at) : c \in stored.choices}) = {}
    /\ \A i \in DOMAIN type.fv : type.fv[i] # NoValue =>
         \E e \in type.fv[i] :
           BitsOfByte(e[1]) \cap mem.undef = {} /\ ~ByteIn(e[2], e[1])

\* Nothing is written outside the storage of a Result.
StaysInside ==
  IsSum(type) =>
    mem.one \cup mem.undef \cup stored.care \subseteq BitsOfBytes(0, StorageSize(type))

\* A MaybeResolved gives its value once, unless dropping the guards writes to
\* the Empty that took its place.
YieldsOnce == ~EmptyIsOverwritten => yields <= 1
=============================================================================
