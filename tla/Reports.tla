------------------------------ MODULE Reports ------------------------------
(***************************************************************************)
(* The reports by which two separately compiled programs find out whether  *)
(* they mean the same by a type (stabby-abi/src/report.rs), and how the    *)
(* macros and the library write them.  A name is a sequence of pieces, so  *)
(* that the hash of a report, which runs through its names without         *)
(* separating them, sees the pieces only.                                  *)
(*                                                                         *)
(* A report is a tree: what it says at a place, which is reached by the    *)
(* numbers of the fields on the way.  << >> is the type itself, <<2, 1>>   *)
(* the first field in the type of its second, and a field's name is said   *)
(* with the type of the field.                                             *)
(***************************************************************************)
EXTENDS Integers, SequencesExt

\* A tree of what is said, by places.
IsReport(r) == r = [p \in DOMAIN r |-> r[p]] /\ DOMAIN r \subseteq Seq(Nat)

\* A field is the report of its type under a name.
Field(name, ty) == [ty EXCEPT ![<< >>].field = name]

TypeReport(module, name, version, tyty, fields) ==
  [p \in {<< >>} \cup UNION {{<<i>> \o q : q \in DOMAIN fields[i]} : i \in DOMAIN fields} |->
     IF p = << >>
     THEN [field |-> << >>, module |-> module, name |-> name, version |-> version, tyty |-> tyty]
     ELSE fields[Head(p)][Tail(p)]]

\* primitive_report!, by the library itself.
Primitive(name) == TypeReport(<<"stabby_abi">>, <<name>>, 0, <<"struct">>, << >>)
Wrapper(name, ty) ==
  TypeReport(<<"stabby_abi">>, <<name>>, 0, <<"struct">>, <<Field(<<"inner">>, ty)>>)

\* How a macro writes what it was given in the order of its declaration: each
\* field is put in front of those before it.
Declared(module, name, version, tyty, fields) ==
  TypeReport(module, name, version, tyty, Reverse(fields))

\* The output and the arguments of a function, two at a time.
SignaturePair(ty, rest) ==
  TypeReport(<<"stabby">>, <<"signature">>, 0, <<"struct">>,
    <<Field(<<"_">>, ty), Field(<<"_">>, rest)>>)
Signature(tys) == FoldRight(SignaturePair, Front(tys), Last(tys))

Function(abi, args, output) == Wrapper(abi, Signature(<<output>> \o args))

\* core::option::Option<T> and core::result::Result<Ok, Err>, where one is
\* stored in the niche of the other.
OptionOf(ty) == TypeReport(<<"core::option">>, <<"Option">>, 0, <<"rust">>, <<Field(<<"Some">>, ty)>>)
ResultOf(ok, err) ==
  TypeReport(<<"core::result">>, <<"Result">>, 0, <<"rust">>,
    IF err = Primitive("()") THEN <<Field(<<"Ok">>, ok)>> ELSE <<Field(<<"Err">>, err)>>)

\* Result<T, Infallible> is reported as T.
NeverFails(ok) == ok

\* A handle of an opaque value, and one with the interface it is used through;
\* the vtable of an erased one is Null.
Marker(module, name, version) == Declared(module, name, version, <<"struct">>, << >>)
Pointer(ty) == Wrapper("core::ptr::NonNull", ty)
Ref(opaque, mut) ==
  TypeReport(<<"stabby_abi::opaque">>, <<"stabby::opaque::Ref", mut>>, 0, <<"struct">>,
    <<Field(<<"ptr">>, Pointer(Primitive("()"))), Field(<<"opaque">>, opaque)>>)
InterfaceRef(opaque, mut, vtable) ==
  TypeReport(<<"stabby_abi::opaque">>, <<"stabby::opaque::InterfaceRef", mut>>, 0, <<"struct">>,
    <<Field(<<"this">>, Ref(opaque, mut)), Field(<<"vtable">>, Pointer(vtable))>>)
ErasedRef(opaque, mut) ==
  TypeReport(<<"stabby_abi::opaque">>, <<"stabby::opaque::ErasedInterfaceRef", mut>>, 0, <<"struct">>,
    <<Field(<<"this">>, Ref(opaque, mut)), Field(<<"vtable">>, Pointer(Primitive("()")))>>)

-----------------------------------------------------------------------------
(* Comparing reports *)

\* Fields are compared as long as both lists have them, and so is what is below
\* those that are compared.
IsCompatible(self, other) == \A p \in DOMAIN self \cap DOMAIN other : self[p] = other[p]

\* What is hashed, in the order of declaration: all but the versions, with a
\* letter for the way a type was declared.
Precedes(p, q) ==
  \E n \in 0 .. Len(p) :
    /\ n < Len(q) /\ SubSeq(p, 1, n) = SubSeq(q, 1, n)
    /\ n = Len(p) \/ p[n + 1] < q[n + 1]
HashReport(r) ==
  MapThenFoldSet(LAMBDA said, rest : said \o rest, << >>,
                 LAMBDA p : r[p].field \o r[p].module \o r[p].name \o r[p].tyty,
                 LAMBDA S : CHOOSE p \in S : \A q \in S \ {p} : Precedes(p, q),
                 DOMAIN r)

\* The first bytes of a SHA-256, taken to tell all inputs apart, and of the
\* architecture, which is the same on both sides of a link.
Id(r) == HashReport(r)

\* Whether no list of fields is a part of the other's.
SameShape(a, b) == DOMAIN a = DOMAIN b
=============================================================================
