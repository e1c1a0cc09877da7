----------------------------- MODULE MCLinking -----------------------------
(***************************************************************************)
(* Linking for TLC: versions of one small library, and what their reports  *)
(* tell apart.                                                             *)
(***************************************************************************)
EXTENDS Linking, TLC

\* Types: a struct that gained a field at its end, at its start, or another
\* version, and a type `ab` of `lib` besides a type `b` of `liba`.
u8 == Primitive("u8")
u16 == Primitive("u16")
Unit == Primitive("()")
Struct(name, version, fields) == Declared(<<"lib">>, name, version, <<"struct">>, fields)
Point == <<Field(<<"x">>, u8), Field(<<"y">>, u16)>>
Types == {
  u8, u16, Unit,
  Struct(<<"Point">>, 0, Point),
  Struct(<<"Point">>, 1, Point),
  Struct(<<"Point">>, 0, Append(Point, Field(<<"z">>, u8))),
  Struct(<<"Point">>, 0, <<Field(<<"z">>, u8)>> \o Point),
  Struct(<<"Point">>, 0, Reverse(Point)),
  Declared(<<"lib", "a">>, <<"b">>, 0, <<"struct">>, << >>),
  Declared(<<"lib">>, <<"a", "b">>, 0, <<"struct">>, << >>),
  OptionOf(Pointer(u8)), ResultOf(Pointer(u8), Unit), ResultOf(Unit, Pointer(u8)), NeverFails(u8)}
Signatures == {Function("extern C fn", args, out) :
  args \in {<< >>} \cup {<<t>> : t \in Types} \cup {<<u8, u16>>, <<u16, u8>>}, out \in {Unit, u8}}
Stores == {Marker(<<"lib">>, <<"Store">>, 0), Marker(<<"lib">>, <<"Store">>, 1), Marker(<<"lib">>, <<"OtherStore">>, 0)}
Handles == {Ref(o, mut) : o \in Stores, mut \in {"", "Mut"}} \cup {ErasedRef(o, mut) : o \in Stores, mut \in {"", "Mut"}}

-----------------------------------------------------------------------------
(* Interfaces: the host of tests/opaque.rs, with versions of its methods *)

Host == Marker(<<"lib">>, <<"Host">>, 0)
NextHost == Marker(<<"lib">>, <<"Host">>, 1)
M(name, mut, args, out) == [name |-> name, mut |-> mut, args |-> args, out |-> out]
Log == M("log", "Mut", <<u8>>, Unit)
Increment == M("increment_counter", "Mut", <<u8, u16>>, u16)
Count == M("count", "", << >>, u16)
Sum == M("sum", "", << >>, u16)
Query_ == M("query_interface", "Mut", <<u16, u8>>, OptionOf(ErasedRef(Host, "Mut")))
Api(opaque, trait, methods) == [module |-> <<"lib">>, trait |-> trait, opaque |-> opaque, methods |-> methods]
Apis == {
  Api(Host, <<"HostCore">>, <<Query_>>),
  Api(Host, <<"HostApi">>, <<Log, Increment>>),
  Api(Host, <<"HostApi">>, <<Increment, Log>>),
  Api(Host, <<"HostApi">>, <<Count, Log, Increment>>),
  Api(Host, <<"HostApi">>, <<Log, Increment, Count>>),
  Api(NextHost, <<"HostApi">>, <<Log, Increment>>),
  Api(Host, <<"Counts">>, <<Count, Sum>>),
  Api(Host, <<"Counts">>, <<Sum, Count>>)}
InTurn(i) == [interface |-> i, order |-> [k \in DOMAIN i.methods |-> k]]
Providers == {InTurn(i) : i \in Apis}

-----------------------------------------------------------------------------
(* Traits of tests/traits.rs, and the import of a function *)

TraitNames == {"MyTrait", "MyTrait2", "Any"}
TraitMethods ==
  ("MyTrait" :> <<[name |-> "do_stuff", mut |-> FALSE], [name |-> "gen_stuff", mut |-> TRUE],
                  [name |-> "filter_stuff", mut |-> FALSE]>>)
  @@ ("MyTrait2" :> <<[name |-> "do_stuff2", mut |-> FALSE]>>)
  @@ ("Any" :> <<[name |-> "report", mut |-> FALSE], [name |-> "id", mut |-> FALSE]>>)
DynBounds == {<<"MyTrait2", "MyTrait", "Send">>, <<"Send", "Sync", "Any">>}
UniqueArcs == {"Arc"}

Takes(ty) == Function("extern C fn", <<ty>>, u8)
Both(local, loaded) == [local |-> Takes(local), loaded |-> Takes(loaded)]
Links == {
  Both(Struct(<<"Point">>, 0, Point), Struct(<<"Point">>, 0, Point)),
  Both(Struct(<<"Point">>, 0, Point), Struct(<<"Point">>, 1, Point)),
  Both(Struct(<<"Point">>, 0, <<Field(<<"z">>, u8)>> \o Point), Struct(<<"Point">>, 0, Point))}

-----------------------------------------------------------------------------
(* What reports tell apart *)

Vtables == {VTableReport(i) : i \in Apis}
Universe == Types \cup Signatures \cup Handles \cup Vtables
Ids == [r \in Universe |-> Id(r)]
Alike(a, b) == Ids[a] = Ids[b] /\ IsCompatible(a, b)

\* Compatible reports with one ID are equal, although neither test is enough
\* alone: the ID leaves out versions and where names end, and the comparison
\* the fields that only one side has.
ASSUME TogetherTheyTell == \A a, b \in Universe : Alike(a, b) => a = b
ASSUME CompatibleUpToLength ==
  \A a, b \in Universe : SameShape(a, b) /\ IsCompatible(a, b) => a = b
ASSUME IdIsNotEnough == \E a, b \in Types : a[<< >>].version # b[<< >>].version /\ Ids[a] = Ids[b]
ASSUME NamesRunTogether == \E a, b \in Types : a[<< >>].name # b[<< >>].name /\ Ids[a] = Ids[b]

\* The tables' reports are among them, so the IDs tell their lengths.
ASSUME LengthsAreTold == IdsTellLengths

\* The ID does not tell whether a type is a field of another or comes behind it,
\* and the comparison stops where one of them has no fields.
ASSUME NestingIsNotTold ==
  LET A(fields) == Struct(<<"A">>, 0, fields)
      inside == Struct(<<"T">>, 0, <<Field(<<"x">>, A(<<Field(<<"y">>, u8)>>))>>)
      behind == Struct(<<"T">>, 0, <<Field(<<"y">>, u8), Field(<<"x">>, A(<< >>))>>)
  IN inside # behind /\ Id(inside) = Id(behind) /\ IsCompatible(inside, behind)

\* Fields are listed from the last, so one that is put in front of the others
\* goes unnoticed, and moves them all; one that is put behind them does not.
ASSUME FirstFieldIsMissed ==
  /\ IsCompatible(Struct(<<"Point">>, 0, Point), Struct(<<"Point">>, 0, <<Field(<<"z">>, u8)>> \o Point))
  /\ ~IsCompatible(Struct(<<"Point">>, 0, Point), Struct(<<"Point">>, 0, Append(Point, Field(<<"z">>, u8))))

\* The marker is part of the reports of its handles (tests/opaque.rs), and
\* whether they are exclusive, but not what a Result may fail with.
ASSUME MarkersTell == \A a, b \in Handles : IsCompatible(a, b) => a = b
ASSUME InfallibleIsItsOk == IsCompatible(NeverFails(u8), u8)

\* Methods of one type that an impl has in another order compile, and trade.
ASSUME ImplOrderTrades ==
  LET i == Api(Host, <<"Counts">>, <<Count, Sum>>)
      p == [interface |-> i, order |-> <<2, 1>>]
  IN Compiles(p) /\ Table(p)[1].name = "sum"

-----------------------------------------------------------------------------
(* What casts and markers do *)

\* A cast leaves a list whose table is the beginning of the other's.
ASSUME CastsKeepLevels == \A as \in DynBounds : \A s \in Supers(as) :
  TableOf("u8", s).heads = Restrict(TableOf("u8", as).heads, DOMAIN TableOf("u8", s).heads)

\* What may be sent to or shared with other threads, by the bounds: a type over
\* Sync counts as Send, one over Send does not, and a shared reference may be
\* sent although its value is not Sync.
ASSUME SendOverSync == HasSendVt(<<"Sync", "MyTrait">>) /\ ~HasSendVt(<<"Send", "MyTrait">>)
ASSUME SharedIfSend == HasSendVt(<<"MyTrait", "Send">>) /\ ~HasSyncVt(<<"MyTrait", "Send">>)

-----------------------------------------------------------------------------
(* What canaries tell apart *)

Builds == [Canary -> {1, 2}]
ThisBuild == [c \in Canary |-> 1]
ASSUME BitsAreCanaries == \A spec \in 0 .. 63 :
  spec = FoldSet(LAMBDA n, sum : sum + 2 ^ (n - 1), 0, Canaries(spec))
ASSUME ParanoidLinksItsOwn == \A b \in Builds :
  ImportCanaried("f", 63, ThisBuild) \subseteq ExportCanaried("f", b) <=> b = ThisBuild
ASSUME LoadingForgetsTheHost == \A b \in Builds :
  GetCanaried(ExportCanaried("f", b), "f", ThisBuild) = "symbol"
    <=> \A c \in Canary \ {"host"} : b[c] = ThisBuild[c]
ASSUME LoadingComparesReports == \A a, b \in Types :
  /\ GetStabbied(ExportWithReport("f"), "f", Takes(a), Takes(b))
       = IF IsCompatible(Takes(a), Takes(b)) THEN "symbol" ELSE "mismatch"
  /\ GetStabbied(ExportCanaried("f", ThisBuild), "f", Takes(a), Takes(b)) = "missing"
ASSUME ImportsLink == ImportChecked("f") \subseteq ExportWithReport("f")
=============================================================================
