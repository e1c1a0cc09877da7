---------------------------- MODULE Interfaces ----------------------------
(***************************************************************************)
(* Interfaces that are found at run time (stabby-macros/src/interfaces.rs  *)
(* and stabby-abi/src/opaque.rs).  A library hands out the value behind an *)
(* opaque marker together with a table of functions; who uses it has a     *)
(* declaration of the table, perhaps of another version of the library,    *)
(* and asks for the tables it knows by their IDs and reports.              *)
(*                                                                         *)
(* Handles carry no lifetime and are made from one another at will, so one *)
(* at a time stands for all of them.                                       *)
(***************************************************************************)
EXTENDS Reports, FiniteSets

\* A method [name, mut, args, out]; mut is "Mut" if it takes &mut self.  An
\* interface [module, trait, opaque, methods], methods in the order of the trait.
AllShared(i) == \A k \in DOMAIN i.methods : i.methods[k].mut = ""

\* The function that is called for a method, and the report of the table.
FnType(i, m) == Function("extern C fn", <<Ref(i.opaque, m.mut)>> \o m.args, m.out)
VTableReport(i) ==
  Declared(i.module, i.trait \o <<"VTable">>, 0, <<"struct">>,
    [k \in DOMAIN i.methods |-> Field(<<i.methods[k].name>>, FnType(i, i.methods[k]))])

\* A provider [interface, order] implements the methods of its interface; order
\* lists them as they come in the impl, where Rust lets them come in any order.
\* The table is made from the exported functions in that order, and compiles if
\* each has the type of the field it goes to.
Compiles(p) == LET i == p.interface IN
  \A k \in DOMAIN i.methods : FnType(i, i.methods[p.order[k]]) = FnType(i, i.methods[k])
InOrder(p) == p.order = [k \in DOMAIN p.interface.methods |-> k]

Table(p) == LET i == p.interface IN
  [k \in DOMAIN i.methods |->
     [name |-> i.methods[p.order[k]].name, type |-> FnType(i, i.methods[p.order[k]])]]

CONSTANTS
  Provider,   \* what is exported in the program
  Interface   \* the declarations that it is used with

\* Methods of one type may trade places in an impl and still compile; then calls
\* go to the wrong one of them, so providers are taken to keep the order.
ASSUME ProviderAssumption == \A p \in Provider : Compiles(p) /\ InOrder(p)

\* Methods are a list, and functions have reports.
Declarations == Interface \cup {p.interface : p \in Provider}
ASSUME DeclarationAssumption == \A i \in Declarations :
  /\ Len(i.methods) \in Nat /\ DOMAIN i.methods = 1 .. Len(i.methods)
  /\ \A k \in DOMAIN i.methods : IsReport(FnType(i, i.methods[k]))

VARIABLE handle \* the handle: nothing, or which kind it is and what it holds

NoHandle == [mut |-> "none", erased |-> FALSE, as |-> << >>, opaque |-> << >>, table |-> << >>]

InterfacesInit == handle = NoHandle

-----------------------------------------------------------------------------

\* ..._interface_bind and ..._interface_bind_ref, which the provider calls.
Bind(p) ==
  /\ handle = NoHandle
  /\ \E mut \in {"Mut"} \cup (IF AllShared(p.interface) THEN {""} ELSE {}) :
       handle' = [mut |-> mut, erased |-> FALSE, as |-> p.interface,
                  opaque |-> p.interface.opaque, table |-> Table(p)]

\* ..._interface_query and ..._interface_query_ref, through the query_interface
\* method of the table at hand.  What is found is erased.
Found(p, i, mut) ==
  handle' = [mut |-> mut, erased |-> TRUE, as |-> i, opaque |-> handle.opaque, table |-> Table(p)]

Asked(p) ==
  /\ handle # NoHandle /\ ~handle.erased
  /\ p.interface.opaque = handle.opaque
  /\ handle.mut = "" => AllShared(p.interface)

QueryById(p, i) == \* mutant: without the report
  /\ Asked(p)
  /\ Id(VTableReport(i)) = Id(VTableReport(p.interface))
  /\ Found(p, i, handle.mut)

Query(p, i) ==
  /\ Asked(p)
  /\ Id(VTableReport(i)) = Id(VTableReport(p.interface))
  /\ IsCompatible(VTableReport(p.interface), VTableReport(i))
  /\ Found(p, i, handle.mut)

\* resolve_interface binds what it asked for to the table it asked with.
AssumeVtable ==
  /\ handle.erased
  /\ handle' = [handle EXCEPT !.erased = FALSE]

Erase ==
  /\ handle # NoHandle /\ ~handle.erased
  /\ handle' = [handle EXCEPT !.erased = TRUE]

\* as_ref, of a bound or an erased handle; reborrow gives the same again.
AsSharedHandle ==
  /\ handle.mut = "Mut"
  /\ handle' = [handle EXCEPT !.mut = ""]

ForgetHandle ==
  /\ handle # NoHandle
  /\ handle' = NoHandle

InterfacesNext ==
  \/ \E p \in Provider : Bind(p) \/ \E i \in Interface : Query(p, i)
  \/ AssumeVtable \/ Erase \/ AsSharedHandle \/ ForgetHandle

-----------------------------------------------------------------------------

\* What the IDs are relied on for: where one list of methods is another's end,
\* the hash is not the same.
IdsTellLengths == \A p \in Provider, i \in Interface :
  LET self == VTableReport(p.interface)
      other == VTableReport(i)
  IN Id(self) = Id(other) /\ IsCompatible(self, other) => SameShape(self, other)

\* The methods that can be called through the handle: the trait is implemented
\* for a shared one if it has no other methods.
Callable(h) ==
  IF h = NoHandle \/ h.erased \/ (h.mut = "" /\ ~AllShared(h.as)) THEN {} ELSE DOMAIN h.as.methods

\* A method called through a handle is the one of that name and type.
InterfaceCalls == \A k \in Callable(handle) :
  /\ k \in DOMAIN handle.table
  /\ handle.table[k] = [name |-> handle.as.methods[k].name, type |-> FnType(handle.as, handle.as.methods[k])]
=============================================================================
