------------------------------ MODULE Linking ------------------------------
(***************************************************************************)
(* Calls between separately compiled programs.  A function is exported     *)
(* with its report or with canaries (stabby-macros/src/functions.rs) and   *)
(* imported through a CheckedImport, or looked up in a loaded library      *)
(* (stabby/src/libloading.rs).  What it returns are trait objects, handles *)
(* of interfaces and futures, used on the declarations the importer has.   *)
(***************************************************************************)
EXTENDS CheckedImport, Interfaces, TraitObjects, Wakers

-----------------------------------------------------------------------------
(* Symbols *)

Canary == {"rustc", "opt_level", "debug", "num_jobs", "target", "host"}

\* The bits of a canary specification, lowest first; 0 asks for nothing.
Canaries(spec) == {1 + shift : shift \in {n \in 0 .. 15 : 2 ^ n <= spec /\ (spec \div 2 ^ n) % 2 = 1}}
CanaryOf == <<"rustc", "opt_level", "debug", "num_jobs", "target", "host">>

\* What a library exports for a function f that it was built with; build[c] is
\* what the build has for a canary.
ExportWithReport(f) == {<<f>>, <<f, "_stabbied_v3">>, <<f, "_stabbied_v3_report">>}
ExportCanaried(f, build) == {<<f>>} \cup {<<f, c, build[c]>> : c \in Canary}

\* What the linker has to find for an import of f.
ImportChecked(f) == ExportWithReport(f) \ {<<f>>}
ImportCanaried(f, spec, build) == {<<f>>} \cup {<<f, CanaryOf[n], build[CanaryOf[n]]>> : n \in Canaries(spec)}

\* get_stabbied and get_canaried, at run time; the latter leaves the host out.
GetStabbied(symbols, f, loaded, local) ==
  CASE <<f, "_stabbied_v3">> \notin symbols -> "missing"
    [] IsCompatible(loaded, local)          -> "symbol"
    [] <<f, "_stabbied_v3_report">> \notin symbols -> "missing"
    [] OTHER                                -> "mismatch"
GetCanaried(symbols, f, build) ==
  IF {<<f>>} \cup {<<f, c, build[c]>> : c \in Canary \ {"host"}} \subseteq symbols THEN "symbol" ELSE "missing"

-----------------------------------------------------------------------------

CONSTANT Link \* the signatures [local, loaded] an import may have on its two sides

ASSUME LinkAssumption == \A l \in Link : IsReport(l.local) /\ IsReport(l.loaded)

VARIABLE link

linkVars == <<vars, objects, handle, wakers, link>>

LinkInit ==
  /\ link \in Link
  /\ Init /\ compatible = IsCompatible(link.loaded, link.local)
  /\ ObjectsInit /\ InterfacesInit /\ WakersInit

\* The import and what is called through it share nothing but the reference: it
\* is used from when every thread has it, and none gives it up before.
Imported == link.loaded = link.local /\ inOrder /\ \A t \in Thread : got[t] = "reference"

NoObject == value = NoValue
NoInterface == handle = NoHandle

LinkNext ==
  \/ /\ NoObject /\ NoInterface /\ AtRest
     /\ Next
     /\ UNCHANGED <<objects, handle, wakers, link>>
  \/ /\ Imported /\ NoInterface /\ AtRest
     /\ ObjectsNext
     /\ UNCHANGED <<vars, handle, wakers, link>>
  \/ /\ Imported /\ NoObject /\ AtRest
     /\ InterfacesNext
     /\ UNCHANGED <<vars, objects, wakers, link>>
  \/ /\ Imported /\ NoObject /\ NoInterface
     /\ WakersNext
     /\ UNCHANGED <<vars, objects, handle, link>>

LinkSpec ==
  /\ LinkInit /\ [][LinkNext]_linkVars
  /\ \A t \in Thread : WF_vars(Advance(t)) /\ SF_vars(Lock(t))

-----------------------------------------------------------------------------

\* A function that was imported has the signature it was imported with, as far
\* as no list of fields is a part of the other's.
ImportedCalls == \A t \in Thread :
  got[t] = "reference" /\ SameShape(link.loaded, link.local) => link.loaded = link.local

\* Whatever is called across the border, through a trait object, an interface or
\* an import, is the function that the caller's declarations say, and whatever
\* waker wakes, it is the executor of the outermost poll.
CallsMatch == TraitCalls /\ InterfaceCalls /\ ImportedCalls /\ WakersWake

\* The value behind a trait object is destroyed once, by its own type, when the
\* last owner goes; a waker's clones are as many as there are owners of them.
DestroyedOnce == GoesOnce /\ ClonesAreCounted
=============================================================================
