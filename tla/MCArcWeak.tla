----------------------------- MODULE MCArcWeak -----------------------------
(***************************************************************************)
(* ArcWeak for TLC: handles are interchangeable model values, and a usize  *)
(* is a few bits wide, enough for every handle to be counted.              *)
(***************************************************************************)
EXTENDS ArcWeak, TLC

Symmetry == Permutations(Handle)

AllUniqueOps == {"get_mut", "make_mut", "try_into_inner"}
MutOps == {"get_mut", "make_mut"}
NoOps == {}
GetMutOnly == {"get_mut"}
TakeOnly == {"try_into_inner"}
=============================================================================
