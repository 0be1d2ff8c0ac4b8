-------------------------- MODULE MCRootAdmission --------------------------
(* Small instances of a Stage's admission control. *)
EXTENDS RootAdmission
CONSTANTS r1, r2, r3, r4, r5

RootSymmetry == Permutations(Roots)
=============================================================================
