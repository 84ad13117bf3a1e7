---------------------------- MODULE MCAlertEngine ----------------------------
(***************************************************************************)
(* Instances of AlertEngine for TLC.  The runs are interchangeable.        *)
(***************************************************************************)
EXTENDS AlertEngine, TLC

Symmetry == Permutations(Runs)
=============================================================================
