------------------------------ MODULE MCAlertHA ------------------------------
(***************************************************************************)
(* Instances of AlertHA for TLC.  The servers are interchangeable: no      *)
(* definition tells them apart.                                            *)
(***************************************************************************)
EXTENDS AlertHA, TLC

Symmetry == Permutations(Servers)
=============================================================================
