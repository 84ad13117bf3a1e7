----------------------------- MODULE MCAuthToken -----------------------------
(***************************************************************************)
(* Instances of AuthToken for TLC, in units of half a minute (UrgentRotate *)
(* Time 2, RotateGuard 1).  The requests are interchangeable.              *)
(***************************************************************************)
EXTENDS AuthToken, TLC

Symmetry == Permutations(Requests)
=============================================================================
