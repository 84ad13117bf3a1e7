---------------------------- MODULE MCBackendSrv ----------------------------
(***************************************************************************)
(* An instance of BackendSrv for TLC.  d1 and d2 are the queries of one    *)
(* panel, which may wait for both at once, d3 asks what d1 asked at the    *)
(* next refresh, and a is a call of the api.                               *)
(***************************************************************************)
EXTENDS BackendSrv

MCRequests == {"d1", "d2", "d3", "a"}
MCDataRequests == {"d1", "d2", "d3"}
MCRequestId == [r \in MCRequests |-> CASE r \in {"d1", "d3"} -> "A"
                                       [] r = "d2" -> "B"
                                       [] OTHER -> "none"]
MCGroups == {{"d1", "d2"}}
=============================================================================
