----------------------------- MODULE MCVariables -----------------------------
(***************************************************************************)
(* An instance of Variables for TLC: a datacenter with options of its own, *)
(* its hosts, and the disks of a host and a datacenter, those two by time. *)
(***************************************************************************)
EXTENDS Variables, Functions

MCDependsOn == {<<"host", "dc">>, <<"disk", "host">>, <<"disk", "dc">>}
MCRefresh == [v \in Vars |-> IF v = "dc" THEN "never" ELSE "time"]

\* What depends on more has another answer when any of it changed, and once none.
Sum(q) == q.time + FoldFunction(LAMBDA a, b : a + b, 0, q.values)
MCOptions(v, q) == {Sum(q) % 2} \ (IF Sum(q) = 2 THEN {0} ELSE {})
=============================================================================
