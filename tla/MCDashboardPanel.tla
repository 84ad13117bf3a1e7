-------------------------- MODULE MCDashboardPanel --------------------------
(***************************************************************************)
(* A panel with two data sources and one refresh interval; three ranges or *)
(* refreshes chosen after the dashboard was opened, two once the plugin of *)
(* the panel is there.                                                     *)
(***************************************************************************)
EXTENDS DashboardPanel, TLC

CONSTANTS A, B

Symmetry == Permutations(Sources)

\* Bound: absolute ranges and hidden pages come before the plugin of the panel
\* is there; what they end in is a refresh, as those after it.
Bound == pluginReady => /\ asked <= 2 /\ visible
                        /\ oldRefresh = Off /\ ~ absolute /\ suspended = NotSuspended
=============================================================================
