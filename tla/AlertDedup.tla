----------------------------- MODULE AlertDedup -----------------------------
(***************************************************************************)
(* What the deduplication of alert notifications promises, with no word of *)
(* how: the state of the alert changes, the changes are numbered, and each *)
(* of them is announced to the channel at most once, in whatever order and *)
(* perhaps never.  A number may be lost, when two changes overlap: from    *)
(* the lowest one that was lost on, a number says nothing any more of      *)
(* which change it is, and nothing is promised about it.                   *)
(***************************************************************************)
EXTENDS Naturals

VARIABLES
  changes,    \* the number of changes of state so far
  lost,       \* the numbers that were lost
  announced,  \* the numbers of the changes that were announced
  messages    \* how many announcements the channel received

Init ==
  /\ changes = 0
  /\ lost = {}
  /\ announced = {}
  /\ messages = 0

Change ==
  /\ changes' = changes + 1
  /\ UNCHANGED <<lost, announced, messages>>

Lose(n) ==
  /\ lost' = lost \cup {n}
  /\ changes' \in {changes, n}
  /\ UNCHANGED <<announced, messages>>

Announce(k) ==
  /\ (\A n \in lost : k < n) => k \in (1..changes) \ announced
  /\ announced' = announced \cup {k}
  /\ messages' = messages + 1
  /\ UNCHANGED <<changes, lost>>

Next ==
  \/ Change
  \/ \E n \in lost' : Lose(n)
  \/ \E k \in announced' : Announce(k)

Spec == Init /\ [][Next]_<<changes, lost, announced, messages>>
=============================================================================
