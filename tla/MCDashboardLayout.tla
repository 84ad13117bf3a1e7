------------------------- MODULE MCDashboardLayout -------------------------
(***************************************************************************)
(* Two columns; a row that repeats, of a panel that repeats or not.        *)
(***************************************************************************)
EXTENDS DashboardLayout

MCDashboards ==
  {<<Panel(1, TRUE, TRUE, 0, 0, 2, 1), Panel(2, FALSE, repeats, 0, 1, 2, 1)>> : repeats \in BOOLEAN}

\* The panels of the list, each with those it keeps behind it.
All == FlattenSeq(<<>> \o [k \in DOMAIN panels |-> <<panels[k]>> \o panels[k].panels])

\* Bound: one panel more than a row with one repeating panel and their copies.
Bound == Len(All) <= 7

\* Which id a panel has makes no difference, only where it is found: the next
\* one is none of them, and one that the dashboard no longer has is looked for
\* by nothing.
Absent == -3
Nameless ==
  LET all      == All
      at(id)   == {k \in DOMAIN all : all[k].id = id}
      name(id) == IF at(id) # {} THEN Min(at(id)) ELSE IF id \in {NoId, Loose, InCopy} THEN id ELSE Absent
      told(p)  == [p EXCEPT !.id = name(@), !.of = name(@), !.panels = Len(@)]
  IN  <<[k \in DOMAIN all |-> told(all[k])], {<<name(id), name(home[id])>> : id \in DOMAIN home}, selected, edits>>
=============================================================================
