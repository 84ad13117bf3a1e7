-------------------------- MODULE DashboardLayout --------------------------
(***************************************************************************)
(* The panels of a dashboard: DashboardModel.ts.  A row owns the panels    *)
(* that follow it in the list up to the next row; while it is collapsed it *)
(* keeps them itself.  A panel or row that repeats is copied once for each *)
(* further selected option of its variable; the copies are made anew when  *)
(* the variable changes.  The list is sorted by the grid, and the grid     *)
(* closes its gaps after every change (react-grid-layout, Arranged).       *)
(***************************************************************************)
EXTENDS Integers, FiniteSetsExt, SequencesExt, TLC

CONSTANTS
  Dashboards,   \* the lists of panels a dashboard may be opened with
  Columns,      \* GRID_COLUMN_COUNT, in units of the smallest panel
  MaxPerRow,    \* of the panels that repeat: at most half of the columns in the editor
  MaxOptions,   \* bound: selected options of the variable
  MaxSize,      \* bound: width and height of a panel that is resized
  MaxEdits,     \* bound: panels added, moved, resized or removed, rows' options set
  MaxPanels     \* bound: panels in the list, on which the loops end

ASSUME LayoutAssumption ==
  {Columns, MaxPerRow, MaxOptions, MaxSize, MaxEdits, MaxPanels} \subseteq Nat \ {0} /\ MaxPerRow <= Columns

VARIABLES
  panels,    \* DashboardModel.panels
  selected,  \* how many options of the variable are selected
  home,      \* history: where the user has each panel that is no copy
  edits      \* bound

layoutVars == <<panels, selected, home, edits>>

NoId == 0

\* Where a panel may be instead of in a row of the user's or above all rows.
Loose == -1   \* listed below a row that is a copy, or that is collapsed
InCopy == -2    \* kept by a copy that is collapsed

\* A panel: row is its type, of its repeatPanelId, byRow repeatedByRow, and
\* panels what a collapsed row keeps.
Panel(id, isRow, repeats, x, y, w, h) ==
  [id |-> id, row |-> isRow, collapsed |-> FALSE, repeat |-> repeats, of |-> NoId, byRow |-> FALSE,
   panels |-> <<>>, x |-> x, y |-> y, w |-> w, h |-> h]

PanelModels(types, kept) ==
  [id : Nat \ {0}, row : types, collapsed : BOOLEAN, repeat : BOOLEAN, of : Nat, byRow : BOOLEAN,
   panels : kept, x : Int, y : Int, w : Int, h : Int]

KeptPanels == PanelModels({FALSE}, {<<>>})

Panels == {p \in PanelModels(BOOLEAN, Seq(KeptPanels)) : p.panels # <<>> => p.row /\ p.collapsed}

-----------------------------------------------------------------------------
(* Lists of panels                                                         *)

\* Those of a panel or row and of what it keeps, and those of a list.
IdsOf(p) == {p.id} \cup {p.panels[m].id : m \in DOMAIN p.panels}
Ids(ps) == UNION {IdsOf(ps[k]) : k \in DOMAIN ps}

\* No two of them have one id.
KeptDiffer(p) ==
  \A m \in DOMAIN p.panels :
    /\ p.panels[m].id # p.id
    /\ \A l \in DOMAIN p.panels \ {m} : p.panels[l].id # p.panels[m].id

IdsDiffer(ps) ==
  \A k \in DOMAIN ps :
    /\ KeptDiffer(ps[k])
    /\ \A j \in DOMAIN ps \ {k} : IdsOf(ps[j]) \cap IdsOf(ps[k]) = {}

\* The ids of a saved dashboard come from getNextPanelId.
ASSUME DashboardsAssumption == \A ps \in Dashboards : ps \in Seq(Panels) /\ IdsDiffer(ps)

\* A variant that does not look into collapsed rows.
NextPanelIdListed(ps) == Max({ps[k].id : k \in DOMAIN ps} \cup {0}) + 1

NextPanelId(ps) == Max(Ids(ps) \cup {0}) + 1

\* The entries of the list at the indices in rank, by rank.
Listed(ps, rank) ==
  <<>> \o [r \in 1..Cardinality(DOMAIN rank) |-> ps[CHOOSE i \in DOMAIN rank : rank[i] = r]]

\* Those of the list at these indices, in its order.
Only(ps, at) == Listed(ps, [i \in at |-> Cardinality({j \in at : j <= i})])

\* A stable order by y, then x: sortPanelsByGridPos.
SortPanelsByGridPos(ps) ==
  LET before(i, j) == \/ ps[i].y < ps[j].y
                      \/ ps[i].y = ps[j].y /\ ps[i].x < ps[j].x
                      \/ ps[i].y = ps[j].y /\ ps[i].x = ps[j].x /\ i < j
  IN  Listed(ps, <<>> \o [i \in DOMAIN ps |-> Cardinality({j \in DOMAIN ps : ~ before(i, j)})])

\* The list with these put in front of the panel at k.
Spliced(ps, k, new) == SubSeq(ps, 1, k - 1) \o new \o SubSeq(ps, k, Len(ps))

\* A variant that stops after the first panel.
PushDownOne(ps, from, dy) ==
  [k \in DOMAIN ps |-> IF k = from THEN [ps[k] EXCEPT !.y = @ + dy] ELSE ps[k]]

PushDown(ps, from, dy) ==
  [k \in DOMAIN ps |-> IF k >= from THEN [ps[k] EXCEPT !.y = @ + dy] ELSE ps[k]]

\* A variant that goes on to the end of the dashboard.
RowEndLast(ps, k) == Len(ps)

\* The end of the row at k: of the panels that follow it up to the next row.
RowEnd(ps, k) == Min({j \in (k + 1)..Len(ps) : ps[j].row} \cup {Len(ps) + 1}) - 1
RowPanels(ps, k) == SubSeq(ps, k + 1, RowEnd(ps, k))

IndexOf(ps, id) == CHOOSE k \in DOMAIN ps : ps[k].id = id

\* The panels of this list with the ids that follow, one after the other, as
\* copies made by the repetition of their row: updateRepeatedPanelIds.
RowCopies(new, next, dy) ==
  <<>> \o [m \in DOMAIN new |->
     [new[m] EXCEPT !.of = new[m].id, !.id = next + m - 1, !.byRow = TRUE, !.y = @ + dy]]

-----------------------------------------------------------------------------
(* Repeats                                                                 *)

\* A variant that keeps the copies of what is repeated by its row.
CleanUpRepeatsButRows(ps) ==
  SortPanelsByGridPos(Only(ps, {k \in DOMAIN ps : ps[k].repeat \/ ps[k].of = NoId}))

CleanUpRepeats(ps) ==
  SortPanelsByGridPos(Only(ps, {k \in DOMAIN ps : (ps[k].repeat /\ ~ ps[k].byRow) \/ ps[k].of = NoId}))

\* repeatPanel of a panel in direction h: the copies share the lines of the
\* grid with it, and what is below moves down.
RepeatPanel(ps, k, n) ==
  LET p       == ps[k]
      w       == Max({Columns \div n, Columns \div MaxPerRow})
      perLine == Columns \div w
      next    == NextPanelId(ps)
      copy(m) == [p EXCEPT !.x = ((m % perLine) * w), !.y = @ + (m \div perLine) * p.h, !.w = w]
      clone(m) == [copy(m) EXCEPT !.id = next + m - 1, !.of = p.id, !.repeat = FALSE]
      copies  == <<copy(0)>> \o [m \in 1..(n - 1) |-> clone(m)]
  IN  IF n = 0 THEN ps
      ELSE SubSeq(ps, 1, k - 1) \o copies
             \o PushDown(SubSeq(ps, k + 1, Len(ps)), 1, (n \div perLine) * p.h)

RowHeight(row, ps) ==
  IF ps = <<>> THEN 0 ELSE Max({ps[m].y + ps[m].h : m \in DOMAIN ps}) - row.y

\* What is copied with the row at k, and how far the copies are apart.
CopiedWith(ps, k) == IF ps[k].collapsed THEN ps[k].panels ELSE RowPanels(ps, k)
Apart(ps, k) == IF ps[k].collapsed THEN 1 ELSE Len(RowPanels(ps, k)) + 1

\* The m-th copy of the row at k of ps, with its panels, for the list qs.
RowCopy(ps, k, qs, m) ==
  LET row    == ps[k]
      mine   == CopiedWith(ps, k)
      height == RowHeight(row, mine)
      next   == NextPanelId(qs)
      copy(dy) == [row EXCEPT !.of = row.id, !.id = next, !.repeat = FALSE, !.y = @ + dy]
  IN  IF row.collapsed THEN <<[copy(m) EXCEPT !.panels = RowCopies(mine, next + 1, 0)]>>
      ELSE <<copy(height * m)>> \o RowCopies(mine, next + 1, height * m)

\* The list with the next copy, below those before it, and what is below
\* moved down.
NextRowCopy(ps, k, before, m) ==
  LET qs   == IF m = 1 THEN before.list
              ELSE Spliced(before.list, k + Apart(ps, k) * (m - 1), RowCopy(ps, k, before.list, m - 1))
      yPos == before.y + IF ps[k].collapsed THEN m - 1 ELSE RowHeight(ps[k], CopiedWith(ps, k))
  IN  [list |-> PushDown(qs, k + Apart(ps, k) * m, yPos), y |-> yPos]

\* repeatRow: a copy of the row and its panels for each further option.  The
\* offsets of what is below add up, the grid closes the gaps.
RepeatRow(ps, k, n) ==
  LET done[m \in 0..n] ==
        IF m = 0 THEN [list |-> ps, y |-> ps[k].y] ELSE NextRowCopy(ps, k, done[m - 1], m)
  IN  done[n].list

Repeated(ps, k, n) == IF ps[k].row THEN RepeatRow(ps, k, n) ELSE RepeatPanel(ps, k, n)

\* The list after step did what it does at each index: the loops go on over
\* what they insert.
Looped(ps, step(_, _)) ==
  LET done[k \in Nat] == IF k = 0 THEN ps
                         ELSE LET qs == done[k - 1] IN IF k <= Len(qs) THEN step(qs, k) ELSE qs
  IN  done[MaxPanels]

ProcessRepeats(ps, n) ==
  SortPanelsByGridPos(
    Looped(CleanUpRepeats(ps), LAMBDA qs, k : IF qs[k].repeat THEN Repeated(qs, k, n) ELSE qs))

\* What repeats within one row that is expanded is repeated anew.
ProcessRowRepeats(ps, id, n) ==
  LET mine    == RowPanels(ps, IndexOf(ps, id))
      goes(p) == ~ p.repeat /\ p.of # NoId /\ \E m \in DOMAIN mine : mine[m].id = p.id
      stays   == Only(mine, {m \in DOMAIN mine : mine[m].repeat})
      done[m \in 0..Len(stays)] ==
        IF m = 0 THEN Only(ps, {k \in DOMAIN ps : ~ goes(ps[k])})
        ELSE LET qs == done[m - 1] IN RepeatPanel(qs, IndexOf(qs, stays[m].id), n)
  IN  done[Len(stays)]

-----------------------------------------------------------------------------
(* Rows                                                                    *)

Expanded(ps, k, n) ==
  LET row    == ps[k]
      kept   == row.panels
      opened == [row EXCEPT !.collapsed = FALSE, !.panels = <<>>]
      shift(p) == [p EXCEPT !.y = @ + row.y + row.h - kept[1].y]
      mine   == [m \in DOMAIN kept |-> shift(kept[m])]
      yMax   == Max({row.y} \cup {mine[m].y + mine[m].h : m \in DOMAIN mine})
      open   == SubSeq(ps, 1, k - 1) \o <<opened>> \o mine
                  \o PushDown(SubSeq(ps, k + 1, Len(ps)), 1, yMax - row.y - 1)
  IN  SortPanelsByGridPos(
        IF kept = <<>> THEN [ps EXCEPT ![k] = opened]
        ELSE IF \E m \in DOMAIN kept : kept[m].repeat THEN ProcessRowRepeats(open, row.id, n) ELSE open)

Collapsed(ps, k) ==
  SubSeq(ps, 1, k - 1) \o <<[ps[k] EXCEPT !.collapsed = TRUE, !.panels = RowPanels(ps, k)]>>
    \o SubSeq(ps, RowEnd(ps, k) + 1, Len(ps))

Toggled(ps, k, n) == IF ps[k].collapsed THEN Expanded(ps, k, n) ELSE Collapsed(ps, k)

\* Each row that is in this state.
AllToggled(ps, collapsed, n) ==
  Looped(ps, LAMBDA qs, k : IF qs[k].row /\ qs[k].collapsed = collapsed THEN Toggled(qs, k, n) ELSE qs)

-----------------------------------------------------------------------------
(* The grid                                                                *)

Collides(p, q) ==
  /\ p.x < q.x + q.w /\ q.x < p.x + p.w
  /\ p.y < q.y + q.h /\ q.y < p.y + p.h

\* Where compaction puts p below those that are placed.
Placed(done, p) ==
  LET bottom  == Max({0} \cup {done[m].y + done[m].h : m \in DOMAIN done})
      start   == Min({bottom, p.y})
      free(y) == \A m \in DOMAIN done : ~ Collides([p EXCEPT !.y = y], done[m])
      up      == {y \in 0..start : \A z \in y..start : free(z)}
  IN  [p EXCEPT !.y = IF up # {} THEN Min(up) ELSE Min({y \in start..bottom : free(y)})]

\* The panel at k in its place; a row that makes room takes with it what follows.
Seated(qs, k) ==
  LET p    == qs[k]
      q    == Placed(SubSeq(qs, 1, k - 1), p)
      down == IF p.row /\ q.y > p.y THEN q.y - p.y ELSE 0
  IN  PushDown([qs EXCEPT ![k] = q], k + 1, down)

\* The list after the grid has drawn it: rows are one line, gaps are closed.
Arranged(ps) ==
  LET sized == [k \in DOMAIN ps |-> IF ps[k].row THEN [ps[k] EXCEPT !.w = Columns, !.h = 1] ELSE ps[k]]
      done[k \in 0..Len(ps)] == IF k = 0 THEN SortPanelsByGridPos(sized)
                                ELSE LET qs == done[k - 1] IN Seated(qs, k)
  IN  SortPanelsByGridPos(done[Len(ps)])

-----------------------------------------------------------------------------
(* The operations                                                          *)

\* Where each panel is that is no copy: in the row that keeps it, or in the
\* last one above it.
Homes(ps) ==
  LET users(p) == ~ p.row /\ p.of = NoId
      above(k) == Max({j \in 1..k : ps[j].row} \cup {0})
      inRow(k) == IF above(k) = 0 THEN NoId
                  ELSE IF ps[above(k)].of # NoId \/ ps[above(k)].collapsed THEN Loose ELSE ps[above(k)].id
      listed   == {<<ps[k].id, inRow(k)>> : k \in {j \in DOMAIN ps : users(ps[j])}}
      keptBy(k) == {<<p.id, IF ps[k].of = NoId THEN ps[k].id ELSE InCopy>> : p \in {q \in ToSet(ps[k].panels) : users(q)}}
      all      == listed \cup UNION {keptBy(k) : k \in DOMAIN ps}
  IN  [id \in {h[1] : h \in all} |-> (CHOOSE h \in all : h[1] = id)[2]]

LayoutInit ==
  /\ panels \in Dashboards
  /\ selected = 1
  /\ home = Homes(panels)
  /\ edits = 0

Edit == edits < MaxEdits /\ edits' = edits + 1

\* The grid draws this list, in which the user has put these panels, and from
\* which those were removed.
Becomes(ps, put, removed) ==
  /\ panels' = Arranged(ps)
  /\ LET now == Homes(panels')
         is(id) == IF id \in DOMAIN now /\ (id \in put \/ now[id] = InCopy) THEN now[id] ELSE home[id]
     IN  home' = [id \in (DOMAIN home \cup (put \cap DOMAIN now)) \ removed |-> is(id)]

\* What the program arranges.
Keeps(ps) == Becomes(ps, {}, {})

Add(p) == SortPanelsByGridPos(<<[p EXCEPT !.id = NextPanelId(panels)]>> \o panels)

AddPanel ==
  /\ Edit
  /\ Becomes(Add(Panel(NoId, FALSE, FALSE, 0, 0, 1, 1)), {NextPanelId(panels)}, {})
  /\ UNCHANGED selected

\* What was above all rows is in the new one.
AddRow ==
  /\ Edit
  /\ Becomes(Add(Panel(NoId, TRUE, FALSE, 0, 0, 1, 1)), {id \in DOMAIN home : home[id] = NoId}, {})
  /\ UNCHANGED selected

DuplicatePanel(k) ==
  /\ Edit
  /\ panels[k].of = NoId /\ ~ panels[k].row
  /\ LET p == panels[k]
     IN  Becomes(Add([p EXCEPT !.repeat = FALSE,
                               !.x = IF p.x + 2 * p.w <= Columns THEN @ + p.w ELSE @,
                               !.y = IF p.x + 2 * p.w <= Columns THEN @ ELSE @ + p.h]), {NextPanelId(panels)}, {})
  /\ UNCHANGED selected

RemovePanel(k) ==
  /\ Edit
  /\ panels[k].of = NoId /\ ~ panels[k].row
  /\ Becomes(RemoveAt(panels, k), {}, {panels[k].id})
  /\ UNCHANGED selected

RemoveRow(k, removePanels) ==
  /\ Edit
  /\ panels[k].row
  /\ LET row  == panels[k].id
         mine == {p.id : p \in ToSet(CopiedWith(panels, k))}
         ps   == IF removePanels # panels[k].collapsed THEN Toggled(panels, k, selected) ELSE panels
         left == Only(ps, {j \in DOMAIN ps : ps[j].id # row})
     IN  IF removePanels THEN Becomes(left, {}, mine) ELSE Becomes(left, mine, {})
  /\ UNCHANGED selected

ToggleRow(k) ==
  /\ panels[k].row
  /\ Keeps(Toggled(panels, k, selected))
  /\ UNCHANGED <<selected, edits>>

\* expandRows and collapseRows
ToggleRows(collapsed) ==
  /\ \E k \in DOMAIN panels : panels[k].row /\ panels[k].collapsed = collapsed
  /\ Keeps(AllToggled(panels, collapsed, selected))
  /\ UNCHANGED <<selected, edits>>

\* The options of a row, which a copy has too: repeat is switched.
UpdateRow(k) ==
  /\ Edit
  /\ panels[k].row
  /\ Keeps(ProcessRepeats([panels EXCEPT ![k].repeat = ~ @], selected))
  /\ UNCHANGED selected

\* templateVariableValueUpdated; the variable may be another one, and the
\* same is done when a saved dashboard is opened again.
ChangeVariable(n) ==
  /\ selected' = n
  /\ Keeps(ProcessRepeats(panels, n))
  /\ UNCHANGED edits

\* The user drops a panel, or a row that is collapsed, where another panel is;
\* that one and what is below make room.
Move(k, j) ==
  /\ Edit
  /\ k # j
  /\ panels[k].row => panels[k].collapsed
  /\ panels[j].x + panels[k].w <= Columns
  /\ Becomes(SortPanelsByGridPos(
       [i \in DOMAIN panels |->
          IF i = k THEN [panels[k] EXCEPT !.x = panels[j].x, !.y = panels[j].y]
          ELSE IF panels[i].y >= panels[j].y THEN [panels[i] EXCEPT !.y = @ + panels[k].h] ELSE panels[i]]),
       IF panels[k].row THEN DOMAIN home ELSE {panels[k].id}, {})
  /\ UNCHANGED selected

\* The user pulls a corner of a panel.
Resize(k, w, h) ==
  /\ Edit
  /\ ~ panels[k].row
  /\ panels[k].x + w <= Columns
  /\ Keeps(SortPanelsByGridPos([panels EXCEPT ![k] = [@ EXCEPT !.w = w, !.h = h]]))
  /\ UNCHANGED selected

LayoutNext ==
  \/ AddPanel \/ AddRow
  \/ \E k \in DOMAIN panels :
       \/ DuplicatePanel(k) \/ RemovePanel(k) \/ ToggleRow(k) \/ UpdateRow(k)
       \/ \E with \in BOOLEAN : RemoveRow(k, with)
       \/ \E j \in DOMAIN panels : Move(k, j)
       \/ \E w, h \in 1..MaxSize : Resize(k, w, h)
  \/ \E collapsed \in BOOLEAN : ToggleRows(collapsed)
  \/ \E n \in 1..MaxOptions : ChangeVariable(n)

LayoutSpec == LayoutInit /\ [][LayoutNext]_layoutVars

-----------------------------------------------------------------------------
(* Properties                                                              *)

\* The panels are panels and rows, and only collapsed rows keep any; there are
\* never more than the loops go through.
LayoutTypeOK ==
  LET fits(p) == {p.x, p.y} \subseteq Nat /\ p.h > 0 /\ p.w \in 1..(Columns - p.x)
  IN  /\ panels \in Seq(Panels)
      /\ \A k \in DOMAIN panels : fits(panels[k]) /\ \A m \in DOMAIN panels[k].panels : fits(panels[k].panels[m])
      /\ Len(panels) <= MaxPanels
      /\ selected \in 1..MaxOptions
      /\ DOMAIN home \subseteq Nat /\ \A id \in DOMAIN home : home[id] \in Nat \cup {Loose, InCopy}
      /\ edits \in 0..MaxEdits

\* getNextPanelId gives no id twice, whatever is copied, collapsed, expanded
\* or removed in between.
UniqueIds == IdsDiffer(panels)

\* A panel that is no copy stays in the row where the user has put it, or above
\* all rows, whatever is collapsed, expanded and repeated, and however other
\* panels are added, moved, resized or removed.  One that the user left below a
\* copy, or below a row that was collapsed, may be in another row later but is
\* not lost, unless a copy of a row was collapsed with it: copies are made anew,
\* and then it goes with the copy.
PanelsKeepTheirRow ==
  LET now == Homes(panels)
  IN  \A id \in DOMAIN home :
        IF id \in DOMAIN now THEN home[id] \in {Loose, InCopy, now[id]} ELSE home[id] = InCopy

\* Once the variable has changed, each panel and row that repeats has a copy
\* for each further option, and what is copied is there.  A copy of a row that
\* was given a repeat of its own stays, as a row like any other.
RepeatsFollow ==
  [][selected' # selected =>
       \A k \in DOMAIN panels' :
         /\ panels'[k].repeat =>
              Cardinality({j \in DOMAIN panels' : panels'[j].of = panels'[k].id /\ ~ panels'[j].repeat}) = selected' - 1
         /\ panels'[k].of # NoId /\ (panels'[k].repeat => panels'[k].byRow) =>
              panels'[k].of \in Ids(panels')]_layoutVars

\* A row that is collapsed and expanded again is as it was, and so is the
\* rest of the dashboard, when nothing in the row repeats: also when the row was
\* pushed down in between and what it keeps has the positions of before.
CollapseIsUndone ==
  \A k \in DOMAIN panels :
    panels[k].row /\ ~ panels[k].collapsed /\ (\A m \in (k + 1)..RowEnd(panels, k) : ~ panels[m].repeat) =>
      \A dy \in 0..1 :
        Arranged(Expanded(PushDown(Arranged(Collapsed(panels, k)), 1, dy), k, selected)) = panels
=============================================================================
