--------------------------- MODULE DashboardPanel ---------------------------
(***************************************************************************)
(* One panel of an open dashboard: what DashboardModel tells it to         *)
(* refresh, PanelChrome.tsx, which queries and shows data only while the   *)
(* panel is in view, and PanelQueryRunner.ts with runRequest.ts, which run *)
(* one query at a time.  Of the other panels it matters only whether one   *)
(* of them is viewed alone.                                                *)
(***************************************************************************)
EXTENDS TimeSrv, Sequences, SequencesExt

CONSTANTS
  Sources,   \* the data sources the panel may be switched between by a variable
  Faults     \* subset of {"source", "variable"}: a plugin cannot be loaded, a variable not updated

ASSUME PanelAssumption == Faults \subseteq {"source", "variable"}

VARIABLES
  viewing,     \* "none", "this" or "other": the panel that is viewed alone
  onScreen,    \* whether the scroll position shows the panel
  pluginReady, \* the plugin of the panel was loaded
  lazy,        \* DashboardPanel.state.isLazy
  mounted,     \* PanelChrome is
  hasRefreshed,
  refreshWhenInView,
  shown,       \* PanelChrome.state.data: its state and the query it came from
  source,      \* the data source of the panel
  loaded,      \* those that getDataSource finds at once
  lookups,     \* lookups[s]: the queries that wait for the source s, in order
  lastRun,     \* history: the last query that was begun
  sub,         \* the subscription: which query, and how far it is
  lastResult,
  owed,        \* history: what was asked for at the last refresh of the dashboard
  missed       \* history: another panel was viewed alone at that time

grid == <<viewing, onScreen>>
chrome == <<pluginReady, lazy, mounted, hasRefreshed, refreshWhenInView, shown>>
runner == <<loaded, lookups, lastRun, sub, lastResult>>
panelVars == <<grid, chrome, source, runner, owed, missed>>
vars == <<timeVars, panelVars>>

\* A query is known by what it was begun for.
Queries == [asked : 0..MaxAsked, source : Sources]
NoQuery == <<>>
Data(state, q) == [state |-> state, of |-> q]
LoadingStates == {"NotStarted", "Loading", "Streaming", "Done", "Error"}

\* DashboardGrid.isInView
InView == viewing = "this" \/ (viewing = "none" /\ onScreen)
OtherPanelInFullscreen == viewing = "other"

NoLookups == [s \in Sources |-> <<>>]

UnderWay == sub.phase \in {"quiet", "loading", "partial"}

TypeOK ==
  /\ TimeTypeOK
  /\ viewing \in {"none", "this", "other"}
  /\ {onScreen, pluginReady, lazy, mounted, hasRefreshed, refreshWhenInView} \subseteq BOOLEAN
  /\ shown.state \in LoadingStates /\ shown.of \in Queries \cup {NoQuery}
  /\ source \in Sources /\ loaded \subseteq Sources
  /\ DOMAIN lookups = Sources
  /\ \A s \in Sources : ToSet(lookups[s]) \subseteq {q \in Queries : q.source = s}
  /\ lastRun \in Queries \cup {NoQuery}
  /\ sub.phase \in {"none", "quiet", "loading", "partial", "ended", "cancelled"}
  /\ sub.query \in Queries \cup {NoQuery}
  /\ lastResult.state \in LoadingStates
  /\ owed \in 0..MaxAsked /\ missed \in BOOLEAN

Init ==
  /\ TimeInit
  /\ viewing = "none"
  /\ onScreen \in BOOLEAN
  /\ pluginReady = FALSE
  /\ lazy = ~ onScreen
  /\ mounted = FALSE
  /\ hasRefreshed = FALSE /\ refreshWhenInView = FALSE
  /\ shown = Data("NotStarted", NoQuery)
  /\ source \in Sources
  /\ loaded = {} /\ lookups = NoLookups
  /\ lastRun = NoQuery
  /\ sub = [phase |-> "none", query |-> NoQuery]
  /\ lastResult = Data("NotStarted", NoQuery)
  /\ owed = 0 /\ missed = FALSE

-----------------------------------------------------------------------------
(* PanelQueryRunner                                                        *)

\* pipeToSubject: the query before is unsubscribed from, and with it cancelled.
PipeToSubject(q) == sub' = [phase |-> "quiet", query |-> q]

\* run: at once when the data source is there.  A query that was begun for
\* nothing new after another that waits is left out.
Run ==
  LET q == [asked |-> asked, source |-> source]
  IN  /\ lastRun' = q
      /\ IF source \in loaded
           THEN PipeToSubject(q) /\ UNCHANGED lookups
           ELSE /\ IF lookups[source] # <<>> /\ Last(lookups[source]) = q
                     THEN UNCHANGED lookups
                     ELSE lookups' = [lookups EXCEPT ![source] = Append(@, q)]
                /\ UNCHANGED sub
      /\ UNCHANGED <<loaded, lastResult>>

\* A variant that forgets about a panel that is not in view.
OnRefreshInView ==
  IF InView' THEN Run /\ UNCHANGED refreshWhenInView
            ELSE UNCHANGED <<refreshWhenInView, runner>>

\* PanelChrome.onRefresh
OnRefresh ==
  IF InView' THEN Run /\ UNCHANGED refreshWhenInView
            ELSE refreshWhenInView' = TRUE /\ UNCHANGED runner

\* PanelModel.refresh; before PanelChrome is there nobody listens.
Refresh ==
  /\ hasRefreshed' = TRUE
  /\ IF mounted THEN OnRefresh ELSE UNCHANGED <<refreshWhenInView, runner>>

\* A variant that does not note what it ignored.
OnDataUpdateIgnored(d) ==
  IF ~ InView THEN UNCHANGED <<refreshWhenInView, shown>>
  ELSE /\ shown' = IF d.state = "Loading" /\ shown.state = "Loading" THEN shown ELSE d
       /\ UNCHANGED refreshWhenInView

\* PanelChrome.onDataUpdate
OnDataUpdate(d) ==
  IF ~ InView
    THEN /\ refreshWhenInView' = (refreshWhenInView \/ d.state # "Streaming")
         /\ UNCHANGED shown
    ELSE /\ shown' = IF d.state = "Loading" /\ shown.state = "Loading" THEN shown ELSE d
         /\ UNCHANGED refreshWhenInView

\* The subject has new data.
Emit(d) ==
  /\ lastResult' = d
  /\ OnDataUpdate(d)
  /\ UNCHANGED <<timeVars, grid, pluginReady, lazy, mounted, hasRefreshed, source, loaded,
                 lookups, lastRun, owed, missed>>

\* No answer for 200 ms: the last result, or none, is shown as loading.
LoadingTimer ==
  /\ sub.phase = "quiet"
  /\ sub' = [sub EXCEPT !.phase = "loading"]
  /\ Emit(Data("Loading", IF lastResult.of = NoQuery THEN sub.query ELSE lastResult.of))

\* A packet that is not the last one.
Packet ==
  /\ UnderWay
  /\ sub' = [sub EXCEPT !.phase = "partial"]
  /\ \E state \in {"Loading", "Streaming"} : Emit(Data(state, sub.query))

\* The last packet, or an error.
Answer ==
  /\ UnderWay
  /\ sub' = [sub EXCEPT !.phase = "ended"]
  /\ \E state \in {"Done", "Error"} : Emit(Data(state, sub.query))

\* The user stops a query that is shown as loading.
CancelQuery ==
  /\ InView /\ shown.state = "Loading"
  /\ sub.phase # "none"
  /\ sub' = IF UnderWay THEN [sub EXCEPT !.phase = "cancelled"] ELSE sub
  /\ IF lastResult.state = "Loading" THEN OnDataUpdate(Data("Done", lastResult.of))
                                     ELSE UNCHANGED <<refreshWhenInView, shown>>
  /\ UNCHANGED <<timeVars, grid, pluginReady, lazy, mounted, hasRefreshed, source, loaded,
                 lookups, lastRun, lastResult, owed, missed>>

\* resendLastResult: an option or an override was changed, such as a series hidden.
ResendLastResult ==
  /\ mounted /\ InView
  /\ lastResult.of # NoQuery
  /\ OnDataUpdate(lastResult)
  /\ UNCHANGED <<timeVars, grid, pluginReady, lazy, mounted, hasRefreshed, source, runner, owed, missed>>

\* A variant in which a query that waited longer is the last to be started.
SourceLoadedReversed(s) ==
  /\ lookups[s] # <<>>
  /\ PipeToSubject(Head(lookups[s]))
  /\ loaded' = loaded \cup {s}
  /\ lookups' = [lookups EXCEPT ![s] = <<>>]
  /\ UNCHANGED <<timeVars, grid, chrome, source, lastRun, lastResult, owed, missed>>

\* A data source was loaded: the queries that waited for it are started, one
\* after the other, and the last of them stays.
SourceLoaded(s) ==
  /\ lookups[s] # <<>>
  /\ PipeToSubject(Last(lookups[s]))
  /\ loaded' = loaded \cup {s}
  /\ lookups' = [lookups EXCEPT ![s] = <<>>]
  /\ UNCHANGED <<timeVars, grid, chrome, source, lastRun, lastResult, owed, missed>>

\* It cannot be loaded, and the queries end with a line in the console.
SourceFails(s) ==
  /\ "source" \in Faults
  /\ lookups[s] # <<>>
  /\ lookups' = [lookups EXCEPT ![s] = <<>>]
  /\ UNCHANGED <<timeVars, grid, chrome, source, loaded, lastRun, sub, lastResult, owed, missed>>

-----------------------------------------------------------------------------
(* The dashboard                                                           *)

PluginLoaded ==
  /\ ~ pluginReady
  /\ pluginReady' = TRUE
  /\ UNCHANGED <<timeVars, grid, lazy, mounted, hasRefreshed, refreshWhenInView, shown, source,
                 runner, owed, missed>>

\* PanelChrome mounts, once the panel has a width: componentDidMount and
\* DashboardModel.panelInitialized.
Mount ==
  /\ ~ mounted /\ pluginReady /\ ~ lazy /\ ~ OtherPanelInFullscreen
  /\ mounted' = TRUE
  /\ hasRefreshed' = TRUE
  /\ UNCHANGED grid
  /\ OnRefresh
  /\ UNCHANGED <<timeVars, pluginReady, lazy, shown, source, owed, missed>>

\* DashboardModel.startRefresh: a panel that another one hides is not told.
StartRefresh ==
  /\ owed' = asked
  /\ missed' = OtherPanelInFullscreen
  /\ IF OtherPanelInFullscreen THEN UNCHANGED <<hasRefreshed, refreshWhenInView, runner>>
                               ELSE Refresh

\* onTimeRangeUpdated has updated the variables.
Updated ==
  /\ updating > 0
  /\ updating' = updating - 1
  /\ UNCHANGED grid
  /\ StartRefresh
  /\ UNCHANGED <<choice, clock, page, deferred, asked, pluginReady, lazy, mounted, shown, source>>

\* One of them could not be updated: the panels are not refreshed.
UpdateFails ==
  /\ "variable" \in Faults
  /\ updating > 0
  /\ updating' = updating - 1
  /\ UNCHANGED <<choice, clock, page, deferred, asked, panelVars>>

\* The user chooses another data source, the value of a variable.
SwitchSource(s) ==
  /\ s # source
  /\ asked < MaxAsked
  /\ source' = s
  /\ asked' = asked + 1
  /\ RefreshDashboard
  /\ UNCHANGED <<choice, clock, page, grid, chrome, runner, owed, missed>>

\* The view changes: a panel that comes into view is no longer lazy, and
\* makes up for what it missed.  After a panel was viewed alone the others
\* are rendered, and refreshed if they never were.
ViewChanges(alone, scrolled) ==
  /\ viewing' = alone /\ onScreen' = scrolled
  /\ lazy' = (lazy /\ ~ InView')
  /\ LET comes   == mounted /\ InView' /\ ~ InView /\ refreshWhenInView
         renders == alone = "none" /\ viewing # "none" /\ ~ hasRefreshed
     IN  /\ hasRefreshed' = (hasRefreshed \/ renders)
         /\ IF comes \/ (renders /\ mounted) THEN OnRefresh
                                             ELSE UNCHANGED <<refreshWhenInView, runner>>
  /\ UNCHANGED <<timeVars, pluginReady, mounted, shown, source, owed, missed>>

Scroll == viewing = "none" /\ ViewChanges("none", ~ onScreen)
ViewPanel(p) == viewing = "none" /\ ViewChanges(p, onScreen)
ExitView == viewing # "none" /\ ViewChanges("none", onScreen)

PanelNext ==
  \/ LoadingTimer \/ Packet \/ Answer \/ CancelQuery \/ ResendLastResult
  \/ \E s \in Sources : SourceLoaded(s) \/ SourceFails(s) \/ SwitchSource(s)
  \/ PluginLoaded \/ Mount \/ Updated \/ UpdateFails
  \/ Scroll \/ ExitView
  \/ \E p \in {"this", "other"} : ViewPanel(p)

Next == PanelNext \/ (TimeNext /\ UNCHANGED panelVars)

Spec == Init /\ [][Next]_vars

-----------------------------------------------------------------------------
(* Properties                                                              *)

\* No refresh of the dashboard is lost: a panel in view has begun a query after
\* the last one, whether it was mounted, in view, or its plugin loaded at that
\* time or later.  The exception is a panel that was hidden at that time behind
\* one that is viewed alone: unlike one out of sight, it is never told.
NoRefreshLost ==
  mounted /\ InView /\ ~ missed => lastRun # NoQuery /\ lastRun.asked >= owed

\* What a panel in view shows, once its query has ended, is the result of
\* that query: not of one before it, and not the loading state, although it
\* ignores what comes while it is out of view.
ShowsLastRun ==
  (mounted /\ InView /\ lookups = NoLookups /\ sub.phase = "ended" /\ lastRun = sub.query) =>
     shown.of = sub.query /\ shown.state \in {"Done", "Error"}

\* Of the queries of one data source the one begun last stays, whether it
\* found the source there or waited for it, and whatever waits for others.
NewestWins ==
  sub.query # NoQuery /\ sub.query.source = lastRun.source => sub.query = lastRun
=============================================================================
