-------------------------- MODULE DashboardProofs --------------------------
(***************************************************************************)
(* Proofs about an open dashboard.  First its time range and one panel,    *)
(* TimeSrv and DashboardPanel, for every set of intervals and data         *)
(* sources, with faults or without, and however much is asked for.  Then   *)
(* the list of its panels, DashboardLayout: no two have one id, whatever   *)
(* is repeated, collapsed, expanded, added or removed, for every list to   *)
(* begin with that is sound, every grid and every number of options.       *)
(***************************************************************************)
EXTENDS DashboardPanel, DashboardLayout, SequenceTheorems, FiniteSetTheorems, WellFoundedInduction, TLAPS

-----------------------------------------------------------------------------
(* The automatic refresh                                                   *)

\* Whatever sets the refresh through SetAutoRefresh leaves one timer or none.
LEMMA SetAutoRefreshKeeps ==
  ASSUME OneTimer, NEW interval, SetAutoRefresh(interval)
  PROVE  OneTimer'
  BY DEF OneTimer, SetAutoRefresh, First

\* A range is set with the refresh as it is, or without any.
LEMMA SetTimeKeepsTimer ==
  ASSUME OneTimer, NEW toAbsolute, NEW before, SetTime(toAbsolute, before),
         ~ toAbsolute => before = refresh
  PROVE  OneTimer'
<1>1. CASE toAbsolute
  BY <1>1, SetAutoRefreshKeeps DEF SetTime
<1>2. CASE ~ toAbsolute /\ oldRefresh # Off /\ oldRefresh # before
  BY <1>2, SetAutoRefreshKeeps DEF SetTime
<1>3. CASE ~ toAbsolute /\ ~ (oldRefresh # Off /\ oldRefresh # before)
  BY <1>3 DEF SetTime, OneTimer, clock
<1> QED
  BY <1>1, <1>2, <1>3

\* The timer that fires was the only one, and so is the one that follows.
LEMMA TimerFiresKeeps ==
  ASSUME OneTimer, NEW t \in timers, TimerFires(t)
  PROVE  OneTimer'
<1>1. t = refreshTimer /\ t[2] = refresh /\ refresh # Off
  BY DEF OneTimer
<1>2. timers' = {Following(refresh)} /\ refreshTimer' = Following(refresh) /\ refresh' = refresh
  BY <1>1 DEF OneTimer, TimerFires, choice
<1>3. Following(refresh)[2] = refresh
  BY DEF Following
<1> QED
  BY <1>1, <1>2, <1>3 DEF OneTimer

\* What the panel does leaves the range and the timers alone.
LEMMA PanelStepsKeepTime ==
  ASSUME PanelNext PROVE UNCHANGED <<choice, clock>>
  BY DEF PanelNext, LoadingTimer, Packet, Answer, CancelQuery, ResendLastResult, SourceLoaded,
         SourceFails, SwitchSource, PluginLoaded, Mount, Updated, UpdateFails, Scroll, ExitView,
         ViewPanel, ViewChanges, Emit, timeVars

\* However ranges and intervals change, however often the timer fires, and
\* whatever the url brings: one timer runs, of the interval that is shown.
THEOREM OneTimerRuns == Spec => []OneTimer
<1>1. Init => OneTimer
  BY DEF Init, TimeInit, OneTimer, First
<1>2. OneTimer /\ [Next]_vars => OneTimer'
  <2> SUFFICES ASSUME OneTimer, [Next]_vars PROVE OneTimer'
    OBVIOUS
  <2>1. CASE PanelNext
    BY <2>1, PanelStepsKeepTime DEF OneTimer, choice, clock
  <2>2. ASSUME NEW abs \in BOOLEAN, ChangeTime(abs) PROVE OneTimer'
    BY <2>2, SetTimeKeepsTimer DEF ChangeTime
  <2>3. ASSUME NEW abs \in BOOLEAN, RouteUpdated(abs) PROVE OneTimer'
    BY <2>3, SetTimeKeepsTimer DEF RouteUpdated
  <2>4. ASSUME NEW s \in Settings, ChangeInterval(s) PROVE OneTimer'
    BY <2>4, SetAutoRefreshKeeps DEF ChangeInterval
  <2>5. CASE RefreshNow \/ RunDeferred \/ Hide \/ Show
    BY <2>5 DEF RefreshNow, RunDeferred, Hide, Show, OneTimer, choice, clock
  <2>6. CASE UNCHANGED vars
    BY <2>6 DEF vars, timeVars, choice, clock, OneTimer
  <2> QED
    BY <2>1, <2>2, <2>3, <2>4, <2>5, <2>6, TimerFiresKeeps DEF Next, TimeNext
<1> QED
  BY <1>1, <1>2, PTL DEF Spec

-----------------------------------------------------------------------------

\* Where the refresh that was suspended is: with an absolute range it is
\* the one that is remembered.
SuspendedIsKept ==
  suspended # NotSuspended =>
    IF absolute THEN refresh = Off /\ oldRefresh = suspended
                ELSE refresh = suspended /\ oldRefresh = Off

\* A range that the user chooses moves it from one to the other.
LEMMA ChangeTimeKeepsSuspended ==
  ASSUME SuspendedIsKept, NEW toAbsolute \in BOOLEAN, ChangeTime(toAbsolute)
  PROVE  SuspendedIsKept'
  BY DEF SuspendedIsKept, ChangeTime, Suspended, SetTime, SetAutoRefresh, clock

\* So does one that comes with the url, but for an absolute one that replaces a
\* relative one.
LEMMA RouteUpdatedKeepsSuspended ==
  ASSUME SuspendedIsKept, absolute \in BOOLEAN, NEW toAbsolute \in BOOLEAN, RouteUpdated(toAbsolute)
  PROVE  SuspendedIsKept'
  BY DEF SuspendedIsKept, RouteUpdated, SetTime, SetAutoRefresh, clock

\* What was shown before an absolute range comes back with a relative one,
\* whatever dashboards and ranges there were before.
THEOREM ChosenComesBack == Spec => []AutoRefreshComesBack
<1> DEFINE Kept == SuspendedIsKept /\ absolute \in BOOLEAN
<1>1. Init => Kept
  BY DEF Init, TimeInit, SuspendedIsKept
<1>2. Kept /\ [Next]_vars => Kept'
  <2> SUFFICES ASSUME SuspendedIsKept, absolute \in BOOLEAN, [Next]_vars
               PROVE  SuspendedIsKept' /\ absolute' \in BOOLEAN
    OBVIOUS
  <2>1. CASE PanelNext
    BY <2>1, PanelStepsKeepTime DEF SuspendedIsKept, choice, clock
  <2>2. ASSUME NEW abs \in BOOLEAN, ChangeTime(abs) PROVE SuspendedIsKept' /\ absolute' \in BOOLEAN
    BY <2>2, ChangeTimeKeepsSuspended DEF ChangeTime, SetTime
  <2>3. ASSUME NEW abs \in BOOLEAN, RouteUpdated(abs) PROVE SuspendedIsKept' /\ absolute' \in BOOLEAN
    BY <2>3, RouteUpdatedKeepsSuspended DEF RouteUpdated, SetTime
  <2>4. ASSUME NEW s \in Settings, ChangeInterval(s) PROVE SuspendedIsKept' /\ absolute' \in BOOLEAN
    BY <2>4 DEF ChangeInterval, SetAutoRefresh, SuspendedIsKept
  <2>5. ASSUME NEW t \in timers, TimerFires(t) PROVE SuspendedIsKept' /\ absolute' \in BOOLEAN
    BY <2>5 DEF TimerFires, SuspendedIsKept, choice
  <2>6. CASE RefreshNow \/ RunDeferred \/ Hide \/ Show
    BY <2>6 DEF RefreshNow, RunDeferred, Hide, Show, SuspendedIsKept, choice
  <2>7. CASE UNCHANGED vars
    BY <2>7 DEF vars, timeVars, choice, SuspendedIsKept
  <2> QED
    BY <2>1, <2>2, <2>3, <2>4, <2>5, <2>6, <2>7 DEF Next, TimeNext
<1>3. Kept => AutoRefreshComesBack
  BY DEF SuspendedIsKept, AutoRefreshComesBack
<1> QED
  BY <1>1, <1>2, <1>3, PTL DEF Spec

-----------------------------------------------------------------------------
(* The queries of the panel                                                *)

\* A query was begun for what is owed, or for something later.
Settled == lastRun # NoQuery /\ lastRun.asked >= owed

\* The panel is even with what it was told, or knows that it is not, or was
\* not told.
Remembered ==
  /\ asked \in Nat /\ owed \in Nat /\ owed <= asked
  /\ mounted => Settled \/ (~ InView /\ refreshWhenInView) \/ missed

\* A query is begun for all that was asked for until now.
LEMMA RunSettles == ASSUME Run, asked \in Nat PROVE lastRun' # NoQuery /\ lastRun'.asked = asked
<1>1. lastRun' = [asked |-> asked, source |-> source]
  BY DEF Run
<1>2. DOMAIN lastRun' = {"asked", "source"} /\ lastRun'.asked = asked
  BY <1>1
<1>3. DOMAIN NoQuery = {}
  BY DEF NoQuery
<1> QED
  BY <1>2, <1>3

\* The same for a refresh, unless the panel is out of view and remembers it.
LEMMA OnRefreshRemembers ==
  ASSUME OnRefresh, asked \in Nat, owed' \in Nat, owed' <= asked
  PROVE  Settled' \/ (~ InView' /\ refreshWhenInView')
<1>1. CASE InView'
  <2>1. lastRun' # NoQuery /\ lastRun'.asked = asked
    BY <1>1, RunSettles DEF OnRefresh
  <2>2. NoQuery' = NoQuery
    BY DEF NoQuery
  <2> QED
    BY <2>1, <2>2 DEF Settled
<1>2. CASE ~ InView'
  BY <1>2 DEF OnRefresh
<1> QED
  BY <1>1, <1>2

\* What the panel is told while it is out of view it may only remember more of.
LEMMA QuietStepsRemember ==
  ASSUME Remembered, UNCHANGED <<grid, mounted, lastRun, owed, missed>>, asked' \in Nat, asked' >= asked,
         refreshWhenInView => refreshWhenInView'
  PROVE  Remembered'
  BY DEF Remembered, Settled, InView, grid, NoQuery

\* Data that the panel ignores is something more to remember.
LEMMA OnDataUpdateRemembers ==
  ASSUME NEW d, OnDataUpdate(d), refreshWhenInView PROVE refreshWhenInView'
  BY DEF OnDataUpdate

\* TimeSrv only asks for more.
LEMMA TimeStepsAsk ==
  ASSUME TimeNext, asked \in Nat PROVE asked' \in Nat /\ asked' >= asked
  BY DEF TimeNext, ChangeTime, RouteUpdated, SetTime, ChangeInterval, RefreshNow, RunDeferred, Hide,
         Show, TimerFires

\* A panel that comes into view makes up for what it missed, another goes on
\* remembering it.
LEMMA ViewChangesRemembers ==
  ASSUME Remembered, NEW alone, NEW scrolled, ViewChanges(alone, scrolled) PROVE Remembered'
<1>1. UNCHANGED <<asked, owed, missed, mounted>>
  BY DEF ViewChanges, timeVars
<1>2. CASE OnRefresh
  BY <1>1, <1>2, OnRefreshRemembers DEF Remembered
<1>3. CASE ~ OnRefresh
  <2>1. UNCHANGED <<refreshWhenInView, lastRun>> /\ ~ (mounted /\ InView' /\ ~ InView /\ refreshWhenInView)
    BY <1>3 DEF ViewChanges, runner
  <2>2. Settled' <=> Settled
    BY <1>1, <2>1 DEF Settled, NoQuery
  <2> QED
    BY <1>1, <2>1, <2>2 DEF Remembered
<1> QED
  BY <1>2, <1>3

\* A refresh of the dashboard reaches a panel that is in view at once, and one
\* that is not when it comes into view; one that is not mounted begins with a
\* query in any case.
THEOREM RefreshesArrive == Spec => []NoRefreshLost
<1>1. Init => Remembered
  BY DEF Init, TimeInit, Remembered
<1>2. Remembered /\ [Next]_vars => Remembered'
  <2> SUFFICES ASSUME Remembered, [Next]_vars PROVE Remembered'
    OBVIOUS
  <2>0. asked \in Nat
    BY DEF Remembered
  <2>1. CASE LoadingTimer \/ Packet \/ Answer
    <3>1. PICK d : Emit(d)
      BY <2>1 DEF LoadingTimer, Packet, Answer
    <3>2. UNCHANGED <<grid, mounted, lastRun, owed, missed, asked>> /\ OnDataUpdate(d)
      BY <3>1 DEF Emit, timeVars
    <3> QED
      BY <3>2, <2>0, QuietStepsRemember, OnDataUpdateRemembers
  <2>2. CASE CancelQuery \/ ResendLastResult
    <3>1. UNCHANGED <<grid, mounted, lastRun, owed, missed, asked>>
      BY <2>2 DEF CancelQuery, ResendLastResult, timeVars, runner
    <3>2. refreshWhenInView => refreshWhenInView'
      BY <2>2, OnDataUpdateRemembers DEF CancelQuery, ResendLastResult
    <3> QED
      BY <3>1, <3>2, <2>0, QuietStepsRemember
  <2>3. ASSUME NEW s \in Sources, SourceLoaded(s) \/ SourceFails(s) PROVE Remembered'
    BY <2>3, <2>0, QuietStepsRemember DEF SourceLoaded, SourceFails, timeVars, chrome
  <2>4. ASSUME NEW s \in Sources, SwitchSource(s) PROVE Remembered'
    BY <2>4, <2>0, QuietStepsRemember DEF SwitchSource, chrome, runner
  <2>5. CASE PluginLoaded
    BY <2>5, <2>0, QuietStepsRemember DEF PluginLoaded, timeVars, runner
  <2>6. CASE Mount
    <3>1. UNCHANGED <<asked, owed, missed>> /\ OnRefresh
      BY <2>6 DEF Mount, timeVars
    <3> QED
      BY <3>1, OnRefreshRemembers DEF Remembered
  <2>7. CASE Updated
    <3>1. UNCHANGED <<asked, mounted, grid>> /\ StartRefresh
      BY <2>7 DEF Updated
    <3>2. CASE OtherPanelInFullscreen
      BY <3>1, <3>2, <2>0 DEF StartRefresh, Remembered
    <3>3. CASE ~ OtherPanelInFullscreen
      <4>1. owed' = asked /\ Refresh
        BY <3>1, <3>3 DEF StartRefresh
      <4> QED
        BY <3>1, <4>1, <2>0, OnRefreshRemembers DEF Refresh, Remembered
    <3> QED
      BY <3>2, <3>3
  <2>8. CASE UpdateFails
    BY <2>8, <2>0, QuietStepsRemember DEF UpdateFails, panelVars, chrome, runner
  <2>9. CASE Scroll \/ ExitView \/ \E p \in {"this", "other"} : ViewPanel(p)
    BY <2>9, ViewChangesRemembers DEF Scroll, ExitView, ViewPanel
  <2>10. CASE TimeNext /\ UNCHANGED panelVars
    BY <2>10, <2>0, TimeStepsAsk, QuietStepsRemember DEF panelVars, chrome, runner
  <2>11. CASE UNCHANGED vars
    BY <2>11, <2>0, QuietStepsRemember DEF vars, timeVars, panelVars, chrome, runner
  <2> QED
    BY <2>1, <2>2, <2>3, <2>4, <2>5, <2>6, <2>7, <2>8, <2>9, <2>10, <2>11 DEF Next, PanelNext
<1>3. Remembered => NoRefreshLost
  BY DEF Remembered, Settled, NoRefreshLost
<1> QED
  BY <1>1, <1>2, <1>3, PTL DEF Spec

-----------------------------------------------------------------------------
(* The queries that wait for their data source                             *)

BegunQueries == [asked : Nat, source : Sources]

\* The last that waits for a source is of that source, and nothing waits for
\* a source that is there.
WaitForSources ==
  /\ lookups \in [Sources -> Seq(BegunQueries)]
  /\ \A s \in Sources : lookups[s] # <<>> => s \notin loaded /\ Last(lookups[s]).source = s

\* The last query that was begun is the one that runs, if its source is there
\* and no query of another one came after it; it is the last one that waits
\* for its source, if any does.
LastIsNewest ==
  IF lastRun.source \in loaded
    THEN sub.query # NoQuery /\ sub.query.source = lastRun.source => sub.query = lastRun
    ELSE lookups[lastRun.source] # <<>> => Last(lookups[lastRun.source]) = lastRun

NewestKept ==
  /\ asked \in Nat /\ source \in Sources
  /\ WaitForSources
  /\ sub = [phase |-> sub.phase, query |-> sub.query]
  /\ sub.query # NoQuery => sub.query.source \in loaded
  /\ lastRun = NoQuery => sub.query = NoQuery /\ lookups = NoLookups
  /\ lastRun # NoQuery => lastRun \in BegunQueries /\ LastIsNewest

\* What a query is begun with.
LEMMA BegunIsNew ==
  ASSUME NewestKept
  PROVE  /\ [asked |-> asked, source |-> source] \in BegunQueries
         /\ [asked |-> asked, source |-> source] # NoQuery
<1> DEFINE q == [asked |-> asked, source |-> source]
<1>1. DOMAIN q = {"asked", "source"} /\ q.asked = asked
  OBVIOUS
<1>2. DOMAIN NoQuery = {}
  BY DEF NoQuery
<1>3. q \in BegunQueries
  BY DEF NewestKept, BegunQueries
<1> QED
  BY <1>1, <1>2, <1>3

\* The last of a sequence is what was appended.
LEMMA LastAppended ==
  ASSUME NEW S, NEW t \in Seq(S), NEW e \in S
  PROVE  Append(t, e) \in Seq(S) /\ Append(t, e) # <<>> /\ Last(Append(t, e)) = e
  BY DEF Last

\* A query that waits is the last to wait for its source.
LEMMA BegunWaits ==
  ASSUME NewestKept, Run, source \notin loaded
  PROVE  /\ WaitForSources'
         /\ lookups'[source] # <<>> /\ Last(lookups'[source]) = [asked |-> asked, source |-> source]
<1> DEFINE q == [asked |-> asked, source |-> source]
           l == Append(lookups[source], q)
<1>0. q \in BegunQueries /\ q.source = source
  BY BegunIsNew
<1>1. source \in Sources /\ lookups \in [Sources -> Seq(BegunQueries)] /\ lookups[source] \in Seq(BegunQueries)
  BY DEF NewestKept, WaitForSources
<1>2. loaded' = loaded
  BY DEF Run
<1>3. CASE lookups[source] # <<>> /\ Last(lookups[source]) = q
  <2>1. lookups' = lookups
    BY <1>3 DEF Run
  <2> QED
    BY <1>1, <1>2, <1>3, <2>1 DEF NewestKept, WaitForSources
<1>4. CASE ~ (lookups[source] # <<>> /\ Last(lookups[source]) = q)
  <2>1. lookups' = [lookups EXCEPT ![source] = l]
    BY <1>4 DEF Run
  <2>2. l \in Seq(BegunQueries) /\ l # <<>> /\ Last(l) = q
    BY <1>0, <1>1, LastAppended
  <2> HIDE DEF l
  <2>3. lookups' \in [Sources -> Seq(BegunQueries)] /\ lookups'[source] = l
    BY <1>1, <2>1, <2>2
  <2>4. \A s \in Sources : s # source => lookups'[s] = lookups[s]
    BY <1>1, <2>1
  <2>5. ASSUME NEW s \in Sources, lookups'[s] # <<>>
        PROVE  s \notin loaded' /\ Last(lookups'[s]).source = s
    <3>1. CASE s = source
      BY <3>1, <2>2, <2>3, <1>0, <1>2
    <3>2. CASE s # source
      BY <3>2, <2>4, <2>5, <1>2 DEF NewestKept, WaitForSources
    <3> QED
      BY <3>1, <3>2
  <2>6. WaitForSources'
    <3>1. BegunQueries' = BegunQueries
      BY DEF BegunQueries
    <3> QED
      BY <2>3, <2>5, <3>1 DEF WaitForSources
  <2> QED
    BY <2>2, <2>3, <2>6
<1> QED
  BY <1>3, <1>4

\* A query that is begun is the newest one, at its source or before it.
LEMMA RunKeepsNewest ==
  ASSUME NewestKept, Run, asked' = asked, source' = source
  PROVE  NewestKept'
<1> DEFINE q == [asked |-> asked, source |-> source]
<1>0. q \in BegunQueries /\ q # NoQuery /\ q.source = source
  BY BegunIsNew
<1>1. lastRun' = q /\ loaded' = loaded /\ NoQuery' = NoQuery /\ BegunQueries' = BegunQueries
  BY DEF Run, NoQuery, BegunQueries
<1>2. CASE source \in loaded
  <2>1. sub' = [phase |-> "quiet", query |-> q] /\ lookups' = lookups
    BY <1>2 DEF Run, PipeToSubject
  <2>2. sub'.query = q /\ sub' = [phase |-> sub'.phase, query |-> sub'.query]
    BY <2>1
  <2>3. WaitForSources'
    BY <2>1, <1>1 DEF NewestKept, WaitForSources
  <2> HIDE DEF q
  <2> QED
    BY <1>0, <1>1, <1>2, <2>1, <2>2, <2>3 DEF NewestKept, LastIsNewest
<1>3. CASE source \notin loaded
  <2>1. sub' = sub
    BY <1>3 DEF Run
  <2>2. WaitForSources' /\ Last(lookups'[source]) = q
    BY <1>3, BegunWaits
  <2> HIDE DEF q
  <2>3. LastIsNewest'
    BY <1>0, <1>1, <1>3, <2>2 DEF LastIsNewest
  <2> QED
    BY <1>0, <1>1, <2>1, <2>2, <2>3 DEF NewestKept
<1> QED
  BY <1>2, <1>3

\* Data, and what else does not begin or start a query, leaves their order.
LEMMA QuietStepsKeepNewest ==
  ASSUME NewestKept, asked' \in Nat, source' \in Sources, UNCHANGED <<lookups, loaded, lastRun>>,
         sub' = [phase |-> sub'.phase, query |-> sub.query]
  PROVE  NewestKept'
<1>1. sub'.query = sub.query
  OBVIOUS
<1> QED
  BY <1>1 DEF NewestKept, WaitForSources, LastIsNewest, BegunQueries, NoQuery, NoLookups

\* The same for a refresh, which the panel may put off.
LEMMA OnRefreshKeepsNewest ==
  ASSUME NewestKept, OnRefresh, asked' = asked, source' = source
  PROVE  NewestKept'
<1>1. CASE InView'
  BY <1>1, RunKeepsNewest DEF OnRefresh
<1>2. CASE ~ InView'
  <2>1. UNCHANGED <<lookups, loaded, lastRun, sub>>
    BY <1>2 DEF OnRefresh, runner
  <2> QED
    BY <2>1, QuietStepsKeepNewest DEF NewestKept
<1> QED
  BY <1>1, <1>2

\* No query waits for s any more; that does not concern the others.
LEMMA NoneWaits ==
  ASSUME NewestKept, NEW s \in Sources, lookups' = [lookups EXCEPT ![s] = <<>>],
         loaded' \in {loaded, loaded \cup {s}}
  PROVE  WaitForSources' /\ lookups'[s] = <<>> /\ \A r \in Sources : r # s => lookups'[r] = lookups[r]
<1>1. lookups \in [Sources -> Seq(BegunQueries)] /\ <<>> \in Seq(BegunQueries) /\ BegunQueries' = BegunQueries
  BY DEF NewestKept, WaitForSources, BegunQueries
<1>2. lookups' \in [Sources -> Seq(BegunQueries)] /\ lookups'[s] = <<>>
  BY <1>1
<1>3. \A r \in Sources : r # s => lookups'[r] = lookups[r]
  BY <1>1
<1> QED
  BY <1>1, <1>2, <1>3 DEF NewestKept, WaitForSources

\* A data source that was loaded starts the last query that waited for it.
LEMMA SourceLoadedKeepsNewest ==
  ASSUME NewestKept, NEW s \in Sources, SourceLoaded(s) PROVE NewestKept'
<1> DEFINE q == Last(lookups[s])
<1>1. lookups[s] # <<>> /\ lookups' = [lookups EXCEPT ![s] = <<>>] /\ loaded' = loaded \cup {s}
  BY DEF SourceLoaded
<1>2. sub' = [phase |-> "quiet", query |-> q]
  BY DEF SourceLoaded, PipeToSubject
<1>3. sub'.query = q /\ sub' = [phase |-> sub'.phase, query |-> sub'.query]
  BY <1>2
<1>4. UNCHANGED <<asked, source, lastRun>>
  BY DEF SourceLoaded, timeVars
<1>5. /\ WaitForSources' /\ lookups'[s] = <<>>
      /\ \A r \in Sources : r # s => lookups'[r] = lookups[r]
  BY <1>1, NoneWaits
<1>6. q.source = s /\ s \notin loaded
  BY <1>1 DEF NewestKept, WaitForSources
<1>7. lastRun # NoQuery
  <2>1. NoLookups[s] = <<>>
    BY DEF NoLookups
  <2> QED
    BY <1>1, <2>1 DEF NewestKept
<1> HIDE DEF q
<1>8. LastIsNewest'
  <2>1. CASE lastRun.source = s
    BY <2>1, <1>1, <1>3, <1>4, <1>6, <1>7 DEF NewestKept, LastIsNewest, q
  <2>2. CASE lastRun.source # s
    BY <2>2, <1>1, <1>3, <1>4, <1>5, <1>6, <1>7 DEF NewestKept, LastIsNewest, BegunQueries
  <2> QED
    BY <2>1, <2>2
<1> QED
  BY <1>1, <1>3, <1>4, <1>5, <1>6, <1>7, <1>8 DEF NewestKept, BegunQueries, NoQuery

\* One that cannot be loaded ends the queries that wait for it.
LEMMA SourceFailsKeepsNewest ==
  ASSUME NewestKept, NEW s \in Sources, SourceFails(s) PROVE NewestKept'
<1>1. lookups[s] # <<>> /\ lookups' = [lookups EXCEPT ![s] = <<>>] /\ UNCHANGED <<asked, source, lastRun, sub, loaded>>
  BY DEF SourceFails, timeVars
<1>2. /\ WaitForSources' /\ lookups'[s] = <<>>
      /\ \A r \in Sources : r # s => lookups'[r] = lookups[r]
  BY <1>1, NoneWaits
<1>3. lastRun # NoQuery /\ lastRun \in BegunQueries
  <2>1. NoLookups[s] = <<>>
    BY DEF NoLookups
  <2> QED
    BY <1>1, <2>1 DEF NewestKept
<1>4. LastIsNewest'
  BY <1>1, <1>2, <1>3 DEF NewestKept, LastIsNewest, BegunQueries, NoQuery
<1> QED
  BY <1>1, <1>2, <1>3, <1>4 DEF NewestKept, BegunQueries, NoQuery

\* A panel whose view changes may run its query again.
LEMMA ViewChangesKeepsNewest ==
  ASSUME NewestKept, NEW alone, NEW scrolled, ViewChanges(alone, scrolled) PROVE NewestKept'
<1>1. UNCHANGED <<asked, source>>
  BY DEF ViewChanges, timeVars
<1>2. CASE OnRefresh
  BY <1>1, <1>2, OnRefreshKeepsNewest
<1>3. CASE ~ OnRefresh
  <2>1. UNCHANGED <<lookups, loaded, lastRun, sub>>
    BY <1>3 DEF ViewChanges, runner
  <2> QED
    BY <1>1, <2>1, QuietStepsKeepNewest DEF NewestKept
<1> QED
  BY <1>2, <1>3

\* Whatever runs, loads or fails, the queries keep their order.
LEMMA NewestIsKept == Spec => []NewestKept
<1>1. Init => NewestKept
  <2> SUFFICES ASSUME Init PROVE NewestKept
    OBVIOUS
  <2>1. lookups = NoLookups /\ sub = [phase |-> "none", query |-> NoQuery] /\ lastRun = NoQuery
        /\ source \in Sources /\ asked = 0
    BY DEF Init, TimeInit
  <2>2. WaitForSources
    BY <2>1 DEF WaitForSources, NoLookups
  <2> QED
    BY <2>1, <2>2 DEF NewestKept
<1>2. NewestKept /\ [Next]_vars => NewestKept'
  <2> SUFFICES ASSUME NewestKept, [Next]_vars PROVE NewestKept'
    OBVIOUS
  <2>0. asked \in Nat /\ source \in Sources /\ sub = [phase |-> sub.phase, query |-> sub.query]
    BY DEF NewestKept
  <2>1. CASE LoadingTimer \/ Packet \/ Answer
    <3>1. PICK d : Emit(d)
      BY <2>1 DEF LoadingTimer, Packet, Answer
    <3>2. UNCHANGED <<asked, source, lookups, loaded, lastRun>>
      BY <3>1 DEF Emit, timeVars
    <3>3. sub' = [phase |-> sub'.phase, query |-> sub.query]
      BY <2>1, <2>0 DEF LoadingTimer, Packet, Answer
    <3> QED
      BY <3>2, <3>3, <2>0, QuietStepsKeepNewest
  <2>2. CASE CancelQuery
    <3>1. UNCHANGED <<asked, source, lookups, loaded, lastRun>>
      BY <2>2 DEF CancelQuery, timeVars
    <3>2. sub' = [phase |-> sub'.phase, query |-> sub.query]
      BY <2>2, <2>0 DEF CancelQuery
    <3> QED
      BY <3>1, <3>2, <2>0, QuietStepsKeepNewest
  <2>3. CASE ResendLastResult \/ PluginLoaded \/ UpdateFails
    BY <2>3, <2>0, QuietStepsKeepNewest
       DEF ResendLastResult, PluginLoaded, UpdateFails, timeVars, panelVars, runner
  <2>4. ASSUME NEW s \in Sources, SourceLoaded(s) \/ SourceFails(s) PROVE NewestKept'
    BY <2>4, SourceLoadedKeepsNewest, SourceFailsKeepsNewest
  <2>5. ASSUME NEW s \in Sources, SwitchSource(s) PROVE NewestKept'
    BY <2>5, <2>0, QuietStepsKeepNewest DEF SwitchSource, runner
  <2>6. CASE Mount
    BY <2>6, OnRefreshKeepsNewest DEF Mount, timeVars
  <2>7. CASE Updated
    <3>1. UNCHANGED <<asked, source, mounted>> /\ StartRefresh
      BY <2>7 DEF Updated
    <3>2. CASE mounted /\ ~ OtherPanelInFullscreen
      BY <3>1, <3>2, OnRefreshKeepsNewest DEF StartRefresh, Refresh
    <3>3. CASE ~ (mounted /\ ~ OtherPanelInFullscreen)
      BY <3>1, <3>3, <2>0, QuietStepsKeepNewest DEF StartRefresh, Refresh, runner
    <3> QED
      BY <3>2, <3>3
  <2>8. CASE Scroll \/ ExitView \/ \E p \in {"this", "other"} : ViewPanel(p)
    BY <2>8, ViewChangesKeepsNewest DEF Scroll, ExitView, ViewPanel
  <2>9. CASE TimeNext /\ UNCHANGED panelVars
    BY <2>9, <2>0, TimeStepsAsk, QuietStepsKeepNewest DEF panelVars, runner
  <2>10. CASE UNCHANGED vars
    BY <2>10, <2>0, QuietStepsKeepNewest DEF vars, timeVars, panelVars, runner
  <2> QED
    BY <2>1, <2>2, <2>3, <2>4, <2>5, <2>6, <2>7, <2>8, <2>9, <2>10 DEF Next, PanelNext
<1> QED
  BY <1>1, <1>2, PTL DEF Spec

\* A query of a data source is never replaced by one of the same source that
\* was begun before it, whichever of them waited for the source, whatever
\* other sources do and whether they can be loaded.
THEOREM NewestQueryWins == Spec => []NewestWins
<1>1. NewestKept => NewestWins
  <2> SUFFICES ASSUME NewestKept, sub.query # NoQuery, sub.query.source = lastRun.source
               PROVE  sub.query = lastRun
    BY DEF NewestWins
  <2> QED
    BY DEF NewestKept, LastIsNewest
<1> QED
  BY <1>1, NewestIsKept, PTL

-----------------------------------------------------------------------------
(* The data that is shown                                                  *)

Shown(d) == d.of = sub.query /\ d.state \in {"Done", "Error"}

\* A query that has ended was of a data source that is there, and its result
\* is the last one.  The panel shows it, or has begun another query, or knows
\* that it is not even.
ResultKept ==
  /\ sub = [phase |-> sub.phase, query |-> sub.query]
  /\ sub.phase # "none" => sub.query.source \in loaded
  /\ sub.phase = "ended" =>
       /\ Shown(lastResult)
       /\ \/ Shown(shown)
          \/ lastRun # sub.query
          \/ mounted => ~ InView /\ refreshWhenInView

\* A query begun anew is under way, or is of a data source that the last one
\* to end was not of.
LEMMA RunKeepsResult == ASSUME ResultKept, Run PROVE ResultKept'
<1>1. CASE source \in loaded
  <2>1. sub' = [phase |-> "quiet", query |-> [asked |-> asked, source |-> source]] /\ loaded' = loaded
    BY <1>1 DEF Run, PipeToSubject
  <2> QED
    BY <1>1, <2>1 DEF ResultKept
<1>2. CASE source \notin loaded
  <2>1. UNCHANGED <<sub, loaded, lastResult>> /\ lastRun' = [asked |-> asked, source |-> source]
    BY <1>2 DEF Run
  <2>2. sub.phase = "ended" => lastRun' # sub.query
    BY <1>2, <2>1 DEF ResultKept
  <2> QED
    BY <2>1, <2>2 DEF ResultKept, Shown
<1> QED
  BY <1>1, <1>2

\* The same for a refresh, which the panel may put off.
LEMMA OnRefreshKeepsResult == ASSUME ResultKept, OnRefresh PROVE ResultKept'
<1>1. CASE InView'
  BY <1>1, RunKeepsResult DEF OnRefresh
<1>2. CASE ~ InView'
  BY <1>2 DEF OnRefresh, runner, ResultKept, Shown
<1> QED
  BY <1>1, <1>2

\* Where neither the query nor the view changes the panel stays even.
LEMMA QuietStepsKeepResult ==
  ASSUME ResultKept, UNCHANGED <<grid, mounted, shown, lastRun, sub, loaded, lastResult, refreshWhenInView>>
  PROVE  ResultKept'
  BY DEF ResultKept, Shown, InView, grid

\* A panel that leaves the view keeps what it shows; one that comes back, and
\* ignored something, runs its query again.
LEMMA ViewChangesKeepsResult ==
  ASSUME ResultKept, NEW alone, NEW scrolled, ViewChanges(alone, scrolled) PROVE ResultKept'
<1>1. UNCHANGED <<mounted, shown>>
  BY DEF ViewChanges
<1>2. CASE OnRefresh
  BY <1>2, OnRefreshKeepsResult
<1>3. CASE ~ OnRefresh
  <2>1. /\ UNCHANGED <<refreshWhenInView, lastRun, sub, loaded, lastResult>>
        /\ ~ (mounted /\ InView' /\ ~ InView /\ refreshWhenInView)
    BY <1>3 DEF ViewChanges, runner
  <2> QED
    BY <1>1, <2>1 DEF ResultKept, Shown
<1> QED
  BY <1>2, <1>3

\* A panel in view shows the result of its last query once that has ended,
\* whatever it ignored while it was out of view.
THEOREM LastRunIsShown == Spec => []ShowsLastRun
<1>1. Init => ResultKept
  BY DEF Init, ResultKept
<1>2. NewestKept /\ ResultKept /\ [Next]_vars => ResultKept'
  <2> SUFFICES ASSUME NewestKept, ResultKept, [Next]_vars PROVE ResultKept'
    OBVIOUS
  <2>1. CASE LoadingTimer \/ Packet
    <3>1. /\ sub' = [phase |-> sub'.phase, query |-> sub.query]
          /\ sub'.phase \in {"loading", "partial"} /\ sub.phase # "none"
      BY <2>1 DEF LoadingTimer, Packet, UnderWay, ResultKept
    <3>2. UNCHANGED loaded
      BY <2>1 DEF LoadingTimer, Packet, Emit
    <3> QED
      BY <3>1, <3>2 DEF ResultKept
  <2>2. CASE Answer
    <3>1. sub' = [phase |-> "ended", query |-> sub.query] /\ sub.phase # "none"
      BY <2>2 DEF Answer, UnderWay, ResultKept
    <3>2. PICK state \in {"Done", "Error"} : Emit(Data(state, sub.query))
      BY <2>2 DEF Answer
    <3>3. lastResult' = Data(state, sub.query) /\ UNCHANGED <<loaded, grid>> /\ OnDataUpdate(Data(state, sub.query))
      BY <3>2 DEF Emit
    <3>4. CASE InView
      BY <3>1, <3>3, <3>4 DEF ResultKept, Shown, OnDataUpdate, Data
    <3>5. CASE ~ InView
      <4>1. refreshWhenInView' /\ ~ InView'
        BY <3>3, <3>5 DEF OnDataUpdate, Data, InView, grid
      <4> QED
        BY <3>1, <3>3, <4>1 DEF ResultKept, Shown, Data
    <3> QED
      BY <3>4, <3>5
  <2>3. CASE CancelQuery
    <3>1. UNCHANGED <<grid, mounted, loaded, lastResult, lastRun>>
      BY <2>3 DEF CancelQuery
    <3>2. CASE UnderWay
      <4>1. sub' = [phase |-> "cancelled", query |-> sub.query] /\ sub.phase # "none"
        BY <2>3, <3>2 DEF CancelQuery, ResultKept
      <4> QED
        BY <3>1, <4>1 DEF ResultKept
    <3>3. CASE ~ UnderWay /\ sub.phase = "ended"
      <4>1. sub' = sub /\ UNCHANGED <<refreshWhenInView, shown>>
        BY <2>3, <3>3 DEF CancelQuery, ResultKept, Shown
      <4> QED
        BY <3>1, <4>1, QuietStepsKeepResult
    <3>4. CASE ~ UnderWay /\ sub.phase # "ended"
      BY <2>3, <3>1, <3>4 DEF CancelQuery, ResultKept
    <3> QED
      BY <3>2, <3>3, <3>4
  <2>4. CASE ResendLastResult
    <3>1. UNCHANGED <<grid, mounted, lastRun, sub, loaded, lastResult, refreshWhenInView>>
      BY <2>4 DEF ResendLastResult, runner, OnDataUpdate
    <3>2. sub.phase = "ended" => shown' = lastResult
      BY <2>4 DEF ResendLastResult, OnDataUpdate, ResultKept, Shown
    <3> QED
      BY <3>1, <3>2 DEF ResultKept, Shown
  <2>5. ASSUME NEW s \in Sources, SourceLoaded(s) PROVE ResultKept'
    <3>1. Last(lookups[s]).source = s
      BY <2>5 DEF SourceLoaded, NewestKept, WaitForSources
    <3>2. sub' = [phase |-> "quiet", query |-> Last(lookups[s])] /\ s \in loaded'
      BY <2>5 DEF SourceLoaded, PipeToSubject
    <3> QED
      BY <3>1, <3>2 DEF ResultKept
  <2>6. ASSUME NEW s \in Sources, SourceFails(s) \/ SwitchSource(s) PROVE ResultKept'
    BY <2>6, QuietStepsKeepResult DEF SourceFails, SwitchSource, chrome, runner
  <2>7. CASE PluginLoaded \/ UpdateFails
    BY <2>7, QuietStepsKeepResult DEF PluginLoaded, UpdateFails, panelVars, chrome, runner
  <2>8. CASE Mount
    BY <2>8, OnRefreshKeepsResult DEF Mount
  <2>9. CASE Updated
    <3>1. UNCHANGED <<mounted, shown, grid>> /\ StartRefresh
      BY <2>9 DEF Updated
    <3>2. CASE mounted /\ ~ OtherPanelInFullscreen
      BY <3>1, <3>2, OnRefreshKeepsResult DEF StartRefresh, Refresh
    <3>3. CASE ~ (mounted /\ ~ OtherPanelInFullscreen)
      BY <3>1, <3>3, QuietStepsKeepResult DEF StartRefresh, Refresh, runner
    <3> QED
      BY <3>2, <3>3
  <2>10. CASE Scroll \/ ExitView \/ \E p \in {"this", "other"} : ViewPanel(p)
    BY <2>10, ViewChangesKeepsResult DEF Scroll, ExitView, ViewPanel
  <2>11. CASE UNCHANGED panelVars
    BY <2>11, QuietStepsKeepResult DEF panelVars, chrome, runner
  <2> QED
    BY <2>1, <2>2, <2>3, <2>4, <2>5, <2>6, <2>7, <2>8, <2>9, <2>10, <2>11 DEF Next, PanelNext, vars
<1>3. ResultKept => ShowsLastRun
  BY DEF ResultKept, Shown, ShowsLastRun
<1> QED
  BY <1>1, <1>2, <1>3, NewestIsKept, PTL DEF Spec

-----------------------------------------------------------------------------
(* Numbers                                                                 *)

\* A set of numbers has a least one.
LEMMA LeastOfNaturals ==
  ASSUME NEW S \in SUBSET Nat, S # {}
  PROVE  \E n \in S : \A m \in S : n <= m
<1>1. PICK n \in S : \A m \in S : ~ (<<m, n>> \in OpToRel(<, Nat))
  BY NatLessThanWellFounded, WFMin
<1>2. \A m \in S : ~ (m < n)
  <2> SUFFICES ASSUME NEW m \in S PROVE ~ (m < n)
    OBVIOUS
  <2>1. <<m, n>> \in Nat \X Nat /\ <<m, n>>[1] = m /\ <<m, n>>[2] = n
    OBVIOUS
  <2>2. m < n => <<m, n>> \in OpToRel(<, Nat)
    BY <2>1, Zenon DEF OpToRel
  <2> QED
    BY <1>1, <2>2
<1> QED
  BY <1>2

\* What holds of 0, and of each number after one of which it holds, as a set.
LEMMA AllNaturals ==
  ASSUME NEW N \in Nat, NEW S, 0 \in S, \A k \in 0..N : k < N /\ k \in S => k + 1 \in S
  PROVE  \A k \in 0..N : k \in S
<1> DEFINE bad == {k \in 0..N : k \notin S}
<1> SUFFICES ASSUME bad # {} PROVE FALSE
  OBVIOUS
<1>1. PICK k \in bad : \A m \in bad : k <= m
  <2>1. bad \in SUBSET Nat
    OBVIOUS
  <2> HIDE DEF bad
  <2> QED
    BY <2>1, LeastOfNaturals
<1>2. k - 1 \in 0..N /\ k - 1 \in S
  BY <1>1
<1> QED
  BY <1>1, <1>2

\* A set of integers with a bound has a greatest or a least one.
LEMMA MinIsLeast ==
  ASSUME NEW b \in Int, NEW S \in SUBSET Int, S # {}, \A s \in S : b <= s
  PROVE  Min(S) \in S /\ \A s \in S : Min(S) <= s
<1> DEFINE T == {n \in Nat : n + b \in S}
<1>1. PICK s \in S : TRUE
  OBVIOUS
<1>2. s - b \in T
  BY <1>1
<1>3. PICK n \in T : \A m \in T : n <= m
  BY <1>2, LeastOfNaturals
<1>4. \A t \in S : n + b <= t
  <2> SUFFICES ASSUME NEW t \in S PROVE n + b <= t
    OBVIOUS
  <2>1. t - b \in T
    OBVIOUS
  <2> QED
    BY <1>3, <2>1
<1>5. n + b \in S
  OBVIOUS
<1> HIDE DEF T
<1> QED
  BY <1>4, <1>5 DEF Min

\* And Max of one that is bounded is the greatest.
LEMMA MaxIsGreatest ==
  ASSUME NEW b \in Int, NEW S \in SUBSET Int, S # {}, \A s \in S : s <= b
  PROVE  Max(S) \in S /\ \A s \in S : s <= Max(S)
<1> DEFINE T == {n \in Nat : b - n \in S}
<1>1. PICK s \in S : TRUE
  OBVIOUS
<1>2. b - s \in T
  BY <1>1
<1>3. PICK n \in T : \A m \in T : n <= m
  BY <1>2, LeastOfNaturals
<1>4. \A t \in S : b - n >= t
  <2> SUFFICES ASSUME NEW t \in S PROVE b - n >= t
    OBVIOUS
  <2>1. b - t \in T
    OBVIOUS
  <2>2. n <= b - t /\ n \in Nat /\ t \in Int
    BY <1>3, <2>1
  <2> HIDE DEF T
  <2> QED
    BY <2>2
<1>5. b - n \in S
  OBVIOUS
<1> HIDE DEF T
<1> QED
  BY <1>4, <1>5 DEF Max

\* The entries of a sequence have a bound.
LEMMA Bound ==
  ASSUME NEW N \in Nat, NEW f, \A k \in 1..N : f[k] \in Int
  PROVE  \E b \in Nat : \A k \in 1..N : f[k] <= b
<1> DEFINE S == {i \in 0..N : \E b \in Nat : \A k \in 1..i : f[k] <= b}
<1>1. 0 \in S
  OBVIOUS
<1>2. ASSUME NEW i \in 0..N, i < N, i \in S PROVE i + 1 \in S
  <2>1. PICK b \in Nat : \A k \in 1..i : f[k] <= b
    BY <1>2
  <2>2. f[i + 1] \in Int
    BY <1>2
  <2>3. PICK c \in Nat : b <= c /\ f[i + 1] <= c
    BY <2>2
  <2>4. \A k \in 1..(i + 1) : f[k] <= c
    <3> SUFFICES ASSUME NEW k \in 1..(i + 1) PROVE f[k] <= c
      OBVIOUS
    <3>1. CASE k = i + 1
      BY <3>1, <2>3
    <3>2. CASE k \in 1..i
      <4>1. f[k] \in Int /\ f[k] <= b
        BY <3>2, <2>1, <1>2
      <4> QED
        BY <4>1, <2>3
    <3> QED
      BY <3>1, <3>2, <1>2
  <2> QED
    BY <1>2, <2>3, <2>4
<1> HIDE DEF S
<1>3. N \in S
  BY <1>1, <1>2, AllNaturals
<1> QED
  BY <1>3 DEF S

-----------------------------------------------------------------------------
(* Loops                                                                   *)

\* A loop that stays in T, whose k-th step is F, has its states.
LEMMA LoopExists ==
  ASSUME NEW S, NEW T, NEW F, NEW a \in S, <<0, a>> \in T,
         \A k \in Nat : \A s \in S : <<k, s>> \in T => F[<<k, s>>] \in S /\ <<k + 1, F[<<k, s>>]>> \in T
  PROVE  \E g \in [Nat -> S] : /\ g[0] = a
                               /\ \A k \in Nat : <<k, g[k]>> \in T /\ g[k + 1] = F[<<k, g[k]>>]
<1> DEFINE Part(n) == {h \in [0..n -> S] : /\ h[0] = a
                                           /\ \A k \in 0..n : /\ <<k, h[k]>> \in T
                                                              /\ k < n => h[k + 1] = F[<<k, h[k]>>]}
<1>1. \A n \in Nat : Part(n) # {}
  <2> SUFFICES ASSUME NEW N \in Nat PROVE Part(N) # {}
    OBVIOUS
  <2> DEFINE U == {n \in 0..N : Part(n) # {}}
  <2>1. 0 \in U
    <3>1. [k \in 0..0 |-> a] \in Part(0)
      OBVIOUS
    <3> QED
      BY <3>1
  <2>2. ASSUME NEW n \in 0..N, n < N, n \in U PROVE n + 1 \in U
    <3>1. PICK h : h \in Part(n)
      BY <2>2
    <3>2. /\ h \in [0..n -> S] /\ h[0] = a /\ \A k \in 0..n : <<k, h[k]>> \in T
          /\ \A k \in 0..n : k < n => h[k + 1] = F[<<k, h[k]>>]
      BY <3>1
    <3>3. h[n] \in S /\ <<n, h[n]>> \in T /\ n \in Nat
      BY <3>2
    <3>4. F[<<n, h[n]>>] \in S /\ <<n + 1, F[<<n, h[n]>>]>> \in T
      BY <3>3
    <3> DEFINE e == [k \in 0..(n + 1) |-> IF k = n + 1 THEN F[<<n, h[n]>>] ELSE h[k]]
    <3>5. e \in [0..(n + 1) -> S] /\ e[0] = a /\ e[n + 1] = F[<<n, h[n]>>] /\ \A k \in 0..n : e[k] = h[k]
      BY <3>2, <3>4
    <3> HIDE DEF e
    <3>6. ASSUME NEW k \in 0..(n + 1)
          PROVE  <<k, e[k]>> \in T /\ (k < n + 1 => e[k + 1] = F[<<k, e[k]>>])
      <4>1. CASE k = n + 1
        BY <4>1, <3>4, <3>5
      <4>2. CASE k = n
        BY <4>2, <3>3, <3>5
      <4>3. CASE k < n
        <5>1. k \in 0..n /\ k + 1 \in 0..n
          BY <4>3
        <5> QED
          BY <5>1, <4>3, <3>2, <3>5
      <4> QED
        BY <4>1, <4>2, <4>3
    <3>7. e \in Part(n + 1)
      BY <3>5, <3>6
    <3> QED
      BY <3>7, <2>2
  <2> HIDE DEF U
  <2>3. N \in U
    BY <2>1, <2>2, AllNaturals
  <2> QED
    BY <2>3 DEF U
<1>2. \A m, n \in Nat : m <= n => \A h \in Part(m) : \A e \in Part(n) : h[m] = e[m]
  <2> SUFFICES ASSUME NEW m \in Nat, NEW n \in Nat, m <= n, NEW h \in Part(m), NEW e \in Part(n)
               PROVE  h[m] = e[m]
    OBVIOUS
  <2> DEFINE U == {k \in 0..m : h[k] = e[k]}
  <2>0. /\ h[0] = a /\ \A k \in 0..m : k < m => h[k + 1] = F[<<k, h[k]>>]
        /\ e[0] = a /\ \A k \in 0..n : k < n => e[k + 1] = F[<<k, e[k]>>]
    OBVIOUS
  <2>1. 0 \in U
    BY <2>0
  <2>2. ASSUME NEW k \in 0..m, k < m, k \in U PROVE k + 1 \in U
    <3>1. k \in 0..n /\ k < n /\ k + 1 \in 0..m
      BY <2>2
    <3> QED
      BY <2>0, <2>2, <3>1
  <2> HIDE DEF U
  <2>3. \A k \in 0..m : k \in U
    <3>1. \A k \in 0..m : k < m /\ k \in U => k + 1 \in U
      BY <2>2
    <3> QED
      BY <2>1, <3>1, AllNaturals
  <2> QED
    BY <2>3 DEF U
<1> DEFINE at(n) == CHOOSE h : h \in Part(n)
           g == [n \in Nat |-> at(n)[n]]
<1>3. \A n \in Nat : at(n) \in Part(n)
  <2> SUFFICES ASSUME NEW n \in Nat PROVE at(n) \in Part(n)
    OBVIOUS
  <2>1. Part(n) # {}
    BY <1>1
  <2> DEFINE P == Part(n)
  <2>2. at(n) = CHOOSE h : h \in P
    OBVIOUS
  <2> HIDE DEF P, at
  <2>3. P # {}
    BY <2>1 DEF P
  <2>4. at(n) \in P
    BY <2>2, <2>3
  <2> QED
    BY <2>4 DEF P
<1>4. g \in [Nat -> S] /\ g[0] = a
  <2>1. \A n \in Nat : at(n) \in [0..n -> S] /\ at(n)[0] = a
    BY <1>3
  <2> HIDE DEF at
  <2>2. ASSUME NEW n \in Nat PROVE at(n)[n] \in S
    <3>1. at(n) \in [0..n -> S] /\ n \in 0..n
      BY <2>1
    <3> QED
      BY <3>1
  <2> QED
    BY <2>1, <2>2
<1>5. ASSUME NEW k \in Nat PROVE <<k, g[k]>> \in T /\ g[k + 1] = F[<<k, g[k]>>]
  <2>1. at(k) \in Part(k) /\ at(k + 1) \in Part(k + 1)
    <3> HIDE DEF at, Part
    <3> QED
      BY <1>3
  <2>2. at(k)[k] = at(k + 1)[k]
    <3> HIDE DEF Part, at
    <3> QED
      BY <2>1, <1>2
  <2>3. <<k, at(k)[k]>> \in T /\ at(k + 1)[k + 1] = F[<<k, at(k + 1)[k]>>]
    <3>1. ASSUME NEW h, h \in Part(k) PROVE <<k, h[k]>> \in T
      BY <3>1
    <3>2. ASSUME NEW h, h \in Part(k + 1) PROVE h[k + 1] = F[<<k, h[k]>>]
      BY <3>2
    <3> HIDE DEF at, Part
    <3> QED
      BY <2>1, <3>1, <3>2
  <2> HIDE DEF at
  <2> QED
    BY <2>2, <2>3
<1> QED
  BY <1>4, <1>5

-----------------------------------------------------------------------------
(* Lists                                                                   *)

Lists == Seq(Panels)

\* The members of I up to each of them, of which one is a part of the other,
\* number them.
LEMMA Numbered ==
  ASSUME NEW I, IsFiniteSet(I), NEW B, NEW rank,
         \A i \in I : B[i] \in SUBSET I /\ i \in B[i] /\ rank[i] = Cardinality(B[i]),
         \A i, j \in I : i # j => (B[i] \subseteq B[j] /\ j \notin B[i]) \/ (B[j] \subseteq B[i] /\ i \notin B[j])
  PROVE  /\ \A i \in I : rank[i] \in 1..Cardinality(I)
         /\ \A i, j \in I : rank[i] = rank[j] => i = j
         /\ \A r \in 1..Cardinality(I) : \E i \in I : rank[i] = r
<1> DEFINE N == Cardinality(I)
           f == [i \in I |-> rank[i]]
<1>1. N \in Nat
  BY FS_CardinalityType
<1>2. ASSUME NEW i \in I PROVE IsFiniteSet(B[i]) /\ rank[i] \in 1..N
  <2>1. IsFiniteSet(B[i]) /\ Cardinality(B[i]) <= N
    BY FS_Subset
  <2>2. Cardinality(B[i]) \in Nat /\ Cardinality(B[i]) # 0
    BY <2>1, FS_EmptySet, FS_CardinalityType
  <2> QED
    BY <1>1, <2>1, <2>2
<1>3. ASSUME NEW i \in I, NEW j \in I, B[i] \subseteq B[j], j \notin B[i]
      PROVE  rank[i] # rank[j]
  <2>1. B[i] \in SUBSET B[j] /\ B[i] # B[j]
    BY <1>3
  <2>2. Cardinality(B[i]) < Cardinality(B[j])
    BY <1>2, <2>1, FS_Subset
  <2>3. rank[i] < rank[j] /\ rank[i] \in Int
    BY <1>2, <2>2
  <2> QED
    BY <2>3
<1>4. \A i, j \in I : rank[i] = rank[j] => i = j
  BY <1>3
<1>5. f \in Injection(I, 1..N)
  <2>1. f \in [I -> 1..N]
    BY <1>2
  <2> QED
    BY <2>1, <1>4, Zenon DEF Injection, IsInjective
<1>6. f \in Surjection(I, 1..N)
  <2>1. IsFiniteSet(1..N) /\ Cardinality(1..N) = N
    BY <1>1, FS_Interval
  <2> HIDE DEF f, N
  <2> QED
    BY <1>5, <2>1, FS_Injection DEF N
<1>7. \A r \in 1..N : \E i \in I : f[i] = r
  <2> HIDE DEF f, N
  <2> QED
    BY <1>6 DEF Surjection
<1> QED
  BY <1>2, <1>4, <1>7

\* A list, as a function on its indices, after the empty one.
LEMMA FromEmpty ==
  ASSUME NEW T, NEW s \in Seq(T)
  PROVE  <<>> \o s = s
  OBVIOUS

\* What is listed are the entries at the indices, each once.
LEMMA ListedIs ==
  ASSUME NEW T, NEW ps \in Seq(T), NEW rank, NEW I \in SUBSET DOMAIN ps, DOMAIN rank = I, IsFiniteSet(I),
         \A i \in I : rank[i] \in 1..Cardinality(I),
         \A i, j \in I : rank[i] = rank[j] => i = j,
         \A r \in 1..Cardinality(I) : \E i \in I : rank[i] = r
  PROVE  /\ Listed(ps, rank) \in Seq(T)
         /\ Len(Listed(ps, rank)) = Cardinality(I)
         /\ \A r \in 1..Cardinality(I) :
              \E i \in I : rank[i] = r /\ Listed(ps, rank)[r] = ps[i]
<1> DEFINE N == Cardinality(I)
           at(r) == CHOOSE i \in I : rank[i] = r
           s == [r \in 1..N |-> ps[at(r)]]
<1>1. N \in Nat
  BY FS_CardinalityType
<1>2. \A r \in 1..N : at(r) \in I /\ rank[at(r)] = r
  OBVIOUS
<1>3. \A r \in 1..N : ps[at(r)] \in T
  <2> HIDE DEF at, N
  <2> QED
    BY <1>2, ElementOfSeq
<1>4. s \in Seq(T) /\ Len(s) = N
  <2> HIDE DEF at, N
  <2> QED
    BY <1>1, <1>3, IsASeq, LenProperties
<1>5. Listed(ps, rank) = s
  <2>1. Listed(ps, rank) = <<>> \o s
    BY DEF Listed
  <2> HIDE DEF s
  <2> QED
    BY <2>1, <1>4, FromEmpty
<1>6. \A r \in 1..N : s[r] = ps[at(r)]
  <2> HIDE DEF at, N
  <2> QED
    OBVIOUS
<1> HIDE DEF at, s
<1> QED
  BY <1>2, <1>4, <1>5, <1>6

-----------------------------------------------------------------------------
(* Panels                                                                  *)

\* The fields of a panel: only a collapsed row keeps panels.
LEMMA Fields ==
  ASSUME NEW p \in Panels
  PROVE  /\ p.id \in Nat \ {0} /\ p.of \in Nat
         /\ p.row \in BOOLEAN /\ p.collapsed \in BOOLEAN /\ p.repeat \in BOOLEAN /\ p.byRow \in BOOLEAN
         /\ p.x \in Int /\ p.y \in Int /\ p.w \in Int /\ p.h \in Int
         /\ p.panels \in Seq(KeptPanels)
         /\ ~ p.row \/ ~ p.collapsed => p.panels = <<>>
  BY DEF Panels, PanelModels

\* What a row keeps is any panel that is no row.
LEMMA KeptArePanels ==
  /\ \A p \in KeptPanels : p \in Panels /\ ~ p.row /\ p.panels = <<>>
  /\ \A p \in Panels : ~ p.row => p \in KeptPanels
<1>1. ASSUME NEW p \in KeptPanels PROVE p \in Panels /\ ~ p.row /\ p.panels = <<>>
  <2>1. p.panels = <<>> /\ <<>> \in Seq(KeptPanels)
    BY DEF KeptPanels, PanelModels
  <2> QED
    BY <2>1 DEF Panels, KeptPanels, PanelModels
<1>2. ASSUME NEW p \in Panels, ~ p.row PROVE p \in KeptPanels
  <2>1. p.panels = <<>> /\ p.row = FALSE
    BY <1>2, Fields
  <2> QED
    BY <2>1 DEF Panels, KeptPanels, PanelModels
<1> QED
  BY <1>1, <1>2

\* Panels that differ in where they are, and in what does not matter for ids.
Alike(p, q) == p.id = q.id /\ p.row = q.row /\ p.panels = q.panels

\* Such panels have and keep the same ids.
LEMMA AlikeHaveIds ==
  ASSUME NEW p, NEW q, Alike(p, q)
  PROVE  IdsOf(p) = IdsOf(q) /\ (KeptDiffer(p) <=> KeptDiffer(q))
  BY DEF Alike, IdsOf, KeptDiffer

\* What changes only where a panel is and how large.
LEMMA MovedIs ==
  ASSUME NEW p \in Panels, NEW x \in Int, NEW y \in Int, NEW w \in Int, NEW h \in Int
  PROVE  /\ [p EXCEPT !.y = y] \in Panels /\ Alike([p EXCEPT !.y = y], p)
         /\ [p EXCEPT !.x = x, !.y = y] \in Panels /\ Alike([p EXCEPT !.x = x, !.y = y], p)
         /\ [p EXCEPT !.w = w, !.h = h] \in Panels /\ Alike([p EXCEPT !.w = w, !.h = h], p)
         /\ [p EXCEPT !.x = x, !.y = y, !.w = w] \in Panels /\ Alike([p EXCEPT !.x = x, !.y = y, !.w = w], p)
  BY DEF Panels, PanelModels, Alike

\* A list of some of the panels of another one.
LEMMA SomeDiffer ==
  ASSUME NEW ps, NEW qs, IdsDiffer(ps), NEW at,
         \A k \in DOMAIN qs : at[k] \in DOMAIN ps /\ Alike(qs[k], ps[at[k]]),
         \A j, k \in DOMAIN qs : at[j] = at[k] => j = k
  PROVE  IdsDiffer(qs)
<1>1. ASSUME NEW k \in DOMAIN qs PROVE KeptDiffer(qs[k])
  BY AlikeHaveIds DEF IdsDiffer
<1>2. ASSUME NEW k \in DOMAIN qs, NEW j \in DOMAIN qs \ {k} PROVE IdsOf(qs[j]) \cap IdsOf(qs[k]) = {}
  <2>1. at[j] \in DOMAIN ps \ {at[k]} /\ at[k] \in DOMAIN ps
    OBVIOUS
  <2>2. IdsOf(ps[at[j]]) \cap IdsOf(ps[at[k]]) = {}
    BY <2>1 DEF IdsDiffer
  <2>3. IdsOf(qs[j]) = IdsOf(ps[at[j]]) /\ IdsOf(qs[k]) = IdsOf(ps[at[k]])
    BY AlikeHaveIds
  <2> QED
    BY <2>2, <2>3
<1> QED
  BY <1>1, <1>2 DEF IdsDiffer

\* The same list after panels have moved.
LEMMA MovedDiffer ==
  ASSUME NEW ps, NEW qs, IdsDiffer(ps), DOMAIN qs = DOMAIN ps, \A k \in DOMAIN qs : Alike(qs[k], ps[k])
  PROVE  IdsDiffer(qs)
<1> DEFINE at == [k \in DOMAIN qs |-> k]
<1>1. /\ \A k \in DOMAIN qs : at[k] \in DOMAIN ps /\ Alike(qs[k], ps[at[k]])
      /\ \A j, k \in DOMAIN qs : at[j] = at[k] => j = k
  OBVIOUS
<1> HIDE DEF at
<1> QED
  BY <1>1, SomeDiffer

\* Those that are listed are some.
LEMMA ListedDiffer ==
  ASSUME NEW ps \in Lists, NEW rank, NEW I \in SUBSET DOMAIN ps, DOMAIN rank = I, IsFiniteSet(I), NEW B,
         \A i \in I : B[i] \in SUBSET I /\ i \in B[i] /\ rank[i] = Cardinality(B[i]),
         \A i, j \in I : i # j => (B[i] \subseteq B[j] /\ j \notin B[i]) \/ (B[j] \subseteq B[i] /\ i \notin B[j])
  PROVE  LET qs == Listed(ps, rank)
         IN  /\ qs \in Lists /\ Len(qs) = Cardinality(I)
             /\ \A k \in DOMAIN qs : \E i \in I : qs[k] = ps[i]
             /\ \A i \in I : \E k \in DOMAIN qs : qs[k] = ps[i]
             /\ IdsDiffer(ps) => IdsDiffer(qs)
<1> DEFINE qs == Listed(ps, rank)
           N == Cardinality(I)
<1>1. /\ \A i \in I : rank[i] \in 1..N
      /\ \A i, j \in I : rank[i] = rank[j] => i = j
      /\ \A r \in 1..N : \E i \in I : rank[i] = r
  BY Numbered
<1>2. /\ qs \in Lists /\ Len(qs) = N
      /\ \A r \in 1..N : \E i \in I : rank[i] = r /\ qs[r] = ps[i]
  BY <1>1, ListedIs DEF Lists
<1>3. DOMAIN qs = 1..N
  BY <1>2, LenProperties DEF Lists
<1> HIDE DEF qs, N
<1>4. ASSUME NEW i \in I PROVE \E k \in DOMAIN qs : qs[k] = ps[i]
  BY <1>1, <1>2, <1>3
<1> DEFINE at == [r \in 1..N |-> CHOOSE i \in I : rank[i] = r /\ qs[r] = ps[i]]
<1>5. \A r \in 1..N : at[r] \in I /\ rank[at[r]] = r /\ qs[r] = ps[at[r]]
  BY <1>2
<1>6. IdsDiffer(ps) => IdsDiffer(qs)
  <2>1. \A k \in DOMAIN qs : at[k] \in DOMAIN ps /\ Alike(qs[k], ps[at[k]])
    BY <1>3, <1>5 DEF Alike
  <2>2. \A j, k \in DOMAIN qs : at[j] = at[k] => j = k
    <3> HIDE DEF at
    <3> QED
      BY <1>3, <1>5
  <2> HIDE DEF at
  <2> QED
    BY <2>1, <2>2, SomeDiffer
<1> QED
  BY <1>2, <1>3, <1>4, <1>6 DEF qs, N

\* The indices of a list.
LEMMA Indices ==
  ASSUME NEW ps \in Lists, NEW I \in SUBSET DOMAIN ps
  PROVE  /\ DOMAIN ps = 1..Len(ps) /\ Len(ps) \in Nat /\ \A k \in DOMAIN ps : ps[k] \in Panels
         /\ IsFiniteSet(I) /\ I \subseteq Nat
<1>1. DOMAIN ps = 1..Len(ps) /\ Len(ps) \in Nat /\ \A k \in DOMAIN ps : ps[k] \in Panels
  BY LenProperties, ElementOfSeq DEF Lists
<1>2. IsFiniteSet(1..Len(ps))
  <2>1. 1 \in Int /\ Len(ps) \in Int
    BY <1>1
  <2> QED
    BY <2>1, FS_Interval
<1> QED
  BY <1>1, <1>2, FS_Subset

\* A filter gives some of the panels, each that passes once.
LEMMA OnlyIs ==
  ASSUME NEW ps \in Lists, NEW I \in SUBSET DOMAIN ps
  PROVE  LET qs == Only(ps, I)
         IN  /\ qs \in Lists
             /\ \A k \in DOMAIN qs : \E i \in I : qs[k] = ps[i]
             /\ \A i \in I : \E k \in DOMAIN qs : qs[k] = ps[i]
             /\ IdsDiffer(ps) => IdsDiffer(qs)
<1> DEFINE B == [i \in I |-> {j \in I : j <= i}]
           rank == [i \in I |-> Cardinality({j \in I : j <= i})]
<1>1. IsFiniteSet(I) /\ I \subseteq Nat
  BY Indices
<1>2. DOMAIN rank = I
  OBVIOUS
<1>3. \A i \in I : B[i] \in SUBSET I /\ i \in B[i] /\ rank[i] = Cardinality(B[i])
  BY <1>1
<1>4. \A i, j \in I : i # j => (B[i] \subseteq B[j] /\ j \notin B[i]) \/ (B[j] \subseteq B[i] /\ i \notin B[j])
  <2> SUFFICES ASSUME NEW i \in I, NEW j \in I, i < j PROVE B[i] \subseteq B[j] /\ j \notin B[i]
    BY <1>1
  <2>1. i \in Nat /\ j \in Nat
    BY <1>1
  <2>2. j \notin B[i]
    BY <2>1
  <2>3. ASSUME NEW l \in B[i] PROVE l \in B[j]
    <3>1. l \in I /\ l <= i /\ l \in Nat
      BY <1>1
    <3> QED
      BY <2>1, <3>1
  <2> QED
    BY <2>2, <2>3
<1>5. Only(ps, I) = Listed(ps, rank)
  BY DEF Only
<1> HIDE DEF rank, B
<1> QED
  BY <1>1, <1>2, <1>3, <1>4, <1>5, ListedDiffer

\* A sort gives all of the panels: each is listed at the number of those that are not
\* after it, since no two are at one place of the order.
LEMMA SortedIs ==
  ASSUME NEW ps \in Lists
  PROVE  LET qs == SortPanelsByGridPos(ps)
         IN  /\ qs \in Lists /\ Len(qs) = Len(ps)
             /\ IdsDiffer(ps) => IdsDiffer(qs)
<1> DEFINE I == DOMAIN ps
           before(i, j) == \/ ps[i].y < ps[j].y
                           \/ ps[i].y = ps[j].y /\ ps[i].x < ps[j].x
                           \/ ps[i].y = ps[j].y /\ ps[i].x = ps[j].x /\ i < j
           B == [i \in I |-> {j \in I : ~ before(i, j)}]
           rank == [i \in DOMAIN ps |-> Cardinality({j \in DOMAIN ps : ~ before(i, j)})]
<1>1. /\ I = 1..Len(ps) /\ Len(ps) \in Nat /\ IsFiniteSet(I)
      /\ \A i \in I : i \in Nat /\ ps[i].y \in Int /\ ps[i].x \in Int
  BY Indices, Fields
<1>2. DOMAIN rank = I
  OBVIOUS
<1>3. \A i \in I : ~ before(i, i)
  BY <1>1
<1>4. \A i, j \in I : i # j => before(i, j) \/ before(j, i)
  BY <1>1
<1>5. \A i, j \in I : ~ (before(i, j) /\ before(j, i))
  BY <1>1
<1>6. \A i, j, l \in I : before(i, j) /\ before(j, l) => before(i, l)
  <2> SUFFICES ASSUME NEW i \in I, NEW j \in I, NEW l \in I, before(i, j), before(j, l) PROVE before(i, l)
    OBVIOUS
  <2> QED
    BY <1>1
<1> HIDE DEF before
<1>7. \A i \in I : B[i] \in SUBSET I /\ i \in B[i] /\ rank[i] = Cardinality(B[i])
  BY <1>3
<1>8. \A i, j \in I : i # j => (B[i] \subseteq B[j] /\ j \notin B[i]) \/ (B[j] \subseteq B[i] /\ i \notin B[j])
  <2>1. ASSUME NEW i \in I, NEW j \in I, before(i, j) PROVE B[i] \subseteq B[j] /\ j \notin B[i]
    <3>1. ASSUME NEW l \in B[i] PROVE l \in B[j]
      <4>1. l \in I /\ ~ before(i, l)
        OBVIOUS
      <4>2. ~ before(j, l)
        BY <4>1, <2>1, <1>6
      <4> QED
        BY <4>1, <4>2
    <3> QED
      BY <2>1, <3>1
  <2> HIDE DEF B, I
  <2> QED
    BY <2>1, <1>4
<1>9. rank \in Seq(Nat) /\ <<>> \o rank = rank
  <2>1. \A i \in 1..Len(ps) : rank[i] \in Nat
    <3> SUFFICES ASSUME NEW i \in I PROVE Cardinality(B[i]) \in Nat
      BY <1>1, <1>7
    <3>1. B[i] \in SUBSET I
      BY <1>7
    <3> HIDE DEF B, I
    <3> QED
      BY <3>1, <1>1, FS_Subset, FS_CardinalityType
  <2>2. rank = [i \in 1..Len(ps) |-> rank[i]]
    BY <1>1
  <2> HIDE DEF rank
  <2>3. rank \in Seq(Nat)
    BY <1>1, <2>1, <2>2, IsASeq
  <2> QED
    BY <2>3, FromEmpty
<1>10. SortPanelsByGridPos(ps) = Listed(ps, rank)
  <2>1. SortPanelsByGridPos(ps) = Listed(ps, <<>> \o rank)
    BY DEF SortPanelsByGridPos, before
  <2> QED
    BY <2>1, <1>9
<1>11. Cardinality(I) = Len(ps)
  <2>1. 1 \in Int /\ Len(ps) \in Int /\ Len(ps) >= 0
    BY <1>1
  <2> QED
    BY <1>1, <2>1, FS_Interval
<1> HIDE DEF rank, B
<1>12. I \in SUBSET DOMAIN ps
  OBVIOUS
<1> HIDE DEF I
<1>13. /\ Listed(ps, rank) \in Lists /\ Len(Listed(ps, rank)) = Cardinality(I)
       /\ IdsDiffer(ps) => IdsDiffer(Listed(ps, rank))
  <2>1. LET qs == Listed(ps, rank)
        IN  /\ qs \in Lists /\ Len(qs) = Cardinality(I)
            /\ \A k \in DOMAIN qs : \E i \in I : qs[k] = ps[i]
            /\ \A i \in I : \E k \in DOMAIN qs : qs[k] = ps[i]
            /\ IdsDiffer(ps) => IdsDiffer(qs)
    <3>1. IsFiniteSet(I)
      BY <1>1
    <3>2. DOMAIN rank = I
      BY <1>2
    <3>3. \A i \in I : B[i] \in SUBSET I /\ i \in B[i] /\ rank[i] = Cardinality(B[i])
      BY <1>7
    <3>4. \A i, j \in I : i # j => (B[i] \subseteq B[j] /\ j \notin B[i]) \/ (B[j] \subseteq B[i] /\ i \notin B[j])
      BY <1>8
    <3>5. I \in SUBSET DOMAIN ps
      BY <1>12
    <3> QED
      BY <3>1, <3>2, <3>3, <3>4, <3>5, ListedDiffer
  <2> QED
    BY <2>1
<1> QED
  BY <1>10, <1>11, <1>13

\* getNextPanelId is above every id there is.
LEMMA NextPanelIdIsNew ==
  ASSUME NEW ps \in Lists
  PROVE  NextPanelId(ps) \in Nat \ {0} /\ \A i \in Ids(ps) : i \in Nat \ {0} /\ i < NextPanelId(ps)
<1> DEFINE N == Len(ps)
<1>1. DOMAIN ps = 1..N /\ N \in Nat /\ \A k \in 1..N : ps[k] \in Panels
  BY Indices
<1>2. ASSUME NEW k \in 1..N
      PROVE  /\ \E b \in Nat : \A i \in IdsOf(ps[k]) : i <= b
             /\ \A i \in IdsOf(ps[k]) : i \in Nat \ {0}
  <2> DEFINE p == ps[k]
             M == Len(p.panels)
  <2>1. p \in Panels /\ p.id \in Nat \ {0} /\ p.panels \in Seq(KeptPanels)
    BY <1>1, Fields
  <2>2. DOMAIN p.panels = 1..M /\ M \in Nat /\ \A m \in 1..M : p.panels[m] \in KeptPanels
    BY <2>1, LenProperties, ElementOfSeq
  <2>3. \A m \in 1..M : p.panels[m].id \in Nat \ {0}
    BY <2>2, KeptArePanels, Fields
  <2> DEFINE f == [m \in 1..M |-> p.panels[m].id]
  <2>4. \A m \in 1..M : f[m] \in Int /\ f[m] = p.panels[m].id
    BY <2>3
  <2>5. IdsOf(p) = {p.id} \cup {p.panels[m].id : m \in 1..M}
    BY <2>2 DEF IdsOf
  <2> HIDE DEF p, M, f
  <2>6. PICK b \in Nat : \A m \in 1..M : f[m] <= b
    BY <2>2, <2>4, Bound
  <2>7. PICK c \in Nat : b <= c /\ p.id <= c
    BY <2>1
  <2>8. \A i \in IdsOf(p) : i <= c /\ i \in Nat \ {0}
    <3> SUFFICES ASSUME NEW i \in IdsOf(p) PROVE i <= c /\ i \in Nat \ {0}
      OBVIOUS
    <3>1. CASE i = p.id
      BY <3>1, <2>1, <2>7
    <3>2. CASE i # p.id
      <4>1. PICK m \in 1..M : i = p.panels[m].id
        BY <3>2, <2>5
      <4>2. f[m] <= b /\ f[m] = i /\ i \in Nat \ {0}
        BY <4>1, <2>3, <2>4, <2>6
      <4> QED
        BY <4>2, <2>7
    <3> QED
      BY <3>1, <3>2
  <2> QED
    BY <2>8 DEF p
<1> DEFINE g == [k \in 1..N |-> CHOOSE b \in Nat : \A i \in IdsOf(ps[k]) : i <= b]
<1>3. \A k \in 1..N : g[k] \in Nat /\ \A i \in IdsOf(ps[k]) : i <= g[k]
  <2> SUFFICES ASSUME NEW k \in 1..N PROVE g[k] \in Nat /\ \A i \in IdsOf(ps[k]) : i <= g[k]
    OBVIOUS
  <2>1. \E b \in Nat : \A i \in IdsOf(ps[k]) : i <= b
    BY <1>2
  <2> QED
    BY <2>1
<1> HIDE DEF g, N
<1>4. PICK c \in Nat : \A k \in 1..N : g[k] <= c
  <2>1. \A k \in 1..N : g[k] \in Int
    BY <1>3
  <2> QED
    BY <2>1, <1>1, Bound
<1>5. \A i \in Ids(ps) : i \in Nat \ {0} /\ i <= c
  <2> SUFFICES ASSUME NEW i \in Ids(ps) PROVE i \in Nat \ {0} /\ i <= c
    OBVIOUS
  <2>1. PICK k \in 1..N : i \in IdsOf(ps[k])
    BY <1>1 DEF Ids
  <2>2. i \in Nat \ {0} /\ i <= g[k] /\ g[k] \in Nat /\ g[k] <= c
    BY <2>1, <1>2, <1>3, <1>4
  <2> QED
    BY <2>2
<1> DEFINE S == Ids(ps) \cup {0}
<1>6. S \in SUBSET Int /\ S # {} /\ \A s \in S : s <= c /\ 0 <= s
  BY <1>5
<1>7. NextPanelId(ps) = Max(S) + 1
  BY DEF NextPanelId
<1>8. Max(S) \in S /\ \A s \in S : s <= Max(S)
  <2> HIDE DEF S
  <2> QED
    BY <1>6, MaxIsGreatest
<1>9. Max(S) \in Nat
  BY <1>8, <1>6
<1> QED
  BY <1>5, <1>7, <1>8, <1>9

\* The ids of a panel are among those of its list.
LEMMA IdsAre ==
  ASSUME NEW ps, NEW k \in DOMAIN ps
  PROVE  IdsOf(ps[k]) \subseteq Ids(ps) /\ ps[k].id \in IdsOf(ps[k])
  BY DEF Ids, IdsOf

\* Panels with other ids are put into a list after the k-th, whatever moves.
LEMMA InsertedDiffer ==
  ASSUME NEW ps \in Lists, NEW new \in Lists, NEW qs \in Lists, NEW k \in 0..Len(ps),
         IdsDiffer(ps), IdsDiffer(new), Ids(ps) \cap Ids(new) = {},
         Len(qs) = Len(ps) + Len(new),
         \A i \in 1..k : Alike(qs[i], ps[i]),
         \A m \in 1..Len(new) : Alike(qs[k + m], new[m]),
         \A i \in (k + 1)..Len(ps) : Alike(qs[i + Len(new)], ps[i])
  PROVE  IdsDiffer(qs)
<1> DEFINE N == Len(ps)
           M == Len(new)
           \* Where the i-th panel comes from: the first k, the new ones, the rest.
           old(i) == IF i <= k THEN i ELSE i - M
           isNew(i) == i \in (k + 1)..(k + M)
<1>1. /\ DOMAIN ps = 1..N /\ DOMAIN new = 1..M /\ DOMAIN qs = 1..(N + M) /\ N \in Nat /\ M \in Nat /\ k \in 0..N
  BY Indices
<1>2. ASSUME NEW i \in 1..(N + M), isNew(i)
      PROVE  i - k \in 1..M /\ Alike(qs[i], new[i - k])
  <2>1. i - k \in 1..M /\ k + (i - k) = i
    BY <1>1, <1>2
  <2> QED
    BY <2>1
<1>3. ASSUME NEW i \in 1..(N + M), ~ isNew(i)
      PROVE  old(i) \in 1..N /\ Alike(qs[i], ps[old(i)])
  <2>1. CASE i <= k
    BY <1>1, <2>1
  <2>2. CASE i > k + M
    <3>1. i - M \in (k + 1)..N /\ (i - M) + M = i /\ old(i) = i - M
      BY <1>1, <2>2
    <3> QED
      BY <1>1, <3>1
  <2> QED
    BY <1>1, <1>3, <2>1, <2>2
<1>4. ASSUME NEW i \in 1..(N + M)
      PROVE  /\ isNew(i) => IdsOf(qs[i]) = IdsOf(new[i - k]) /\ IdsOf(qs[i]) \subseteq Ids(new)
             /\ ~ isNew(i) => IdsOf(qs[i]) = IdsOf(ps[old(i)]) /\ IdsOf(qs[i]) \subseteq Ids(ps)
             /\ KeptDiffer(qs[i])
  <2>1. CASE isNew(i)
    <3>1. i - k \in DOMAIN new /\ Alike(qs[i], new[i - k])
      BY <2>1, <1>1, <1>2
    <3>2. IdsOf(qs[i]) = IdsOf(new[i - k]) /\ (KeptDiffer(qs[i]) <=> KeptDiffer(new[i - k]))
      BY <3>1, AlikeHaveIds
    <3>3. KeptDiffer(new[i - k])
      BY <3>1 DEF IdsDiffer
    <3>4. IdsOf(new[i - k]) \subseteq Ids(new)
      BY <3>1, IdsAre
    <3> QED
      BY <2>1, <3>2, <3>3, <3>4
  <2>2. CASE ~ isNew(i)
    <3>1. old(i) \in DOMAIN ps /\ Alike(qs[i], ps[old(i)])
      BY <2>2, <1>1, <1>3
    <3> HIDE DEF old
    <3>2. IdsOf(qs[i]) = IdsOf(ps[old(i)]) /\ (KeptDiffer(qs[i]) <=> KeptDiffer(ps[old(i)]))
      BY <3>1, AlikeHaveIds
    <3>3. KeptDiffer(ps[old(i)])
      BY <3>1 DEF IdsDiffer
    <3>4. IdsOf(ps[old(i)]) \subseteq Ids(ps)
      BY <3>1, IdsAre
    <3> QED
      BY <2>2, <3>2, <3>3, <3>4
  <2> QED
    BY <2>1, <2>2
<1>5. ASSUME NEW i \in 1..(N + M), NEW j \in 1..(N + M), i # j
      PROVE  IdsOf(qs[i]) \cap IdsOf(qs[j]) = {}
  <2>1. CASE isNew(i) /\ isNew(j)
    <3>1. i - k \in DOMAIN new /\ j - k \in DOMAIN new \ {i - k}
      BY <1>1, <1>2, <1>5, <2>1
    <3>2. IdsOf(new[j - k]) \cap IdsOf(new[i - k]) = {}
      BY <3>1 DEF IdsDiffer
    <3> QED
      BY <3>2, <2>1, <1>4
  <2>2. CASE ~ isNew(i) /\ ~ isNew(j)
    <3>1. old(i) \in DOMAIN ps /\ old(j) \in DOMAIN ps
      BY <1>1, <1>3, <2>2
    <3>2. old(i) # old(j)
      BY <1>1, <1>5, <2>2
    <3>3. IdsOf(ps[old(j)]) \cap IdsOf(ps[old(i)]) = {}
      <4> HIDE DEF old
      <4> QED
        BY <3>1, <3>2 DEF IdsDiffer
    <3> HIDE DEF old, isNew
    <3> QED
      BY <3>3, <2>2, <1>4
  <2>3. CASE isNew(i) /\ ~ isNew(j)
    <3>1. IdsOf(qs[i]) \subseteq Ids(new) /\ IdsOf(qs[j]) \subseteq Ids(ps)
      BY <2>3, <1>4
    <3> QED
      BY <3>1
  <2>4. CASE ~ isNew(i) /\ isNew(j)
    <3>1. IdsOf(qs[i]) \subseteq Ids(ps) /\ IdsOf(qs[j]) \subseteq Ids(new)
      BY <2>4, <1>4
    <3> QED
      BY <3>1
  <2> QED
    BY <2>1, <2>2, <2>3, <2>4
<1> HIDE DEF N, M, old, isNew
<1> QED
  BY <1>1, <1>4, <1>5 DEF IdsDiffer

-----------------------------------------------------------------------------
(* Parts of lists                                                          *)

\* The first k entries.
LEMMA FrontIs ==
  ASSUME NEW T, NEW s \in Seq(T), NEW k \in 0..Len(s)
  PROVE  /\ SubSeq(s, 1, k) \in Seq(T) /\ Len(SubSeq(s, 1, k)) = k
         /\ \A i \in 1..k : SubSeq(s, 1, k)[i] = s[i]
  BY SubSeqProperties, LenProperties

\* Those after the k-th, up to the l-th.
LEMMA PartIs ==
  ASSUME NEW T, NEW s \in Seq(T), NEW k \in 0..Len(s), NEW l \in k..Len(s)
  PROVE  LET p == SubSeq(s, k + 1, l)
         IN  p \in Seq(T) /\ Len(p) = l - k /\ \A i \in 1..(l - k) : p[i] = s[k + i]
  BY SubSeqProperties, LenProperties

\* Three lists in a row.
LEMMA ThreeParts ==
  ASSUME NEW T, NEW a \in Seq(T), NEW b \in Seq(T), NEW c \in Seq(T)
  PROVE  LET s == a \o b \o c
         IN  /\ s \in Seq(T) /\ Len(s) = Len(a) + Len(b) + Len(c)
             /\ \A i \in 1..Len(a) : s[i] = a[i]
             /\ \A i \in 1..Len(b) : s[Len(a) + i] = b[i]
             /\ \A i \in 1..Len(c) : s[Len(a) + Len(b) + i] = c[i]
<1> DEFINE d == a \o b
<1>1. /\ d \in Seq(T) /\ Len(d) = Len(a) + Len(b)
      /\ \A i \in 1..Len(d) : d[i] = IF i <= Len(a) THEN a[i] ELSE b[i - Len(a)]
  BY ConcatProperties
<1>2. Len(a) \in Nat /\ Len(b) \in Nat /\ Len(c) \in Nat
  BY LenProperties
<1> HIDE DEF d
<1>3. /\ d \o c \in Seq(T) /\ Len(d \o c) = Len(d) + Len(c)
      /\ \A i \in 1..(Len(d) + Len(c)) : (d \o c)[i] = IF i <= Len(d) THEN d[i] ELSE c[i - Len(d)]
  <2>1. d \in Seq(T)
    BY <1>1
  <2> QED
    BY <2>1, ConcatProperties
<1> DEFINE s == d \o c
<1> HIDE DEF s
<1>4. ASSUME NEW i \in 1..Len(a) PROVE s[i] = a[i]
  BY <1>1, <1>2, <1>3 DEF s
<1>5. ASSUME NEW i \in 1..Len(b) PROVE s[Len(a) + i] = b[i]
  <2>1. Len(a) + i \in 1..Len(d) /\ ~ (Len(a) + i <= Len(a)) /\ (Len(a) + i) - Len(a) = i
    BY <1>1, <1>2
  <2> QED
    BY <1>1, <1>2, <1>3, <2>1 DEF s
<1>6. ASSUME NEW i \in 1..Len(c) PROVE s[Len(a) + Len(b) + i] = c[i]
  <2>1. /\ Len(a) + Len(b) + i \in 1..(Len(d) + Len(c)) /\ ~ (Len(a) + Len(b) + i <= Len(d))
        /\ (Len(a) + Len(b) + i) - Len(d) = i
    BY <1>1, <1>2
  <2> QED
    BY <1>3, <2>1 DEF s
<1> QED
  BY <1>1, <1>3, <1>4, <1>5, <1>6 DEF d, s

\* The same of a name for them.
LEMMA PartsAre ==
  ASSUME NEW T, NEW a \in Seq(T), NEW b \in Seq(T), NEW c \in Seq(T), NEW s, s = a \o b \o c
  PROVE  /\ s \in Seq(T) /\ Len(s) = Len(a) + Len(b) + Len(c)
         /\ \A i \in 1..Len(a) : s[i] = a[i]
         /\ \A i \in 1..Len(b) : s[Len(a) + i] = b[i]
         /\ \A i \in 1..Len(c) : s[Len(a) + Len(b) + i] = c[i]
  BY ThreeParts

\* What is pushed down only moves.
LEMMA PushDownIs ==
  ASSUME NEW ps \in Lists, NEW from \in Int, NEW dy \in Int
  PROVE  LET qs == PushDown(ps, from, dy)
         IN  qs \in Lists /\ Len(qs) = Len(ps) /\ \A k \in 1..Len(ps) : Alike(qs[k], ps[k])
<1> DEFINE qs == PushDown(ps, from, dy)
<1>1. DOMAIN ps = 1..Len(ps) /\ Len(ps) \in Nat /\ \A k \in 1..Len(ps) : ps[k] \in Panels
  BY Indices
<1>2. ASSUME NEW k \in 1..Len(ps)
      PROVE  /\ (IF k >= from THEN [ps[k] EXCEPT !.y = @ + dy] ELSE ps[k]) \in Panels
             /\ Alike(IF k >= from THEN [ps[k] EXCEPT !.y = @ + dy] ELSE ps[k], ps[k])
  <2>1. ps[k] \in Panels /\ ps[k].y + dy \in Int
    BY <1>1, Fields
  <2>2. [ps[k] EXCEPT !.y = ps[k].y + dy] \in Panels /\ Alike([ps[k] EXCEPT !.y = ps[k].y + dy], ps[k])
    BY <2>1, MovedIs
  <2> QED
    BY <2>1, <2>2 DEF Alike
<1>3. qs = [k \in 1..Len(ps) |-> IF k >= from THEN [ps[k] EXCEPT !.y = @ + dy] ELSE ps[k]]
  BY <1>1 DEF PushDown
<1>4. qs \in Lists
  BY <1>1, <1>2, <1>3, IsASeq DEF Lists
<1>5. DOMAIN qs = 1..Len(qs) /\ Len(qs) \in Nat
  BY <1>4, Indices
<1>6. Len(qs) = Len(ps)
  BY <1>1, <1>3, <1>5
<1> QED
  BY <1>2, <1>3, <1>4, <1>6

\* A list with others put in front of the k-th.
LEMMA SplicedIs ==
  ASSUME NEW ps \in Lists, NEW new \in Lists, NEW k \in 1..(Len(ps) + 1)
  PROVE  LET qs == Spliced(ps, k, new)
         IN  /\ qs \in Lists /\ Len(qs) = Len(ps) + Len(new)
             /\ \A i \in 1..(k - 1) : qs[i] = ps[i]
             /\ \A m \in 1..Len(new) : qs[k - 1 + m] = new[m]
             /\ \A i \in k..Len(ps) : qs[i + Len(new)] = ps[i]
<1> DEFINE a == SubSeq(ps, 1, k - 1)
           c == SubSeq(ps, k, Len(ps))
           qs == Spliced(ps, k, new)
<1>1. Len(ps) \in Nat /\ Len(new) \in Nat /\ k - 1 \in 0..Len(ps)
  BY LenProperties DEF Lists
<1>2. a \in Lists /\ Len(a) = k - 1 /\ \A i \in 1..(k - 1) : a[i] = ps[i]
  BY <1>1, FrontIs DEF Lists
<1>3. c \in Lists /\ Len(c) = Len(ps) - (k - 1) /\ \A i \in 1..(Len(ps) - (k - 1)) : c[i] = ps[(k - 1) + i]
  <2>1. (k - 1) + 1 = k /\ Len(ps) \in (k - 1)..Len(ps)
    BY <1>1
  <2> DEFINE j == k - 1
  <2>2. SubSeq(ps, j + 1, Len(ps)) = c
    BY <2>1
  <2>3. j \in 0..Len(ps) /\ Len(ps) \in j..Len(ps)
    BY <1>1, <2>1
  <2> HIDE DEF j
  <2>4. LET p == SubSeq(ps, j + 1, Len(ps))
        IN  p \in Lists /\ Len(p) = Len(ps) - j /\ \A i \in 1..(Len(ps) - j) : p[i] = ps[j + i]
    BY <2>3, PartIs DEF Lists
  <2> QED
    BY <2>2, <2>4 DEF j
<1>4. qs = a \o new \o c
  BY DEF Spliced
<1> HIDE DEF a, c, qs
<1>5. /\ qs \in Lists /\ Len(qs) = (k - 1) + Len(new) + (Len(ps) - (k - 1))
      /\ \A i \in 1..(k - 1) : qs[i] = a[i]
      /\ \A i \in 1..Len(new) : qs[k - 1 + i] = new[i]
      /\ \A i \in 1..(Len(ps) - (k - 1)) : qs[k - 1 + Len(new) + i] = c[i]
  <2>1. a \in Seq(Panels) /\ new \in Seq(Panels) /\ c \in Seq(Panels)
    BY <1>2, <1>3 DEF Lists
  <2>2. LET s == a \o new \o c
        IN  /\ s \in Seq(Panels) /\ Len(s) = Len(a) + Len(new) + Len(c)
            /\ \A i \in 1..Len(a) : s[i] = a[i]
            /\ \A i \in 1..Len(new) : s[Len(a) + i] = new[i]
            /\ \A i \in 1..Len(c) : s[Len(a) + Len(new) + i] = c[i]
    BY <2>1, ThreeParts
  <2> QED
    BY <1>2, <1>3, <1>4, <2>2 DEF Lists
<1>6. ASSUME NEW i \in k..Len(ps) PROVE qs[i + Len(new)] = ps[i]
  <2> DEFINE m == i - (k - 1)
  <2>1. /\ m \in 1..(Len(ps) - (k - 1)) /\ k - 1 + Len(new) + m = i + Len(new) /\ (k - 1) + m = i
    BY <1>1
  <2> HIDE DEF m
  <2>2. qs[k - 1 + Len(new) + m] = c[m] /\ c[m] = ps[(k - 1) + m]
    BY <1>3, <1>5, <2>1
  <2> QED
    BY <2>1, <2>2
<1>7. Len(qs) = Len(ps) + Len(new)
  BY <1>1, <1>5
<1> QED
  BY <1>2, <1>5, <1>6, <1>7 DEF qs

-----------------------------------------------------------------------------
(* Repeated panels                                                         *)

\* Division of natural numbers.
LEMMA Quotient ==
  ASSUME NEW a \in Nat, NEW b \in Nat \ {0}
  PROVE  /\ a \div b \in 0..a /\ a % b \in Nat
         /\ b <= a => a \div b \in 1..a
<1>1. a \div b \in Int /\ a = b * (a \div b) + (a % b) /\ a % b \in 0..(b - 1)
  OBVIOUS
<1> DEFINE q == a \div b
           r == a % b
<1> HIDE DEF q, r
<1>2. q \in Int /\ r \in 0..(b - 1) /\ a = b * q + r
  BY <1>1 DEF q, r
<1>3. 0 <= q
  <2> SUFFICES ASSUME q <= -1 PROVE FALSE
    BY <1>2
  <2>1. b * q <= b * (-1)
    BY <1>2
  <2> QED
    BY <1>2, <2>1
<1>4. q <= a
  <2>1. q <= b * q
    BY <1>2, <1>3
  <2>2. b * q \in Int
    BY <1>2
  <2> QED
    BY <1>2, <2>1, <2>2
<1>5. ASSUME b <= a, q = 0 PROVE FALSE
  BY <1>2, <1>5
<1> QED
  BY <1>2, <1>3, <1>4, <1>5 DEF q, r

\* The settings one by one.
LEMMA LayoutSettings ==
  /\ Columns \in Nat \ {0} /\ MaxPerRow \in Nat \ {0} /\ MaxPerRow <= Columns
  /\ MaxOptions \in Nat \ {0} /\ MaxSize \in Nat \ {0} /\ MaxPanels \in Nat \ {0}
  BY LayoutAssumption

\* A panel of one to all columns: the width of those that repeat.
LEMMA WidthIs ==
  ASSUME NEW n \in Nat \ {0}
  PROVE  LET w == Max({Columns \div n, Columns \div MaxPerRow})
         IN  w \in 1..Columns /\ Columns \div w \in Nat \ {0}
<1> DEFINE a == Columns \div n
           b == Columns \div MaxPerRow
           S == {a, b}
           w == Max(S)
<1>1. a \in 0..Columns /\ b \in 1..Columns /\ Columns \in Nat
  BY LayoutSettings, Quotient
<1> HIDE DEF a, b
<1>2. S \in SUBSET Int /\ S # {} /\ \A s \in S : s <= Columns
  BY <1>1
<1>3. w \in S /\ \A s \in S : s <= w
  <2> HIDE DEF S
  <2> QED
    BY <1>1, <1>2, MaxIsGreatest
<1>4. w \in 1..Columns
  <2> HIDE DEF w
  <2> QED
    BY <1>1, <1>3
<1> HIDE DEF w, S
<1>5. Columns \div w \in 1..Columns
  <2>1. w \in Nat \ {0} /\ w <= Columns
    BY <1>1, <1>4
  <2> QED
    BY <1>1, <2>1, Quotient
<1> QED
  BY <1>1, <1>4, <1>5 DEF a, b, S, w

\* Panels that keep none and have consecutive ids.
LEMMA ConsecutiveDiffer ==
  ASSUME NEW new \in Lists, NEW next \in Nat \ {0},
         \A m \in 1..Len(new) : new[m].id = next + m - 1 /\ new[m].panels = <<>>
  PROVE  IdsDiffer(new) /\ \A i \in Ids(new) : i >= next
<1>1. DOMAIN new = 1..Len(new) /\ Len(new) \in Nat
  BY Indices
<1>2. \A m \in 1..Len(new) : IdsOf(new[m]) = {next + m - 1} /\ KeptDiffer(new[m])
  BY DEF IdsOf, KeptDiffer
<1>3. ASSUME NEW j \in 1..Len(new), NEW m \in 1..Len(new), j # m
      PROVE  IdsOf(new[j]) \cap IdsOf(new[m]) = {}
  <2>1. next + j - 1 # next + m - 1
    BY <1>1, <1>3
  <2> QED
    BY <1>2, <2>1
<1>4. \A m \in 1..Len(new) : next + m - 1 >= next
  BY <1>1
<1> QED
  BY <1>1, <1>2, <1>3, <1>4 DEF IdsDiffer, Ids

\* The copies of a panel get the ids after the last one, and none is lost.
LEMMA RepeatPanelIs ==
  ASSUME NEW ps \in Lists, NEW k \in DOMAIN ps, NEW n \in Nat, ~ ps[k].row, IdsDiffer(ps)
  PROVE  LET qs == RepeatPanel(ps, k, n)
         IN  /\ qs \in Lists /\ IdsDiffer(qs)
             /\ \A i \in DOMAIN ps : \E j \in DOMAIN qs : Alike(qs[j], ps[i])
<1>1. CASE n = 0
  BY <1>1 DEF RepeatPanel, Alike
<1>2. CASE n # 0
  <2> DEFINE p == ps[k]
             w == Max({Columns \div n, Columns \div MaxPerRow})
             perLine == Columns \div w
             next == NextPanelId(ps)
             copy(m) == [p EXCEPT !.x = ((m % perLine) * w), !.y = @ + (m \div perLine) * p.h, !.w = w]
             clone(m) == [copy(m) EXCEPT !.id = next + m - 1, !.of = p.id, !.repeat = FALSE]
             clones == [m \in 1..(n - 1) |-> clone(m)]
             copies == <<copy(0)>> \o clones
             dy == (n \div perLine) * p.h
             a == SubSeq(ps, 1, k - 1)
             b == SubSeq(ps, k + 1, Len(ps))
             c == PushDown(b, 1, dy)
             qs == a \o copies \o c
  <2>1. RepeatPanel(ps, k, n) = qs
    BY <1>2 DEF RepeatPanel
  <2> HIDE DEF copy, clone, clones, copies, dy, a, b, c, qs
  <2>2. /\ p \in Panels /\ p.panels = <<>> /\ p.id \in Nat \ {0} /\ p.y \in Int /\ p.h \in Int
        /\ k \in 1..Len(ps) /\ Len(ps) \in Nat /\ DOMAIN ps = 1..Len(ps)
    BY Indices, Fields
  <2>3. w \in 1..Columns /\ perLine \in Nat \ {0} /\ Columns \in Nat
    BY <1>2, WidthIs, LayoutSettings
  <2>4. next \in Nat \ {0} /\ \A i \in Ids(ps) : i \in Nat /\ i < next
    BY NextPanelIdIsNew
  <2> HIDE DEF w, perLine, next, p
  <2>5. ASSUME NEW m \in Nat
        PROVE  copy(m) \in Panels /\ Alike(copy(m), p)
    <3>1. m % perLine \in Nat /\ m \div perLine \in Nat
      BY <2>3, Quotient
    <3>2. (m % perLine) * w \in Int /\ p.y + (m \div perLine) * p.h \in Int /\ w \in Int
      BY <2>2, <2>3, <3>1
    <3> QED
      BY <2>2, <3>2, MovedIs DEF copy
  <2>6. ASSUME NEW m \in 1..(n - 1)
        PROVE  clone(m) \in Panels /\ clone(m).id = next + m - 1 /\ clone(m).panels = <<>>
    <3>1. copy(m) \in Panels /\ copy(m).panels = <<>>
      <4>1. m \in Nat
        BY <1>2
      <4> QED
        BY <4>1, <2>2, <2>5 DEF Alike
    <3>2. next + m - 1 \in Nat \ {0} /\ p.id \in Nat
      BY <2>2, <2>4
    <3> DEFINE d == copy(m)
               e == next + m - 1
    <3>3. clone(m) = [d EXCEPT !.id = e, !.of = p.id, !.repeat = FALSE]
      BY DEF clone
    <3>4. d \in Panels /\ d.panels = <<>> /\ e \in Nat \ {0} /\ p.id \in Nat
      BY <3>1, <3>2
    <3> HIDE DEF d
    <3>5. clone(m) \in Panels /\ clone(m).id = e /\ clone(m).panels = d.panels
      <4> HIDE DEF e
      <4> DEFINE f == [d EXCEPT !.id = e, !.of = p.id, !.repeat = FALSE]
      <4>1. f \in Panels /\ f.id = e /\ f.panels = d.panels
        <5>1. d \in Panels /\ e \in Nat \ {0} /\ p.id \in Nat
          BY <3>4
        <5> QED
          BY <5>1 DEF Panels, PanelModels
      <4>2. clone(m) = f
        BY <3>3
      <4> HIDE DEF f
      <4> QED
        BY <4>1, <4>2
    <3> QED
      BY <3>4, <3>5
  <2>7. clones \in Lists /\ Len(clones) = n - 1 /\ \A m \in 1..(n - 1) : clones[m] = clone(m)
    <3>1. n - 1 \in Nat
      BY <1>2
    <3>2. clones \in Lists
      BY <2>6, <3>1, IsASeq DEF Lists, clones
    <3>3. DOMAIN clones = 1..Len(clones) /\ Len(clones) \in Nat
      BY <3>2, Indices
    <3> QED
      BY <3>1, <3>2, <3>3 DEF clones
  <2>8. IdsDiffer(clones) /\ \A i \in Ids(clones) : i >= next
    <3> QED
      BY <2>4, <2>6, <2>7, ConsecutiveDiffer
  <2>9. Ids(ps) \cap Ids(clones) = {}
    <3> SUFFICES ASSUME NEW i \in Ids(ps), i \in Ids(clones) PROVE FALSE
      OBVIOUS
    <3>1. i \in Nat /\ i < next /\ i >= next /\ next \in Nat
      BY <2>4, <2>8
    <3> QED
      BY <3>1
  <2>10. /\ copies \in Lists /\ Len(copies) = n /\ copies[1] = copy(0)
         /\ \A m \in 1..(n - 1) : copies[m + 1] = clones[m]
    <3>1. copy(0) \in Panels
      BY <2>5
    <3> DEFINE o == <<copy(0)>>
    <3>2. o \in Lists /\ Len(o) = 1 /\ o[1] = copy(0)
      BY <3>1 DEF Lists
    <3> HIDE DEF o
    <3>3. /\ o \o clones \in Lists /\ Len(o \o clones) = 1 + (n - 1)
          /\ \A i \in 1..(1 + (n - 1)) : (o \o clones)[i] = IF i <= 1 THEN o[i] ELSE clones[i - 1]
      <4>1. o \in Seq(Panels) /\ clones \in Seq(Panels)
        BY <2>7, <3>2 DEF Lists
      <4>2. /\ o \o clones \in Seq(Panels) /\ Len(o \o clones) = Len(o) + Len(clones)
            /\ \A i \in 1..(Len(o) + Len(clones)) :
                 (o \o clones)[i] = IF i <= Len(o) THEN o[i] ELSE clones[i - Len(o)]
        BY <4>1, ConcatProperties
      <4> QED
        BY <2>7, <3>2, <4>2 DEF Lists
    <3>4. copies = o \o clones
      BY DEF o, copies
    <3> QED
      BY <1>2, <3>2, <3>3, <3>4
  <2>11. (n \div perLine) * p.h \in Int
    <3>1. n \div perLine \in Nat
      BY <2>3, Quotient
    <3> QED
      BY <3>1, <2>2
  <2>12. a \in Lists /\ Len(a) = k - 1 /\ \A i \in 1..(k - 1) : a[i] = ps[i]
    <3>1. k - 1 \in 0..Len(ps)
      BY <2>2
    <3> QED
      BY <3>1, FrontIs DEF Lists, a
  <2>13. b \in Lists /\ Len(b) = Len(ps) - k /\ \A i \in 1..(Len(ps) - k) : b[i] = ps[k + i]
    <3>1. k \in 0..Len(ps) /\ Len(ps) \in k..Len(ps)
      BY <2>2
    <3> QED
      BY <3>1, PartIs DEF Lists, b
  <2>14. c \in Lists /\ Len(c) = Len(ps) - k /\ \A i \in 1..(Len(ps) - k) : Alike(c[i], ps[k + i])
    <3>1. dy \in Int
      BY <2>11 DEF dy
    <3>2. c \in Lists /\ Len(c) = Len(b) /\ \A i \in 1..Len(b) : Alike(c[i], b[i])
      BY <2>13, <3>1, PushDownIs DEF c
    <3> QED
      BY <2>13, <3>2
  <2>15. /\ qs \in Lists /\ Len(qs) = (k - 1) + n + (Len(ps) - k)
         /\ \A i \in 1..(k - 1) : qs[i] = a[i]
         /\ \A i \in 1..n : qs[(k - 1) + i] = copies[i]
         /\ \A i \in 1..(Len(ps) - k) : qs[(k - 1) + n + i] = c[i]
    <3>1. LET s == a \o copies \o c
          IN  /\ s \in Seq(Panels) /\ Len(s) = Len(a) + Len(copies) + Len(c)
              /\ \A i \in 1..Len(a) : s[i] = a[i]
              /\ \A i \in 1..Len(copies) : s[Len(a) + i] = copies[i]
              /\ \A i \in 1..Len(c) : s[Len(a) + Len(copies) + i] = c[i]
      <4>1. a \in Seq(Panels) /\ copies \in Seq(Panels) /\ c \in Seq(Panels)
        BY <2>10, <2>12, <2>14 DEF Lists
      <4> QED
        BY <4>1, ThreeParts
    <3> QED
      BY <2>10, <2>12, <2>14, <3>1 DEF Lists, qs
  <2>16. \A i \in 1..k : Alike(qs[i], ps[i])
    <3>1. ASSUME NEW i \in 1..k, i < k PROVE Alike(qs[i], ps[i])
      <4>1. i \in 1..(k - 1)
        BY <3>1, <2>2
      <4> QED
        BY <4>1, <2>12, <2>15 DEF Alike
    <3>2. Alike(qs[k], ps[k])
      <4>1. qs[k] = copies[1]
        <5>1. 1 \in 1..n /\ (k - 1) + 1 = k
          BY <1>2, <2>2
        <5> QED
          BY <5>1, <2>15
      <4> QED
        BY <4>1, <2>5, <2>10 DEF p
    <3> QED
      BY <3>1, <3>2, <2>2
  <2>17. \A m \in 1..(n - 1) : Alike(qs[k + m], clones[m])
    <3> SUFFICES ASSUME NEW m \in 1..(n - 1) PROVE Alike(qs[k + m], clones[m])
      OBVIOUS
    <3>1. m + 1 \in 1..n /\ (k - 1) + (m + 1) = k + m
      BY <2>2
    <3>2. qs[(k - 1) + (m + 1)] = copies[m + 1]
      BY <3>1, <2>15
    <3> QED
      BY <3>1, <3>2, <2>10 DEF Alike
  <2>18. \A i \in (k + 1)..Len(ps) : Alike(qs[i + (n - 1)], ps[i])
    <3> SUFFICES ASSUME NEW i \in (k + 1)..Len(ps) PROVE Alike(qs[i + (n - 1)], ps[i])
      OBVIOUS
    <3>1. i - k \in 1..(Len(ps) - k) /\ (k - 1) + n + (i - k) = i + (n - 1) /\ k + (i - k) = i
      BY <2>2
    <3>2. qs[(k - 1) + n + (i - k)] = c[i - k] /\ Alike(c[i - k], ps[k + (i - k)])
      BY <3>1, <2>14, <2>15
    <3> QED
      BY <3>1, <3>2
  <2>19. Len(qs) = Len(ps) + Len(clones)
    BY <2>2, <2>7, <2>15
  <2>20. IdsDiffer(qs)
    <3>1. k \in 0..Len(ps)
      BY <2>2
    <3> QED
      BY <3>1, <2>7, <2>8, <2>9, <2>15, <2>16, <2>17, <2>18, <2>19, InsertedDiffer
  <2>21. DOMAIN qs = 1..(Len(ps) + (n - 1))
    BY <2>7, <2>15, <2>19, Indices
  <2>22. ASSUME NEW i \in DOMAIN ps PROVE \E j \in DOMAIN qs : Alike(qs[j], ps[i])
    <3>1. CASE i <= k
      <4>1. i \in 1..k /\ i \in DOMAIN qs
        BY <1>2, <2>2, <2>21, <3>1
      <4> QED
        BY <4>1, <2>16
    <3>2. CASE i > k
      <4>1. i \in (k + 1)..Len(ps) /\ i + (n - 1) \in DOMAIN qs
        BY <1>2, <2>2, <2>21, <3>2
      <4> QED
        BY <4>1, <2>18
    <3> QED
      BY <2>2, <3>1, <3>2
  <2> QED
    BY <2>1, <2>15, <2>20, <2>22
<1> QED
  BY <1>1, <1>2

-----------------------------------------------------------------------------
(* Rows and their copies                                                   *)

\* A row ends before the next one.
LEMMA RowEndIs ==
  ASSUME NEW ps \in Lists, NEW k \in DOMAIN ps
  PROVE  RowEnd(ps, k) \in k..Len(ps) /\ \A i \in (k + 1)..RowEnd(ps, k) : ~ ps[i].row
<1> DEFINE S == {j \in (k + 1)..Len(ps) : ps[j].row} \cup {Len(ps) + 1}
<1>1. k \in 1..Len(ps) /\ Len(ps) \in Nat
  BY Indices
<1>2. S \in SUBSET Int /\ S # {} /\ (\A s \in S : 0 <= s) /\ \A s \in S : s \in (k + 1)..(Len(ps) + 1)
  BY <1>1
<1>3. RowEnd(ps, k) = Min(S) - 1
  BY DEF RowEnd
<1>4. Min(S) \in S /\ \A s \in S : Min(S) <= s
  <2> HIDE DEF S
  <2> QED
    BY <1>2, MinIsLeast
<1>5. Min(S) \in (k + 1)..(Len(ps) + 1)
  <2> HIDE DEF S
  <2> QED
    BY <1>2, <1>4
<1>6. ASSUME NEW i \in (k + 1)..RowEnd(ps, k) PROVE ~ ps[i].row
  <2>1. i \in (k + 1)..Len(ps) /\ i < Min(S)
    BY <1>1, <1>3, <1>5
  <2>2. i \notin S
    BY <2>1, <1>4, <1>5
  <2> QED
    BY <2>1, <2>2
<1> HIDE DEF S
<1> QED
  BY <1>1, <1>3, <1>5, <1>6

\* So what is in a row are no rows, and a row may keep it.
LEMMA RowPanelsAre ==
  ASSUME NEW ps \in Lists, NEW k \in DOMAIN ps
  PROVE  /\ RowPanels(ps, k) \in Seq(KeptPanels)
         /\ RowPanels(ps, k) \in Lists
         /\ Len(RowPanels(ps, k)) = RowEnd(ps, k) - k
         /\ \A i \in 1..(RowEnd(ps, k) - k) : RowPanels(ps, k)[i] = ps[k + i]
<1> DEFINE l == RowEnd(ps, k)
           s == RowPanels(ps, k)
<1>1. k \in 1..Len(ps) /\ Len(ps) \in Nat /\ l \in k..Len(ps) /\ \A i \in (k + 1)..l : ~ ps[i].row
  BY Indices, RowEndIs
<1> HIDE DEF l
<1>2. s = SubSeq(ps, k + 1, l)
  BY DEF l, RowPanels
<1>3. s \in Lists /\ Len(s) = l - k /\ \A i \in 1..(l - k) : s[i] = ps[k + i]
  <2>1. k \in 0..Len(ps)
    BY <1>1
  <2> HIDE DEF s
  <2> QED
    BY <1>1, <1>2, <2>1, PartIs DEF Lists
<1> HIDE DEF s
<1>4. ASSUME NEW i \in 1..Len(s) PROVE s[i] \in KeptPanels
  <2>1. s[i] \in Panels
    BY <1>3, ElementOfSeq DEF Lists
  <2>2. k + i \in (k + 1)..l /\ s[i] = ps[k + i]
    BY <1>1, <1>3
  <2> QED
    BY <1>1, <2>1, <2>2, KeptArePanels
<1>5. s \in Seq(KeptPanels)
  <2>1. s \in [1..Len(s) -> Panels] /\ Len(s) \in Nat
    BY <1>3, LenProperties DEF Lists
  <2>2. s = [i \in 1..Len(s) |-> s[i]]
    BY <2>1
  <2>3. [i \in 1..Len(s) |-> s[i]] \in Seq(KeptPanels)
    BY <2>1, <1>4, IsASeq
  <2> QED
    BY <2>2, <2>3
<1> QED
  BY <1>3, <1>5 DEF l, s

\* What a row keeps is a list of panels as well.
LEMMA KeptListsAreLists ==
  ASSUME NEW s \in Seq(KeptPanels)
  PROVE  /\ s \in Lists /\ Len(s) \in Nat /\ DOMAIN s = 1..Len(s)
         /\ \A m \in 1..Len(s) : s[m] \in KeptPanels /\ s[m] \in Panels /\ s[m].panels = <<>> /\ ~ s[m].row
<1>1. Len(s) \in Nat /\ DOMAIN s = 1..Len(s) /\ s \in [1..Len(s) -> KeptPanels]
  BY LenProperties
<1>2. \A m \in 1..Len(s) : s[m] \in KeptPanels /\ s[m] \in Panels /\ s[m].panels = <<>> /\ ~ s[m].row
  BY <1>1, KeptArePanels
<1>3. s = [m \in 1..Len(s) |-> s[m]]
  BY <1>1
<1>4. [m \in 1..Len(s) |-> s[m]] \in Seq(Panels)
  BY <1>1, <1>2, IsASeq
<1> QED
  BY <1>1, <1>2, <1>3, <1>4 DEF Lists

\* The copies of a row's panels have consecutive ids.
LEMMA RowCopiesAre ==
  ASSUME NEW s \in Seq(KeptPanels), NEW next \in Nat \ {0}, NEW dy \in Int
  PROVE  LET t == RowCopies(s, next, dy)
         IN  /\ t \in Seq(KeptPanels) /\ Len(t) = Len(s)
             /\ \A m \in 1..Len(s) : t[m].id = next + m - 1
<1> DEFINE copy(m) == [s[m] EXCEPT !.of = s[m].id, !.id = next + m - 1, !.byRow = TRUE, !.y = @ + dy]
           u == [m \in 1..Len(s) |-> copy(m)]
<1>1. Len(s) \in Nat /\ DOMAIN s = 1..Len(s) /\ \A m \in 1..Len(s) : s[m] \in KeptPanels
  BY KeptListsAreLists
<1>2. ASSUME NEW m \in 1..Len(s) PROVE copy(m) \in KeptPanels /\ copy(m).id = next + m - 1
  <2>1. next + m - 1 \in Nat \ {0}
    OBVIOUS
  <2> DEFINE p == s[m]
  <2>2. p \in KeptPanels
    BY <1>1
  <2> HIDE DEF p
  <2> DEFINE i == next + m - 1
  <2> HIDE DEF i
  <2>3. i \in Nat \ {0}
    BY <2>1 DEF i
  <2>4. p.y + dy \in Int /\ p.id \in Nat
    BY <2>2 DEF KeptPanels, PanelModels
  <2>5. /\ [p EXCEPT !.of = p.id, !.id = i, !.byRow = TRUE, !.y = @ + dy] \in KeptPanels
        /\ [p EXCEPT !.of = p.id, !.id = i, !.byRow = TRUE, !.y = @ + dy].id = i
    BY <2>2, <2>3, <2>4 DEF KeptPanels, PanelModels
  <2> QED
    BY <2>5 DEF p, i
<1> HIDE DEF copy
<1>3. u \in Seq(KeptPanels)
  BY <1>1, <1>2, IsASeq
<1>4. Len(u) = Len(s) /\ \A m \in 1..Len(s) : u[m] = copy(m)
  <2>1. DOMAIN u = 1..Len(u) /\ Len(u) \in Nat
    BY <1>3, LenProperties
  <2> QED
    BY <1>1, <2>1
<1>5. RowCopies(s, next, dy) = u
  <2>1. RowCopies(s, next, dy) = <<>> \o u
    BY <1>1 DEF RowCopies, copy
  <2> HIDE DEF u
  <2> QED
    BY <2>1, <1>3, FromEmpty
<1> HIDE DEF u
<1> QED
  BY <1>2, <1>3, <1>4, <1>5

\* The height of a row is a number.
LEMMA RowHeightIs ==
  ASSUME NEW row \in Panels, NEW s \in Lists
  PROVE  RowHeight(row, s) \in Int
<1> DEFINE f == [m \in 1..Len(s) |-> s[m].y + s[m].h]
           S == {s[m].y + s[m].h : m \in DOMAIN s}
<1>1. DOMAIN s = 1..Len(s) /\ Len(s) \in Nat /\ \A m \in 1..Len(s) : s[m].y + s[m].h \in Int
  <2>1. DOMAIN s = 1..Len(s) /\ Len(s) \in Nat /\ \A m \in 1..Len(s) : s[m] \in Panels
    BY Indices
  <2> HIDE DEF f, S
  <2>2. ASSUME NEW m \in 1..Len(s) PROVE s[m].y + s[m].h \in Int
    <3>1. s[m].y \in Int /\ s[m].h \in Int
      BY <2>1, Fields
    <3> QED
      BY <3>1
  <2> QED
    BY <2>1, <2>2
<1>2. row.y \in Int
  BY Fields
<1>3. CASE s = <<>>
  BY <1>3 DEF RowHeight
<1>4. CASE s # <<>>
  <2>1. \A m \in 1..Len(s) : f[m] \in Int /\ f[m] = s[m].y + s[m].h
    BY <1>1
  <2>2. 1 \in 1..Len(s)
    BY <1>4, <1>1, EmptySeq DEF Lists
  <2> HIDE DEF f
  <2>3. PICK b \in Nat : \A m \in 1..Len(s) : f[m] <= b
    BY <1>1, <2>1, Bound
  <2>4. S \in SUBSET Int /\ S # {} /\ \A i \in S : i <= b
    BY <1>1, <2>1, <2>2, <2>3
  <2>5. RowHeight(row, s) = Max(S) - row.y
    BY <1>4 DEF RowHeight
  <2>6. Max(S) \in Int
    <3> HIDE DEF S
    <3>1. S \in SUBSET Int /\ S # {} /\ (\A i \in S : i <= b) /\ b \in Int
      BY <2>4
    <3>2. Max(S) \in S
      BY <3>1, MaxIsGreatest
    <3> QED
      BY <3>1, <3>2
  <2> QED
    BY <1>2, <2>5, <2>6
<1> QED
  BY <1>3, <1>4

\* What is copied with a row may be kept by one, and the copies fit in the list.
LEMMA CopiedWithIs ==
  ASSUME NEW ps \in Lists, NEW k \in DOMAIN ps
  PROVE  /\ CopiedWith(ps, k) \in Seq(KeptPanels)
         /\ RowHeight(ps[k], CopiedWith(ps, k)) \in Int
         /\ Apart(ps, k) \in Nat \ {0} /\ k + Apart(ps, k) <= Len(ps) + 1
         /\ ~ ps[k].collapsed => Apart(ps, k) = Len(CopiedWith(ps, k)) + 1
<1>1. ps[k] \in Panels /\ ps[k].panels \in Seq(KeptPanels) /\ k \in 1..Len(ps) /\ Len(ps) \in Nat
  BY Indices, Fields
<1>2. /\ RowPanels(ps, k) \in Seq(KeptPanels) /\ Len(RowPanels(ps, k)) = RowEnd(ps, k) - k
      /\ RowEnd(ps, k) \in k..Len(ps)
  BY RowPanelsAre, RowEndIs
<1>3. CopiedWith(ps, k) \in Seq(KeptPanels)
  BY <1>1, <1>2 DEF CopiedWith
<1>4. RowHeight(ps[k], CopiedWith(ps, k)) \in Int
  BY <1>1, <1>3, KeptListsAreLists, RowHeightIs
<1> QED
  BY <1>1, <1>2, <1>3, <1>4 DEF CopiedWith, Apart

\* The copy of a row that is closed keeps the copies of its panels; the others
\* follow it.  All have new ids.
LEMMA ClosedCopyDiffers ==
  ASSUME NEW c \in Panels, NEW kept \in Seq(KeptPanels), NEW next \in Nat \ {0}, c.row, c.collapsed, c.id = next,
         \A m \in 1..Len(kept) : kept[m].id = next + 1 + m - 1
  PROVE  LET new == <<[c EXCEPT !.panels = kept]>>
         IN  new \in Lists /\ Len(new) = 1 /\ IdsDiffer(new) /\ \A i \in Ids(new) : i >= next
<1> DEFINE d == [c EXCEPT !.panels = kept]
           new == <<d>>
<1>1. d \in Panels /\ d.id = next /\ d.panels = kept
  BY DEF Panels, PanelModels
<1>2. DOMAIN kept = 1..Len(kept) /\ Len(kept) \in Nat
  BY KeptListsAreLists
<1> HIDE DEF d
<1>3. new \in Lists /\ Len(new) = 1 /\ DOMAIN new = {1} /\ new[1] = d
  BY <1>1 DEF Lists
<1>4. KeptDiffer(d)
  <2> SUFFICES ASSUME NEW m \in 1..Len(kept)
               PROVE  kept[m].id # next /\ \A l \in (1..Len(kept)) \ {m} : kept[l].id # kept[m].id
    BY <1>1, <1>2 DEF KeptDiffer
  <2>1. kept[m].id = next + 1 + m - 1 /\ kept[m].id # next
    BY <1>2
  <2>2. ASSUME NEW l \in (1..Len(kept)) \ {m} PROVE kept[l].id # kept[m].id
    <3>1. kept[l].id = next + 1 + l - 1 /\ l # m
      OBVIOUS
    <3> QED
      BY <2>1, <3>1, <1>2
  <2> QED
    BY <2>1, <2>2
<1>5. ASSUME NEW i \in IdsOf(d) PROVE i >= next
  <2>1. i = next \/ \E m \in 1..Len(kept) : i = kept[m].id
    BY <1>1, <1>2, <1>5 DEF IdsOf
  <2>2. \A m \in 1..Len(kept) : kept[m].id >= next
    <3> SUFFICES ASSUME NEW m \in 1..Len(kept) PROVE kept[m].id >= next
      OBVIOUS
    <3>1. kept[m].id = next + 1 + m - 1 /\ m \in Nat
      BY <1>2
    <3> QED
      BY <3>1
  <2> QED
    BY <2>1, <2>2
<1> HIDE DEF new
<1>6. IdsDiffer(new)
  BY <1>3, <1>4 DEF IdsDiffer
<1>7. Ids(new) = IdsOf(d)
  BY <1>3 DEF Ids
<1> QED
  BY <1>3, <1>5, <1>6, <1>7 DEF new, d

\* The copy of a row that is open is followed by the copies of its panels.
LEMMA OpenCopyDiffers ==
  ASSUME NEW c \in Panels, NEW rest \in Seq(KeptPanels), NEW next \in Nat \ {0}, c.panels = <<>>, c.id = next,
         \A m \in 1..Len(rest) : rest[m].id = next + 1 + m - 1
  PROVE  LET new == <<c>> \o rest
         IN  new \in Lists /\ Len(new) = Len(rest) + 1 /\ IdsDiffer(new) /\ \A i \in Ids(new) : i >= next
<1> DEFINE o == <<c>>
           new == o \o rest
<1>1. /\ rest \in Seq(Panels) /\ Len(rest) \in Nat /\ DOMAIN rest = 1..Len(rest)
      /\ \A m \in 1..Len(rest) : rest[m].panels = <<>>
  BY KeptListsAreLists DEF Lists
<1>2. o \in Seq(Panels) /\ Len(o) = 1 /\ o[1] = c
  OBVIOUS
<1> HIDE DEF o
<1>3. /\ new \in Seq(Panels) /\ Len(new) = 1 + Len(rest)
      /\ \A i \in 1..(Len(o) + Len(rest)) : new[i] = IF i <= Len(o) THEN o[i] ELSE rest[i - Len(o)]
  <2>1. o \in Seq(Panels) /\ rest \in Seq(Panels)
    BY <1>1, <1>2
  <2>2. /\ o \o rest \in Seq(Panels) /\ Len(o \o rest) = Len(o) + Len(rest)
        /\ \A i \in 1..(Len(o) + Len(rest)) : (o \o rest)[i] = IF i <= Len(o) THEN o[i] ELSE rest[i - Len(o)]
    BY <2>1, ConcatProperties
  <2> QED
    BY <1>2, <2>2
<1> HIDE DEF new
<1>4. ASSUME NEW i \in 1..Len(new) PROVE new[i].id = next + i - 1 /\ new[i].panels = <<>>
  <2>1. CASE i = 1
    BY <2>1, <1>1, <1>2, <1>3
  <2>2. CASE i # 1
    <3>1. i - 1 \in 1..Len(rest) /\ i \in 1..(Len(o) + Len(rest)) /\ ~ (i <= Len(o))
      BY <2>2, <1>1, <1>2, <1>3
    <3>2. new[i] = rest[i - 1]
      BY <3>1, <1>2, <1>3
    <3>3. rest[i - 1].id = next + 1 + (i - 1) - 1 /\ rest[i - 1].panels = <<>>
      BY <3>1, <1>1
    <3> QED
      BY <3>1, <3>2, <3>3
  <2> QED
    BY <2>1, <2>2
<1>5. IdsDiffer(new) /\ \A i \in Ids(new) : i >= next
  BY <1>3, <1>4, ConsecutiveDiffer DEF Lists
<1> QED
  BY <1>1, <1>3, <1>5 DEF new, o, Lists

\* All that is copied with a row has an id that the list has not.
LEMMA RowCopyIs ==
  ASSUME NEW ps \in Lists, NEW k \in DOMAIN ps, ps[k].row, NEW qs \in Lists, NEW m \in Nat
  PROVE  LET new == RowCopy(ps, k, qs, m)
         IN  new \in Lists /\ Len(new) = Apart(ps, k) /\ IdsDiffer(new) /\ Ids(qs) \cap Ids(new) = {}
<1> DEFINE row    == ps[k]
           mine   == CopiedWith(ps, k)
           height == RowHeight(row, mine)
           next   == NextPanelId(qs)
           copy(dy) == [row EXCEPT !.of = row.id, !.id = next, !.repeat = FALSE, !.y = @ + dy]
           new    == RowCopy(ps, k, qs, m)
<1>1. /\ mine \in Seq(KeptPanels) /\ height \in Int
      /\ row.collapsed => Apart(ps, k) = 1
      /\ ~ row.collapsed => Apart(ps, k) = Len(mine) + 1
  BY CopiedWithIs DEF Apart
<1>2. next \in Nat \ {0} /\ \A i \in Ids(qs) : i \in Nat /\ i < next
  BY NextPanelIdIsNew
<1>3. /\ row \in Panels /\ row.row /\ row.id \in Nat \ {0} /\ row.y \in Int
      /\ ~ row.collapsed => row.panels = <<>>
  BY Indices, Fields
<1>4. new = IF row.collapsed THEN <<[copy(m) EXCEPT !.panels = RowCopies(mine, next + 1, 0)]>>
            ELSE <<copy(height * m)>> \o RowCopies(mine, next + 1, height * m)
  BY DEF RowCopy
<1> HIDE DEF row, mine, height, next, new
<1>5. ASSUME NEW dy \in Int
      PROVE  /\ copy(dy) \in Panels /\ copy(dy).id = next /\ copy(dy).row = row.row
             /\ copy(dy).collapsed = row.collapsed /\ copy(dy).panels = row.panels
  <2>1. row.y + dy \in Int
    BY <1>3
  <2> QED
    BY <1>2, <1>3, <2>1 DEF Panels, PanelModels
<1>6. ASSUME NEW dy \in Int
      PROVE  /\ RowCopies(mine, next + 1, dy) \in Seq(KeptPanels)
             /\ Len(RowCopies(mine, next + 1, dy)) = Len(mine)
             /\ \A l \in 1..Len(mine) : RowCopies(mine, next + 1, dy)[l].id = next + 1 + l - 1
  <2>1. next + 1 \in Nat \ {0}
    BY <1>2
  <2> QED
    BY <1>1, <2>1, RowCopiesAre
<1> HIDE DEF copy
<1>7. ASSUME row.collapsed
      PROVE  new \in Lists /\ Len(new) = Apart(ps, k) /\ IdsDiffer(new) /\ \A i \in Ids(new) : i >= next
  <2> DEFINE c == copy(m)
             kept == RowCopies(mine, next + 1, 0)
  <2>1. /\ c \in Panels /\ c.row /\ c.collapsed /\ c.id = next
        /\ kept \in Seq(KeptPanels) /\ \A l \in 1..Len(kept) : kept[l].id = next + 1 + l - 1
    <3>1. m \in Int /\ 0 \in Int
      OBVIOUS
    <3>2. c \in Panels /\ c.row /\ c.collapsed /\ c.id = next
      BY <1>3, <1>5, <1>7, <3>1
    <3>3. kept \in Seq(KeptPanels) /\ \A l \in 1..Len(kept) : kept[l].id = next + 1 + l - 1
      BY <1>6, <3>1
    <3> HIDE DEF c, kept
    <3> QED
      BY <3>2, <3>3
  <2>2. new = <<[c EXCEPT !.panels = kept]>>
    BY <1>4, <1>7
  <2> HIDE DEF c, kept
  <2>3. LET one == <<[c EXCEPT !.panels = kept]>>
        IN  one \in Lists /\ Len(one) = 1 /\ IdsDiffer(one) /\ \A i \in Ids(one) : i >= next
    BY <1>2, <2>1, ClosedCopyDiffers
  <2> QED
    BY <1>1, <1>7, <2>2, <2>3
<1>8. ASSUME ~ row.collapsed
      PROVE  new \in Lists /\ Len(new) = Apart(ps, k) /\ IdsDiffer(new) /\ \A i \in Ids(new) : i >= next
  <2> DEFINE dy == height * m
             c == copy(dy)
             rest == RowCopies(mine, next + 1, dy)
  <2>1. dy \in Int
    BY <1>1
  <2> HIDE DEF dy
  <2>2. /\ c \in Panels /\ c.panels = <<>> /\ c.id = next
        /\ rest \in Seq(KeptPanels) /\ Len(rest) = Len(mine)
        /\ \A l \in 1..Len(rest) : rest[l].id = next + 1 + l - 1
    BY <1>3, <1>5, <1>6, <1>8, <2>1
  <2>3. new = <<c>> \o rest
    BY <1>4, <1>8 DEF dy
  <2> HIDE DEF c, rest
  <2>4. LET all == <<c>> \o rest
        IN  all \in Lists /\ Len(all) = Len(rest) + 1 /\ IdsDiffer(all) /\ \A i \in Ids(all) : i >= next
    BY <1>2, <2>2, OpenCopyDiffers
  <2> QED
    BY <1>1, <1>8, <2>2, <2>3, <2>4
<1>9. new \in Lists /\ Len(new) = Apart(ps, k) /\ IdsDiffer(new) /\ \A i \in Ids(new) : i >= next
  BY <1>7, <1>8
<1>10. Ids(qs) \cap Ids(new) = {}
  <2> SUFFICES ASSUME NEW i \in Ids(qs), i \in Ids(new) PROVE FALSE
    OBVIOUS
  <2>1. i \in Nat /\ i < next /\ i >= next /\ next \in Nat
    BY <1>2, <1>9
  <2> QED
    BY <2>1
<1> QED
  BY <1>9, <1>10 DEF new

-----------------------------------------------------------------------------
(* Repeated rows                                                           *)

\* Panels with other ids in front of the k-th.
LEMMA SplicedDiffer ==
  ASSUME NEW ps \in Lists, NEW new \in Lists, NEW k \in 1..(Len(ps) + 1),
         IdsDiffer(ps), IdsDiffer(new), Ids(ps) \cap Ids(new) = {}
  PROVE  LET qs == Spliced(ps, k, new)
         IN  qs \in Lists /\ Len(qs) = Len(ps) + Len(new) /\ IdsDiffer(qs)
<1> DEFINE qs == Spliced(ps, k, new)
           j == k - 1
<1>1. /\ qs \in Lists /\ Len(qs) = Len(ps) + Len(new)
      /\ \A i \in 1..(k - 1) : qs[i] = ps[i]
      /\ \A m \in 1..Len(new) : qs[k - 1 + m] = new[m]
      /\ \A i \in k..Len(ps) : qs[i + Len(new)] = ps[i]
  BY SplicedIs
<1>2. Len(ps) \in Nat /\ Len(new) \in Nat
  BY Indices
<1> HIDE DEF qs
<1>3. j \in 0..Len(ps) /\ k = j + 1
  BY <1>2
<1>4. /\ \A i \in 1..j : Alike(qs[i], ps[i])
      /\ \A m \in 1..Len(new) : Alike(qs[j + m], new[m])
      /\ \A i \in (j + 1)..Len(ps) : Alike(qs[i + Len(new)], ps[i])
  <2>1. \A p, q : p = q => Alike(p, q)
    BY DEF Alike
  <2>2. \A m \in 1..Len(new) : j + m = k - 1 + m
    BY <1>3
  <2> QED
    BY <1>1, <1>3, <2>1, <2>2
<1> HIDE DEF j
<1>5. IdsDiffer(qs)
  BY <1>1, <1>3, <1>4, InsertedDiffer
<1> QED
  BY <1>1, <1>5 DEF qs

\* The next copy is put where the list has such a place.
LEMMA NextRowCopyIs ==
  ASSUME NEW ps \in Lists, NEW k \in DOMAIN ps, ps[k].row, NEW before \in [list : Lists, y : Int],
         NEW m \in Nat \ {0}, IdsDiffer(before.list),
         m > 1 => Len(before.list) = Len(ps) + Apart(ps, k) * (m - 2),
         m = 1 => Len(before.list) = Len(ps)
  PROVE  LET r == NextRowCopy(ps, k, before, m)
         IN  /\ r \in [list : Lists, y : Int] /\ IdsDiffer(r.list)
             /\ Len(r.list) = Len(ps) + Apart(ps, k) * (m - 1)
<1> DEFINE A == Apart(ps, k)
           bs == before.list
           new == RowCopy(ps, k, bs, m - 1)
           qs == IF m = 1 THEN bs ELSE Spliced(bs, k + A * (m - 1), new)
           yPos == before.y + IF ps[k].collapsed THEN m - 1 ELSE RowHeight(ps[k], CopiedWith(ps, k))
<1>1. bs \in Lists /\ before.y \in Int /\ IdsDiffer(bs) /\ m - 1 \in Nat
  OBVIOUS
<1>2. A \in Nat \ {0} /\ k + A <= Len(ps) + 1 /\ RowHeight(ps[k], CopiedWith(ps, k)) \in Int
  BY CopiedWithIs
<1>3. DOMAIN ps = 1..Len(ps) /\ Len(ps) \in Nat /\ Len(bs) \in Nat
  BY <1>1, Indices
<1>4. yPos \in Int
  BY <1>1, <1>2
<1>5. qs \in Lists /\ IdsDiffer(qs) /\ Len(qs) = Len(ps) + A * (m - 1)
  <2>1. CASE m = 1
    BY <2>1, <1>1, <1>2, <1>3
  <2>2. CASE m > 1
    <3> DEFINE at == k + A * (m - 1)
               ts == Spliced(bs, at, new)
    <3>1. new \in Lists /\ Len(new) = A /\ IdsDiffer(new) /\ Ids(bs) \cap Ids(new) = {}
      <4> HIDE DEF bs
      <4> QED
        BY <1>1, RowCopyIs
    <3>2. A * (m - 1) = A + A * (m - 2) /\ A * (m - 2) \in Nat /\ A * (m - 1) \in Nat
      <4>1. m - 2 \in Nat
        BY <2>2
      <4> HIDE DEF A
      <4>2. A * (m - 2) \in Nat /\ A * (m - 1) = A * (m - 2) + A
        BY <4>1, <1>2
      <4> QED
        BY <4>2, <1>2
    <3>3. Len(bs) = Len(ps) + A * (m - 2)
      BY <2>2
    <3> HIDE DEF A, new, bs
    <3>4. at \in 1..(Len(bs) + 1) /\ at - 1 \in 0..Len(bs)
      BY <3>2, <3>3, <1>2, <1>3
    <3> HIDE DEF at
    <3>5. ts \in Lists /\ Len(ts) = Len(bs) + Len(new) /\ IdsDiffer(ts)
      BY <3>1, <3>4, <1>1, SplicedDiffer
    <3> HIDE DEF ts
    <3>8. Len(ts) = Len(ps) + A * (m - 1)
      BY <3>1, <3>2, <3>3, <3>5, <1>2, <1>3
    <3>9. qs = ts
      BY <2>2 DEF ts, at
    <3> QED
      BY <3>5, <3>8, <3>9
  <2> QED
    BY <2>1, <2>2
<1> DEFINE list == PushDown(qs, k + A * m, yPos)
<1>6. NextRowCopy(ps, k, before, m) = [list |-> list, y |-> yPos]
  BY DEF NextRowCopy
<1>7. k + A * m \in Int
  <2> HIDE DEF A
  <2>1. A * m \in Int
    BY <1>2
  <2> QED
    BY <2>1, <1>3
<1> HIDE DEF A, qs, yPos, bs, new
<1>8. list \in Lists /\ Len(list) = Len(qs) /\ \A i \in 1..Len(qs) : Alike(list[i], qs[i])
  BY <1>4, <1>5, <1>7, PushDownIs
<1>9. IdsDiffer(list)
  <2> HIDE DEF list
  <2>1. DOMAIN list = 1..Len(list) /\ DOMAIN qs = 1..Len(qs)
    BY <1>5, <1>8, Indices
  <2> QED
    BY <1>5, <1>8, <2>1, MovedDiffer
<1> HIDE DEF list
<1> QED
  BY <1>4, <1>5, <1>6, <1>8, <1>9 DEF A

\* repeatRow gives no id twice: by the number of copies made.
LEMMA RepeatRowIs ==
  ASSUME NEW ps \in Lists, NEW k \in DOMAIN ps, NEW n \in Nat, ps[k].row, IdsDiffer(ps)
  PROVE  RepeatRow(ps, k, n) \in Lists /\ IdsDiffer(RepeatRow(ps, k, n))
<1> DEFINE A == Apart(ps, k)
           S == [list : Lists, y : Int]
           a == [list |-> ps, y |-> ps[k].y]
           size(m) == Len(ps) + IF m = 0 THEN 0 ELSE A * (m - 1)
           T == {t \in Nat \X S : IdsDiffer(t[2].list) /\ Len(t[2].list) = size(t[1])}
           F == [t \in Nat \X S |-> NextRowCopy(ps, k, t[2], t[1] + 1)]
           done[m \in 0..n] == IF m = 0 THEN a ELSE NextRowCopy(ps, k, done[m - 1], m)
<1>1. A \in Nat \ {0} /\ Len(ps) \in Nat /\ ps[k].y \in Int
  BY CopiedWithIs, Indices, Fields
<1>2. a \in S /\ <<0, a>> \in T
  BY <1>1
<1>3. ASSUME NEW m \in Nat, NEW s \in S, <<m, s>> \in T
      PROVE  F[<<m, s>>] \in S /\ <<m + 1, F[<<m, s>>]>> \in T
  <2>1. IdsDiffer(s.list) /\ Len(s.list) = size(m)
    BY <1>3
  <2>2. F[<<m, s>>] = NextRowCopy(ps, k, s, m + 1)
    OBVIOUS
  <2>3. m + 1 \in Nat \ {0} /\ (m + 1) - 1 = m /\ (m + 1) - 2 = m - 1
    OBVIOUS
  <2>4. /\ m + 1 > 1 => Len(s.list) = Len(ps) + Apart(ps, k) * ((m + 1) - 2)
        /\ m + 1 = 1 => Len(s.list) = Len(ps)
    BY <2>1, <2>3, <1>1
  <2> DEFINE r == NextRowCopy(ps, k, s, m + 1)
  <2>5. r \in S /\ IdsDiffer(r.list) /\ Len(r.list) = Len(ps) + A * ((m + 1) - 1)
    BY <2>1, <2>3, <2>4, NextRowCopyIs
  <2> HIDE DEF r
  <2>6. <<m + 1, r>> \in T
    BY <2>3, <2>5
  <2> QED
    BY <2>2, <2>5, <2>6 DEF r
<1>4. PICK g \in [Nat -> S] : g[0] = a /\ \A m \in Nat : <<m, g[m]>> \in T /\ g[m + 1] = F[<<m, g[m]>>]
  <2> HIDE DEF S, T, F, a
  <2> QED
    BY <1>2, <1>3, LoopExists
<1>5. \A m \in 0..n : m # 0 => g[m] = NextRowCopy(ps, k, g[m - 1], m)
  <2> SUFFICES ASSUME NEW m \in 0..n, m # 0 PROVE g[m] = NextRowCopy(ps, k, g[m - 1], m)
    OBVIOUS
  <2>1. m - 1 \in Nat /\ (m - 1) + 1 = m
    OBVIOUS
  <2>2. g[m] = F[<<m - 1, g[m - 1]>>] /\ g[m - 1] \in S
    BY <2>1, <1>4
  <2>3. F[<<m - 1, g[m - 1]>>] = NextRowCopy(ps, k, g[m - 1], m)
    BY <2>1, <2>2
  <2> QED
    BY <2>2, <2>3
<1> DEFINE h == [m \in 0..n |-> g[m]]
<1>6. h = [m \in 0..n |-> IF m = 0 THEN a ELSE NextRowCopy(ps, k, h[m - 1], m)]
  <2> HIDE DEF a
  <2>1. \A m \in 0..n : h[m] = IF m = 0 THEN a ELSE NextRowCopy(ps, k, h[m - 1], m)
    BY <1>4, <1>5
  <2> QED
    BY <2>1
<1>7. done = [m \in 0..n |-> IF m = 0 THEN a ELSE NextRowCopy(ps, k, done[m - 1], m)]
  <2> HIDE DEF h, a
  <2> QED
    BY <1>6
<1>8. RepeatRow(ps, k, n) = done[n].list
  BY DEF RepeatRow
<1> HIDE DEF done
<1>9. \A m \in 0..n : done[m] = g[m]
  <2> DEFINE U == {m \in 0..n : done[m] = g[m]}
  <2>1. 0 \in U
    BY <1>4, <1>7
  <2>2. \A m \in 0..n : m < n /\ m \in U => m + 1 \in U
    <3> SUFFICES ASSUME NEW m \in 0..n, m < n, m \in U PROVE m + 1 \in U
      OBVIOUS
    <3>1. m + 1 \in 0..n /\ m + 1 # 0 /\ (m + 1) - 1 = m
      OBVIOUS
    <3>2. done[m + 1] = NextRowCopy(ps, k, done[m], m + 1)
      BY <3>1, <1>7
    <3>3. g[m + 1] = NextRowCopy(ps, k, g[m], m + 1)
      BY <3>1, <1>5
    <3> QED
      BY <3>1, <3>2, <3>3
  <2> HIDE DEF U
  <2>3. \A m \in 0..n : m \in U
    BY <2>1, <2>2, AllNaturals
  <2> QED
    BY <2>3 DEF U
<1>10. <<n, g[n]>> \in T /\ g[n] \in S
  BY <1>4
<1>11. g[n].list \in Lists /\ IdsDiffer(g[n].list)
  BY <1>10
<1> QED
  BY <1>8, <1>9, <1>11

\* Nor does the repetition of any panel.
LEMMA RepeatedIs ==
  ASSUME NEW ps \in Lists, NEW k \in DOMAIN ps, NEW n \in Nat, IdsDiffer(ps)
  PROVE  Repeated(ps, k, n) \in Lists /\ IdsDiffer(Repeated(ps, k, n))
<1>1. ps[k].row \in BOOLEAN
  BY Indices, Fields
<1>2. CASE ps[k].row
  BY <1>2, RepeatRowIs DEF Repeated
<1>3. CASE ~ ps[k].row
  BY <1>3, RepeatPanelIs DEF Repeated
<1> QED
  BY <1>1, <1>2, <1>3

-----------------------------------------------------------------------------
(* All that repeats                                                        *)

\* The lists in which no two panels have one id.
Sound == {ps \in Lists : IdsDiffer(ps)}

\* The states of the loops that stay in S.
LoopsIn(S, F, a) == {g \in [Nat -> S] : g[0] = a /\ \A k \in Nat : g[k + 1] = F[<<k, g[k]>>]}

\* A loop whose body stays in S has states in S.
LEMMA LoopIn ==
  ASSUME NEW S, NEW F \in [Nat \X S -> S], NEW a \in S
  PROVE  LoopsIn(S, F, a) # {}
<1> DEFINE T == Nat \X S
<1>1. <<0, a>> \in T
  OBVIOUS
<1>2. ASSUME NEW k \in Nat, NEW s \in S, <<k, s>> \in T
      PROVE  F[<<k, s>>] \in S /\ <<k + 1, F[<<k, s>>]>> \in T
  OBVIOUS
<1>3. \E g \in [Nat -> S] : g[0] = a /\ \A k \in Nat : <<k, g[k]>> \in T /\ g[k + 1] = F[<<k, g[k]>>]
  <2> HIDE DEF T
  <2> QED
    BY <1>1, <1>2, LoopExists
<1> QED
  BY <1>3 DEF LoopsIn

\* Two that begin alike and go on alike.
LEMMA SameLoop ==
  ASSUME NEW N \in Nat, NEW f, NEW g, f[0] = g[0], \A k \in 0..N : k < N /\ f[k] = g[k] => f[k + 1] = g[k + 1]
  PROVE  f[N] = g[N]
<1> DEFINE U == {k \in 0..N : f[k] = g[k]}
<1>1. 0 \in U
  OBVIOUS
<1>2. \A k \in 0..N : k < N /\ k \in U => k + 1 \in U
  OBVIOUS
<1> HIDE DEF U
<1>3. \A k \in 0..N : k \in U
  BY <1>1, <1>2, AllNaturals
<1> QED
  BY <1>3 DEF U

\* The copies of all that repeats are removed and made anew with new ids.
LEMMA ProcessRepeatsIs ==
  ASSUME NEW ps \in Sound, NEW n \in Nat
  PROVE  ProcessRepeats(ps, n) \in Sound
<1> DEFINE at == {k \in DOMAIN ps : (ps[k].repeat /\ ~ ps[k].byRow) \/ ps[k].of = NoId}
           a == CleanUpRepeats(ps)
           step(qs, k) == IF qs[k].repeat THEN Repeated(qs, k, n) ELSE qs
           next(qs, k) == IF k <= Len(qs) THEN step(qs, k) ELSE qs
           F == [t \in Nat \X Sound |-> next(t[2], t[1] + 1)]
           done[k \in Nat] == IF k = 0 THEN a ELSE LET qs == done[k - 1] IN next(qs, k)
<1>1. a \in Sound
  <2> DEFINE qs == Only(ps, at)
  <2>1. at \in SUBSET DOMAIN ps /\ ps \in Lists /\ IdsDiffer(ps)
    BY DEF Sound
  <2>2. a = SortPanelsByGridPos(qs)
    BY DEF CleanUpRepeats
  <2> HIDE DEF at
  <2>3. qs \in Lists /\ IdsDiffer(qs)
    BY <2>1, OnlyIs
  <2> HIDE DEF qs, a
  <2> QED
    BY <2>2, <2>3, SortedIs DEF Sound
<1>2. ASSUME NEW k \in Nat, NEW s \in Sound PROVE next(s, k + 1) \in Sound
  <2>2. s \in Lists /\ IdsDiffer(s) /\ DOMAIN s = 1..Len(s)
    BY Indices DEF Sound
  <2>3. k + 1 <= Len(s) => k + 1 \in DOMAIN s
    BY <2>2
  <2>4. k + 1 \in DOMAIN s => Repeated(s, k + 1, n) \in Lists /\ IdsDiffer(Repeated(s, k + 1, n))
    BY <2>2, RepeatedIs
  <2> HIDE DEF F
  <2> QED
    BY <2>2, <2>3, <2>4 DEF Sound
<1> HIDE DEF next, a
<1> DEFINE L == LoopsIn(Sound, F, a)
<1>3. PICK g : g \in L
  <2>1. F \in [Nat \X Sound -> Sound]
    BY <1>2
  <2> HIDE DEF F
  <2> QED
    BY <1>1, <2>1, LoopIn
<1>4. g \in [Nat -> Sound] /\ g[0] = a /\ \A k \in Nat : g[k + 1] = F[<<k, g[k]>>]
  BY <1>3 DEF LoopsIn
<1>5. \A k \in Nat : k # 0 => g[k] = next(g[k - 1], k)
  <2> SUFFICES ASSUME NEW k \in Nat, k # 0 PROVE g[k] = next(g[k - 1], k)
    OBVIOUS
  <2>1. k - 1 \in Nat /\ (k - 1) + 1 = k /\ g[k - 1] \in Sound
    BY <1>4
  <2>2. F[<<k - 1, g[k - 1]>>] = next(g[k - 1], k)
    BY <2>1
  <2> HIDE DEF F
  <2> QED
    BY <2>1, <2>2, <1>4
<1>6. g = [k \in Nat |-> IF k = 0 THEN a ELSE LET qs == g[k - 1] IN next(qs, k)]
  BY <1>4, <1>5
<1>7. done = [k \in Nat |-> IF k = 0 THEN a ELSE LET qs == done[k - 1] IN next(qs, k)]
  BY <1>6
<1>8. ProcessRepeats(ps, n) = SortPanelsByGridPos(done[MaxPanels])
  BY DEF ProcessRepeats, Looped, next, a
<1> HIDE DEF done
<1>9. done[MaxPanels] = g[MaxPanels]
  <2>1. \A k \in 0..MaxPanels : k < MaxPanels /\ done[k] = g[k] => done[k + 1] = g[k + 1]
    <3> SUFFICES ASSUME NEW k \in 0..MaxPanels, done[k] = g[k] PROVE done[k + 1] = g[k + 1]
      OBVIOUS
    <3>1. k + 1 \in Nat /\ k + 1 # 0 /\ (k + 1) - 1 = k
      BY LayoutSettings
    <3> QED
      BY <3>1, <1>5, <1>7
  <2>2. done[0] = g[0] /\ MaxPanels \in Nat
    BY <1>4, <1>7, LayoutSettings
  <2> QED
    BY <2>1, <2>2, SameLoop
<1>10. g[MaxPanels] \in Lists /\ IdsDiffer(g[MaxPanels])
  BY <1>4, LayoutSettings DEF Sound
<1> QED
  BY <1>8, <1>9, <1>10, SortedIs DEF Sound

\* The only panel with an id.
LEMMA IndexOfIs ==
  ASSUME NEW ps \in Sound, NEW j \in DOMAIN ps
  PROVE  IndexOf(ps, ps[j].id) = j
<1> DEFINE id == ps[j].id
           k == CHOOSE k \in DOMAIN ps : ps[k].id = id
<1>1. k \in DOMAIN ps /\ ps[k].id = id
  OBVIOUS
<1>2. IndexOf(ps, id) = k
  BY DEF IndexOf
<1> HIDE DEF k
<1>3. k # j => IdsOf(ps[k]) \cap IdsOf(ps[j]) = {}
  BY <1>1 DEF Sound, IdsDiffer
<1>4. id \in IdsOf(ps[k]) /\ id \in IdsOf(ps[j])
  BY <1>1 DEF IdsOf
<1> QED
  BY <1>2, <1>3, <1>4

\* In a row that is expanded too: each panel that repeats is still there when its turn
\* comes, and its copies get new ids.
LEMMA ProcessRowRepeatsIs ==
  ASSUME NEW ps \in Sound, NEW i \in DOMAIN ps, NEW n \in Nat
  PROVE  ProcessRowRepeats(ps, ps[i].id, n) \in Sound
<1> DEFINE mine == RowPanels(ps, i)
           goes(p) == ~ p.repeat /\ p.of # NoId /\ \E m \in DOMAIN mine : mine[m].id = p.id
           at == {m \in DOMAIN mine : mine[m].repeat}
           stays == Only(mine, at)
           N == Len(stays)
           b == {k \in DOMAIN ps : ~ goes(ps[k])}
           a == Only(ps, b)
           S == {qs \in Sound : \A m \in DOMAIN stays : \E j \in DOMAIN qs : Alike(qs[j], stays[m])}
           step(qs, m) == RepeatPanel(qs, IndexOf(qs, stays[m].id), n)
           next(qs, m) == IF m \in DOMAIN stays THEN step(qs, m) ELSE qs
           F == [t \in Nat \X S |-> next(t[2], t[1] + 1)]
           done[m \in 0..N] == IF m = 0 THEN a ELSE LET qs == done[m - 1] IN step(qs, m)
<1>1. ps \in Lists /\ IdsDiffer(ps)
  BY DEF Sound
<1>2. ProcessRowRepeats(ps, ps[i].id, n) = done[N]
  <2>1. IndexOf(ps, ps[i].id) = i
    BY IndexOfIs
  <2> QED
    BY <2>1 DEF ProcessRowRepeats
<1> HIDE DEF done
<1>3. /\ mine \in Lists /\ DOMAIN mine = 1..(RowEnd(ps, i) - i) /\ RowEnd(ps, i) \in i..Len(ps)
      /\ \A m \in DOMAIN mine : mine[m] = ps[i + m] /\ ~ ps[i + m].row /\ i + m \in DOMAIN ps
  <2>1. RowEnd(ps, i) \in i..Len(ps) /\ \A k \in (i + 1)..RowEnd(ps, i) : ~ ps[k].row
    BY <1>1, RowEndIs
  <2>2. /\ mine \in Lists /\ Len(mine) = RowEnd(ps, i) - i
        /\ \A m \in 1..(RowEnd(ps, i) - i) : mine[m] = ps[i + m]
    BY <1>1, RowPanelsAre
  <2>3. DOMAIN ps = 1..Len(ps) /\ Len(ps) \in Nat
    BY <1>1, Indices
  <2> HIDE DEF mine
  <2>4. DOMAIN mine = 1..(RowEnd(ps, i) - i)
    BY <2>2, Indices
  <2> QED
    BY <2>1, <2>2, <2>3, <2>4
<1> HIDE DEF mine
<1>4. /\ stays \in Lists /\ DOMAIN stays = 1..N /\ N \in Nat
      /\ \A m \in DOMAIN stays : \E k \in DOMAIN ps : stays[m] = ps[k] /\ ~ ps[k].row /\ ps[k].repeat
  <2>1. at \in SUBSET DOMAIN mine
    OBVIOUS
  <2>2. stays \in Lists /\ \A m \in DOMAIN stays : \E l \in at : stays[m] = mine[l]
    <3> HIDE DEF at
    <3> QED
      BY <2>1, <1>3, OnlyIs
  <2> HIDE DEF stays
  <2>3. DOMAIN stays = 1..N /\ N \in Nat
    BY <2>2, Indices
  <2>4. ASSUME NEW m \in DOMAIN stays PROVE \E k \in DOMAIN ps : stays[m] = ps[k] /\ ~ ps[k].row /\ ps[k].repeat
    <3>1. PICK l \in at : stays[m] = mine[l]
      BY <2>2
    <3>2. mine[l] = ps[i + l] /\ ~ ps[i + l].row /\ i + l \in DOMAIN ps /\ mine[l].repeat
      BY <1>3
    <3> QED
      BY <3>1, <3>2
  <2> QED
    BY <2>2, <2>3, <2>4
<1> HIDE DEF stays
<1>5. a \in S
  <2>1. b \in SUBSET DOMAIN ps
    OBVIOUS
  <2>2. \A k \in DOMAIN ps : ps[k].repeat => k \in b
    OBVIOUS
  <2> HIDE DEF b
  <2>3. a \in Sound /\ \A k \in b : \E j \in DOMAIN a : a[j] = ps[k]
    BY <2>1, <1>1, OnlyIs DEF Sound
  <2> HIDE DEF a
  <2>4. \A m \in DOMAIN stays : \E j \in DOMAIN a : a[j] = stays[m]
    BY <2>2, <2>3, <1>4
  <2> QED
    BY <2>3, <2>4 DEF Alike
<1> HIDE DEF a
<1>6. ASSUME NEW qs \in S, NEW m \in DOMAIN stays PROVE step(qs, m) \in S
  <2>1. PICK j \in DOMAIN qs : Alike(qs[j], stays[m])
    BY <1>6
  <2>2. qs \in Sound /\ qs \in Lists /\ IdsDiffer(qs)
    BY <1>6 DEF Sound
  <2>3. IndexOf(qs, stays[m].id) = j /\ ~ qs[j].row
    BY <2>1, <2>2, <1>4, IndexOfIs DEF Alike
  <2> DEFINE rs == RepeatPanel(qs, j, n)
  <2>4. rs \in Lists /\ IdsDiffer(rs) /\ \A k \in DOMAIN qs : \E l \in DOMAIN rs : Alike(rs[l], qs[k])
    BY <2>2, <2>3, RepeatPanelIs
  <2> HIDE DEF rs
  <2>5. \A l \in DOMAIN stays : \E k \in DOMAIN rs : Alike(rs[k], stays[l])
    <3> SUFFICES ASSUME NEW l \in DOMAIN stays PROVE \E k \in DOMAIN rs : Alike(rs[k], stays[l])
      OBVIOUS
    <3>1. PICK k \in DOMAIN qs : Alike(qs[k], stays[l])
      BY <1>6
    <3>2. PICK o \in DOMAIN rs : Alike(rs[o], qs[k])
      BY <2>4
    <3> QED
      BY <3>1, <3>2 DEF Alike
  <2>6. rs \in S
    BY <2>4, <2>5 DEF Sound
  <2> QED
    BY <2>3, <2>6 DEF rs
<1> DEFINE L == LoopsIn(S, F, a)
<1>7. PICK g : g \in L
  <2>1. F \in [Nat \X S -> S]
    <3> HIDE DEF step, S
    <3> QED
      BY <1>6
  <2> HIDE DEF F, S
  <2> QED
    BY <1>5, <2>1, LoopIn
<1>8. g \in [Nat -> S] /\ g[0] = a /\ \A m \in Nat : g[m + 1] = F[<<m, g[m]>>]
  <2> HIDE DEF F, S
  <2> QED
    BY <1>7 DEF LoopsIn
<1> HIDE DEF L, S
<1>9. \A m \in 1..N : g[m] = step(g[m - 1], m)
  <2> SUFFICES ASSUME NEW m \in 1..N PROVE g[m] = step(g[m - 1], m)
    OBVIOUS
  <2>1. m - 1 \in Nat /\ (m - 1) + 1 = m /\ g[m - 1] \in S
    BY <1>4, <1>8
  <2> HIDE DEF step
  <2>2. F[<<m - 1, g[m - 1]>>] = step(g[m - 1], m)
    BY <1>4, <2>1
  <2> HIDE DEF F
  <2> QED
    BY <2>1, <2>2, <1>8
<1> HIDE DEF F, step, N
<1> DEFINE h == [m \in 0..N |-> g[m]]
<1>10. h = [m \in 0..N |-> IF m = 0 THEN a ELSE LET qs == h[m - 1] IN step(qs, m)]
  <2>1. \A m \in 0..N : h[m] = IF m = 0 THEN a ELSE LET qs == h[m - 1] IN step(qs, m)
    BY <1>4, <1>8, <1>9
  <2> QED
    BY <2>1
<1>11. done = [m \in 0..N |-> IF m = 0 THEN a ELSE LET qs == done[m - 1] IN step(qs, m)]
  <2> HIDE DEF h
  <2> QED
    BY <1>10 DEF done
<1>12. done[N] = g[N]
  <2>1. \A m \in 0..N : m < N /\ done[m] = g[m] => done[m + 1] = g[m + 1]
    <3> SUFFICES ASSUME NEW m \in 0..N, m < N, done[m] = g[m] PROVE done[m + 1] = g[m + 1]
      OBVIOUS
    <3>1. m + 1 \in 0..N /\ m + 1 \in 1..N /\ m + 1 # 0 /\ (m + 1) - 1 = m
      BY <1>4
    <3>2. done[m + 1] = step(done[m], m + 1)
      BY <3>1, <1>11
    <3>3. g[m + 1] = step(g[m], m + 1)
      BY <3>1, <1>9
    <3> QED
      BY <3>2, <3>3
  <2>2. done[0] = g[0] /\ N \in Nat
    BY <1>4, <1>8, <1>11
  <2> QED
    BY <2>1, <2>2, SameLoop
<1>13. g[N] \in S
  BY <1>4, <1>8
<1> QED
  BY <1>2, <1>12, <1>13 DEF S

-----------------------------------------------------------------------------
(* Rows that are toggled                                                   *)

\* A row that is collapsed takes the panels that follow it out of the list.
LEMMA CollapsedIs ==
  ASSUME NEW ps \in Sound, NEW k \in DOMAIN ps, ps[k].row, ~ ps[k].collapsed
  PROVE  Collapsed(ps, k) \in Sound
<1> DEFINE E == RowEnd(ps, k)
           N == Len(ps)
           mine == RowPanels(ps, k)
           c == [ps[k] EXCEPT !.collapsed = TRUE, !.panels = mine]
           a == SubSeq(ps, 1, k - 1)
           e == SubSeq(ps, E + 1, N)
           qs == a \o <<c>> \o e
           from(j) == IF j < k THEN j ELSE j - k + E
<1>1. ps \in Lists /\ IdsDiffer(ps) /\ ps[k] \in Panels /\ N \in Nat /\ DOMAIN ps = 1..N
  BY Indices DEF Sound
<1>2. E \in k..N
  BY <1>1, RowEndIs
<1>3. /\ mine \in Seq(KeptPanels) /\ DOMAIN mine = 1..(E - k)
      /\ \A m \in DOMAIN mine : mine[m] = ps[k + m] /\ k + m \in DOMAIN ps \ {k} /\ k + m <= E
  <2>1. mine \in Seq(KeptPanels) /\ mine \in Lists /\ Len(mine) = E - k /\ \A i \in 1..(E - k) : mine[i] = ps[k + i]
    BY <1>1, RowPanelsAre
  <2> HIDE DEF mine, E
  <2>2. DOMAIN mine = 1..(E - k)
    BY <2>1, Indices
  <2> QED
    BY <2>1, <2>2, <1>1, <1>2
<1> HIDE DEF mine, E, N
<1>4. c \in Panels /\ c.id = ps[k].id /\ c.panels = mine
  BY <1>1, <1>3 DEF Panels, PanelModels
<1> HIDE DEF c
<1>5. Collapsed(ps, k) = qs
  BY DEF Collapsed, c, mine, E, N
<1>6. /\ qs \in Lists /\ DOMAIN qs = 1..(N - E + k) /\ qs[k] = c
      /\ \A j \in DOMAIN qs \ {k} : from(j) \in DOMAIN ps /\ ~ from(j) \in k..E /\ qs[j] = ps[from(j)]
  <2>1. a \in Lists /\ Len(a) = k - 1 /\ \A i \in 1..(k - 1) : a[i] = ps[i]
    <3>1. k - 1 \in 0..Len(ps)
      BY <1>1 DEF N
    <3> QED
      BY <3>1, <1>1, FrontIs DEF Lists
  <2>2. e \in Lists /\ Len(e) = N - E /\ \A i \in 1..(N - E) : e[i] = ps[E + i]
    <3>1. E \in 0..Len(ps) /\ N \in E..Len(ps)
      BY <1>1, <1>2 DEF N
    <3> QED
      BY <3>1, <1>1, PartIs DEF Lists
  <2>3. <<c>> \in Lists /\ Len(<<c>>) = 1 /\ <<c>>[1] = c
    BY <1>4 DEF Lists
  <2> DEFINE b == <<c>>
  <2>4. b \in Lists /\ Len(b) = 1 /\ b[1] = c
    BY <2>3
  <2> HIDE DEF a, b, e
  <2>5. LET s == a \o b \o e
        IN  /\ s \in Lists /\ Len(s) = Len(a) + Len(b) + Len(e)
            /\ \A i \in 1..Len(a) : s[i] = a[i]
            /\ \A i \in 1..Len(b) : s[Len(a) + i] = b[i]
            /\ \A i \in 1..Len(e) : s[Len(a) + Len(b) + i] = e[i]
    <3>1. a \in Seq(Panels) /\ b \in Seq(Panels) /\ e \in Seq(Panels)
      BY <2>1, <2>2, <2>4 DEF Lists
    <3> QED
      BY <3>1, ThreeParts DEF Lists
  <2>6. qs = a \o b \o e
    BY DEF b
  <2> HIDE DEF qs
  <2>7. Len(qs) = N - E + k /\ DOMAIN qs = 1..(N - E + k) /\ qs \in Lists
    <3>1. qs \in Lists /\ Len(qs) = N - E + k
      BY <2>1, <2>2, <2>4, <2>5, <2>6, <1>1, <1>2
    <3> QED
      BY <3>1, Indices
  <2>8. \A j \in 1..(k - 1) : qs[j] = ps[j]
    BY <2>1, <2>5, <2>6
  <2>9. qs[k] = c
    <3>1. Len(a) + 1 = k /\ 1 \in 1..Len(b)
      BY <2>1, <2>4, <1>1
    <3> QED
      BY <3>1, <2>4, <2>5, <2>6
  <2>10. \A j \in (k + 1)..(N - E + k) : qs[j] = ps[j - k + E]
    <3> SUFFICES ASSUME NEW j \in (k + 1)..(N - E + k) PROVE qs[j] = ps[j - k + E]
      OBVIOUS
    <3>1. j - k \in 1..(N - E) /\ Len(a) + Len(b) + (j - k) = j /\ E + (j - k) = j - k + E
      BY <2>1, <2>4, <1>1, <1>2
    <3> QED
      BY <3>1, <2>2, <2>5, <2>6
  <2>11. ASSUME NEW j \in DOMAIN qs \ {k}
         PROVE  from(j) \in DOMAIN ps /\ ~ from(j) \in k..E /\ qs[j] = ps[from(j)]
    <3>1. k \in 1..N
      BY <1>1
    <3>2. CASE j < k
      <4>1. j \in 1..(k - 1) /\ j \in 1..N /\ ~ j \in k..E
        BY <3>1, <3>2, <2>7, <1>1, <1>2
      <4> QED
        BY <4>1, <3>2, <2>8, <1>1
    <3>3. CASE j > k
      <4>1. j \in (k + 1)..(N - E + k) /\ j - k + E \in 1..N /\ ~ j - k + E \in k..E
        BY <3>1, <3>3, <2>7, <1>1, <1>2
      <4> QED
        BY <4>1, <3>1, <3>3, <2>10, <1>1
    <3> QED
      BY <3>1, <3>2, <3>3, <2>7, <1>1, <1>2
  <2> QED
    BY <2>7, <2>9, <2>11
<1> HIDE DEF qs
<1>7. \A i, j \in DOMAIN qs \ {k} : i # j => from(i) # from(j)
  BY <1>1, <1>2, <1>6
<1> HIDE DEF from
<1>8. ASSUME NEW i \in DOMAIN ps, NEW j \in DOMAIN ps, i # j
      PROVE  IdsOf(ps[i]) \cap IdsOf(ps[j]) = {} /\ ps[i].id \in IdsOf(ps[i]) /\ ps[j].id \in IdsOf(ps[j])
  BY <1>1, <1>8 DEF IdsDiffer, IdsOf
<1>9. KeptDiffer(c)
  <2>1. ASSUME NEW m \in DOMAIN mine PROVE mine[m].id # c.id
    <3>1. mine[m] = ps[k + m] /\ k + m \in DOMAIN ps /\ k + m # k
      BY <1>3
    <3> QED
      BY <3>1, <1>4, <1>8
  <2>2. ASSUME NEW m \in DOMAIN mine, NEW l \in DOMAIN mine \ {m} PROVE mine[l].id # mine[m].id
    <3>1. mine[m] = ps[k + m] /\ k + m \in DOMAIN ps /\ mine[l] = ps[k + l] /\ k + l \in DOMAIN ps
      BY <1>3
    <3>2. k + m # k + l
      BY <1>1, <1>3
    <3> QED
      BY <3>1, <3>2, <1>8
  <2> QED
    BY <2>1, <2>2, <1>4 DEF KeptDiffer
<1>10. ASSUME NEW j \in DOMAIN qs \ {k} PROVE IdsOf(qs[j]) \cap IdsOf(c) = {} /\ KeptDiffer(qs[j])
  <2> DEFINE o == from(j)
  <2>1. o \in DOMAIN ps /\ ~ o \in k..E /\ qs[j] = ps[o]
    BY <1>6
  <2> HIDE DEF o
  <2>2. ps[k].id \notin IdsOf(ps[o])
    <3>1. o # k
      BY <2>1, <1>1, <1>2
    <3> QED
      BY <3>1, <2>1, <1>8
  <2>3. ASSUME NEW m \in DOMAIN mine PROVE mine[m].id \notin IdsOf(ps[o])
    <3>1. mine[m] = ps[k + m] /\ k + m \in DOMAIN ps /\ o # k + m
      BY <2>1, <1>1, <1>2, <1>3
    <3> QED
      BY <3>1, <2>1, <1>8
  <2>4. IdsOf(c) = {ps[k].id} \cup {mine[m].id : m \in DOMAIN mine}
    BY <1>4 DEF IdsOf
  <2>5. IdsOf(ps[o]) \cap IdsOf(c) = {}
    BY <2>2, <2>3, <2>4
  <2> QED
    BY <2>1, <2>5, <1>1 DEF IdsDiffer
<1>11. ASSUME NEW i \in DOMAIN qs, NEW j \in DOMAIN qs \ {i} PROVE IdsOf(qs[j]) \cap IdsOf(qs[i]) = {}
  <2>1. CASE i = k
    BY <2>1, <1>6, <1>10
  <2>2. CASE j = k
    <3>1. IdsOf(qs[i]) \cap IdsOf(c) = {}
      BY <2>2, <1>10
    <3> QED
      BY <3>1, <2>2, <1>6
  <2>3. CASE i # k /\ j # k
    BY <2>3, <1>6, <1>7, <1>8
  <2> QED
    BY <2>1, <2>2, <2>3
<1>12. IdsDiffer(qs)
  <2>1. \A i \in DOMAIN qs : KeptDiffer(qs[i])
    BY <1>6, <1>9, <1>10
  <2> QED
    BY <2>1, <1>11 DEF IdsDiffer
<1> QED
  BY <1>5, <1>6, <1>12 DEF Sound

\* The end of the panels of a list that reach below y.
LEMMA BottomIs ==
  ASSUME NEW s \in Lists, NEW y \in Int
  PROVE  LET T == {y} \cup {s[m].y + s[m].h : m \in DOMAIN s}
         IN  Max(T) \in Int /\ \A t \in T : t \in Int /\ t <= Max(T)
<1> DEFINE f == [m \in 1..Len(s) |-> s[m].y + s[m].h]
           T == {y} \cup {s[m].y + s[m].h : m \in DOMAIN s}
<1>1. DOMAIN s = 1..Len(s) /\ Len(s) \in Nat /\ \A m \in 1..Len(s) : s[m].y + s[m].h \in Int
  <2>1. DOMAIN s = 1..Len(s) /\ Len(s) \in Nat /\ \A m \in 1..Len(s) : s[m] \in Panels
    BY Indices
  <2> HIDE DEF f, T
  <2>2. ASSUME NEW m \in 1..Len(s) PROVE s[m].y + s[m].h \in Int
    <3>1. s[m].y \in Int /\ s[m].h \in Int
      BY <2>1, Fields
    <3> QED
      BY <3>1
  <2> QED
    BY <2>1, <2>2
<1>2. \A m \in 1..Len(s) : f[m] \in Int /\ f[m] = s[m].y + s[m].h
  BY <1>1
<1> HIDE DEF f
<1>3. PICK b \in Nat : \A m \in 1..Len(s) : f[m] <= b
  BY <1>1, <1>2, Bound
<1>4. PICK c \in Nat : y <= c /\ b <= c
  <2>1. y <= b \/ (y \in Nat /\ b <= y)
    OBVIOUS
  <2> QED
    BY <2>1
<1>5. \A t \in T : t = y \/ \E m \in 1..Len(s) : t = f[m]
  BY <1>1, <1>2
<1>6. T # {}
  OBVIOUS
<1> HIDE DEF T
<1>7. \A t \in T : t \in Int /\ t <= c
  <2> SUFFICES ASSUME NEW t \in T PROVE t \in Int /\ t <= c
    OBVIOUS
  <2>1. CASE t = y
    BY <2>1, <1>4
  <2>2. ASSUME NEW m \in 1..Len(s), t = f[m] PROVE t \in Int /\ t <= c
    <3>1. t \in Int /\ t <= b
      BY <2>2, <1>2, <1>3
    <3> QED
      BY <3>1, <1>4
  <2> QED
    BY <2>1, <2>2, <1>5
<1>8. T \in SUBSET Int /\ c \in Int
  BY <1>7
<1>9. Max(T) \in T /\ \A t \in T : t <= Max(T)
  BY <1>6, <1>7, <1>8, MaxIsGreatest
<1> QED
  BY <1>7, <1>9 DEF T

\* The row without what it keeps, and the panels it keeps.
LEMMA OpenedDiffer ==
  ASSUME NEW ps \in Sound, NEW k \in DOMAIN ps, NEW bs \in Lists, NEW mine \in Lists,
         Len(bs) = Len(ps), bs[k].id = ps[k].id, bs[k].panels = <<>>,
         \A j \in DOMAIN ps \ {k} : Alike(bs[j], ps[j]),
         Len(mine) = Len(ps[k].panels),
         \A m \in 1..Len(mine) : mine[m].id = ps[k].panels[m].id /\ mine[m].panels = <<>>
  PROVE  IdsDiffer(bs) /\ IdsDiffer(mine) /\ Ids(bs) \cap Ids(mine) = {}
<1> DEFINE row == ps[k]
<1>1. /\ DOMAIN ps = 1..Len(ps) /\ IdsDiffer(ps) /\ row.panels \in Seq(KeptPanels)
      /\ DOMAIN bs = DOMAIN ps /\ DOMAIN mine = 1..Len(mine) /\ DOMAIN row.panels = 1..Len(row.panels)
  <2>1. ps \in Lists /\ IdsDiffer(ps) /\ row \in Panels
    BY Indices DEF Sound
  <2>2. DOMAIN ps = 1..Len(ps) /\ DOMAIN bs = 1..Len(bs) /\ DOMAIN mine = 1..Len(mine)
    BY <2>1, Indices
  <2>3. row.panels \in Seq(KeptPanels)
    BY <2>1, Fields
  <2>4. DOMAIN row.panels = 1..Len(row.panels)
    BY <2>3, KeptListsAreLists
  <2> QED
    BY <2>1, <2>2, <2>3, <2>4
<1>2. IdsOf(bs[k]) = {row.id} /\ KeptDiffer(bs[k])
  BY DEF IdsOf, KeptDiffer
<1>3. \A j \in DOMAIN ps \ {k} : IdsOf(bs[j]) = IdsOf(ps[j]) /\ KeptDiffer(bs[j])
  BY <1>1, AlikeHaveIds DEF IdsDiffer
<1>4. row.id \in IdsOf(row) /\ \A m \in DOMAIN mine : mine[m].id \in IdsOf(row) /\ IdsOf(mine[m]) = {mine[m].id}
  BY <1>1 DEF IdsOf
<1>5. \A j \in DOMAIN ps \ {k} : IdsOf(ps[j]) \cap IdsOf(row) = {}
  BY <1>1 DEF IdsDiffer
<1>6. KeptDiffer(row)
  BY <1>1 DEF IdsDiffer
<1>7. IdsDiffer(bs)
  <2>1. ASSUME NEW i \in DOMAIN bs, NEW j \in DOMAIN bs \ {i} PROVE IdsOf(bs[j]) \cap IdsOf(bs[i]) = {}
    <3>1. IdsOf(ps[j]) \cap IdsOf(ps[i]) = {}
      BY <1>1 DEF IdsDiffer
    <3>2. IdsOf(bs[j]) \subseteq IdsOf(ps[j]) /\ IdsOf(bs[i]) \subseteq IdsOf(ps[i])
      BY <1>1, <1>2, <1>3, <1>4
    <3> QED
      BY <3>1, <3>2
  <2> QED
    BY <2>1, <1>1, <1>2, <1>3 DEF IdsDiffer
<1>8. IdsDiffer(mine)
  <2>1. ASSUME NEW i \in DOMAIN mine, NEW j \in DOMAIN mine \ {i} PROVE mine[j].id # mine[i].id
    BY <1>1, <1>6 DEF KeptDiffer
  <2>2. \A m \in DOMAIN mine : KeptDiffer(mine[m])
    BY <1>1 DEF KeptDiffer
  <2> QED
    BY <2>1, <2>2, <1>4 DEF IdsDiffer
<1>9. ASSUME NEW j \in DOMAIN bs, NEW m \in DOMAIN mine PROVE mine[m].id \notin IdsOf(bs[j])
  <2>1. CASE j = k
    BY <2>1, <1>1, <1>2, <1>6 DEF KeptDiffer
  <2>2. CASE j # k
    BY <2>2, <1>1, <1>3, <1>4, <1>5
  <2> QED
    BY <2>1, <2>2
<1>10. Ids(bs) \cap Ids(mine) = {}
  BY <1>4, <1>9 DEF Ids
<1> QED
  BY <1>7, <1>8, <1>10

\* And puts them back, wherever in the grid.
LEMMA ExpandedIs ==
  ASSUME NEW ps \in Sound, NEW k \in DOMAIN ps, NEW n \in Nat
  PROVE  Expanded(ps, k, n) \in Sound
<1> DEFINE row  == ps[k]
           kept == row.panels
           opened == [row EXCEPT !.collapsed = FALSE, !.panels = <<>>]
           shift(p) == [p EXCEPT !.y = @ + row.y + row.h - kept[1].y]
           mine == [m \in DOMAIN kept |-> shift(kept[m])]
           yMax == Max({row.y} \cup {mine[m].y + mine[m].h : m \in DOMAIN mine})
           a    == SubSeq(ps, 1, k - 1)
           rest == SubSeq(ps, k + 1, Len(ps))
           d    == yMax - row.y - 1
           e    == PushDown(rest, 1, d)
           open == a \o <<opened>> \o mine \o e
           bs   == [ps EXCEPT ![k] = opened]
<1>1. ps \in Lists /\ IdsDiffer(ps) /\ row \in Panels /\ DOMAIN ps = 1..Len(ps) /\ Len(ps) \in Nat
  BY Indices DEF Sound
<1>2. opened \in Panels /\ opened.id = row.id /\ opened.panels = <<>>
  <2> DEFINE none == <<>>
  <2>1. none \in Seq(KeptPanels) /\ none = <<>>
    OBVIOUS
  <2>2. opened = [row EXCEPT !.collapsed = FALSE, !.panels = none]
    OBVIOUS
  <2> HIDE DEF none, opened, row
  <2> QED
    BY <1>1, <2>1, <2>2 DEF Panels, PanelModels
<1>3. Expanded(ps, k, n)
        = SortPanelsByGridPos(
            IF kept = <<>> THEN bs
            ELSE IF \E m \in DOMAIN kept : kept[m].repeat THEN ProcessRowRepeats(open, row.id, n) ELSE open)
  BY DEF Expanded
<1>4. kept \in Seq(KeptPanels)
  BY <1>1, Fields
<1>5. bs \in Lists /\ Len(bs) = Len(ps) /\ bs[k] = opened /\ \A j \in DOMAIN ps \ {k} : Alike(bs[j], ps[j])
  <2> HIDE DEF opened
  <2>1. bs \in Lists /\ Len(bs) = Len(ps)
    BY <1>1, <1>2 DEF Lists
  <2> QED
    BY <2>1, <1>1 DEF Alike
<1> HIDE DEF opened, bs
<1>6. CASE kept = <<>>
  <2>1. \A j \in DOMAIN ps : Alike(bs[j], ps[j])
    <3>1. Alike(opened, row)
      BY <1>2, <1>6 DEF Alike, opened
    <3> QED
      BY <3>1, <1>5
  <2>2. DOMAIN bs = DOMAIN ps
    BY <1>1, <1>5, Indices
  <2>3. IdsDiffer(bs)
    BY <1>1, <2>1, <2>2, MovedDiffer
  <2>4. Expanded(ps, k, n) = SortPanelsByGridPos(bs)
    BY <1>3, <1>6
  <2> QED
    BY <2>3, <2>4, <1>5, SortedIs DEF Sound
<1>7. CASE kept # <<>>
  <2>1. /\ DOMAIN kept = 1..Len(kept) /\ Len(kept) \in Nat /\ 1 \in DOMAIN kept
        /\ \A m \in DOMAIN kept : kept[m] \in KeptPanels /\ kept[m] \in Panels /\ kept[m].panels = <<>>
    <3>1. /\ Len(kept) \in Nat /\ DOMAIN kept = 1..Len(kept)
          /\ \A m \in 1..Len(kept) : kept[m] \in KeptPanels /\ kept[m] \in Panels /\ kept[m].panels = <<>>
      BY <1>4, KeptListsAreLists
    <3>2. Len(kept) # 0
      BY <1>4, <1>7, EmptySeq
    <3> QED
      BY <3>1, <3>2
  <2> DEFINE dy == row.y + row.h - kept[1].y
  <2>2. /\ row.y \in Int /\ row.h \in Int /\ kept[1].y \in Int /\ dy \in Int
        /\ \A m \in DOMAIN kept : kept[m].y \in Int /\ kept[m].h \in Int
    <3>1. row.y \in Int /\ row.h \in Int
      BY <1>1, Fields
    <3>2. \A m \in DOMAIN kept : kept[m].y \in Int /\ kept[m].h \in Int
      <4> SUFFICES ASSUME NEW m \in DOMAIN kept PROVE kept[m].y \in Int /\ kept[m].h \in Int
        OBVIOUS
      <4> DEFINE p == kept[m]
      <4>1. p \in Panels
        BY <2>1
      <4> QED
        BY <4>1, Fields
    <3> QED
      BY <3>1, <3>2, <2>1
  <2>3. ASSUME NEW m \in DOMAIN kept
        PROVE  /\ shift(kept[m]) \in Panels /\ shift(kept[m]).id = kept[m].id /\ shift(kept[m]).panels = <<>>
               /\ shift(kept[m]).y \in Int /\ shift(kept[m]).h \in Int
    <3> DEFINE p == kept[m]
               y == p.y + row.y + row.h - kept[1].y
    <3>1. p \in Panels /\ p.panels = <<>> /\ y \in Int /\ p.h \in Int
      BY <2>1, <2>2
    <3>2. shift(p) = [p EXCEPT !.y = y]
      OBVIOUS
    <3> HIDE DEF p, y
    <3>3. [p EXCEPT !.y = y] \in Panels /\ Alike([p EXCEPT !.y = y], p)
      BY <3>1, MovedIs
    <3>4. [p EXCEPT !.y = y].y = y /\ [p EXCEPT !.y = y].h = p.h
      BY <3>1 DEF Panels, PanelModels
    <3> QED
      BY <3>1, <3>2, <3>3, <3>4 DEF Alike, p
  <2> HIDE DEF shift
  <2>4. mine \in Lists /\ Len(mine) = Len(kept) /\ DOMAIN mine = 1..Len(kept)
    <3>1. mine \in [1..Len(kept) -> Panels]
      BY <2>1, <2>3
    <3> HIDE DEF mine
    <3>2. mine \in Lists
      BY <3>1, <2>1 DEF Lists
    <3> QED
      BY <3>1, <3>2, <2>1, Indices
  <2>5. \A m \in 1..Len(mine) : /\ mine[m].id = kept[m].id /\ mine[m].panels = <<>>
                                /\ mine[m].y \in Int /\ mine[m].h \in Int
    BY <2>1, <2>3, <2>4
  <2> HIDE DEF mine
  <2>6. d \in Int
    <3> DEFINE top == row.y
    <3>1. Max({top} \cup {mine[m].y + mine[m].h : m \in DOMAIN mine}) \in Int
      <4>1. top \in Int
        BY <2>2
      <4> HIDE DEF top
      <4> QED
        BY <4>1, <2>4, BottomIs
    <3>2. yMax \in Int
      BY <3>1
    <3> HIDE DEF yMax
    <3> QED
      BY <2>2, <3>2
  <2> HIDE DEF d
  <2>7. a \in Lists /\ Len(a) = k - 1 /\ \A i \in 1..(k - 1) : a[i] = ps[i]
    <3>1. k - 1 \in 0..Len(ps)
      BY <1>1
    <3> QED
      BY <3>1, <1>1, FrontIs DEF Lists
  <2>8. e \in Lists /\ Len(e) = Len(ps) - k /\ \A i \in 1..(Len(ps) - k) : Alike(e[i], ps[k + i])
    <3>1. rest \in Lists /\ Len(rest) = Len(ps) - k /\ \A i \in 1..(Len(ps) - k) : rest[i] = ps[k + i]
      <4>1. k \in 0..Len(ps) /\ Len(ps) \in k..Len(ps)
        BY <1>1
      <4> QED
        BY <4>1, <1>1, PartIs DEF Lists
    <3> HIDE DEF rest
    <3>2. e \in Lists /\ Len(e) = Len(rest) /\ \A i \in 1..Len(rest) : Alike(e[i], rest[i])
      BY <3>1, <2>6, PushDownIs
    <3> HIDE DEF e
    <3> QED
      BY <3>1, <3>2
  <2> HIDE DEF a, e
  <2> DEFINE b == <<opened>>
             ab == a \o b
  <2>9. b \in Seq(Panels) /\ Len(b) = 1 /\ b[1] = opened /\ a \in Seq(Panels)
    BY <1>2, <2>7 DEF Lists
  <2> HIDE DEF b
  <2>10. /\ ab \in Seq(Panels) /\ Len(ab) = k
         /\ \A i \in 1..k : ab[i] = IF i = k THEN opened ELSE ps[i]
    <3>1. /\ ab \in Seq(Panels) /\ Len(ab) = Len(a) + Len(b)
          /\ \A i \in 1..(Len(a) + Len(b)) : ab[i] = IF i <= Len(a) THEN a[i] ELSE b[i - Len(a)]
      BY <2>9, ConcatProperties
    <3>2. k \in Nat /\ Len(a) + Len(b) = k
      BY <1>1, <2>7, <2>9
    <3>3. \A i \in 1..k : i # k => i <= Len(a) /\ i \in 1..(k - 1)
      BY <3>2, <2>7
    <3>4. ~ (k <= Len(a)) /\ k - Len(a) = 1 /\ k \in 1..k
      BY <1>1, <2>7
    <3> HIDE DEF ab
    <3> QED
      BY <3>1, <3>2, <3>3, <3>4, <2>7, <2>9
  <2>11. open = ab \o mine \o e
    BY DEF b
  <2> HIDE DEF ab, open
  <2>12. /\ open \in Lists /\ Len(open) = Len(ab) + Len(mine) + Len(e)
         /\ \A i \in 1..Len(ab) : open[i] = ab[i]
         /\ \A i \in 1..Len(mine) : open[Len(ab) + i] = mine[i]
         /\ \A i \in 1..Len(e) : open[Len(ab) + Len(mine) + i] = e[i]
    <3>1. ab \in Seq(Panels) /\ mine \in Seq(Panels) /\ e \in Seq(Panels)
      BY <2>4, <2>8, <2>10 DEF Lists
    <3>2. /\ open \in Seq(Panels) /\ Len(open) = Len(ab) + Len(mine) + Len(e)
          /\ \A i \in 1..Len(ab) : open[i] = ab[i]
          /\ \A i \in 1..Len(mine) : open[Len(ab) + i] = mine[i]
          /\ \A i \in 1..Len(e) : open[Len(ab) + Len(mine) + i] = e[i]
      BY <3>1, <2>11, PartsAre
    <3> QED
      BY <3>2 DEF Lists
  <2>13. IdsDiffer(bs) /\ IdsDiffer(mine) /\ Ids(bs) \cap Ids(mine) = {}
    <3>1. Len(mine) = Len(ps[k].panels) /\ \A m \in 1..Len(mine) : mine[m].id = ps[k].panels[m].id /\ mine[m].panels = <<>>
      BY <2>4, <2>5
    <3>2. bs[k].id = ps[k].id /\ bs[k].panels = <<>>
      BY <1>2, <1>5
    <3> QED
      BY <3>1, <3>2, <1>5, <2>4, OpenedDiffer
  <2>14. /\ k \in 1..Len(ps) /\ k \in 0..Len(bs) /\ Len(mine) \in Nat
         /\ Len(open) = Len(bs) + Len(mine) /\ Len(ab) = k
    <3>1. k \in 1..Len(ps) /\ Len(ps) \in Nat /\ Len(bs) = Len(ps)
      BY <1>1, <1>5
    <3>2. Len(mine) \in Nat
      BY <2>1, <2>4
    <3>3. Len(open) = k + Len(mine) + (Len(ps) - k) /\ Len(ab) = k
      BY <2>8, <2>10, <2>12
    <3> QED
      BY <3>1, <3>2, <3>3
  <2>15. \A i \in 1..k : Alike(open[i], bs[i])
    <3> SUFFICES ASSUME NEW i \in 1..k PROVE Alike(open[i], bs[i])
      OBVIOUS
    <3>1. open[i] = IF i = k THEN opened ELSE ps[i]
      BY <2>10, <2>12
    <3>2. CASE i = k
      BY <3>1, <3>2, <1>5 DEF Alike
    <3>3. CASE i # k
      BY <3>1, <3>3, <1>1, <1>5 DEF Alike
    <3> QED
      BY <3>2, <3>3
  <2>16. \A m \in 1..Len(mine) : Alike(open[k + m], mine[m])
    BY <2>10, <2>12 DEF Alike
  <2>17. \A i \in (k + 1)..Len(bs) : Alike(open[i + Len(mine)], bs[i])
    <3> SUFFICES ASSUME NEW i \in (k + 1)..Len(bs) PROVE Alike(open[i + Len(mine)], bs[i])
      OBVIOUS
    <3> DEFINE j == i - k
    <3>1. /\ j \in 1..(Len(ps) - k) /\ Len(ab) + Len(mine) + j = i + Len(mine) /\ k + j = i
          /\ i \in DOMAIN ps \ {k}
      <4>1. Len(bs) = Len(ps) /\ Len(ps) \in Nat /\ DOMAIN ps = 1..Len(ps)
        BY <1>1, <1>5
      <4> QED
        BY <4>1, <2>14
    <3> HIDE DEF j
    <3>2. open[i + Len(mine)] = e[j] /\ Alike(e[j], ps[i])
      BY <3>1, <2>8, <2>12
    <3> QED
      BY <3>1, <3>2, <1>5 DEF Alike
  <2>18. IdsDiffer(open)
    BY <1>5, <2>4, <2>12, <2>13, <2>14, <2>15, <2>16, <2>17, InsertedDiffer
  <2>19. open \in Sound /\ open[k].id = row.id /\ k \in DOMAIN open
    <3>1. open[k] = opened
      BY <1>1, <2>10, <2>12
    <3>2. DOMAIN open = 1..Len(open)
      BY <2>12, Indices
    <3>3. k \in 1..Len(open)
      BY <1>1, <1>5, <2>14
    <3> QED
      BY <3>1, <3>2, <3>3, <2>12, <2>18, <1>2 DEF Sound
  <2>20. ProcessRowRepeats(open, row.id, n) \in Sound
    <3>1. ProcessRowRepeats(open, open[k].id, n) \in Sound
      BY <2>19, ProcessRowRepeatsIs
    <3> QED
      BY <3>1, <2>19
  <2> DEFINE qs == IF \E m \in DOMAIN kept : kept[m].repeat THEN ProcessRowRepeats(open, row.id, n) ELSE open
  <2>21. qs \in Sound /\ Expanded(ps, k, n) = SortPanelsByGridPos(qs)
    BY <1>3, <1>7, <2>19, <2>20
  <2> HIDE DEF qs
  <2> QED
    BY <2>21, SortedIs DEF Sound
<1> QED
  BY <1>6, <1>7

\* One or the other.
LEMMA ToggledIs ==
  ASSUME NEW ps \in Sound, NEW k \in DOMAIN ps, ps[k].row, NEW n \in Nat
  PROVE  Toggled(ps, k, n) \in Sound
<1>1. CASE ps[k].collapsed
  BY <1>1, ExpandedIs DEF Toggled
<1>2. CASE ~ ps[k].collapsed
  BY <1>2, CollapsedIs DEF Toggled
<1> QED
  BY <1>1, <1>2

\* So does the loop over all rows.
LEMMA AllToggledIs ==
  ASSUME NEW ps \in Sound, NEW collapsed \in BOOLEAN, NEW n \in Nat
  PROVE  AllToggled(ps, collapsed, n) \in Sound
<1> DEFINE step(qs, k) == IF qs[k].row /\ qs[k].collapsed = collapsed THEN Toggled(qs, k, n) ELSE qs
           next(qs, k) == IF k <= Len(qs) THEN step(qs, k) ELSE qs
           F == [t \in Nat \X Sound |-> next(t[2], t[1] + 1)]
           done[k \in Nat] == IF k = 0 THEN ps ELSE LET qs == done[k - 1] IN next(qs, k)
<1>1. ASSUME NEW k \in Nat, NEW s \in Sound PROVE next(s, k + 1) \in Sound
  <2>1. k + 1 <= Len(s) => k + 1 \in DOMAIN s
    BY Indices DEF Sound
  <2>2. k + 1 \in DOMAIN s /\ s[k + 1].row => Toggled(s, k + 1, n) \in Sound
    BY ToggledIs
  <2> HIDE DEF F
  <2> QED
    BY <2>1, <2>2
<1>2. AllToggled(ps, collapsed, n) = done[MaxPanels]
  BY DEF AllToggled, Looped
<1> HIDE DEF next
<1> DEFINE L == LoopsIn(Sound, F, ps)
<1>3. PICK g : g \in L
  <2>1. F \in [Nat \X Sound -> Sound]
    BY <1>1
  <2> HIDE DEF F
  <2> QED
    BY <2>1, LoopIn
<1>4. g \in [Nat -> Sound] /\ g[0] = ps /\ \A k \in Nat : g[k + 1] = F[<<k, g[k]>>]
  BY <1>3 DEF LoopsIn
<1>5. \A k \in Nat : k # 0 => g[k] = next(g[k - 1], k)
  <2> SUFFICES ASSUME NEW k \in Nat, k # 0 PROVE g[k] = next(g[k - 1], k)
    OBVIOUS
  <2>1. k - 1 \in Nat /\ (k - 1) + 1 = k /\ g[k - 1] \in Sound
    BY <1>4
  <2>2. F[<<k - 1, g[k - 1]>>] = next(g[k - 1], k)
    BY <2>1
  <2> HIDE DEF F
  <2> QED
    BY <2>1, <2>2, <1>4
<1>6. g = [k \in Nat |-> IF k = 0 THEN ps ELSE LET qs == g[k - 1] IN next(qs, k)]
  BY <1>4, <1>5
<1>7. done = [k \in Nat |-> IF k = 0 THEN ps ELSE LET qs == done[k - 1] IN next(qs, k)]
  BY <1>6
<1> HIDE DEF done
<1>8. done[MaxPanels] = g[MaxPanels]
  <2>1. \A k \in 0..MaxPanels : k < MaxPanels /\ done[k] = g[k] => done[k + 1] = g[k + 1]
    <3> SUFFICES ASSUME NEW k \in 0..MaxPanels, done[k] = g[k] PROVE done[k + 1] = g[k + 1]
      OBVIOUS
    <3>1. k + 1 \in Nat /\ k + 1 # 0 /\ (k + 1) - 1 = k
      BY LayoutSettings
    <3> QED
      BY <3>1, <1>5, <1>7
  <2>2. done[0] = g[0] /\ MaxPanels \in Nat
    BY <1>4, <1>7, LayoutSettings
  <2> QED
    BY <2>1, <2>2, SameLoop
<1>9. g[MaxPanels] \in Sound
  BY <1>4, LayoutSettings
<1> QED
  BY <1>2, <1>8, <1>9

-----------------------------------------------------------------------------
(* The grid                                                                *)

\* Below all that is placed there is room for a panel.
LEMMA PlacedIs ==
  ASSUME NEW done \in Lists, NEW p \in Panels
  PROVE  Placed(done, p) \in Panels /\ Alike(Placed(done, p), p)
<1> DEFINE T       == {0} \cup {done[m].y + done[m].h : m \in DOMAIN done}
           bottom  == Max(T)
           start   == Min({bottom, p.y})
           free(y) == \A m \in DOMAIN done : ~ Collides([p EXCEPT !.y = y], done[m])
           up      == {y \in 0..start : \A z \in y..start : free(z)}
           low     == {y \in start..bottom : free(y)}
           at      == IF up # {} THEN Min(up) ELSE Min(low)
<1>1. Placed(done, p) = [p EXCEPT !.y = at]
  BY DEF Placed
<1>2. bottom \in Int /\ \A t \in T : t \in Int /\ t <= bottom
  BY BottomIs
<1>3. \A m \in DOMAIN done : done[m].y + done[m].h \in T
  OBVIOUS
<1> HIDE DEF T, bottom
<1>4. start \in Int /\ start <= bottom
  <2> DEFINE U == {bottom, p.y}
  <2>1. p.y \in Int
    BY Fields
  <2>2. PICK c \in Int : c <= bottom /\ c <= p.y
    <3>1. bottom <= p.y \/ p.y <= bottom
      BY <1>2, <2>1
    <3> QED
      BY <3>1, <1>2, <2>1
  <2>3. U \in SUBSET Int /\ U # {} /\ bottom \in U /\ \A u \in U : c <= u
    BY <1>2, <2>1, <2>2
  <2> HIDE DEF U
  <2>4. Min(U) \in U /\ \A u \in U : Min(U) <= u
    BY <2>2, <2>3, MinIsLeast
  <2> QED
    BY <2>3, <2>4 DEF U
<1>5. bottom \in low
  <2>1. ASSUME NEW m \in DOMAIN done PROVE ~ Collides([p EXCEPT !.y = bottom], done[m])
    <3>1. done[m].y + done[m].h <= bottom /\ done[m].y + done[m].h \in Int
      BY <1>2, <1>3
    <3>2. [p EXCEPT !.y = bottom].y = bottom
      BY DEF Panels, PanelModels
    <3>3. ~ (bottom < done[m].y + done[m].h)
      BY <3>1, <1>2
    <3> QED
      BY <3>2, <3>3 DEF Collides
  <2>2. bottom \in start..bottom
    BY <1>2, <1>4
  <2> QED
    BY <2>1, <2>2
<1> HIDE DEF start, free
<1>6. up \in SUBSET Int /\ \A u \in up : 0 <= u
  BY <1>4
<1>7. low \in SUBSET Int /\ low # {} /\ \A u \in low : start <= u
  BY <1>2, <1>4, <1>5
<1> HIDE DEF up, low
<1>8. at \in Int
  <2>1. up # {} => Min(up) \in Int
    <3>1. up # {} => Min(up) \in up
      BY <1>6, MinIsLeast
    <3> QED
      BY <3>1, <1>6
  <2>2. Min(low) \in Int
    <3>1. Min(low) \in low
      BY <1>4, <1>7, MinIsLeast
    <3> QED
      BY <3>1, <1>7
  <2> QED
    BY <2>1, <2>2
<1> HIDE DEF at
<1> QED
  BY <1>1, <1>8, MovedIs

\* So does the place of one in the list, with what follows a row that makes room.
LEMMA SeatedIs ==
  ASSUME NEW qs \in Lists, NEW k \in 1..Len(qs)
  PROVE  /\ Seated(qs, k) \in Lists /\ Len(Seated(qs, k)) = Len(qs)
         /\ \A i \in 1..Len(qs) : Alike(Seated(qs, k)[i], qs[i])
<1> DEFINE p    == qs[k]
           a    == SubSeq(qs, 1, k - 1)
           q    == Placed(a, p)
           down == IF p.row /\ q.y > p.y THEN q.y - p.y ELSE 0
           rs   == [qs EXCEPT ![k] = q]
           N    == Len(qs)
<1>1. DOMAIN qs = 1..N /\ N \in Nat /\ (\A i \in 1..N : qs[i] \in Panels) /\ p \in Panels
  BY Indices
<1>2. a \in Lists
  <2>1. k - 1 \in 0..N
    BY <1>1
  <2> QED
    BY <2>1, <1>1, SubSeqProperties DEF Lists
<1> HIDE DEF a, N
<1>3. q \in Panels /\ Alike(q, p)
  BY <1>1, <1>2, PlacedIs
<1> HIDE DEF q
<1>4. down \in Int
  <2>1. q.y \in Int /\ p.y \in Int
    BY <1>1, <1>3, Fields
  <2> QED
    BY <2>1
<1>5. rs \in Lists /\ Len(rs) = N /\ \A i \in 1..N : Alike(rs[i], qs[i])
  <2>1. rs \in [1..N -> Panels]
    BY <1>1, <1>3
  <2>2. rs \in Lists
    BY <2>1, <1>1, IsASeq DEF Lists
  <2>3. Len(rs) = N
    BY <2>1, <2>2, <1>1, Indices
  <2>4. \A i \in 1..N : Alike(rs[i], qs[i])
    BY <1>1, <1>3 DEF Alike
  <2> QED
    BY <2>2, <2>3, <2>4
<1>6. k + 1 \in Int /\ Seated(qs, k) = PushDown(rs, k + 1, down)
  BY <1>1 DEF Seated, q, a
<1> HIDE DEF down, rs
<1>7. /\ PushDown(rs, k + 1, down) \in Lists /\ Len(PushDown(rs, k + 1, down)) = N
      /\ \A i \in 1..N : Alike(PushDown(rs, k + 1, down)[i], rs[i])
  BY <1>4, <1>5, <1>6, PushDownIs
<1> QED
  BY <1>5, <1>6, <1>7 DEF Alike, N

\* The grid only moves panels.
LEMMA ArrangedIs ==
  ASSUME NEW ps \in Sound
  PROVE  Arranged(ps) \in Sound
<1> DEFINE sized == [k \in DOMAIN ps |-> IF ps[k].row THEN [ps[k] EXCEPT !.w = Columns, !.h = 1] ELSE ps[k]]
           order == SortPanelsByGridPos(sized)
           N == Len(ps)
           step(qs, k) == Seated(qs, k)
           next(qs, k) == IF k <= N THEN step(qs, k) ELSE qs
           S == Lists
           T == {t \in Nat \X S : Len(t[2]) = N /\ \A i \in 1..N : Alike(t[2][i], order[i])}
           F == [t \in Nat \X S |-> next(t[2], t[1] + 1)]
           a == order
           done[k \in 0..N] == IF k = 0 THEN a ELSE LET qs == done[k - 1] IN step(qs, k)
<1>1. ps \in Lists /\ IdsDiffer(ps) /\ N \in Nat /\ DOMAIN ps = 1..N /\ \A k \in 1..N : ps[k] \in Panels
  BY Indices DEF Sound
<1>2. Arranged(ps) = SortPanelsByGridPos(done[N])
  BY DEF Arranged
<1> HIDE DEF done
<1>3. order \in Lists /\ IdsDiffer(order) /\ Len(order) = N /\ DOMAIN order = 1..N /\ \A k \in 1..N : order[k] \in Panels
  <2>1. ASSUME NEW k \in DOMAIN ps
        PROVE  /\ (IF ps[k].row THEN [ps[k] EXCEPT !.w = Columns, !.h = 1] ELSE ps[k]) \in Panels
               /\ Alike(IF ps[k].row THEN [ps[k] EXCEPT !.w = Columns, !.h = 1] ELSE ps[k], ps[k])
    <3> DEFINE p == ps[k]
    <3>1. p \in Panels /\ Columns \in Int /\ 1 \in Int
      BY <1>1, LayoutSettings
    <3> HIDE DEF p
    <3>2. [p EXCEPT !.w = Columns, !.h = 1] \in Panels /\ Alike([p EXCEPT !.w = Columns, !.h = 1], p)
      BY <3>1, MovedIs
    <3> QED
      BY <3>1, <3>2 DEF p, Alike
  <2>2. sized \in Lists /\ Len(sized) = N /\ DOMAIN sized = DOMAIN ps /\ \A k \in DOMAIN ps : Alike(sized[k], ps[k])
    <3>1. sized \in [1..N -> Panels]
      BY <1>1, <2>1
    <3>2. \A k \in DOMAIN ps : Alike(sized[k], ps[k])
      BY <2>1
    <3> HIDE DEF sized
    <3>3. sized \in Lists
      BY <3>1, <1>1 DEF Lists
    <3>4. Len(sized) = N
      BY <3>1, <3>3, <1>1, Indices
    <3> QED
      BY <3>1, <3>2, <3>3, <3>4, <1>1
  <2> HIDE DEF sized
  <2>3. IdsDiffer(sized)
    BY <2>2, <1>1, MovedDiffer
  <2>4. order \in Lists /\ Len(order) = N /\ IdsDiffer(order)
    BY <2>2, <2>3, SortedIs
  <2> HIDE DEF order
  <2> QED
    BY <2>4, Indices
<1> HIDE DEF order, N
<1>4. a \in S /\ <<0, a>> \in T
  BY <1>3 DEF Alike
<1>5. ASSUME NEW k \in Nat, NEW s \in S, <<k, s>> \in T
      PROVE  F[<<k, s>>] \in S /\ <<k + 1, F[<<k, s>>]>> \in T
  <2>1. F[<<k, s>>] = next(s, k + 1)
    OBVIOUS
  <2>2. CASE k + 1 <= N
    <3> DEFINE qs == Seated(s, k + 1)
    <3>1. Len(s) = N /\ \A i \in 1..N : Alike(s[i], order[i])
      BY <1>5
    <3>2. k + 1 \in 1..Len(s)
      BY <2>2, <3>1, <1>1
    <3>3. qs \in S /\ Len(qs) = N /\ \A i \in 1..N : Alike(qs[i], s[i])
      BY <3>1, <3>2, SeatedIs
    <3>4. next(s, k + 1) = qs
      BY <2>2
    <3> HIDE DEF qs, next
    <3>5. \A i \in 1..N : Alike(qs[i], order[i])
      BY <3>1, <3>3 DEF Alike
    <3>6. <<k + 1, qs>> \in T
      BY <3>3, <3>5
    <3> HIDE DEF F
    <3> QED
      BY <2>1, <3>3, <3>4, <3>6
  <2>3. CASE ~ (k + 1 <= N)
    BY <2>1, <2>3, <1>5
  <2> QED
    BY <2>2, <2>3
<1>6. PICK g \in [Nat -> S] : g[0] = a /\ \A k \in Nat : <<k, g[k]>> \in T /\ g[k + 1] = F[<<k, g[k]>>]
  <2> HIDE DEF S, T, F, a
  <2> QED
    BY <1>4, <1>5, LoopExists
<1>7. \A k \in 1..N : g[k] = step(g[k - 1], k)
  <2> SUFFICES ASSUME NEW k \in 1..N PROVE g[k] = step(g[k - 1], k)
    OBVIOUS
  <2>1. k - 1 \in Nat /\ (k - 1) + 1 = k /\ g[k - 1] \in S /\ k <= N
    BY <1>1, <1>6
  <2> HIDE DEF step, S
  <2>2. F[<<k - 1, g[k - 1]>>] = step(g[k - 1], k)
    BY <2>1
  <2> HIDE DEF F
  <2> QED
    BY <2>1, <2>2, <1>6
<1>8. <<N, g[N]>> \in T /\ g[N] \in S
  BY <1>1, <1>6
<1> HIDE DEF F, step
<1> DEFINE h == [k \in 0..N |-> g[k]]
<1>9. h = [k \in 0..N |-> IF k = 0 THEN a ELSE LET qs == h[k - 1] IN step(qs, k)]
  <2>1. \A k \in 0..N : h[k] = IF k = 0 THEN a ELSE LET qs == h[k - 1] IN step(qs, k)
    BY <1>1, <1>6, <1>7
  <2> QED
    BY <2>1
<1>10. done = [k \in 0..N |-> IF k = 0 THEN a ELSE LET qs == done[k - 1] IN step(qs, k)]
  <2> HIDE DEF h, a
  <2> QED
    BY <1>9 DEF done
<1>11. done[N] = g[N]
  <2>1. \A k \in 0..N : k < N /\ done[k] = g[k] => done[k + 1] = g[k + 1]
    <3> SUFFICES ASSUME NEW k \in 0..N, k < N, done[k] = g[k] PROVE done[k + 1] = g[k + 1]
      OBVIOUS
    <3>1. k + 1 \in 0..N /\ k + 1 \in 1..N /\ k + 1 # 0 /\ (k + 1) - 1 = k
      BY <1>1
    <3>2. done[k + 1] = step(done[k], k + 1)
      BY <3>1, <1>10
    <3>3. g[k + 1] = step(g[k], k + 1)
      BY <3>1, <1>7
    <3> QED
      BY <3>2, <3>3
  <2>2. done[0] = g[0] /\ N \in Nat
    BY <1>1, <1>6, <1>10
  <2> QED
    BY <2>1, <2>2, SameLoop
<1> DEFINE qs == g[N]
<1>12. qs \in Lists /\ Len(qs) = N /\ \A i \in 1..N : Alike(qs[i], order[i])
  BY <1>1, <1>8
<1> HIDE DEF qs
<1>13. IdsDiffer(qs)
  <2>1. DOMAIN qs = DOMAIN order
    BY <1>3, <1>12, Indices
  <2> QED
    BY <2>1, <1>3, <1>12, MovedDiffer
<1>14. Arranged(ps) = SortPanelsByGridPos(qs)
  BY <1>2, <1>11 DEF qs
<1> QED
  BY <1>12, <1>13, <1>14, SortedIs DEF Sound

-----------------------------------------------------------------------------
(* The operations                                                          *)

\* A panel of addPanel, which keeps none.
LEMMA NewPanelIs ==
  ASSUME NEW row \in BOOLEAN, NEW id \in Nat \ {0}
  PROVE  LET q == [Panel(NoId, row, FALSE, 0, 0, 1, 1) EXCEPT !.id = id]
         IN  q \in Panels /\ q.id = id /\ q.panels = <<>>
<1> DEFINE none == <<>>
           z == [id |-> NoId, row |-> row, collapsed |-> FALSE, repeat |-> FALSE, of |-> NoId, byRow |-> FALSE,
                 panels |-> none, x |-> 0, y |-> 0, w |-> 1, h |-> 1]
<1>1. Panel(NoId, row, FALSE, 0, 0, 1, 1) = z
  BY DEF Panel
<1>2. none \in Seq(KeptPanels) /\ none = <<>>
  OBVIOUS
<1> HIDE DEF none
<1>3. /\ z \in [id : Nat, row : BOOLEAN, collapsed : BOOLEAN, repeat : BOOLEAN, of : Nat, byRow : BOOLEAN,
                panels : Seq(KeptPanels), x : Int, y : Int, w : Int, h : Int]
      /\ z.panels = none
  BY <1>2 DEF NoId
<1> DEFINE q == [z EXCEPT !.id = id]
<1> HIDE DEF z
<1>4. q \in Panels /\ q.id = id /\ q.panels = none
  BY <1>2, <1>3 DEF Panels, PanelModels
<1> HIDE DEF q
<1> QED
  BY <1>1, <1>2, <1>4 DEF q

\* A panel in front of the others with the next id.
LEMMA AddedIs ==
  ASSUME NEW ps \in Sound, NEW q \in Panels, q.id = NextPanelId(ps), q.panels = <<>>
  PROVE  SortPanelsByGridPos(<<q>> \o ps) \in Sound
<1> DEFINE new == <<q>>
           qs == new \o ps
<1>1. ps \in Lists /\ IdsDiffer(ps) /\ Len(ps) \in Nat /\ DOMAIN ps = 1..Len(ps)
  BY Indices DEF Sound
<1>2. new \in Lists /\ Len(new) = 1 /\ DOMAIN new = {1} /\ new[1] = q
  BY DEF Lists
<1> HIDE DEF new
<1>3. IdsOf(q) = {q.id} /\ KeptDiffer(q)
  BY DEF IdsOf, KeptDiffer
<1>4. IdsDiffer(new) /\ Ids(new) = {q.id}
  BY <1>2, <1>3 DEF IdsDiffer, Ids
<1>5. Ids(ps) \cap Ids(new) = {}
  <2>1. NextPanelId(ps) \in Nat /\ \A i \in Ids(ps) : i \in Nat /\ i < NextPanelId(ps)
    BY <1>1, NextPanelIdIsNew
  <2> QED
    BY <2>1, <1>4
<1>6. qs \in Lists /\ Len(qs) = 1 + Len(ps) /\ \A i \in 1..(1 + Len(ps)) : qs[i] = IF i <= 1 THEN new[i] ELSE ps[i - 1]
  <2>1. new \in Seq(Panels) /\ ps \in Seq(Panels)
    BY <1>1, <1>2 DEF Lists
  <2>2. /\ qs \in Seq(Panels) /\ Len(qs) = Len(new) + Len(ps)
        /\ \A i \in 1..(Len(new) + Len(ps)) : qs[i] = IF i <= Len(new) THEN new[i] ELSE ps[i - Len(new)]
    BY <2>1, ConcatProperties
  <2> HIDE DEF qs
  <2> QED
    BY <2>2, <1>2 DEF Lists
<1> HIDE DEF qs
<1>7. \A m \in 1..Len(new) : Alike(qs[0 + m], new[m])
  BY <1>1, <1>2, <1>6 DEF Alike
<1>8. \A i \in (0 + 1)..Len(ps) : Alike(qs[i + Len(new)], ps[i])
  <2> SUFFICES ASSUME NEW i \in 1..Len(ps) PROVE Alike(qs[i + 1], ps[i])
    BY <1>2
  <2>1. i + 1 \in 1..(1 + Len(ps)) /\ ~ (i + 1 <= 1) /\ (i + 1) - 1 = i
    BY <1>1
  <2> QED
    BY <2>1, <1>6 DEF Alike
<1>9. IdsDiffer(qs)
  <2>1. 0 \in 0..Len(ps) /\ Len(qs) = Len(ps) + Len(new)
    BY <1>1, <1>2, <1>6
  <2>2. \A i \in 1..0 : Alike(qs[i], ps[i])
    OBVIOUS
  <2> QED
    BY <2>1, <2>2, <1>1, <1>2, <1>4, <1>5, <1>6, <1>7, <1>8, InsertedDiffer
<1> QED
  BY <1>6, <1>9, SortedIs DEF Sound, qs, new

\* One panel less.
LEMMA RemovedIs ==
  ASSUME NEW ps \in Sound, NEW k \in DOMAIN ps
  PROVE  RemoveAt(ps, k) \in Sound
<1> DEFINE a == SubSeq(ps, 1, k - 1)
           b == SubSeq(ps, k + 1, Len(ps))
           qs == a \o b
           at == [j \in 1..(Len(ps) - 1) |-> IF j < k THEN j ELSE j + 1]
<1>1. ps \in Lists /\ IdsDiffer(ps) /\ Len(ps) \in Nat /\ DOMAIN ps = 1..Len(ps)
  BY Indices DEF Sound
<1>2. a \in Lists /\ Len(a) = k - 1 /\ \A i \in 1..(k - 1) : a[i] = ps[i]
  <2>1. k - 1 \in 0..Len(ps)
    BY <1>1
  <2> QED
    BY <2>1, <1>1, FrontIs DEF Lists
<1>3. b \in Lists /\ Len(b) = Len(ps) - k /\ \A i \in 1..(Len(ps) - k) : b[i] = ps[k + i]
  <2>1. k \in 0..Len(ps) /\ Len(ps) \in k..Len(ps)
    BY <1>1
  <2> QED
    BY <2>1, <1>1, PartIs DEF Lists
<1>4. RemoveAt(ps, k) = qs
  BY DEF RemoveAt
<1> HIDE DEF a, b
<1>5. /\ qs \in Lists /\ Len(qs) = Len(a) + Len(b)
      /\ \A i \in 1..(Len(a) + Len(b)) : qs[i] = IF i <= Len(a) THEN a[i] ELSE b[i - Len(a)]
  <2>1. a \in Seq(Panels) /\ b \in Seq(Panels)
    BY <1>2, <1>3 DEF Lists
  <2> QED
    BY <2>1, ConcatProperties DEF Lists
<1> HIDE DEF qs
<1>6. Len(qs) = Len(ps) - 1 /\ DOMAIN qs = 1..(Len(ps) - 1)
  <2>1. Len(qs) = Len(ps) - 1
    BY <1>1, <1>2, <1>3, <1>5
  <2> QED
    BY <2>1, <1>5, Indices
<1>7. ASSUME NEW j \in DOMAIN qs PROVE at[j] \in DOMAIN ps /\ Alike(qs[j], ps[at[j]])
  <2>1. j \in 1..(Len(ps) - 1) /\ at[j] = (IF j < k THEN j ELSE j + 1) /\ k \in 1..Len(ps)
    BY <1>1, <1>6
  <2>2. CASE j < k
    <3>1. j <= Len(a) /\ j \in 1..(k - 1) /\ j \in 1..(Len(a) + Len(b)) /\ j \in 1..Len(ps)
      BY <2>1, <2>2, <1>1, <1>2, <1>3
    <3> QED
      BY <2>1, <2>2, <3>1, <1>1, <1>2, <1>5 DEF Alike
  <2>3. CASE ~ (j < k)
    <3>1. /\ ~ (j <= Len(a)) /\ j - Len(a) \in 1..(Len(ps) - k) /\ k + (j - Len(a)) = j + 1
          /\ j \in 1..(Len(a) + Len(b)) /\ j + 1 \in 1..Len(ps)
      BY <2>1, <2>3, <1>1, <1>2, <1>3
    <3> QED
      BY <2>1, <2>3, <3>1, <1>1, <1>3, <1>5 DEF Alike
  <2> QED
    BY <2>2, <2>3
<1>8. \A i, j \in DOMAIN qs : at[i] = at[j] => i = j
  BY <1>1, <1>6
<1> HIDE DEF at
<1>9. IdsDiffer(qs)
  BY <1>1, <1>7, <1>8, SomeDiffer
<1> QED
  BY <1>4, <1>5, <1>9 DEF Sound

\* After an operation the grid is drawn.
LEMMA KeepsSound ==
  ASSUME NEW ps \in Sound, panels' = Arranged(ps)
  PROVE  panels' \in Sound
  BY ArrangedIs

-----------------------------------------------------------------------------
(* The ids                                                                 *)

\* The inductive invariant: the list is one of panels and rows of which only collapsed
\* rows keep any, and no two of all these have one id.  The second part needs the first:
\* getNextPanelId looks one level deep, so a row that kept rows would hide ids from it.
SoundPanels == panels \in Sound /\ selected \in Nat

\* A saved dashboard is sound.
LEMMA SoundFirst == LayoutInit => SoundPanels
  BY DashboardsAssumption DEF LayoutInit, SoundPanels, Sound, Lists

\* Every operation leaves a sound list, one step for each.
LEMMA SoundKept == SoundPanels /\ [LayoutNext]_layoutVars => SoundPanels'
<1> SUFFICES ASSUME SoundPanels, [LayoutNext]_layoutVars PROVE SoundPanels'
  OBVIOUS
<1>1. panels \in Sound /\ selected \in Nat /\ panels \in Lists /\ IdsDiffer(panels)
  BY DEF SoundPanels, Sound
<1>2. DOMAIN panels = 1..Len(panels) /\ \A k \in DOMAIN panels : panels[k] \in Panels
  BY <1>1, Indices
<1>3. NextPanelId(panels) \in Nat \ {0}
  BY <1>1, NextPanelIdIsNew
<1> DEFINE next == NextPanelId(panels)
<1>4. ASSUME NEW row \in BOOLEAN, panels' = Arranged(Add(Panel(NoId, row, FALSE, 0, 0, 1, 1))), UNCHANGED selected PROVE SoundPanels'
  <2> DEFINE q == [Panel(NoId, row, FALSE, 0, 0, 1, 1) EXCEPT !.id = next]
  <2>1. q \in Panels /\ q.id = next /\ q.panels = <<>>
    BY <1>3, NewPanelIs
  <2>2. Add(Panel(NoId, row, FALSE, 0, 0, 1, 1)) = SortPanelsByGridPos(<<q>> \o panels)
    BY DEF Add
  <2> HIDE DEF q
  <2>3. Add(Panel(NoId, row, FALSE, 0, 0, 1, 1)) \in Sound
    BY <2>1, <2>2, <1>1, AddedIs
  <2> QED
    BY <2>3, <1>1, <1>4, KeepsSound DEF SoundPanels
<1>5. CASE AddPanel
  BY <1>4, <1>5 DEF AddPanel, Becomes
<1>6. CASE AddRow
  BY <1>4, <1>6 DEF AddRow, Becomes
<1>7. ASSUME NEW k \in DOMAIN panels, DuplicatePanel(k) PROVE SoundPanels'
  <2> DEFINE p == panels[k]
             x == IF p.x + 2 * p.w <= Columns THEN p.x + p.w ELSE p.x
             y == IF p.x + 2 * p.w <= Columns THEN p.y ELSE p.y + p.h
             d == [p EXCEPT !.repeat = FALSE,
                            !.x = IF p.x + 2 * p.w <= Columns THEN @ + p.w ELSE @,
                            !.y = IF p.x + 2 * p.w <= Columns THEN @ ELSE @ + p.h]
             q == [d EXCEPT !.id = next]
  <2>1. p \in Panels /\ ~ p.row /\ panels' = Arranged(Add(d)) /\ selected' = selected
    BY <1>2, <1>7 DEF DuplicatePanel, Becomes
  <2>2. d = [p EXCEPT !.repeat = FALSE, !.x = x, !.y = y]
    OBVIOUS
  <2> HIDE DEF p
  <2>3. x \in Int /\ y \in Int /\ p.panels = <<>>
    <3>1. p.x \in Int /\ p.y \in Int /\ p.w \in Int /\ p.h \in Int /\ p.panels = <<>>
      BY <2>1, Fields
    <3> QED
      BY <3>1
  <2> HIDE DEF x, y, d, next
  <2>4. q \in Panels /\ q.id = next /\ q.panels = <<>>
    <3>1. next \in Nat \ {0}
      BY <1>3 DEF next
    <3>2. d \in Panels /\ d.panels = <<>>
      BY <2>1, <2>2, <2>3 DEF Panels, PanelModels
    <3> QED
      BY <3>1, <3>2 DEF Panels, PanelModels
  <2>5. Add(d) = SortPanelsByGridPos(<<q>> \o panels)
    BY DEF Add, next
  <2> HIDE DEF q
  <2>6. Add(d) \in Sound
    BY <2>4, <2>5, <1>1, AddedIs DEF next
  <2> QED
    BY <2>1, <2>6, <1>1, KeepsSound DEF SoundPanels
<1>8. ASSUME NEW k \in DOMAIN panels, RemovePanel(k) PROVE SoundPanels'
  BY <1>1, <1>8, RemovedIs, KeepsSound DEF RemovePanel, Becomes, SoundPanels
<1>9. ASSUME NEW k \in DOMAIN panels, ToggleRow(k) PROVE SoundPanels'
  BY <1>1, <1>9, ToggledIs, KeepsSound DEF ToggleRow, Keeps, Becomes, SoundPanels
<1>10. ASSUME NEW k \in DOMAIN panels, UpdateRow(k) PROVE SoundPanels'
  <2> DEFINE qs == [panels EXCEPT ![k].repeat = ~ @]
             p == panels[k]
             d == [p EXCEPT !.repeat = ~ p.repeat]
  <2>1. panels' = Arranged(ProcessRepeats(qs, selected)) /\ selected' = selected
    BY <1>10 DEF UpdateRow, Keeps, Becomes
  <2>2. qs = [panels EXCEPT ![k] = d]
    OBVIOUS
  <2>3. d \in Panels /\ Alike(d, p)
    BY <1>2 DEF Panels, PanelModels, Alike
  <2> HIDE DEF d
  <2>4. qs \in Lists /\ DOMAIN qs = DOMAIN panels /\ \A j \in DOMAIN qs : Alike(qs[j], panels[j])
    BY <2>2, <2>3, <1>1 DEF Alike, Lists
  <2> HIDE DEF qs
  <2>5. qs \in Sound
    BY <2>4, <1>1, MovedDiffer DEF Sound
  <2> QED
    BY <2>1, <2>5, <1>1, ProcessRepeatsIs, KeepsSound DEF SoundPanels
<1>11. ASSUME NEW k \in DOMAIN panels, NEW with \in BOOLEAN, RemoveRow(k, with) PROVE SoundPanels'
  <2> DEFINE id == panels[k].id
             ps == IF with # panels[k].collapsed THEN Toggled(panels, k, selected) ELSE panels
             at == {j \in DOMAIN ps : ps[j].id # id}
  <2>1. panels[k].row /\ panels' = Arranged(Only(ps, at)) /\ selected' = selected
    BY <1>11 DEF RemoveRow, Becomes
  <2>2. ps \in Sound
    BY <2>1, <1>1, ToggledIs
  <2>3. at \in SUBSET DOMAIN ps
    OBVIOUS
  <2> HIDE DEF ps, at
  <2>4. Only(ps, at) \in Sound
    BY <2>2, <2>3, OnlyIs DEF Sound
  <2> QED
    BY <2>1, <2>4, <1>1, KeepsSound DEF SoundPanels
<1>12. ASSUME NEW k \in DOMAIN panels, NEW j \in DOMAIN panels, Move(k, j) PROVE SoundPanels'
  <2> DEFINE at(i) == IF i = k THEN [panels[k] EXCEPT !.x = panels[j].x, !.y = panels[j].y]
                      ELSE IF panels[i].y >= panels[j].y THEN [panels[i] EXCEPT !.y = @ + panels[k].h]
                      ELSE panels[i]
             qs == [i \in DOMAIN panels |-> at(i)]
  <2>1. panels' = Arranged(SortPanelsByGridPos(qs)) /\ selected' = selected
    BY <1>12 DEF Move, Becomes
  <2>2. panels[j].x \in Int /\ panels[j].y \in Int /\ panels[k].h \in Int
    BY <1>2, Fields
  <2>3. ASSUME NEW i \in DOMAIN panels PROVE at(i) \in Panels /\ Alike(at(i), panels[i])
    <3> DEFINE p == panels[i]
               x == panels[j].x
               y == panels[j].y
               z == panels[i].y + panels[k].h
    <3>1. p \in Panels /\ x \in Int /\ y \in Int /\ z \in Int
      <4>1. p \in Panels
        BY <1>2
      <4>2. p.y \in Int
        BY <4>1, Fields
      <4> QED
        BY <4>1, <4>2, <2>2
    <3>2. at(i) = IF i = k THEN [p EXCEPT !.x = x, !.y = y]
                  ELSE IF p.y >= panels[j].y THEN [p EXCEPT !.y = z] ELSE p
      OBVIOUS
    <3> HIDE DEF p, x, y, z, at
    <3>3. /\ [p EXCEPT !.x = x, !.y = y] \in Panels /\ Alike([p EXCEPT !.x = x, !.y = y], p)
          /\ [p EXCEPT !.y = z] \in Panels /\ Alike([p EXCEPT !.y = z], p)
      BY <3>1, MovedIs
    <3>4. Alike(p, p)
      BY DEF Alike
    <3>5. at(i) \in Panels /\ Alike(at(i), p)
      BY <3>1, <3>2, <3>3, <3>4
    <3> QED
      BY <3>5 DEF p
  <2> HIDE DEF at
  <2>4. qs \in Lists /\ DOMAIN qs = DOMAIN panels /\ \A i \in DOMAIN qs : Alike(qs[i], panels[i])
    <3>1. Len(panels) \in Nat
      BY <1>1, Indices
    <3> QED
      BY <3>1, <2>3, <1>2 DEF Lists
  <2> HIDE DEF qs
  <2>5. IdsDiffer(qs)
    BY <2>4, <1>1, MovedDiffer
  <2>6. SortPanelsByGridPos(qs) \in Sound
    BY <2>4, <2>5, SortedIs DEF Sound
  <2> QED
    BY <2>1, <2>6, <1>1, KeepsSound DEF SoundPanels
<1>13. ASSUME NEW collapsed \in BOOLEAN, ToggleRows(collapsed) PROVE SoundPanels'
  BY <1>1, <1>13, AllToggledIs, KeepsSound DEF ToggleRows, Keeps, Becomes, SoundPanels
<1>14. ASSUME NEW n \in 1..MaxOptions, ChangeVariable(n) PROVE SoundPanels'
  <2>1. n \in Nat
    BY LayoutSettings
  <2> QED
    BY <2>1, <1>1, <1>14, ProcessRepeatsIs, KeepsSound DEF ChangeVariable, Keeps, Becomes, SoundPanels
<1>15. ASSUME NEW k \in DOMAIN panels, NEW w \in 1..MaxSize, NEW h \in 1..MaxSize, Resize(k, w, h) PROVE SoundPanels'
  <2> DEFINE p  == panels[k]
             d  == [p EXCEPT !.w = w, !.h = h]
             qs == [panels EXCEPT ![k] = d]
  <2>1. panels' = Arranged(SortPanelsByGridPos(qs)) /\ selected' = selected
    BY <1>15 DEF Resize, Keeps, Becomes
  <2>2. d \in Panels /\ Alike(d, p)
    <3>1. p \in Panels /\ w \in Int /\ h \in Int
      BY <1>2, LayoutSettings
    <3> HIDE DEF p
    <3> QED
      BY <3>1, MovedIs
  <2> HIDE DEF d
  <2>3. qs \in Lists /\ DOMAIN qs = DOMAIN panels /\ \A i \in DOMAIN qs : Alike(qs[i], panels[i])
    BY <2>2, <1>1 DEF Alike, Lists
  <2> HIDE DEF qs
  <2>4. IdsDiffer(qs)
    BY <2>3, <1>1, MovedDiffer
  <2>5. SortPanelsByGridPos(qs) \in Sound
    BY <2>3, <2>4, SortedIs DEF Sound
  <2> QED
    BY <2>1, <2>5, <1>1, KeepsSound DEF SoundPanels
<1>16. CASE UNCHANGED layoutVars
  BY <1>16 DEF layoutVars, SoundPanels
<1> QED
  BY <1>5, <1>6, <1>7, <1>8, <1>9, <1>10, <1>11, <1>12, <1>13, <1>14, <1>15, <1>16 DEF LayoutNext

\* No two panels of a dashboard have one id, in the list or kept by a collapsed row,
\* however panels and rows are added, duplicated, removed, moved, collapsed, expanded and
\* repeated: getNextPanelId gives no id that the list still has, and nothing but a copy
\* with a new id puts a panel into the list twice.
THEOREM IdsAreUnique == LayoutSpec => []UniqueIds
<1>1. SoundPanels => UniqueIds
  BY DEF SoundPanels, Sound, UniqueIds
<1> QED
  BY SoundFirst, SoundKept, <1>1, PTL DEF LayoutSpec

\* Only collapsed rows keep panels, and what they keep are no rows: no toggleRow, repeatRow
\* or removeRow leaves panels in a row that is open, where the grid would not show them, or
\* puts one row into another.
THEOREM RowsAreNotNested == LayoutSpec => [](panels \in Seq(Panels))
<1>1. SoundPanels => panels \in Seq(Panels)
  BY DEF SoundPanels, Sound, Lists
<1> QED
  BY SoundFirst, SoundKept, <1>1, PTL DEF LayoutSpec
=============================================================================
