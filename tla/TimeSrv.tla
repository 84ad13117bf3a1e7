------------------------------ MODULE TimeSrv ------------------------------
(***************************************************************************)
(* TimeSrv.ts with core/services/timer.ts: the time range of the dashboard *)
(* and its automatic refresh.  An absolute range switches the refresh off  *)
(* and a relative one brings it back; a hidden page catches up when it is  *)
(* shown.  The range itself is left out but for its kind; what was asked   *)
(* for is counted, so that a result tells for which range and moment it is. *)
(***************************************************************************)
EXTENDS Naturals, FiniteSets

CONSTANTS
  Intervals,  \* the refresh intervals
  MaxAsked    \* bound: ranges chosen and refreshes asked for

ASSUME TimeSrvAssumption == MaxAsked \in Nat

VARIABLES
  absolute,    \* whether time.to is a DateTime
  refresh,     \* dashboard.refresh
  oldRefresh,
  timers,      \* the $timeouts of the automatic refresh that are pending
  refreshTimer,
  visible,     \* document.visibilityState
  autoRefreshBlocked,
  deferred,    \* the calls of refreshDashboard that setTime put off
  updating,    \* the calls of onTimeRangeUpdated under way
  asked,       \* how many ranges and refreshes were asked for
  suspended    \* history: the refresh that was shown when the user last chose an absolute range

choice == <<absolute, refresh, oldRefresh, suspended>>
clock == <<timers, refreshTimer>>
page == <<visible, autoRefreshBlocked>>
calls == <<deferred, updating>>
timeVars == <<choice, clock, page, calls, asked>>

Off == "off"
Settings == {Off} \cup Intervals
NotSuspended == "none"

\* The timer of setAutoRefresh, and those it is followed by.
First(interval) == <<"first", interval>>
Following(interval) == <<"following", interval>>
NoTimer == <<>>

TimeTypeOK ==
  /\ absolute \in BOOLEAN
  /\ {refresh, oldRefresh} \subseteq Settings /\ suspended \in {NotSuspended} \cup Settings
  /\ timers \subseteq {"first", "following"} \X Settings
  /\ refreshTimer \in {NoTimer} \cup ({"first", "following"} \X Settings)
  /\ {visible, autoRefreshBlocked} \subseteq BOOLEAN
  /\ {deferred, updating} \subseteq 0..(MaxAsked + 1)
  /\ asked \in 0..MaxAsked

\* A dashboard was opened: init.  What it leaves alone is of the dashboards
\* before: the refresh that one of them remembered, and that one was due while
\* the page was hidden, as it then still is.
TimeInit ==
  /\ absolute \in BOOLEAN
  /\ refresh \in Settings
  /\ oldRefresh \in Settings
  /\ timers = IF refresh = Off THEN {} ELSE {First(refresh)}
  /\ refreshTimer = IF refresh = Off THEN NoTimer ELSE First(refresh)
  /\ visible \in BOOLEAN /\ autoRefreshBlocked \in BOOLEAN
  /\ autoRefreshBlocked => ~ visible
  /\ deferred = 0 /\ updating = 0
  /\ asked = 0
  /\ suspended = NotSuspended

-----------------------------------------------------------------------------

\* A variant that leaves the timer of before.
SetAutoRefreshBeside(interval) ==
  /\ refresh' = interval
  /\ timers' = timers \cup (IF interval = Off THEN {} ELSE {First(interval)})
  /\ refreshTimer' = IF interval = Off THEN refreshTimer ELSE First(interval)

SetAutoRefresh(interval) ==
  /\ refresh' = interval
  /\ timers' = (timers \ {refreshTimer}) \cup (IF interval = Off THEN {} ELSE {First(interval)})
  /\ refreshTimer' = IF interval = Off THEN refreshTimer ELSE First(interval)

RefreshDashboard ==
  /\ updating' = updating + 1
  /\ UNCHANGED deferred

\* A variant that keeps no interval that was switched off before.
SetTimeForgetting(toAbsolute, before) ==
  /\ absolute' = toAbsolute
  /\ IF toAbsolute
       THEN oldRefresh' = before /\ SetAutoRefresh(Off)
       ELSE IF oldRefresh # Off /\ oldRefresh # before
         THEN SetAutoRefresh(oldRefresh) /\ oldRefresh' = Off
         ELSE refresh' = before /\ UNCHANGED <<oldRefresh, clock>>
  /\ deferred' = deferred + 1
  /\ asked' = asked + 1
  /\ UNCHANGED updating

\* setTime, the refresh being this before; the call of refreshDashboard is put off.
SetTime(toAbsolute, before) ==
  /\ absolute' = toAbsolute
  /\ IF toAbsolute
       THEN /\ oldRefresh' = IF before # Off THEN before ELSE oldRefresh
            /\ SetAutoRefresh(Off)
       ELSE IF oldRefresh # Off /\ oldRefresh # before
         THEN SetAutoRefresh(oldRefresh) /\ oldRefresh' = Off
         ELSE refresh' = before /\ UNCHANGED <<oldRefresh, clock>>
  /\ deferred' = deferred + 1
  /\ asked' = asked + 1
  /\ UNCHANGED updating

\* The refresh that an absolute range suspends now.  None is shown again after
\* it, unless the one of an earlier range is still remembered.
Suspended == IF refresh # Off THEN refresh
             ELSE IF absolute THEN suspended
             ELSE IF oldRefresh = Off THEN Off ELSE NotSuspended

\* The user chooses a range, zooms, shifts it, or goes back to the one at load.
ChangeTime(toAbsolute) ==
  /\ asked < MaxAsked
  /\ SetTime(toAbsolute, refresh)
  /\ suspended' = IF toAbsolute THEN Suspended ELSE suspended
  /\ UNCHANGED page

\* routeUpdated: the url has another range, as after the back button.
\* initTimeFromUrl takes the refresh away before setTime can remember it.
RouteUpdated(toAbsolute) ==
  /\ asked < MaxAsked
  /\ SetTime(toAbsolute, IF toAbsolute THEN Off ELSE refresh)
  /\ suspended' = IF toAbsolute /\ ~ absolute THEN NotSuspended ELSE suspended
  /\ UNCHANGED page

\* The user chooses an interval.
ChangeInterval(interval) ==
  /\ interval # refresh
  /\ SetAutoRefresh(interval)
  /\ suspended' = NotSuspended
  /\ UNCHANGED <<absolute, oldRefresh, page, calls, asked>>

\* The refresh button.
RefreshNow ==
  /\ asked < MaxAsked
  /\ asked' = asked + 1
  /\ RefreshDashboard
  /\ UNCHANGED <<choice, clock, page>>

\* The $timeout of setTime.
RunDeferred ==
  /\ deferred > 0
  /\ deferred' = deferred - 1
  /\ updating' = updating + 1
  /\ UNCHANGED <<choice, clock, page, asked>>

\* A timer fires: the first one refreshes in any case, the following ones
\* only while the page is visible.
TimerFires(t) ==
  /\ t \in timers
  /\ timers' = (timers \ {t, refreshTimer}) \cup {Following(t[2])}
  /\ refreshTimer' = Following(t[2])
  /\ IF t[1] = "first" \/ visible
       THEN /\ asked < MaxAsked
            /\ asked' = asked + 1
            /\ RefreshDashboard
            /\ UNCHANGED page
       ELSE /\ autoRefreshBlocked' = TRUE
            /\ UNCHANGED <<visible, calls, asked>>
  /\ UNCHANGED choice

Hide ==
  /\ visible
  /\ visible' = FALSE
  /\ UNCHANGED <<choice, clock, autoRefreshBlocked, calls, asked>>

Show ==
  /\ ~ visible
  /\ visible' = TRUE
  /\ IF autoRefreshBlocked
       THEN /\ asked < MaxAsked
            /\ asked' = asked + 1
            /\ autoRefreshBlocked' = FALSE
            /\ RefreshDashboard
       ELSE UNCHANGED <<autoRefreshBlocked, calls, asked>>
  /\ UNCHANGED <<choice, clock>>

TimeNext ==
  \/ \E abs \in BOOLEAN : ChangeTime(abs) \/ RouteUpdated(abs)
  \/ \E s \in Settings : ChangeInterval(s)
  \/ RefreshNow \/ RunDeferred \/ Hide \/ Show
  \/ \E t \in timers : TimerFires(t)

-----------------------------------------------------------------------------
(* Properties                                                              *)

\* There is one timer, of the interval that is shown, or none when the
\* refresh is off: no change of interval or range leaves one behind.
OneTimer ==
  /\ timers = {} <=> refresh = Off
  /\ \A t \in timers : t = refreshTimer /\ t[2] = refresh

\* An absolute range only suspends the automatic refresh: with a relative
\* one the refresh is as it was when the user chose the absolute one, however
\* many followed it, until the user chooses an interval or an absolute range
\* comes with the url.  Also none is shown again, but only if no interval is
\* remembered by then: not from a dashboard before, and not one that the user
\* replaced while the range was absolute.
AutoRefreshComesBack ==
  ~ absolute /\ suspended # NotSuspended => refresh = suspended
=============================================================================
