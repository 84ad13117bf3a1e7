# Grafana, verified in part

TLA+ models of the parts of this repository (Grafana 7.4, the Go server in `src/pkg` and the
TypeScript front end in `src/public/app` and `src/packages`) in which several actors share
state: TLC checks them on small instances, TLAPS proves the most important invariants for
all. Paths below are relative to `src/`.

## 1. Inventory

| component | state it keeps | operations | who it meets | what is hard |
|---|---|---|---|---|
| **Alerting in high availability** `pkg/services/alerting`, `sqlstore/alert.go`, `sqlstore/alert_notification.go` | tables `alert` and `alert_notification_state`; the rule objects of every server's scheduler; the evaluation in progress | evaluate, `SetAlertState`, `GetOrCreateAlertNotificationState`, `SetAlertNotificationStateToPending…/ToComplete…`, pause, delete, refresh | the same code on the other servers, through the two tables only | every server evaluates every rule; SELECT and UPDATE at the default isolation; crash between saving and sending; stale rules |
| **Alert scheduler and engine** `alerting/engine.go`, `scheduler.go`, `ticker.go`, `models.go` | jobs (offset, `OffsetWait`, `running`), `execQueue`, per evaluation `attemptChan` and `cancelChan` | tick, refresh, enqueue, dispatch, attempt, retry, handle, end, shut down | rule reader, result handler, server context | goroutines over channels that are closed at both ends, blocking sends, catching up after a pause |
| **Server lock** `pkg/infra/serverlock` | table `server_lock` | `LockAndExecute` | services that must run once: clean-up of tokens, statistics | compare and swap on a copied version, clocks that differ |
| **SQL sessions** `sqlstore/transactions.go`, `session.go` | session in the context, its transaction, its events | `InTransaction`, `WithDbSession`, `WithTransactionalDbSession`, retry | everything that writes; the bus publishes events after the commit | sharing a session between helpers that end it, retries at two levels, crash half-way |
| **User auth tokens** `pkg/services/auth`, `contexthandler`, `api/login.go` | table `user_auth_token`, the browser's cookie | create, look up, mark seen and unseen, rotate, revoke, clean up | requests of one browser at the same time; server lock for the clean-up | rotation from stale copies, responses lost or late |
| **Backend plugins** `pkg/plugins/backendplugin` | process, client, state of a plugin | start, restart when killed, request, stop | rendering, data sources | restart loop against requests and shutdown |
| **Next generation alerting** `pkg/services/ngalert` | definitions with versions, routines | schedule, evaluate, update, delete | database | a routine per definition, version changes |
| **Dashboards** `sqlstore/dashboard.go` | `dashboard`, `dashboard_version` | save, restore, delete | provisioning, alerts | optimistic version check in a transaction |
| **Provisioning** `services/provisioning` | files, provisioned dashboards | poll, save, delete | dashboards | the loop is cancelled and begun again |
| **Remote cache** `infra/remotecache` | table `cache_data` | set, get, delete, collect | auth proxy | insert, then update, with no transaction |
| **Login attempts, quotas** | counters in tables | check, then act | login | check and act apart |
| **Server lifecycle, bus** `pkg/server`, `pkg/bus` | services and their context | start, run, shut down | all of them | order, first error |
| **Rendering** | count in progress | render | alert notifications, plugins | the limit |
| **Expressions** `pkg/expr` | a graph | build, execute | queries | pure algorithm |
| **Front end requests** `core/services/backend_srv.ts`, `FetchQueue.ts`, `FetchQueueWorker.ts`, `ResponseQueue.ts` | entries pending and in progress, the streams in flight | fetch, start, answer, cancel, ping the login, leave | every caller in the browser; the server | subjects that call each other back, updates that are buffered, cancellation of what is just being started |
| **Template variables** `features/variables/state`, `variables/query` | value, options and state of each variable; the batch | open a dashboard, set a value, change the range, take values of the url, update options | data sources; the panels, which are refreshed at last | a tree of promises that go on while others start; updates that overtake each other; failures in the middle |
| **Time range and panels** `dashboard/services/TimeSrv.ts`, `dashgrid/PanelChrome.tsx`, `query/state/PanelQueryRunner.ts`, `runRequest.ts` | range, interval, timers; what a panel shows and whether it must catch up; its one query | set range or interval, refresh, show and hide, scroll, view alone, run, answer, cancel | variables (a new range updates them first), data sources, the url | timers against changes, data that comes while the panel is out of view, plugins and data sources that load late |
| **Dashboard layout** `dashboard/state/DashboardModel.ts` | the list of panels, rows with what they keep | add, duplicate, move, remove, collapse, expand, repeat | variables (copies follow their values), the grid | membership of a row by order alone, ids of copies, operations in any sequence |
| **Opening, saving and leaving a dashboard** `initDashboard.ts`, `ChangeTracker.ts`, `dashboardWatcher.ts` | the dashboard under way, the saved one | open, save, leave | server, other editors | a save against events of others |
| **Explore** `features/explore/state` | two panes | run, split, follow | data sources, the url | panes that follow each other |

What makes them correct, in short: one notification per change of an alert and none lost;
evaluations of a rule that neither overlap nor stop coming; one holder of the server lock
per interval; transactions that are all or nothing and publish what they committed, once; a
session that is neither lost in a rotation nor comes back once it has ended; in the browser,
requests that each get an answer within the limit on those at a time, variables and panels
that end up with the values and the range of last, and a dashboard that loses no panel.
Data source protocols, HTTP
handlers without state and user interface components carry no such state and are left out.

`PROJECT.json` lists the hazards line by line, with the properties that watch each. Beside
them there are some that no property covers:

* `result_handler.go:73`: a server that stops between the save of a change and the claim of
  its notification announces it never; the next evaluation finds the state unchanged.
* `notifier.go:138`: two notifications claimed by different servers in one order are
  delivered in the other; delivery is a call to another system.
* `transactions.go:54`: a nested call that is tried again leaves the session of the context,
  and what the body wrote before it is lost while the body goes on; no body of the
  repository writes before its nested call.
* `contexthandler.go:260`: any error of the lookup, a failing database included, deletes the
  session cookie, by design (`LookupFails`).
* `api/user_token.go:123`: an administrator's revocation deletes by all columns of a row that
  its user's requests rotate.
* `TimeSrv.ts:151` and `DashboardModel.ts:277` (see section 3).

## 2. Modules

```
AlertRule ── AlertHA ── MCAlertHA (3 configurations)      ServerLock ── MCServerLock
                │  └──── AlertHAProofs                         └──────── ServerLockProofs
AlertDedup ─────┘ (INSTANCE: what AlertHA implements)
AlertEngine ── MCAlertEngine      SqlTransaction ── MCSqlTransaction  AuthToken ── MCAuthToken
     └──────── AlertEngineProofs       └─────────── SqlTransactionProofs    └────── AuthTokenProofs

BackendSrv ── MCBackendSrv        Variables ── MCVariables      DashboardLayout ── MCDashboardLayout
     └─────── BackendSrvProofs         └────── VariablesProofs            │
TimeSrv ── DashboardPanel ── MCDashboardPanel                             │
                └──────────── DashboardProofs ────────────────────────────┘
```

Definitions called a variant in their comment are plausible errors of the definition that
follows; each property is known to fail with one of them in its place.

**AlertRule** is the pure part: `NewState` is `EvalContext.GetNewState`, `ShouldNotify` is
`NotifierBase.ShouldNotify`, split into what it asks.

**AlertHA** follows one rule and one channel. `alert` and `nstate` are the two rows;
`rule[s]` is `Job.Rule` of server `s`; `fetched[s]` what `ruleReader.fetch` returned before
`Update` handed it over; `ev[s]` is the evaluation under way, its program counter naming the
next statement: `Evaluate` (Eval and `GetNewState`), `SaveRead` and `SaveWrite` (the SELECT
and the UPDATE of `SetAlertState`), `Decide` (`getNeededNotifiers`), `Claim` (the UPDATE with the version in
its WHERE), `Send`, `Complete`. An EvalContext points to the rule object it began with; the
field `attached` says whether that object is still the job's, because a refresh puts a new
object there and later writes of the evaluation go to the old one. The SELECT and
the UPDATE of `SetAlertState` are two steps, since the code opens its transaction at the
database's default level, under which others commit in between. `claims`, `lastChange` and
`lost` are history: `lastChange` has the state that the SELECT read (`prev`) beside the one
that the server took it for (`believed`), `lost` the numbers that were given by an UPDATE
after the row had been changed or deleted since its SELECT. A number is `Firm` as long as it
is below all of those; from the lowest of them on, two changes may have one number.

**AlertDedup** is the promise: changes are numbered, and each whose number is firm is
announced at most once. `AlertHA!ImplementsDedup` is the refinement, `Announce(k)` being a
`Send` for change number k, `Change` a `SaveWrite` of a row that is still as read, and `Lose(n)`
one that came too late.

**AlertEngine** is the machine that runs the evaluations of one rule on one server.
`alertingTicker` is the variable `ticker` with the actions `Tick`, `Update`, `Scan…`,
`Enqueue`; a call of `processJobWithRetry` is a record of `runs`, `loop` being the select
loop and `worker` the goroutine of `processJob`. `attempts` is `attemptChan` (0 empty, -1
closed, n an attempt), `cancels` counts what is in `cancelChan`. Other rules occur as the
index and number from which `Offset` is computed. `Tick` waits for nobody but alertingTicker: ticks
that catch up follow each other as fast as they are taken. History: `idleSince`, `enqueued`,
`moved` (the last refresh that changed the offset) and `doubled` (the jobs that were enqueued
again before they were marked as running). A paused rule is not modelled here (the
scheduler skips it, which AlertHA's `Start` has).

**ServerLock** has one action per statement of `LockAndExecute`, per server; `grants` is the
history of successful updates.

**SqlTransaction** takes a *body*: a sequence of calls with the helper each is written with.
`sess.shared` is the session in the context, `sess.own` the one of a nested retry. The
semantics of xorm's `Rollback` and `Close` (the session falls back to one transaction per
statement) are external. `Commit` is the COMMIT alone; each event is a step after it
(`Publish`), and so is the return (`Succeeds`, `NestedReturns`), with a crash possible before
each. An error of COMMIT means that nothing was committed: a COMMIT whose answer is lost is not
modelled. The number of retries is counted up to the limit and then stays (`OneMore`), since
those of a busy database go on beyond it. The variable `body` is chosen at the start among the constant
`Bodies` and stays: `Flat` is a body of handlers that only use the session (`Plain`), as the
tests of `InTransaction` have it; `Startup` is `ensureMainOrgAndAdminUser`.

**AuthToken** is one session: its row, the browser's cookie, and requests, each with the
copy of the row it read. The browser keeps whichever cookie arrives last. `RotateFails` is a
`TryRotateToken` that returns an error, which is logged; the response goes out without a new
cookie. `active` is history: when the last page was answered that a rotation was not due for,
or did not fail for.

**BackendSrv** is `BackendSrv.fetch` with its three queues. Everything runs on one thread,
but one subject's `next` calls the subscribers of another before it returns, so an event
(`Fetch`, `Answer…`, `Leave`, `Cancel…`) is followed by the steps of the worker it sets off
before the next event: `TakeUpdate` is one update through `concatMap`, `Start` the
`ResponseQueue` setting its entry in progress and calling `fetch(options)`, which first
cancels what has its `requestId` (`TearDown`), `Subscribe` the observable that goes to the
caller. `updates` holds what `concatMap` buffers: the count of its moment and no list, since
the list is read from the live state. A 401 of a signed-in user sends a ping, a request of
its own; when it is answered the request is made again outside of the queue. `together`
says which requests one caller waits for with `forkJoin`.

**Variables** has the thunks of `actions.ts` and `VariableQueryRunner`. A call of
`updateOptions` is a *job*: it waits for its data source (`datasource`, first come first
served), asks its query with the values of that moment, and after the answer awaits the jobs
of the variables below it (`selection`). Its `parent` is who awaits it: a change, another
job, the opening of the dashboard, or nobody, once whoever waited has failed or was
overtaken. `Settle` is what promises do before the browser takes the next event, so all
other actions wait for `Quiet`. Values are numbers; `Options` says what a query answers, and
`Question` what it was asked with, which is what the properties compare. A query that finds
nothing leaves the one option `None` (`Listed`). `Cancel` is the user's cancellation of a
variable that loads: its job ends as if it were done, with the options of before, and what it
had started goes on unawaited. History: `cut`, the variables whose last update failed or was
cancelled, and `loose`, that one was since a refresh of the panels that no update outlasted.
`getOptimizedInputEdges` is `Cascade`: dependents, without those that another dependent will update.

**TimeSrv** has the range's kind (absolute or relative) and the interval, `oldRefresh`, the
pending `$timeout`s and the visibility of the page. `asked` numbers the ranges and refreshes
asked for, so that a query is known by what it was begun for. `TimeSrv` is a singleton, and
`init` resets neither `oldRefresh` nor `autoRefreshBlocked`: `TimeInit` begins with what any
dashboard before has left of them. `suspended` is history: the refresh that was shown when the
user last chose an absolute range, until he chooses an interval or an absolute range comes with
the url.

**DashboardPanel** extends it with one panel: `viewing` and `onScreen` are what the grid derives
`isInView` from, `lazy` and `mounted` the life of `PanelChrome`, `shown` its state, `lookups`
the runs that await `getDataSource`, in order for each source, `sub` the subscription of
`PanelQueryRunner` with the 200 ms timer, packets and the end of `runRequest`. A call of
`onTimeRangeUpdated` is a number in `updating`, which ends in `startRefresh` or, when a variable
fails, without. History: `owed` is what was asked for at the last `StartRefresh`, and `missed`
says that another panel was viewed alone at that moment.

**DashboardLayout** is `DashboardModel`'s list of panels. Every operation is an action on
the list as the code's loops make it, followed by `Arranged`, the compaction that
react-grid-layout (external) does when it draws: gaps are closed upwards, and a row that makes
room pushes down what follows it (`Seated`). Copies are moved, resized and given row options like
any other panel, as the grid and `DashboardRow` let the user do. `home` is history: for each
panel that is no copy the row the user has it in, `NoId` above all rows, `Loose` below a copy or
a collapsed row, `InCopy` kept by a copy of a row; an edit records anew only the panels that the
user put somewhere (`Becomes`), and what the program arranges records only that a copy was
collapsed with a panel (`Keeps`). Loops that go on over what they
insert (`processRepeats`, `expandRows`) are `Looped`, a recursive function of the index;
filters and the stable sort are `Listed` by the rank of each entry, the number of entries that
do not come after it. Its specification is `LayoutSpec` (`LayoutInit`, `LayoutNext`), so that
one module can prove about it and about the panel.

## 3. Runs

Bounds are named in the configurations; `…_x.cfg` below is the run `x` of `PROJECT.json`.

| run | shows | bounds and why they are enough |
|---|---|---|
| `serverlock` | grants are an interval apart up to the clocks' difference; holders at the same time hold different versions | 3 servers (one wins, one loses, one is stale), skew 1, 7 seconds = two intervals; proved for all |
| `dedup` | a change is announced twice only under a number that is not firm; the latest change gets the row; a notification is given up only if one as new was claimed; AlertDedup implemented | 2 servers with the other between SELECT and UPDATE, pauses, deletion, crashes, failing saves and completions at any step, 1 change beyond which servers overwrite each other, 2 claims; one outcome, firing, since pauses already bring the states it changes from; proved for all |
| `cluster` | **violation**: two servers announce one change (`NoDuplicates`) | 2 servers, 1 change, no fault, no user: the least in which it happens |
| `single` | one server: every change of the row is announced in the end, but for those a stale rule hid or a failed notification held back; reminders keep their distance; with `For`, no data, errors that keep the state, notifiers that fail, and a reader that hands over stale rules | 5 units of time (`For` 1, frequency 2), 2 changes, 4 claims; the reminders proved for all, the last change for all without faults |
| `session` | the cookie stays valid, an active session is remembered, an ended session does not come back | 2 requests, 9 half-minutes, 3 tokens: two rotations after the login, with the guard and the urgent time, the end by inactivity and by age, and rotations that fail; responses within `RotateGuard`; proved for all |
| `bodies` | a plain body is all or nothing, and its events are those of its committed statements, each once, none missing; what reports success is complete, of either body; the call returns, or the database is busy again and again | 4 statements, all errors and failing rollbacks, 5 retries of a locked database at each level and any number of a busy one, a crash at any step, a restart; all but the return proved for all |
| `jobs` | evaluations overlap only of a job that was enqueued again before it was marked; each evaluation is handled once and ends; the server stops | 1 job, 2 attempts, panics, a retry, shutdown at any step, 7 ticks that catch up, a queue of 1, 2 runs so that an overlap does occur; overlap and handling proved for all |
| `schedule` | a free job is enqueued in every interval, unless a refresh moved its offset in it | frequency 4, refresh every 4 ticks, up to 4 rules, 19 ticks: all phases of refresh against interval; 2 job objects, failing refreshes, panics; proved for all |
| `backend` | no request for data above the limit; when the worker is at rest a request waits only while all places are taken; a place belongs to a caller that still waits; every caller gets an answer, unless callers of several have cost the queue all its places | 3 requests for data and 2 places, so one has to wait; two share a `requestId`, two may have one caller; one api call that may be told 401, with its ping; no place is lost with so few requests, so that here every caller is answered; all but the answers proved for all |
| `variables` | options and panels are those of the last values and range, but for what failed or was cancelled; every dashboard opens; every change ends | 3 variables in a diamond of which one edge is redundant; 2 changes (user, range, url) that overlap at any point, 1 failure or cancellation, answers in any order and one that is empty; 4 updates of one variable at a time, which two changes cannot exceed; options and panels proved for all |
| `view` | one timer; the interval comes back after an absolute range; no refresh is lost but while another panel is viewed alone; the last query is shown; of one data source the newest query stays | 2 data sources, 1 interval, 3 requests for data of which at most 2 once the plugin is there (`Bound`: absolute ranges and the hidden page come before, what they end in is a refresh like another), both faults, any leftover of a dashboard before; proved for all, intervals included |
| `rows` | ids are unique; a panel changes its row or is lost only where the user left it with a copy or a collapsed row; collapse and expand undo each other, also when the row was pushed down in between; copies follow the variable | a repeating row of a panel that repeats or not, 2 options, 2 edits at any place, copies included (sizes 1 and 2), toggles and changes of the variable without bound; lists of up to 7 panels with those in rows (`Bound`), one more than the row, its panel and all copies, and properties are checked on the lists just beyond it as well; 2 columns and 2 repeats to a line; unique ids proved for all |

`VIEW Nameless` of `rows` tells ids by the place at which they are found, in the list and in
`home`, and all that are found nowhere as one: the code compares ids for equality and takes one
that is new, so that two states with one view go on alike. What `home` says is in the view for
every panel it has, those included that are lost, so that a state that lost a panel is not taken
for one in which it was removed.

The type invariants (`TypeOK` of each module) are no property of a run; they were checked
within the same bounds, and those of the proved modules are part of the proofs. One run expects a
violation, of what the documentation says of deduplication. Elsewhere, where the code does not
keep what its documents say of it, the property names the case in which it does not, and the
list below describes it; that case is within the models, and except for the lost place of
`FetchQueue.ts:37` within the runs.

The models reach these states, which a reader of the code or its documents may not expect.

On the server:

* `sqlstore/alert.go:286`: under the default isolation two servers read the same number of
  state changes, both write it plus one, and both announce their change (the run `cluster`),
  although `docs/sources/alerting/_index.md:29` says that "no duplicate alert notifications
  are sent due to the deduping logic".
* `notifiers/base.go:97`: while a notification is pending `ShouldNotify` says no for a minute,
  whoever made it pending; a change that a second server makes in that minute is announced by
  nobody (`LastChangeNotified` with two servers), although `result_handler.go:75` says that
  the number "makes sure that the server with the last state change always sends a
  notification". On one server it is so after a notification that failed (`HeldBack`).
* `result_handler.go:72`: a notification whose save has failed goes out under the number of an
  older change; when it is claimed between the reading of the row and the claim of the latest
  change, that one loses the row (`LastChangeClaims` names it).
* `scheduler.go:38`: with a rule that was handed over late a server may take a change from
  alerting for one from pending or the like, and announces nothing (`Misjudged`).
* `auth_token.go:297`: `RevokeToken` deletes by all columns; a request beside the logout that
  marks the token seen makes the DELETE match nothing, which `Logout` takes for success, and
  the session lives on (`auth_token_test.go:63`: "revoking existing token should delete
  token").
* `session.go:55`: the first call of `ensureMainOrgAndAdminUser` that uses `WithDbSession`
  closes the shared session; what follows is committed statement by statement and stays when
  the body fails (`PlainAllOrNothing` without its condition), although `bus.go:33` says that
  "InTransaction will rollback if the callback returns an error".
* `scheduler.go:71`: a rule with a frequency of one second is evaluated every other second
  (instance with `Frequency = 1`; `EvaluatedEachInterval` fails), and a new offset brings two
  evaluations closer together than the minimum interval (`Update` between two `Enqueue`).
  `:40`: a refresh that changes the offset of a job that waits for the former one makes it miss
  its interval (`moved`).
* `engine.go:124`: ticks that catch up enqueue a job twice before it is marked as running, and
  the end of the first evaluation unmarks it while the second runs (`doubled`, without which
  `NoOverlap` fails).
* `scheduler.go:83`: the ticker stays at a full queue when the dispatcher has stopped before
  (`StuckAtQueue`, without which `StopsWhenAsked` fails).
* `transactions.go:47`: `&&` binds stronger than `||`, so a busy database is tried again
  without a limit (`Retryable`; a call then never returns, the second case of `CallReturns`).
* `contexthandler.go:304`: a rotation that fails is only logged; a session whose rotations all
  fail is ended for inactivity while its user is active (`ActiveIsRemembered` counts no request
  whose rotation failed).
* `sqlstore.go:160`: after a crash between the inserts of the first user and of its
  membership the next start finds a user and leaves the membership out (`SuccessIsComplete`
  without its condition on `restarts`).
* `sqlstore/alert.go:311`: under the default isolation a pause that commits between SELECT
  and UPDATE of `SetAlertState` is overwritten (`SaveWrite`).
* `result_handler.go:67`: a server whose change to pending was refused keeps the older time
  and may alert before `For` is over; `notifiers/base.go:53`: a server that last saw pending
  takes a resolution for pending to ok and does not announce it.
* `eval_context.go`: a second attempt takes the state of a rule that was paused in between
  for the previous one; unpaused again, a change from paused to pending is then "announced",
  and the notifier panics at a state that it has no words for (`Describable`).
* `auth_token.go:254`: a request that takes longer than the guard of 30 seconds
  (`MaxDuration = 2`) rotates again, and the token just handed out is forgotten
  (`StaysLoggedIn` fails).

In the browser:

* `FetchQueueWorker.ts:46`: when a caller waits for several requests and one is cancelled by
  a newer one that is being started, its others leave the queue during that start; updates
  buffered meanwhile have counts that are too low, and more requests for data start than
  there are places (`DataLimit` without its condition).
* `FetchQueue.ts:37`: in the same situation the next request of that update may be one of the
  caller that has just left: `setInProgress` makes its entry anew after `setDone` deleted it,
  nobody sets it done again, and the place is lost for good (`PlacesAreHeld` without its
  condition; it takes eight requests and two callers that wait for two each, more than the
  run has). Once all places are lost so, every request for data waits forever, which
  `EverySettles` names (`LostPlaces`).
* `backend_srv.ts:209`: a request that is made again after a 401 and is then answered ok ends
  as cancelled for its caller: the stream that retries passes failures only, and the one for
  successes was completed by the first answer (`AnswerOk` of a `refetching` stream).
* `variables/state/actions.ts:526`: when one variable fails on a new range the panels are not
  refreshed at all, and the other updates go on with nobody waiting; they may change values
  that no panel is then queried with (`PanelsAreCurrent` without `loose`).
* `VariableQueryRunner.ts:153`: after a failed query the variables below are not updated,
  while they are Done with options of before; and an overtaken update may set its variable to
  Done after the newer one set it to Error. `:139`: an update that the user cancels ends as Done
  with the options of before, and with no error (`OptionsAreCurrent` without `CutOff`).
* `TimeSrv.ts:151`: an absolute range that comes with the url switches the refresh off
  before `setTime` can remember it; a relative one does not bring it back. `TimeSrv.ts:244`:
  `oldRefresh` is not cleared when it equals the present interval, an old one replaces an
  interval chosen while the range was absolute, and one that a dashboard before has left
  (`TimeSrv.ts:58` does not reset it) switches on a refresh nobody chose; `suspended` says which
  refresh is to come back, and that none is in these cases.
* `DashboardModel.ts:277`: `startRefresh` skips the panels that are hidden behind one that is
  viewed alone; back on the dashboard they show the former range until the next refresh
  (`missed`, without which `NoRefreshLost` fails), while `docs/sources/dashboards/_index.md:17`
  has the refresh button update all panels.
* `PanelQueryRunner.ts:164`: a run whose data source loads slowly replaces a newer run of
  another one; `PanelQueryRunner.ts:189`: a data source that cannot be loaded ends the run
  with a line in the console. `PanelChrome` never resets `refreshWhenInView`, so a panel that
  was out of view once queries again at every return. A query that was stopped shows as
  loading again after `resendLastResult`, for good.
* `DashboardModel.ts:842`: expanding a collapsed copy of a row with a repeating panel removes
  its other copied panels until the variable changes. `:415`: removing a repeating panel
  leaves its copies until then, and a panel moved into a copied row goes with that copy once
  it is collapsed (`InCopy`, without which `PanelsKeepTheirRow` fails). A copied row that is
  removed without its panels leaves them in the row above; collapsed there they are out of
  reach of `cleanUpRepeats`, and are copied themselves. A copy that is set to repeat is
  neither cleaned up nor spared (`RepeatsFollow` leaves it out). Copies kept by a row that is
  no copy stay as they were while it is collapsed.
* `DashboardModel.ts:868`: panels that the user left below a collapsed row belong to it once
  it is expanded (`Loose`).

### Fairness

`AlertHA!FairSpec`: weak fairness of the steps of an evaluation that has begun; its goroutine
runs, and database calls and notifiers return or hit `AlertingNotificationTimeout`. Nothing
makes rules be fetched or time pass, and nothing needs it. `SqlTransaction!FairSpec`: weak
fairness of the one goroutine, the database answering, failing or being busy, without end as
well. `AlertEngine!FairSpec`:
weak fairness of the ticker's scan, of both ways to stop, of each run's loop and worker; an
evaluation ends by its context's deadline. Ticks, dispatch and shutdown are not fair.
`BackendSrv!Spec`: the thread goes on with what an event set off (`Work`), the server or the
network answers each request in some way, and the promise of a ping settles; that requests
are made, left or cancelled is not fair. `Variables!Spec`: promises settle, and as long as
any data source or query is under way one of them comes back, well or badly; changes are not
fair. `DashboardPanel` and `DashboardLayout` state safety only.

Deadlock checking is off where the system may stop: time is bounded, a transaction is over,
the server was shut down, the session has ended. It is on for `backend`, `variables`, `view`
and `rows`: the first two end in a state in which all is settled and say so (`AllSettled`,
`Done`).

## 4. Proofs

TLAPS checks the `…Proofs` modules for every value of the constants, from the named assumptions of
the modules they are about. What a theorem assumes beyond those is a condition under which the
code promises the property; the list in section 3 says what happens without.

*ServerLock.* `LockInv` is inductive. The spacing of the grants does not follow from itself: it
needs that the row records the latest grant (`RowRecordsGrants`), that a copy with the row's
version has the row's last execution (`CopiesOfTheRow`), and that a server about to acquire has
compared that copy with a clock that has not gone back (`CheckedBeforeAcquire`). The update moves
the row only if the copy is still the row, so the comparison was with the latest grant.
`HoldersDiffer` adds `RunnersWereGranted`: a holder's version is its place in `grants`.

*AlertHA.* The first five hold for any number of servers, with any faults and users, and with
others between the SELECT and the UPDATE of a state change. `EvaluationsAreOfLoadedRules` is about
types, and that evaluations work on loaded rules. `AnnouncedOnce` is about the numbers that are
`Firm`; its invariant `DedupInv` says that an evaluation that is announcing a change under a firm
number is the only one that has it, and that nobody has claimed it before (`OwnNumbers`), that its
claim is then the only one of that number (`OneClaimPerChange`), and that firm numbers do not
exceed the alert's. An UPDATE that comes too late puts its number into `lost`, so that all numbers
from there on are firm no more. `TablesImplementDedup` is the refinement: `SaveWrite` is `Change`
or `Lose`, the first `Send` of a change is `Announce`, all else stutters; `OwnClaims` says that a
claim being sent is the evaluation's own. `GivenUpForAClaim` rests on `RowFollowsClaims`: whoever
moves the notification state row on leaves a claim behind. `LatestChangeWins` follows from the two
invariants together: a row that has seen the number of the latest change has it from a claim,
which is no announcement of a firm number, since that would be this one.

`RemindersAreSpaced` assumes one server (`Alone`), whose alert is not deleted: the row dates the
last claim (`RowDatesClaims`), and a reminder that is about to be claimed is due (`RemindersDue`);
a second server with an older rule would remind early, and the row of a deleted alert forgets what
was sent. `LatestChangeIsNotified` assumes one server that neither fails nor is interfered with
(`Undisturbed`), whose reader may hand over rules as late as it does: a change that is to be
announced by the state that the server took for the one before (`believed`) is announced or in the
hands of the evaluation that made it (`ChangeInHand`), what the evaluation decided holds until its
last step (`Steady`), and the row is never left pending (`RowReleased`). A change whose state
before was another than believed is `Misjudged`, which the property names.

*AlertEngine.* `TypesHold` adds to the types that alertingTicker only enqueues a job
(`EnqueuesJob`), without which they are not inductive. `ResultsHandledOnce` rests on `Handling`,
about each run by itself: while its worker is under way nothing was handled and attemptChan is
empty; an attempt waits there only before anything was handled; the channel is closed by the
worker that handled the result or panicked; and the loop ends on its own only then.
`EvaluationsDoNotOverlap` needs no condition beside the one that the property names: of a job that
was not enqueued again before it was marked (`doubled`), `Exclusion` says until the shutdown where
it can be (`OnePlace`): with the ticker, once in the queue, or with one run, which has marked it
when it is past its first statement. That an ended loop has no worker left comes from `Handling`.
`EvaluatedOnTime` assumes an interval of more than a second. `InTime` says that a job that was
free since before the interval was enqueued in it, or waits for an offset that has not come yet,
or that a refresh moved in this interval (`moved`); `OffsetFits`, that the offset is from 1 to the
interval less 1, however many rules there are (`OffsetInInterval`); and `OneIsMultiple`, that so
many ticks have a multiple of the offset, hence that the wait is over before the interval is. Of
`EvaluationsEnd` and `StopsWhenAsked` two theorems show what concerns evaluations, but for the
fairness: `NoGoroutineBlocks`, that a worker has room in the channel it sends to and a loop that
waits has a worker under way, and `EvaluationsGoForward`, that every step of a run lessens what it
has left to do, at most 9 * MaxAttempts + 8 steps.

*DashboardPanel.* `OneTimerRuns`: `OneTimer` is inductive as it stands, because every way to set
the interval cancels `refreshTimer` and a timer that fires is that one. `ChosenComesBack` rests on
`SuspendedIsKept`: the refresh that an absolute range suspended is off and remembered as long as
the range is absolute, and is on, with `oldRefresh` empty, afterwards; it holds whatever a
dashboard before has left. `RefreshesArrive` rests on `Remembered`: a mounted panel has begun a
query for all it was told of, or is out of view and has noted that it must catch up, so that it
does when the view changes, or another panel was viewed alone when it should have been told
(`missed`). `LastRunIsShown` rests on `ResultKept`: once a query has ended its result is the last
one, and the panel shows it, has begun another query, or is out of view and must catch up; it
needs that what has ended is of a loaded data source, since a run that waits for its source can
never equal it. `NewestQueryWins` rests on `NewestKept`: the last query begun runs, or is the last
that waits for its source, unless that source failed; nothing waits for a source that is there.

*AuthToken.* `EndedSessionsStayEnded` needs no condition: requests only UPDATE and DELETE.
`BrowsersStayLoggedIn` and `ActivityIsRemembered` assume `Timing`: an answer takes no longer than
the guard of 30 seconds (an assumption about the environment; without it a rotation can forget the
token just handed out), twice the guard is at most the urgent time of a minute
(`auth_token.go:33`), and that and an answer fit between two rotations, which the settings see to
(`pkg/setting/setting.go:1097` raises the interval to two minutes). The last part is needed: with
a shorter interval TLC finds a browser, back with its former cookie, whose row is rotated while it
is still unseen. The invariant `Sound` says of each request that its tokens are ones that were
issued, that it matched the copy it read, and how long ago it was sent; `CopyOf` relates that copy
to the row, by the number of its rotation. `Renewed` says that a page that is answered was sent
before its rotation was due, unless the rotation failed, which `setCookie` tells apart; `active`
counts no such page. `RowInv` gives the cookie as the row's token or the one before, with what
that means for the requests under way: a new token that is on its way (`OnTheWay`), a browser that
still has the former one (`WentBack`) or has the new one (`HasNew`).

*SqlTransaction.* `PlainBodiesAreAtomic` needs no condition: it is about the bodies whose calls
leave the shared session alone, of which all statements since the begin are in the one transaction
that is open (`OneTransaction`), and holds as well when the server stops between the COMMIT, the
events and the return. `SuccessesAreComplete` and `EventsFollowCommits` assume that each body
`CommitsOnce`: its calls are plain, or only one of them writes, in a transaction of its own whose
error hides its kind, as in `ensureMainOrgAndAdminUser`. `WriterInv` follows that one call through
its session, its retries and the outer ones. A body of which two calls commit apart has no such
promise. `EachStepForward` is what is safe of `CallReturns`: every step but the retry of a busy
database moves the execution forward in the lexicographic order of starts, attempts, phases,
calls, attempts of a call, statements and events, each of which is `Bounded`; so it ends if it
goes on and the database is not busy forever, which `CallReturns` names, since the code puts no
limit on those retries.

*BackendSrv.* `NoWakeUpIsLost` needs no condition, though the queue's updates are buffered and
their counts are old: the last of them, or the one in hand, counts what is in progress now
(`LastUpdateCounts`), and what it leaves is left because of its count (`Served`). `TheLimitHolds`
and `NoPlaceIsLost` are of callers that wait for one request each, as the properties say. Then
(`CalmInv`) an event ends at most one stream beside the one that is started (`OneIsEmitted`,
`Replacing`), a buffered update that is not the last has no place to give (`OldUpdates`), a place
and a stream under way belong together (`Held`), and a `requestId` has one stream
(`OneStreamPerId`). The lists are `Among(s, S)`, the entries of s in S in their order, defined by
rank so that `AmongIs` can say without recursion what they hold. `EverySettles` is taken apart
into four theorems, with nothing left but that the thread goes on, the server answers and pings
settle. `NobodyWaitsForNothing`: when the worker is at rest, who waits has a stream under way, or
a request for data that is queued while all places are taken (`Callers`; who waits for a ping has
one that was made, `Pings`). `TheWorkerComesToRest`: each of its steps lessens `WorkLeft`,
although starting a request publishes further updates. `OneAnswerEach`: no caller gets a second
answer. `AnswersComeToAnEnd`: no stream goes back, and every answer or ping that settles brings
its stream on. That those places are of streams under way, and the second theorem, are of callers
that wait for one request each; where one waits for several, a place may be lost for good (section
3).

*Variables.* No condition is put on the graph: in one with a cycle the dashboard never opens, and
when it has opened the order in which its variables were processed is an order of the dependencies
(`Ordered`, which becomes `Acyclic`). `BaseInv` is about the jobs alone: they come to their data
source in turn, a job with a parent has one that waits with its selection and is of a variable
above, and a variable has one open query. `FetchInv` is about the opening: one job per variable,
awaited by it, and options that were asked with values that stay, since those above were processed
before. `OptionsInv` is about the time after, failures and cancellations included: a variable has
the options of now, with no older answer on its way (`UpToDate`), or they are `Coming`: one of its
jobs has yet to ask or has asked just that, or a job of a variable above has yet to be answered;
or its last update failed (`Broken`), or it is `CutOff`: its own last update, or that of a
variable above it, failed or was cancelled. An answer that changes a value hands this on to the
jobs of its cascade, which reaches every variable below although it leaves edges out
(`CascadeReaches`, by the first variable in the order). `PanelsInv`, which holds until an update
fails or is cancelled (`loose`), is needed because a job may have lost who waited for it: such a
job was overtaken by another one of its variable, or follows from one that was, and what it could
change another one will (`Overtaken`, `Renewed`). Hence whatever can still change a value has a
change that is pending (`AChangeWaits`: the first counterexample in the order has none above it),
and that change refreshes the panels after it (`UpdatesAreAwaited`, on the way to `PanelsSettle`).
`OnlyOrderedOpen` says that a dashboard with a cycle never opens, `OneQueryEach` that a variable
has one open query. `NeverStuck` is what is safe of `Opens` and `ChangesEnd`: with an order of the
dependencies, as long as not all is at rest a promise settles or an answer is to come. It follows
the circle of who awaits whom to its end: the first in the turn of a data source has it, a job
awaits only jobs of variables below it (the last in the order awaits nobody), and the opening
processes a variable whose parents are done.

*DashboardLayout.* `IdsAreUnique` is of every grid, number of options and bound, and of every set
of saved dashboards that are lists of panels with different ids (`DashboardsAssumption`). Of the
settings it needs that no more panels repeat in a line than there are columns (`LayoutAssumption`;
the editor offers 2 to 12 of 24, `PanelOptionsTab.tsx:42`): the model counts whole columns, and a
copy would be none wide. `SoundPanels` is inductive: ids differ, in the list and in what collapsed
rows keep, and only collapsed rows keep panels, none of them rows (`RowsAreNotNested`), since
`NextPanelId` looks just one level deep. Each operation is shown to leave a sound list, whatever
the positions are: what is filtered, sorted, pushed down, compacted, collapsed or expanded is the
same panels moved (`Alike`, `SomeDiffer`), and what is inserted has ids that the list has not
(`InsertedDiffer`, `NextPanelIdIsNew`). Loops are recursive functions on numbers, of which the
library's theorems need an operator as parameter; `LoopExists` gets their value from the least
number that has none, and `AllNaturals` states induction for a set. For the sort and the filters,
`Numbered` shows that ranks are the numbers from 1 on, each once. `IndexOfIs` makes the search by
id of `ProcessRowRepeats` find the panel that is meant: there the proof needs that ids differ also
in the middle of an operation. The bound `MaxPanels` is none of the proof: a loop that is cut off
leaves a sound list too.

Only model-checked: where panels are. `PanelsKeepTheirRow` and `CollapseIsUndone` rest on the
order of the list and on how the grid closes gaps, which would take an invariant about positions
that compaction keeps; `RepeatsFollow` counts copies, and needs that the loop comes to its end
within `MaxPanels`. Liveness under fairness is out of the prover's reach: `CallReturns`,
`EvaluationsEnd`, `StopsWhenAsked`, `EverySettles`, `Opens`, `ChangesEnd` and `ChangesAnnounced`
are checked by TLC; of all but the last the theorems above prove what remains without it.

## 5. Not modelled

Evaluation of conditions and data sources (a choice among four results); several channels of
one alert (they have a row each and are sent one after the other; an error of one does not
stop the next); several alerts (a row each); image rendering and upload before the
notification; annotations of state changes (written between save and notification, errors
logged); saving a dashboard's alerts, which also writes `alert.state` from a row it read
(`updateAlerts`); test rules and test notifications. Delivery by the notified system is one
step that succeeds or fails. In AuthToken sessions of other browsers and users are absent:
they have rows of their own. The logout of a browser whose session is rotated beside it is
reached, but no property says that it holds. In SqlTransaction other writers are absent: it
is about one call's atomicity, not about isolation.

In BackendSrv: the parsing of requests and answers, alerts and the inspector. In Variables:
types other than queries and variables with saved options, several selected values, tags,
the search in the options, the editor, adhoc filters; one batch only (leaving a dashboard
during its opening and opening another); the url changes one variable at a time, and changes
are made once the dashboard is open. In DashboardPanel: the panel editor, snapshots, panels
without queries, shared and mixed queries, transformations, a panel that is taken off the
page and drawn again, a width below zero. In DashboardLayout: repeats in vertical direction,
the add-panel widget, migrations; a panel is dropped where another one is and makes room as
the grid does; at least one option of the variable is selected, as the picker ensures. The
components that have no module are listed with the reason in `PROJECT.json`: protocols of
data sources and presentation hold no state of this kind, the others are planned.

## 6. Plan

1. (done) ServerLock with proofs; AlertRule, AlertHA, AlertDedup with proofs; AuthToken;
   SqlTransaction; AlertEngine with proofs.
2. (done) The front end: BackendSrv; Variables; TimeSrv and DashboardPanel with proofs;
   DashboardLayout.
3. Opening, saving and leaving a dashboard, with the batches of Variables and the events of
   other editors' saves; Explore's panes over `runRequest`; the panel editor.
4. The plugin manager (`startPluginAndRestartKilledProcesses` against requests and shutdown);
   next generation alerting (routines, versions, the registry); remote cache, dashboards'
   version check and provisioning's polling loop; the server's lifecycle; login attempts and
   the rendering limit; the expression graph against a reference definition.
5. Composition: Variables as the updates that DashboardPanel counts in `updating`;
   DashboardLayout's repeats at the end of a change of a variable; AlertEngine's run with
   AlertHA's evaluation as its worker; the token clean-up under ServerLock.
6. Proofs: done for every safety invariant that a run checks, but for the positions of
   DashboardLayout: `PanelsKeepTheirRow` would begin with the order of the list (what follows a
   row after `SortPanelsByGridPos` and `Arranged`), for which positions have to be related to
   indices. Type correctness of Variables asks for an assumption on what its queries answer.
