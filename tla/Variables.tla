----------------------------- MODULE Variables -----------------------------
(***************************************************************************)
(* The template variables of a dashboard: features/variables/state/actions *)
(* .ts and query/VariableQueryRunner.ts.  When the dashboard is opened each *)
(* variable waits for those it depends on; a change by the user, of the    *)
(* time range or of the url then updates the variables that depend on what *)
(* changed, theirs after them, and at last the panels.  An update is a tree *)
(* of promises that goes on while others start: an update of the options   *)
(* of one variable is a job, with the job or change that awaits it.        *)
(*                                                                         *)
(* What promises do before the browser takes the next event is one of the  *)
(* Settle actions; the other actions wait until none of those is enabled.  *)
(***************************************************************************)
EXTENDS Naturals, FiniteSets, FiniteSetsExt, TLC

CONSTANTS
  Vars,           \* the variables, all of them queries
  DependsOn,      \* <<v, p>>: the query of v mentions p
  Refresh,        \* of each: "never", "load" (onDashboardLoad) or "time" (onTimeRangeChanged)
  Values,         \* what a query may find
  None,           \* the option of a variable whose query found nothing
  Options(_, _),  \* what the query of a variable finds, by what it was asked with
  UrlVars,        \* those the url may give a value when the dashboard is opened
  MaxChanges,     \* bound: changes after the dashboard is open
  MaxJobs,        \* bound: updates of one variable at a time
  MaxFailures     \* bound: updates that fail, or that the user cancels

ASSUME VariablesAssumption ==
  /\ IsFiniteSet(Vars)
  /\ DependsOn \subseteq Vars \X Vars
  /\ Refresh \in [Vars -> {"never", "load", "time"}]
  /\ Values \subseteq Nat /\ None \in Nat \ Values
  /\ UrlVars \subseteq Vars
  /\ {MaxChanges, MaxJobs, MaxFailures} \subseteq Nat

VARIABLES
  status,     \* templating.transaction.status
  state,      \* of each variable: its LoadingState
  current,    \* its value
  options,    \* its options
  asked,      \* what the query they come from was asked with
  fromUrl,    \* the variables that the url gives a value when the dashboard opens
  loading,    \* how far processVariable is for each
  jobs,       \* the calls of updateOptions
  changes,    \* the changes: of what, and what they wait for
  time,       \* how often the time range was changed
  panels,     \* what the panels last queried with
  failures,   \* how many updates failed or were cancelled
  cut,        \* since the dashboard is open, the variables of them, until their query is answered
  loose       \* and whether there was one since a refresh of the panels that no update outlasted

vars == <<status, state, current, options, asked, fromUrl, loading, jobs, changes, time,
          panels, failures, cut, loose>>

\* A job: of which variable, and its place among those.
JobIds == Vars \X (1..MaxJobs)
ChangeIds == 1..MaxChanges
Free == [phase |-> "free", parent |-> <<"none", 0>>]
Unmade == [kind |-> "none", var |-> "", value |-> 0]
Orphan == <<"none", 0>>

Parents(v) == {p \in Vars : <<v, p>> \in DependsOn}
Dependents(v) == {d \in Vars : <<d, v>> \in DependsOn}

\* What a query of v is asked with: the values of the variables it mentions
\* and, when it is refreshed with it, the time range.
Question(v) == [time |-> IF Refresh[v] = "time" THEN time ELSE 0,
                values |-> [p \in Parents(v) |-> current[p]]]
Saved == [time |-> 0, values |-> <<>>]

Snapshot == [values |-> current, time |-> time]
Running(j) == jobs[j].phase # "free"
Children(parent) == {j \in JobIds : Running(j) /\ jobs[j].parent = parent}

TypeOK ==
  /\ status \in {"Fetching", "Completed"}
  /\ state \in [Vars -> {"NotStarted", "Loading", "Done", "Error"}]
  /\ current \in [Vars -> Values \cup {None}]
  /\ \A v \in Vars : options[v] \subseteq Values \cup {None}
  /\ loading \in [Vars -> {"waiting", "options", "done"}]
  /\ \A j \in JobIds : jobs[j].phase \in {"free", "datasource", "query", "selection"}
  /\ \A k \in ChangeIds : changes[k].kind \in {"none", "user", "time", "url", "urlOptions", "made"}
  /\ time \in 0..MaxChanges
  /\ failures \in 0..MaxFailures
  /\ cut \subseteq Vars
  /\ loose \in BOOLEAN

\* The dashboard was read, with the values and options it was saved with.
Init ==
  /\ status = "Fetching"
  /\ state = [v \in Vars |-> "NotStarted"]
  /\ current = [v \in Vars |-> Min(Values)]
  /\ options = [v \in Vars |-> IF Refresh[v] = "never" THEN Values ELSE {}]
  /\ asked = [v \in Vars |-> Saved]
  /\ fromUrl \in SUBSET UrlVars
  /\ loading = [v \in Vars |-> "waiting"]
  /\ jobs = [j \in JobIds |-> Free]
  /\ changes = [k \in ChangeIds |-> Unmade]
  /\ time = 0
  /\ panels = [values |-> [v \in Vars |-> Min(Values)], time |-> 0]
  /\ failures = 0
  /\ cut = {}
  /\ loose = FALSE

-----------------------------------------------------------------------------
(* Starting updates                                                        *)

\* How many jobs of v wait for its data source; it comes to them in turn.
Lookups(js, v) == Cardinality({j \in JobIds : j[1] = v /\ js[j].phase = "datasource"})

\* The jobs js after the data source came to j.
NextLookup(js, j) ==
  [i \in JobIds |-> IF i # j /\ i[1] = j[1] /\ js[i].phase = "datasource"
                    THEN [js[i] EXCEPT !.ahead = @ - 1] ELSE js[i]]

\* The jobs js with one more for each of these variables, awaited by parent.
Started(js, vs, parent) ==
  LET place(v) == Min({n \in 1..MaxJobs : js[<<v, n>>].phase = "free"})
  IN  [j \in JobIds |-> IF j[1] \in vs /\ j[2] = place(j[1])
                         THEN [phase |-> "datasource", parent |-> parent, ahead |-> Lookups(js, j[1])]
                         ELSE js[j]]

\* The jobs js without j; what it had started goes on, and nobody waits for it.
Ended(js, j) ==
  [i \in JobIds |-> IF i = j THEN Free
                    ELSE IF js[i].parent = <<"job", j>> THEN [js[i] EXCEPT !.parent = Orphan]
                    ELSE js[i]]

\* updateOptions begins for these variables: they are loading, and their
\* data sources are looked up.  The bound MaxJobs leaves room for that.
UpdateOptions(js, vs, parent) ==
  /\ \A v \in vs : \E n \in 1..MaxJobs : js[<<v, n>>].phase = "free"
  /\ jobs' = Started(js, vs, parent)
  /\ state' = [v \in Vars |-> IF v \in vs THEN "Loading" ELSE state[v]]

\* getOptimizedInputEdges: the dependents, without those that depend on
\* another dependent and are updated after it.
Cascade(v) == {d \in Dependents(v) : \A m \in Dependents(v) : d \notin Dependents(m)}

-----------------------------------------------------------------------------
(* What the promises do                                                    *)

Awaited(parent) == Children(parent) = {}

\* A variant that waits for those that have not started, not for those that load.
DependenciesStarted(v) == \A p \in Parents(v) : state[p] # "NotStarted"

\* A variant that waits for a success.
DependenciesDone(v) == \A p \in Parents(v) : state[p] = "Done"

\* A variable may be processed when the ones it depends on are not waiting
\* or loading.
DependenciesSettled(v) == \A p \in Parents(v) : state[p] \notin {"NotStarted", "Loading"}

\* processVariable: its options are queried, unless they were saved.
Process(v) ==
  /\ loading[v] = "waiting"
  /\ DependenciesSettled(v)
  /\ IF Refresh[v] # "never"
       THEN /\ UpdateOptions(jobs, {v}, <<"load", v>>)
            /\ loading' = [loading EXCEPT ![v] = "options"]
            /\ UNCHANGED current
       ELSE /\ \E c \in Values : current' = IF v \in fromUrl THEN [current EXCEPT ![v] = c] ELSE current
            /\ state' = [state EXCEPT ![v] = "Done"]
            /\ loading' = [loading EXCEPT ![v] = "done"]
            /\ UNCHANGED jobs
  /\ UNCHANGED <<status, options, asked, fromUrl, changes, time, panels, failures, cut, loose>>

\* The options of a variable are loaded: the value of the url is taken, even
\* when it is none of them.
Processed(v) ==
  /\ loading[v] = "options"
  /\ Awaited(<<"load", v>>)
  /\ \E c \in Values : current' = IF v \in fromUrl THEN [current EXCEPT ![v] = c] ELSE current
  /\ loading' = [loading EXCEPT ![v] = "done"]
  /\ UNCHANGED <<status, state, options, asked, fromUrl, jobs, changes, time, panels, failures, cut, loose>>

\* All are processed: the transaction is complete, and the panels are shown.
Complete ==
  /\ status = "Fetching"
  /\ \A v \in Vars : loading[v] = "done"
  /\ status' = "Completed"
  /\ panels' = Snapshot
  /\ UNCHANGED <<state, current, options, asked, fromUrl, loading, jobs, changes, time, failures, cut, loose>>

\* A job has its selection, and what that changed is updated.
SettleJob(j) ==
  /\ jobs[j].phase = "selection"
  /\ Awaited(<<"job", j>>)
  /\ state' = [state EXCEPT ![j[1]] = "Done"]
  /\ jobs' = Ended(jobs, j)
  /\ UNCHANGED <<status, current, options, asked, fromUrl, loading, changes, time, panels, failures, cut, loose>>

\* A variant that refreshes the panels at once.
SettleChangeEarly(k) ==
  /\ changes[k].kind \in {"user", "time", "url", "urlOptions"}
  /\ changes[k].kind = "urlOptions" => Awaited(<<"change", k>>)
  /\ IF changes[k].kind = "urlOptions"
       THEN /\ current' = [current EXCEPT ![changes[k].var] = changes[k].value]
            /\ changes' = [changes EXCEPT ![k].kind = "url"]
            /\ UpdateOptions(jobs, Cascade(changes[k].var), <<"change", k>>)
            /\ UNCHANGED <<panels, loose>>
       ELSE /\ changes' = [changes EXCEPT ![k] = [Unmade EXCEPT !.kind = "made"]]
            /\ panels' = Snapshot
            /\ loose' = (loose /\ \E j \in JobIds : Running(j))
            /\ UNCHANGED <<current, jobs, state>>
  /\ UNCHANGED <<status, options, asked, fromUrl, loading, time, failures, cut>>

\* What a change waits for is done.  One of the url first waits for the
\* options of its variable, and then sets it; at last the panels are refreshed.
SettleChange(k) ==
  /\ changes[k].kind \in {"user", "time", "url", "urlOptions"}
  /\ Awaited(<<"change", k>>)
  /\ IF changes[k].kind = "urlOptions"
       THEN /\ current' = [current EXCEPT ![changes[k].var] = changes[k].value]
            /\ changes' = [changes EXCEPT ![k].kind = "url"]
            /\ UpdateOptions(jobs, Cascade(changes[k].var), <<"change", k>>)
            /\ UNCHANGED <<panels, loose>>
       ELSE /\ changes' = [changes EXCEPT ![k] = [Unmade EXCEPT !.kind = "made"]]
            /\ panels' = Snapshot
            /\ loose' = (loose /\ \E j \in JobIds : Running(j))
            /\ UNCHANGED <<current, jobs, state>>
  /\ UNCHANGED <<status, options, asked, fromUrl, loading, time, failures, cut>>

Settle ==
  \/ \E v \in Vars : Process(v) \/ Processed(v)
  \/ Complete
  \/ \E j \in JobIds : SettleJob(j)
  \/ \E k \in ChangeIds : SettleChange(k)

\* No promise is left to settle (none of the actions above is enabled).
Quiet ==
  /\ \A v \in Vars : /\ loading[v] = "waiting" => ~ DependenciesSettled(v)
                     /\ loading[v] = "options" => ~ Awaited(<<"load", v>>)
  /\ status = "Fetching" => \E v \in Vars : loading[v] # "done"
  /\ \A j \in JobIds : jobs[j].phase = "selection" => ~ Awaited(<<"job", j>>)
  /\ \A k \in ChangeIds : changes[k].kind \in {"user", "time", "url", "urlOptions"}
                            => ~ Awaited(<<"change", k>>)

-----------------------------------------------------------------------------
(* The queries                                                             *)

\* The requests of these jobs are cancelled, among the jobs js: each ends as
\* if it were done, and what it had started goes on without it.
WithoutRequests(js, cancelled) ==
  [i \in JobIds |->
     IF i \in cancelled THEN [phase |-> "selection", parent |-> js[i].parent]
     ELSE IF js[i].parent[1] = "job" /\ js[i].parent[2] \in cancelled
       THEN [js[i] EXCEPT !.parent = Orphan]
       ELSE js[i]]

\* The jobs of v, except j, whose request is under way.
Requests(v, j) == {i \in JobIds \ {j} : i[1] = v /\ jobs[i].phase \in {"query", "selection"}}

\* A variant in which the job of a cancelled request never ends.
QueueRequestUnanswered(j) ==
  /\ jobs[j].phase = "datasource" /\ jobs[j].ahead = 0
  /\ Quiet
  /\ LET js == WithoutRequests(NextLookup(jobs, j), Requests(j[1], j))
     IN  jobs' = [i \in JobIds |->
                    IF i = j THEN [phase |-> "query", parent |-> jobs[j].parent, with |-> Question(j[1])]
                    ELSE IF i \in Requests(j[1], j) THEN [js[i] EXCEPT !.phase = "cancelled"]
                    ELSE js[i]]
  /\ UNCHANGED <<status, state, current, options, asked, fromUrl, loading, changes, time, panels, failures, cut, loose>>

\* VariableQueryRunner.onNewRequest: the query is asked with the values of
\* now, and the request before it for this variable is cancelled.
QueueRequest(j) ==
  /\ jobs[j].phase = "datasource" /\ jobs[j].ahead = 0
  /\ Quiet
  /\ jobs' = [WithoutRequests(NextLookup(jobs, j), Requests(j[1], j)) EXCEPT
                ![j] = [phase |-> "query", parent |-> jobs[j].parent, with |-> Question(j[1])]]
  /\ UNCHANGED <<status, state, current, options, asked, fromUrl, loading, changes, time, panels, failures, cut, loose>>

\* VariableQueryRunner.cancelRequest: the user cancels the update of a variable
\* that is shown to be loading.
Cancel(v) ==
  /\ status = "Completed" /\ state[v] = "Loading"
  /\ failures < MaxFailures
  /\ Quiet
  /\ LET cancelled == {i \in JobIds : i[1] = v /\ jobs[i].phase \in {"query", "selection"}}
     IN  /\ cancelled # {}
         /\ jobs' = WithoutRequests(jobs, cancelled)
         /\ cut' = IF \E i \in cancelled : jobs[i].phase = "query" THEN cut \cup {v} ELSE cut
  /\ failures' = failures + 1
  /\ loose' = TRUE
  /\ UNCHANGED <<status, state, current, options, asked, fromUrl, loading, changes, time, panels>>

\* updateVariableOptions: a query that found nothing leaves one option, None.
Listed(found) == IF found = {} THEN {None} ELSE found

\* The answer: the options are replaced, the value is kept when it is still
\* one of them and else the first is taken.  While the dashboard is opened
\* that is all, later the dependents are updated.
Answer(j) ==
  /\ jobs[j].phase = "query"
  /\ Quiet
  /\ LET v    == j[1]
         opts == Listed(Options(v, jobs[j].with))
         js   == [jobs EXCEPT ![j] = [phase |-> "selection", parent |-> @.parent]]
     IN  /\ options' = [options EXCEPT ![v] = opts]
         /\ asked' = [asked EXCEPT ![v] = jobs[j].with]
         /\ current' = [current EXCEPT ![v] = IF @ \in opts THEN @ ELSE Min(opts)]
         /\ IF status = "Fetching"
              THEN jobs' = js /\ UNCHANGED state
              ELSE UpdateOptions(js, Cascade(v), <<"job", j>>)
         /\ cut' = IF jobs[j].with = Question(v) THEN cut \ {v} ELSE cut
  /\ UNCHANGED <<status, fromUrl, loading, changes, time, panels, failures, loose>>

\* The query, or the data source before it, fails.  Whoever waits goes on as
\* if it had not, except a change of the time range: it ends there.
Fail(j) ==
  /\ jobs[j].phase = "query" \/ (jobs[j].phase = "datasource" /\ jobs[j].ahead = 0)
  /\ failures < MaxFailures
  /\ Quiet
  /\ LET above == jobs[j].parent
         stops == above[1] = "change" /\ changes[above[2]].kind = "time"
         js    == Ended(IF jobs[j].phase = "query" THEN jobs ELSE NextLookup(jobs, j), j)
     IN  /\ jobs' = [i \in JobIds |-> IF stops /\ js[i].parent = above
                                      THEN [js[i] EXCEPT !.parent = Orphan] ELSE js[i]]
         /\ changes' = IF stops THEN [changes EXCEPT ![above[2]].kind = "made"] ELSE changes
  /\ state' = [state EXCEPT ![j[1]] = "Error"]
  /\ failures' = failures + 1
  /\ cut' = IF status = "Completed" THEN cut \cup {j[1]} ELSE cut
  /\ loose' = (loose \/ status = "Completed")
  /\ UNCHANGED <<status, current, options, asked, fromUrl, loading, time, panels>>

-----------------------------------------------------------------------------
(* The changes                                                             *)

\* A change is made when the dashboard is open; they are numbered in order.
MayChange(k) ==
  /\ status = "Completed"
  /\ changes[k].kind = "none"
  /\ \A i \in ChangeIds : i < k => changes[i].kind # "none"
  /\ Quiet

\* The user picks an option.
SetValue(k, v, c) ==
  /\ MayChange(k)
  /\ c \in options[v]
  /\ current' = [current EXCEPT ![v] = c]
  /\ changes' = [changes EXCEPT ![k] = [kind |-> "user", var |-> v, value |-> c]]
  /\ UpdateOptions(jobs, Cascade(v), <<"change", k>>)
  /\ UNCHANGED <<status, options, asked, fromUrl, loading, time, panels, failures, cut, loose>>

\* onTimeRangeUpdated: the variables refreshed with the time range.
ChangeTime(k) ==
  /\ MayChange(k)
  /\ time' = time + 1
  /\ changes' = [changes EXCEPT ![k].kind = "time"]
  /\ UpdateOptions(jobs, {v \in Vars : Refresh[v] = "time"}, <<"change", k>>)
  /\ UNCHANGED <<status, current, options, asked, fromUrl, loading, panels, failures, cut, loose>>

\* templateVarsChangedInUrl, for one variable.
ChangeUrl(k, v, c) ==
  /\ MayChange(k)
  /\ c \in Values /\ c # current[v]
  /\ IF Refresh[v] = "never"
       THEN /\ current' = [current EXCEPT ![v] = c]
            /\ changes' = [changes EXCEPT ![k] = [kind |-> "url", var |-> v, value |-> c]]
            /\ UpdateOptions(jobs, Cascade(v), <<"change", k>>)
       ELSE /\ changes' = [changes EXCEPT ![k] = [kind |-> "urlOptions", var |-> v, value |-> c]]
            /\ UpdateOptions(jobs, {v}, <<"change", k>>)
            /\ UNCHANGED current
  /\ UNCHANGED <<status, options, asked, fromUrl, loading, time, panels, failures, cut, loose>>

\* Nothing is under way, and no more changes are made.
AtRest ==
  /\ status = "Completed"
  /\ \A j \in JobIds : ~ Running(j)
  /\ \A k \in ChangeIds : changes[k].kind \in {"none", "made"}

Done == AtRest /\ (\A k \in ChangeIds : changes[k].kind = "made") /\ UNCHANGED vars

Work == \E j \in JobIds : QueueRequest(j) \/ Answer(j) \/ Fail(j)

Next ==
  \/ Settle
  \/ Work
  \/ \E k \in ChangeIds :
       \/ ChangeTime(k)
       \/ \E v \in Vars, c \in Values \cup {None} : SetValue(k, v, c) \/ ChangeUrl(k, v, c)
  \/ \E v \in Vars : Cancel(v)
  \/ Done

\* Promises settle, and as long as a data source is loading or a query is
\* open, one of them comes back, in whatever way.
Fairness == WF_vars(Settle) /\ WF_vars(Work)

Spec == Init /\ [][Next]_vars /\ Fairness

-----------------------------------------------------------------------------
(* Properties                                                              *)

\* v depends on u, in any number of steps.
Reach(u, v) ==
  \A S \in SUBSET Vars :
    Dependents(u) \subseteq S /\ (\A w \in S : Dependents(w) \subseteq S) => v \in S

\* The last update of v, or of a variable it depends on, failed or was cancelled.
CutOff(v) == \E u \in cut : u = v \/ Reach(u, v)

\* The options of each variable that is refreshed come from a query with the
\* values its parents have now, and the time range of now, when nothing is
\* under way: also with changes that overlap, and queries that overtake.  The
\* exceptions are a variable that shows an error, and one whose last update
\* failed or was cancelled by the user, with those that depend on it.
OptionsAreCurrent ==
  AtRest =>
    \A v \in Vars : Refresh[v] # "never" /\ state[v] = "Done" /\ ~ CutOff(v) => asked[v] = Question(v)

\* And the panels were refreshed with the values and the time range of now,
\* unless an update failed or was cancelled since a refresh that no update
\* outlasted.
PanelsAreCurrent ==
  AtRest /\ ~ loose => panels = Snapshot

\* Every dashboard is opened in the end, whatever fails.
Opens == <>(status = "Completed")

\* And every change ends with a refresh of the panels, or with the failure
\* of an update of its time range: again and again none is left that has yet to.
ChangesEnd ==
  []<>(\A k \in ChangeIds : changes[k].kind \in {"none", "made"})
=============================================================================
