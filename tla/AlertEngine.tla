----------------------------- MODULE AlertEngine -----------------------------
(***************************************************************************)
(* How one server runs the evaluations of one alert rule                   *)
(* (pkg/services/alerting: engine.go, scheduler.go, models.go, ticker.go). *)
(* alertingTicker refreshes the jobs and puts those that are due into      *)
(* execQueue; runJobDispatcher takes them out and starts a goroutine for   *)
(* each; this one, processJobWithRetry, starts a worker for every attempt  *)
(* and talks with it over attemptChan and cancelChan.                      *)
(*                                                                         *)
(* What an evaluation finds and does is AlertHA's subject; here it         *)
(* succeeds, fails or panics.  The other rules appear only as the number   *)
(* and place that the rule's offset is computed from.                      *)
(***************************************************************************)
EXTENDS Integers, Sequences

CONSTANTS
  Frequency,     \* Rule.Frequency, in seconds
  MinInterval,   \* AlertingMinInterval
  MaxAttempts,   \* AlertingMaxAttempts
  RefreshEvery,  \* the rules are fetched at every so many ticks (10)
  MaxRules,      \* the rules of the server are at most so many
  QueueSize,     \* the capacity of execQueue (1000)
  Faults,        \* "fetch": the rules cannot be loaded; "panic": an evaluation does
  Shutdown,      \* the server is stopped at some time
  FirstTick,     \* the time of the first tick
  LastTick,      \* bound: there is no tick after it
  Jobs,          \* bound: the Job objects 1..n that Update makes
  Runs           \* bound: the calls of processJobWithRetry that are under way

ASSUME EngineAssumption ==
  /\ {Frequency, MinInterval, MaxAttempts, RefreshEvery, MaxRules, QueueSize} \subseteq Nat \ {0}
  /\ Faults \subseteq {"fetch", "panic"}
  /\ Shutdown \in BOOLEAN
  /\ FirstTick \in Nat /\ LastTick \in Nat /\ Jobs \in Nat

VARIABLES
  tick,      \* the time of the latest tick
  ticker,    \* alertingTicker: "wait", "update", "scan", "enqueue", "stopped"
  jobs,      \* jobs[j]: the Job object j
  made,      \* how many there are
  current,   \* the job of the rule in scheduler.jobs, 0 when there is none
  queue,     \* execQueue
  runs,      \* runs[i]: one processJobWithRetry, with its worker
  stopping,  \* the context of the server is done
  serving,   \* runJobDispatcher takes jobs
  idleSince, \* history: the tick since which the job was free to be enqueued
  moved,     \* history: the latest tick at which a refresh changed its offset
  enqueued,  \* history: the latest tick at which it was enqueued
  doubled    \* history: the jobs that were enqueued a second time before the
             \* goroutine of the first time had marked them as running

vars == <<tick, ticker, jobs, made, current, queue, runs, stopping, serving,
          idleSince, moved, enqueued, doubled>>

Closed == -1   \* attemptChan is closed; 0: it is empty; n: it holds attempt n

NewJob == [offset |-> 0, offsetWait |-> FALSE, running |-> FALSE]

NoRun == [job |-> 0, loop |-> "ended", attempts |-> 0, worker |-> "none",
          attempt |-> 0, cancels |-> 0, cancelClosed |-> FALSE,
          handled |-> 0, panicked |-> FALSE]

Init ==
  /\ tick = FirstTick - 1
  /\ ticker = "wait"
  /\ jobs = [j \in 1..Jobs |-> NewJob]
  /\ made = 0
  /\ current = 0
  /\ queue = <<>>
  /\ runs = [i \in Runs |-> NoRun]
  /\ stopping = FALSE
  /\ serving = TRUE
  /\ idleSince = FirstTick
  /\ moved = FirstTick - 1
  /\ enqueued = 0
  /\ doubled = {}

timeVars == <<idleSince, moved, enqueued, doubled>>

schedulerVars == <<tick, ticker, made, current, timeVars>>

Interval == IF Frequency < MinInterval THEN MinInterval ELSE Frequency

-----------------------------------------------------------------------------
(***************************************************************************)
(* alertingTicker, with the scheduler.                                     *)
(***************************************************************************)
\* A tick of the Ticker: none is dropped, so that they follow each other as fast as
\* alertingTicker takes them.
Tick ==
  /\ ticker = "wait"
  /\ tick < LastTick
  /\ tick' = tick + 1
  /\ ticker' = IF (tick + 1 - FirstTick) % RefreshEvery = 0 THEN "update" ELSE "scan"
  /\ UNCHANGED <<jobs, made, current, queue, runs, stopping, serving, timeVars>>

TickerStops ==
  /\ ticker = "wait"
  /\ stopping
  /\ ticker' = "stopped"
  /\ UNCHANGED <<tick, jobs, made, current, queue, runs, stopping, serving, timeVars>>

\* The offset of the rule at index i of n.
Offset(n, i) ==
  LET offset == (((Frequency * 1000) \div n) * i) \div 1000
  IN  IF offset = 0 THEN 1 ELSE offset

\* Update, when the rule was fetched: its job is kept, or made.
Update ==
  /\ ticker = "update"
  /\ \E n \in 1..MaxRules : \E i \in 0..n - 1 :
       IF current # 0
         THEN /\ jobs' = [jobs EXCEPT ![current].offset = Offset(n, i)]
              /\ moved' = IF jobs[current].offset = Offset(n, i) THEN moved ELSE tick
              /\ UNCHANGED <<made, current, idleSince>>
         ELSE /\ made < Jobs
              /\ made' = made + 1
              /\ current' = made + 1
              /\ jobs' = [jobs EXCEPT ![made + 1].offset = Offset(n, i)]
              /\ idleSince' = tick
              /\ UNCHANGED moved
  /\ ticker' = "scan"
  /\ UNCHANGED <<tick, queue, runs, stopping, serving, enqueued, doubled>>

\* fetch logs its error and returns no rules: the jobs are forgotten.
UpdateWithNothing ==
  /\ ticker = "update"
  /\ "fetch" \in Faults
  /\ current' = 0
  /\ ticker' = "scan"
  /\ UNCHANGED <<tick, jobs, made, queue, runs, stopping, serving, timeVars>>

\* Tick of the scheduler leaves the job alone while it runs.
ScanSkips ==
  /\ ticker = "scan"
  /\ current # 0 => jobs[current].running
  /\ idleSince' = tick + 1
  /\ ticker' = "wait"
  /\ UNCHANGED <<tick, jobs, made, current, queue, runs, stopping, serving,
                 moved, enqueued, doubled>>

\* A variant that compares with the wrong remainder.
OffsetReachedLate(job) == job.offsetWait /\ tick % job.offset = 1

OffsetReached(job) == job.offsetWait /\ tick % job.offset = 0

\* The job was enqueued, and no goroutine has marked it as running since.
Unmarked(j) ==
  \/ \E q \in 1..Len(queue) : queue[q] = j
  \/ \E i \in Runs : runs[i].job = j /\ runs[i].loop = "start"

Active(i) == runs[i].loop # "ended" \/ runs[i].worker # "none"

\* The job waited for its offset: it is due.
ScanEnqueues ==
  /\ ticker = "scan"
  /\ current # 0
  /\ ~ jobs[current].running
  /\ OffsetReached(jobs[current])
  /\ jobs' = [jobs EXCEPT ![current].offsetWait = FALSE]
  /\ ticker' = "enqueue"
  /\ doubled' = IF Unmarked(current) THEN doubled \cup {current}
                ELSE IF \E i \in Runs : runs[i].job = current /\ Active(i) THEN doubled
                ELSE doubled \ {current}
  /\ UNCHANGED <<tick, made, current, queue, runs, stopping, serving,
                 idleSince, moved, enqueued>>

\* The interval begins: the job has to wait for its offset, which is never 0.
ScanWaits ==
  /\ ticker = "scan"
  /\ current # 0
  /\ ~ jobs[current].running
  /\ ~ OffsetReached(jobs[current])
  /\ jobs' = IF tick % Interval = 0 THEN [jobs EXCEPT ![current].offsetWait = TRUE] ELSE jobs
  /\ ticker' = "wait"
  /\ UNCHANGED <<tick, made, current, queue, runs, stopping, serving, timeVars>>

\* execQueue <- job blocks while the queue is full, whether the server stops or not.
Enqueue ==
  /\ ticker = "enqueue"
  /\ Len(queue) < QueueSize
  /\ queue' = Append(queue, current)
  /\ enqueued' = tick
  /\ ticker' = "wait"
  /\ UNCHANGED <<tick, jobs, made, current, runs, stopping, serving,
                 idleSince, moved, doubled>>

-----------------------------------------------------------------------------
(***************************************************************************)
(* runJobDispatcher and processJobWithRetry.                               *)
(***************************************************************************)
Free(i) == runs[i].loop = "ended" /\ runs[i].worker = "none"

\* The dispatcher starts a goroutine for the job, or notices that the server stops;
\* when both are possible it may do either.
Dispatch(i) ==
  /\ serving
  /\ queue # <<>>
  /\ Free(i)
  /\ runs' = [runs EXCEPT ![i] = [NoRun EXCEPT !.job = Head(queue), !.loop = "start"]]
  /\ queue' = Tail(queue)
  /\ UNCHANGED <<schedulerVars, jobs, stopping, serving>>

DispatcherStops ==
  /\ serving
  /\ stopping
  /\ serving' = FALSE
  /\ UNCHANGED <<schedulerVars, jobs, queue, runs, stopping>>

\* A variant without job.SetRunning(true).
StartRunUnmarked(i) ==
  /\ runs[i].loop = "start"
  /\ runs' = [runs EXCEPT ![i].loop = "select", ![i].attempts = 1]
  /\ UNCHANGED <<schedulerVars, jobs, queue, stopping, serving>>

StartRun(i) ==
  /\ runs[i].loop = "start"
  /\ runs' = [runs EXCEPT ![i].loop = "select", ![i].attempts = 1]
  /\ jobs' = [jobs EXCEPT ![runs[i].job].running = TRUE]
  /\ UNCHANGED <<schedulerVars, queue, stopping, serving>>

\* An attempt is taken from attemptChan, and its worker started.
TakeAttempt(i) ==
  /\ runs[i].loop = "select"
  /\ runs[i].attempts > 0
  /\ runs' = [runs EXCEPT ![i].attempts = 0, ![i].worker = "begin",
                          ![i].attempt = runs[i].attempts]
  /\ UNCHANGED <<schedulerVars, jobs, queue, stopping, serving>>

\* endJob: the job may be enqueued again, cancelChan is closed.
EndJob(i) ==
  /\ jobs' = [jobs EXCEPT ![runs[i].job].running = FALSE]
  /\ runs' = [runs EXCEPT ![i].loop = "ended", ![i].cancelClosed = TRUE]

AttemptsClosed(i) ==
  /\ runs[i].loop = "select"
  /\ runs[i].attempts = Closed
  /\ EndJob(i)
  /\ UNCHANGED <<schedulerVars, queue, stopping, serving>>

\* The server stops: the evaluation is given five seconds.
Grace(i) ==
  /\ runs[i].loop = "select"
  /\ stopping
  /\ runs' = [runs EXCEPT ![i].loop = "grace"]
  /\ UNCHANGED <<schedulerVars, jobs, queue, stopping, serving>>

\* A variant that waits for attemptChan to be closed.
GraceEndsClosed(i) ==
  /\ runs[i].loop = "grace"
  /\ runs[i].attempts = Closed
  /\ EndJob(i)
  /\ UNCHANGED <<schedulerVars, queue, stopping, serving>>

\* They are over, or attemptChan was closed, or it brings another attempt.
GraceEnds(i) ==
  /\ runs[i].loop = "grace"
  /\ EndJob(i)
  /\ UNCHANGED <<schedulerVars, queue, stopping, serving>>

-----------------------------------------------------------------------------
(***************************************************************************)
(* processJob.                                                             *)
(***************************************************************************)
SetWorker(i, w) == runs' = [runs EXCEPT ![i].worker = w]

\* A panic in the inner goroutine is recovered; attemptChan is closed.
Panic(i) ==
  runs' = [runs EXCEPT ![i].worker = "none", ![i].attempts = Closed, ![i].panicked = TRUE]

CancelFits(i) == runs[i].cancels < 2 * MaxAttempts

\* cancelChan <- cancelFn, of the outer function; its panic closes nothing.
BeginAttempt(i) ==
  /\ runs[i].worker = "begin"
  /\ \/ /\ runs[i].cancelClosed
        /\ SetWorker(i, "none")
     \/ /\ ~ runs[i].cancelClosed
        /\ CancelFits(i)
        /\ runs' = [runs EXCEPT ![i].worker = "eval", ![i].cancels = @ + 1]
  /\ UNCHANGED <<schedulerVars, jobs, queue, stopping, serving>>

\* The evaluation failed and is tried again.
RetryAttempt(i) ==
  /\ runs[i].worker = "eval"
  /\ runs[i].attempt < MaxAttempts
  /\ runs[i].attempts = 0
  /\ runs' = [runs EXCEPT ![i].worker = "none", ![i].attempts = runs[i].attempt + 1]
  /\ UNCHANGED <<schedulerVars, jobs, queue, stopping, serving>>

\* A variant that gives up after the last attempt.
HasNoResult(i) ==
  /\ runs[i].worker = "eval"
  /\ runs' = [runs EXCEPT ![i].worker = "none", ![i].attempts = Closed]
  /\ UNCHANGED <<schedulerVars, jobs, queue, stopping, serving>>

\* It has a result, an error of the last attempt included.
HasResult(i) ==
  /\ runs[i].worker = "eval"
  /\ SetWorker(i, "result")
  /\ UNCHANGED <<schedulerVars, jobs, queue, stopping, serving>>

EvalPanics(i) ==
  /\ runs[i].worker \in {"eval", "handle"}
  /\ "panic" \in Faults
  /\ Panic(i)
  /\ UNCHANGED <<schedulerVars, jobs, queue, stopping, serving>>

\* cancelChan <- resultHandleCancelFn: a panic when endJob was faster.
HandleBegins(i) ==
  /\ runs[i].worker = "result"
  /\ \/ /\ runs[i].cancelClosed
        /\ Panic(i)
     \/ /\ ~ runs[i].cancelClosed
        /\ CancelFits(i)
        /\ runs' = [runs EXCEPT ![i].worker = "handle", ![i].cancels = @ + 1]
  /\ UNCHANGED <<schedulerVars, jobs, queue, stopping, serving>>

\* A variant that leaves attemptChan open.
HandleEndsOpen(i) ==
  /\ runs[i].worker = "handle"
  /\ runs' = [runs EXCEPT ![i].worker = "none", ![i].handled = @ + 1]
  /\ UNCHANGED <<schedulerVars, jobs, queue, stopping, serving>>

\* resultHandler.handle returns, and attemptChan is closed.
HandleEnds(i) ==
  /\ runs[i].worker = "handle"
  /\ runs' = [runs EXCEPT ![i].worker = "none", ![i].attempts = Closed,
                          ![i].handled = @ + 1]
  /\ UNCHANGED <<schedulerVars, jobs, queue, stopping, serving>>

Stop ==
  /\ Shutdown
  /\ ~ stopping
  /\ stopping' = TRUE
  /\ UNCHANGED <<schedulerVars, jobs, queue, runs, serving>>

Scan == Update \/ UpdateWithNothing \/ ScanSkips \/ ScanEnqueues \/ ScanWaits \/ Enqueue

Loop(i) ==
  StartRun(i) \/ TakeAttempt(i) \/ AttemptsClosed(i) \/ Grace(i) \/ GraceEnds(i)

Worker(i) ==
  \/ BeginAttempt(i) \/ RetryAttempt(i) \/ HasResult(i) \/ EvalPanics(i)
  \/ HandleBegins(i) \/ HandleEnds(i)

Next ==
  \/ Tick \/ TickerStops \/ DispatcherStops \/ Stop
  \/ Scan
  \/ \E i \in Runs : Dispatch(i) \/ Loop(i) \/ Worker(i)

Spec == Init /\ [][Next]_vars

\* Goroutines run; data sources and notifiers answer before their contexts' deadlines.
FairSpec ==
  /\ Spec
  /\ WF_vars(Scan) /\ WF_vars(TickerStops) /\ WF_vars(DispatcherStops)
  /\ \A i \in Runs : WF_vars(Loop(i)) /\ WF_vars(Worker(i))

-----------------------------------------------------------------------------
JobRecords == [offset : Nat, offsetWait : BOOLEAN, running : BOOLEAN]

RunRecords ==
  [job : 0..Jobs, loop : {"start", "select", "grace", "ended"},
   attempts : 0..MaxAttempts \cup {Closed},
   worker : {"none", "begin", "eval", "result", "handle"}, attempt : 0..MaxAttempts,
   cancels : Nat, cancelClosed : BOOLEAN, handled : Nat, panicked : BOOLEAN]

\* An attempt never has a number above MaxAttempts; jobs and channels keep their types.
TypeOK ==
  /\ tick \in Int
  /\ ticker \in {"wait", "update", "scan", "enqueue", "stopped"}
  /\ jobs \in [1..Jobs -> JobRecords]
  /\ made \in 0..Jobs
  /\ current \in 0..made
  /\ queue \in Seq(1..Jobs)
  /\ runs \in [Runs -> RunRecords]
  /\ stopping \in BOOLEAN /\ serving \in BOOLEAN
  /\ idleSince \in Int /\ moved \in Int /\ enqueued \in Int
  /\ doubled \subseteq 1..Jobs

(***************************************************************************)
(* A job is not evaluated twice at a time, before the server is stopped,   *)
(* unless it became due again before the goroutine that was to evaluate it *)
(* had marked it as running: then the evaluations overlap, and those of    *)
(* the times after it may, until there comes a time when none is under way *)
(* (the end of either frees the job that the other still evaluates).       *)
(***************************************************************************)
NoOverlap ==
  ~ stopping => \A i, j \in Runs :
    i # j /\ Active(i) /\ Active(j) /\ runs[i].job = runs[j].job
      => runs[i].job \in doubled

(***************************************************************************)
(* The result of an evaluation is handled, once, however many attempts it  *)
(* took: a run that ended on its own handled one, or had a panic.          *)
(***************************************************************************)
HandledOnce ==
  \A i \in Runs :
    /\ runs[i].handled <= 1
    /\ ~ stopping /\ runs[i].job # 0 /\ runs[i].loop = "ended"
         => runs[i].handled = 1 \/ runs[i].panicked

(***************************************************************************)
(* No goroutine of an evaluation waits forever for room in its channels:   *)
(* every evaluation ends, and its job is free for the next one.            *)
(***************************************************************************)
EvaluationsEnd == \A i \in Runs : runs[i].loop = "select" ~> runs[i].loop = "ended"

\* execQueue is full, and the dispatcher that would make room is gone.
StuckAtQueue == ticker = "enqueue" /\ Len(queue) = QueueSize /\ ~ serving

(***************************************************************************)
(* When the server is stopped the ticker and all evaluations end.  One     *)
(* thing keeps the ticker: execQueue full after the dispatcher has gone.   *)
(***************************************************************************)
StopsWhenAsked ==
  stopping ~> /\ ticker = "stopped" \/ StuckAtQueue
              /\ ~ serving
              /\ \A i \in Runs : ~ Active(i)

(***************************************************************************)
(* A job that was free during a whole interval, and at the tick before it, *)
(* was enqueued in it.  Only a refresh that changes the offset while the   *)
(* job waits for it can make it miss the interval; it then waits on.       *)
(***************************************************************************)
EvaluatedEachInterval ==
  /\ ticker = "wait"
  /\ current # 0
  /\ (tick + 1) % Interval = 0
  /\ idleSince <= tick - Interval
  => \/ enqueued > tick - Interval
     \/ moved > tick - Interval /\ jobs[current].offsetWait
=============================================================================
