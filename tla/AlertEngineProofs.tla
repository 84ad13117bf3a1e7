------------------------- MODULE AlertEngineProofs -------------------------
(***************************************************************************)
(* Proofs about AlertEngine: the types of its state, that every evaluation *)
(* is handled once, what evaluations of a rule can overlap and which of    *)
(* them can be left out, and that no goroutine blocks and each step brings *)
(* a run closer to its end, for any frequency, number of attempts, jobs    *)
(* and runs.                                                               *)
(***************************************************************************)
EXTENDS AlertEngine, SequenceTheorems, TLAPS

-----------------------------------------------------------------------------
(* Types                                                                   *)

\* The offset of a rule is a number of seconds.
LEMMA OffsetIsNat ==
  ASSUME NEW n \in 1..MaxRules, NEW i \in 0..n - 1
  PROVE  Offset(n, i) \in Nat
<1>1. n \in Nat \ {0} /\ i \in Nat /\ Frequency * 1000 \in Nat
  BY EngineAssumption
<1> DEFINE spread == (Frequency * 1000) \div n
<1>2. spread \in Nat
  BY <1>1
<1> HIDE DEF spread
<1>3. spread * i \in Nat
  BY <1>1, <1>2
<1> DEFINE product == spread * i
<1>4. product \div 1000 \in Nat
  <2> HIDE DEF product
  <2>1. product \in Nat
    BY <1>3 DEF product
  <2> QED
    BY <2>1
<1> QED
  BY <1>4 DEF Offset, spread, product

\* What a job may become: of another offset, waiting for it or not, running or not.
LEMMA JobsKeepType ==
  ASSUME jobs \in [1..Jobs -> JobRecords], NEW j \in 0..Jobs
  PROVE  /\ \A o \in Nat : [jobs EXCEPT ![j].offset = o] \in [1..Jobs -> JobRecords]
         /\ \A b \in BOOLEAN : [jobs EXCEPT ![j].offsetWait = b] \in [1..Jobs -> JobRecords]
         /\ \A b \in BOOLEAN : [jobs EXCEPT ![j].running = b] \in [1..Jobs -> JobRecords]
  BY DEF JobRecords

\* Update leaves jobs of their type, whatever offset it gives the rule.
LEMMA UpdateKeepsTypes == ASSUME TypeOK, Update PROVE TypeOK'
<1> DEFINE Made(n, i) ==
        IF current # 0
          THEN /\ jobs' = [jobs EXCEPT ![current].offset = Offset(n, i)]
               /\ moved' = IF jobs[current].offset = Offset(n, i) THEN moved ELSE tick
               /\ UNCHANGED <<made, current, idleSince>>
          ELSE /\ made < Jobs
               /\ made' = made + 1
               /\ current' = made + 1
               /\ jobs' = [jobs EXCEPT ![made + 1].offset = Offset(n, i)]
               /\ idleSince' = tick
               /\ UNCHANGED moved
<1>0. PICK n \in 1..MaxRules : \E i \in 0..n - 1 : Made(n, i)
  BY DEF Update
<1>1. PICK i \in 0..n - 1 : Made(n, i)
  BY <1>0
<1>2. Offset(n, i) \in Nat /\ Jobs \in Nat
  BY OffsetIsNat, EngineAssumption
<1>3. jobs' \in [1..Jobs -> JobRecords] /\ made' \in 0..Jobs /\ current' \in 0..made'
      /\ idleSince' \in Int /\ moved' \in Int
  <2>1. CASE current # 0
    <3>1. current \in 0..Jobs /\ jobs' = [jobs EXCEPT ![current].offset = Offset(n, i)]
      BY <1>1, <1>2, <2>1 DEF TypeOK
    <3>2. jobs' \in [1..Jobs -> JobRecords]
      BY <1>2, <3>1, JobsKeepType DEF TypeOK
    <3>3. UNCHANGED <<made, current, idleSince>> /\ moved' \in {moved, tick}
      BY <1>1, <2>1
    <3> QED
      BY <3>2, <3>3 DEF TypeOK
  <2>2. CASE current = 0
    <3>1. made + 1 \in 0..Jobs /\ jobs' = [jobs EXCEPT ![made + 1].offset = Offset(n, i)]
      BY <1>1, <1>2, <2>2 DEF TypeOK
    <3>2. jobs' \in [1..Jobs -> JobRecords]
      BY <1>2, <3>1, JobsKeepType DEF TypeOK
    <3>3. made' = made + 1 /\ current' = made + 1 /\ idleSince' = tick /\ moved' = moved
      BY <1>1, <2>2
    <3> QED
      BY <3>1, <3>2, <3>3 DEF TypeOK
  <2> QED
    BY <2>1, <2>2
<1> QED
  BY <1>3 DEF Update, TypeOK

\* What alertingTicker enqueues is a job.
EnqueuesJob == ticker = "enqueue" => current # 0

\* The scheduler's other steps.
LEMMA SchedulerKeepsTypes ==
  ASSUME TypeOK, EnqueuesJob,
         Tick \/ TickerStops \/ UpdateWithNothing \/ ScanSkips \/ ScanEnqueues \/ ScanWaits \/ Enqueue
  PROVE  TypeOK'
<1>1. CASE Tick
  BY <1>1 DEF Tick, TypeOK, timeVars
<1>2. CASE TickerStops \/ UpdateWithNothing \/ ScanSkips
  <2>1. CASE TickerStops
    BY <2>1 DEF TickerStops, TypeOK, timeVars
  <2>2. CASE UpdateWithNothing
    <3>1. 0 \in 0..made
      BY EngineAssumption DEF TypeOK
    <3> QED
      BY <2>2, <3>1 DEF UpdateWithNothing, TypeOK, timeVars
  <2>3. CASE ScanSkips
    <3>1. tick + 1 \in Int
      BY DEF TypeOK
    <3> QED
      BY <2>3, <3>1 DEF ScanSkips, TypeOK
  <2> QED
    BY <1>2, <2>1, <2>2, <2>3
<1>3. CASE ScanEnqueues
  <2>1. current \in 0..Jobs /\ jobs' = [jobs EXCEPT ![current].offsetWait = FALSE]
    BY <1>3, EngineAssumption DEF ScanEnqueues, TypeOK
  <2>2. jobs' \in [1..Jobs -> JobRecords]
    BY <2>1, JobsKeepType DEF TypeOK
  <2>3. doubled' \subseteq 1..Jobs
    <3>1. current \in 1..Jobs /\ doubled \subseteq 1..Jobs
      BY <1>3, <2>1, EngineAssumption DEF ScanEnqueues, TypeOK
    <3> QED
      BY <1>3, <3>1 DEF ScanEnqueues
  <2> QED
    BY <1>3, <2>2, <2>3 DEF ScanEnqueues, TypeOK
<1>4. CASE ScanWaits
  <2>1. current \in 0..Jobs /\ (jobs' = [jobs EXCEPT ![current].offsetWait = TRUE] \/ jobs' = jobs)
    BY <1>4, EngineAssumption DEF ScanWaits, TypeOK
  <2>2. jobs' \in [1..Jobs -> JobRecords]
    BY <2>1, JobsKeepType DEF TypeOK
  <2> QED
    BY <1>4, <2>2 DEF ScanWaits, TypeOK, timeVars
<1>5. CASE Enqueue
  <2>1. current \in 1..Jobs /\ queue \in Seq(1..Jobs) /\ queue' = Append(queue, current)
    BY <1>5, EngineAssumption DEF Enqueue, EnqueuesJob, TypeOK
  <2>2. queue' \in Seq(1..Jobs)
    BY <2>1
  <2> QED
    BY <1>5, <2>2 DEF Enqueue, TypeOK
<1> QED
  BY <1>1, <1>2, <1>3, <1>4, <1>5

\* A run is replaced by a record of a run.
LEMMA RunsKeepType ==
  ASSUME runs \in [Runs -> RunRecords], NEW i \in Runs, NEW r \in RunRecords
  PROVE  [runs EXCEPT ![i] = r] \in [Runs -> RunRecords]
  OBVIOUS

\* Each field of a run takes the values of its type.
LEMMA FieldsKeepType ==
  ASSUME NEW r \in RunRecords
  PROVE  /\ \A l \in {"start", "select", "grace", "ended"} : [r EXCEPT !.loop = l] \in RunRecords
         /\ \A n \in 0..MaxAttempts \cup {Closed} : [r EXCEPT !.attempts = n] \in RunRecords
         /\ \A w \in {"none", "begin", "eval", "result", "handle"} :
              [r EXCEPT !.worker = w] \in RunRecords
         /\ \A n \in 0..MaxAttempts : [r EXCEPT !.attempt = n] \in RunRecords
         /\ \A n \in Nat : [r EXCEPT !.cancels = n] \in RunRecords
         /\ \A n \in Nat : [r EXCEPT !.handled = n] \in RunRecords
         /\ \A j \in 0..Jobs : [r EXCEPT !.job = j] \in RunRecords
         /\ [r EXCEPT !.cancelClosed = TRUE] \in RunRecords
         /\ [r EXCEPT !.panicked = TRUE] \in RunRecords
<1>1. \A l \in {"start", "select", "grace", "ended"} : [r EXCEPT !.loop = l] \in RunRecords
  BY DEF RunRecords
<1>2. \A n \in 0..MaxAttempts \cup {Closed} : [r EXCEPT !.attempts = n] \in RunRecords
  BY DEF RunRecords
<1>3. \A w \in {"none", "begin", "eval", "result", "handle"} : [r EXCEPT !.worker = w] \in RunRecords
  BY DEF RunRecords
<1>4. \A n \in 0..MaxAttempts : [r EXCEPT !.attempt = n] \in RunRecords
  BY DEF RunRecords
<1>5. \A n \in Nat : [r EXCEPT !.cancels = n] \in RunRecords
  BY DEF RunRecords
<1>6. \A n \in Nat : [r EXCEPT !.handled = n] \in RunRecords
  BY DEF RunRecords
<1>7. \A j \in 0..Jobs : [r EXCEPT !.job = j] \in RunRecords
  BY DEF RunRecords
<1>8. [r EXCEPT !.cancelClosed = TRUE] \in RunRecords
  BY DEF RunRecords
<1>9. [r EXCEPT !.panicked = TRUE] \in RunRecords
  BY DEF RunRecords
<1> QED
  BY <1>1, <1>2, <1>3, <1>4, <1>5, <1>6, <1>7, <1>8, <1>9

\* A run begins for a job of the queue.
LEMMA DispatchKeepsTypes ==
  ASSUME TypeOK, NEW i \in Runs, Dispatch(i)
  PROVE  TypeOK'
<1>1. Head(queue) \in 0..Jobs /\ Tail(queue) \in Seq(1..Jobs)
  <2>1. queue \in Seq(1..Jobs) /\ queue # <<>>
    BY DEF TypeOK, Dispatch
  <2>2. Head(queue) \in 1..Jobs /\ Tail(queue) \in Seq(1..Jobs)
    BY <2>1, HeadTailProperties
  <2>3. Jobs \in Nat
    BY EngineAssumption
  <2> QED
    BY <2>2, <2>3
<1>2. NoRun \in RunRecords
  BY EngineAssumption DEF NoRun, RunRecords
<1> DEFINE waiting == [NoRun EXCEPT !.job = Head(queue)]
           run == [waiting EXCEPT !.loop = "start"]
<1>3. waiting \in RunRecords
  BY <1>1, <1>2, FieldsKeepType
<1>4. runs' = [runs EXCEPT ![i] = run]
  BY DEF Dispatch
<1> HIDE DEF waiting
<1>5. run \in RunRecords
  BY <1>3, FieldsKeepType
<1> HIDE DEF run
<1>6. runs' \in [Runs -> RunRecords]
  BY <1>4, <1>5, RunsKeepType DEF TypeOK
<1> QED
  BY <1>1, <1>6 DEF Dispatch, schedulerVars, timeVars, TypeOK

\* Whatever a step makes of its run, if it is a record of a run.
LEMMA RunStepKeepsTypes ==
  ASSUME TypeOK, NEW i \in Runs, NEW r \in RunRecords, runs' = [runs EXCEPT ![i] = r],
         UNCHANGED <<schedulerVars, queue, stopping, serving>>,
         jobs' \in [1..Jobs -> JobRecords]
  PROVE  TypeOK'
<1>1. runs' \in [Runs -> RunRecords]
  BY RunsKeepType DEF TypeOK
<1> QED
  BY <1>1 DEF TypeOK, schedulerVars, timeVars

\* The loop's steps, the start and the end of the job included.
LEMMA LoopKeepsTypes ==
  ASSUME TypeOK, NEW i \in Runs, Loop(i)
  PROVE  TypeOK'
<1>1. runs[i] \in RunRecords /\ MaxAttempts \in Nat \ {0}
  BY EngineAssumption DEF TypeOK
<1>2. runs[i].job \in 0..Jobs /\ runs[i].attempts \in 0..MaxAttempts \cup {Closed}
  BY <1>1 DEF RunRecords
<1>3. CASE StartRun(i)
  <2> DEFINE s == [runs[i] EXCEPT !.loop = "select"]
             r == [s EXCEPT !.attempts = 1]
  <2>1. s \in RunRecords
    BY <1>1, FieldsKeepType
  <2>2. runs' = [runs EXCEPT ![i] = r]
    BY <1>3 DEF StartRun, TypeOK
  <2> DEFINE j == runs[i].job
  <2>3. jobs' \in [1..Jobs -> JobRecords]
    <3>1. j \in 0..Jobs /\ jobs' = [jobs EXCEPT ![j].running = TRUE] /\ TRUE \in BOOLEAN
      BY <1>2, <1>3 DEF StartRun
    <3> HIDE DEF j
    <3>2. [jobs EXCEPT ![j].running = TRUE] \in [1..Jobs -> JobRecords]
      BY <3>1 DEF TypeOK, JobRecords
    <3> QED
      BY <3>1, <3>2
  <2> HIDE DEF s, j
  <2>4. r \in RunRecords
    <3>1. 1 \in 0..MaxAttempts \cup {Closed}
      BY <1>1
    <3> QED
      BY <2>1, <3>1, FieldsKeepType
  <2> HIDE DEF r
  <2> QED
    BY <1>3, <2>2, <2>3, <2>4, RunStepKeepsTypes DEF StartRun
<1>4. CASE TakeAttempt(i)
  <2> DEFINE s == [runs[i] EXCEPT !.attempts = 0]
             t == [s EXCEPT !.worker = "begin"]
             r == [t EXCEPT !.attempt = runs[i].attempts]
  <2>0. 0 \in 0..MaxAttempts \cup {Closed}
    BY <1>1
  <2>1. s \in RunRecords
    BY <1>1, <2>0, FieldsKeepType
  <2>2. runs' = [runs EXCEPT ![i] = r]
    BY <1>4 DEF TakeAttempt, TypeOK
  <2>3. runs[i].attempts \in 0..MaxAttempts
    BY <1>2, <1>4 DEF TakeAttempt, Closed
  <2>4. jobs' \in [1..Jobs -> JobRecords]
    BY <1>4 DEF TakeAttempt, TypeOK
  <2> HIDE DEF s
  <2>5. t \in RunRecords
    BY <2>1, FieldsKeepType
  <2> HIDE DEF t
  <2>6. r \in RunRecords
    BY <2>3, <2>5, FieldsKeepType
  <2> HIDE DEF r
  <2> QED
    BY <1>4, <2>2, <2>4, <2>6, RunStepKeepsTypes DEF TakeAttempt
<1>5. CASE AttemptsClosed(i) \/ GraceEnds(i)
  <2> DEFINE s == [runs[i] EXCEPT !.loop = "ended"]
             r == [s EXCEPT !.cancelClosed = TRUE]
  <2>1. s \in RunRecords
    BY <1>1, FieldsKeepType
  <2>2. runs' = [runs EXCEPT ![i] = r]
    BY <1>5 DEF AttemptsClosed, GraceEnds, EndJob, TypeOK
  <2>3. jobs' \in [1..Jobs -> JobRecords]
    BY <1>2, <1>5, JobsKeepType DEF AttemptsClosed, GraceEnds, EndJob, TypeOK
  <2> HIDE DEF s
  <2>4. r \in RunRecords
    BY <2>1, FieldsKeepType
  <2> HIDE DEF r
  <2> QED
    BY <1>5, <2>2, <2>3, <2>4, RunStepKeepsTypes DEF AttemptsClosed, GraceEnds
<1>6. CASE Grace(i)
  <2> DEFINE r == [runs[i] EXCEPT !.loop = "grace"]
  <2>1. r \in RunRecords
    BY <1>1, FieldsKeepType
  <2>2. runs' = [runs EXCEPT ![i] = r]
    BY <1>6 DEF Grace
  <2>3. jobs' \in [1..Jobs -> JobRecords]
    BY <1>6 DEF Grace, TypeOK
  <2> HIDE DEF r
  <2> QED
    BY <1>6, <2>1, <2>2, <2>3, RunStepKeepsTypes DEF Grace
<1> QED
  BY <1>3, <1>4, <1>5, <1>6 DEF Loop

\* The worker's steps, its panics included.
LEMMA WorkerKeepsTypes ==
  ASSUME TypeOK, NEW i \in Runs, Worker(i)
  PROVE  TypeOK'
<1>1. runs[i] \in RunRecords /\ MaxAttempts \in Nat \ {0} /\ Closed \in 0..MaxAttempts \cup {Closed}
  BY EngineAssumption DEF TypeOK
<1>2. runs[i].cancels + 1 \in Nat /\ runs[i].handled + 1 \in Nat /\ runs[i].attempt \in 0..MaxAttempts
  BY <1>1 DEF RunRecords
<1>3. /\ jobs' \in [1..Jobs -> JobRecords]
      /\ UNCHANGED <<schedulerVars, queue, stopping, serving>>
  BY DEF TypeOK, Worker, BeginAttempt, RetryAttempt, HasResult, EvalPanics, HandleBegins, HandleEnds
<1>4. ASSUME NEW w \in {"none", "begin", "eval", "result", "handle"}, SetWorker(i, w)
      PROVE  TypeOK'
  <2> DEFINE r == [runs[i] EXCEPT !.worker = w]
  <2>1. r \in RunRecords
    BY <1>1, FieldsKeepType
  <2>2. runs' = [runs EXCEPT ![i] = r]
    BY <1>4 DEF SetWorker
  <2> HIDE DEF r
  <2> QED
    BY <1>3, <2>1, <2>2, RunStepKeepsTypes
<1>5. CASE Panic(i)
  <2> DEFINE s == [runs[i] EXCEPT !.worker = "none"]
             t == [s EXCEPT !.attempts = Closed]
             r == [t EXCEPT !.panicked = TRUE]
  <2>1. s \in RunRecords
    BY <1>1, FieldsKeepType
  <2>2. runs' = [runs EXCEPT ![i] = r]
    BY <1>5 DEF Panic, TypeOK
  <2> HIDE DEF s
  <2>3. t \in RunRecords
    BY <1>1, <2>1, FieldsKeepType
  <2> HIDE DEF t
  <2>4. r \in RunRecords
    BY <2>3, FieldsKeepType
  <2> HIDE DEF r
  <2> QED
    BY <1>3, <2>2, <2>4, RunStepKeepsTypes
<1>6. ASSUME NEW w \in {"none", "begin", "eval", "result", "handle"},
             runs' = [runs EXCEPT ![i].worker = w, ![i].cancels = @ + 1]
      PROVE  TypeOK'
  <2> DEFINE s == [runs[i] EXCEPT !.worker = w]
             r == [s EXCEPT !.cancels = runs[i].cancels + 1]
  <2>1. s \in RunRecords
    BY <1>1, FieldsKeepType
  <2>2. runs' = [runs EXCEPT ![i] = r]
    BY <1>1, <1>6 DEF TypeOK, RunRecords
  <2> HIDE DEF s
  <2>3. r \in RunRecords
    BY <1>2, <2>1, FieldsKeepType
  <2> HIDE DEF r
  <2> QED
    BY <1>3, <2>2, <2>3, RunStepKeepsTypes
<1>7. CASE RetryAttempt(i)
  <2> DEFINE s == [runs[i] EXCEPT !.worker = "none"]
             r == [s EXCEPT !.attempts = runs[i].attempt + 1]
  <2>1. s \in RunRecords
    BY <1>1, FieldsKeepType
  <2>2. runs' = [runs EXCEPT ![i] = r]
    BY <1>7 DEF RetryAttempt, TypeOK
  <2>3. runs[i].attempt + 1 \in 0..MaxAttempts \cup {Closed}
    BY <1>1, <1>2, <1>7 DEF RetryAttempt
  <2> HIDE DEF s
  <2>4. r \in RunRecords
    BY <2>1, <2>3, FieldsKeepType
  <2> HIDE DEF r
  <2> QED
    BY <1>3, <2>2, <2>4, RunStepKeepsTypes
<1>8. CASE HandleEnds(i)
  <2> DEFINE s == [runs[i] EXCEPT !.worker = "none"]
             t == [s EXCEPT !.attempts = Closed]
             r == [t EXCEPT !.handled = runs[i].handled + 1]
  <2>1. s \in RunRecords
    BY <1>1, FieldsKeepType
  <2>2. runs' = [runs EXCEPT ![i] = r]
    BY <1>1, <1>8 DEF HandleEnds, TypeOK, RunRecords
  <2> HIDE DEF s
  <2>3. t \in RunRecords
    BY <1>1, <2>1, FieldsKeepType
  <2> HIDE DEF t
  <2>4. r \in RunRecords
    BY <1>2, <2>3, FieldsKeepType
  <2> HIDE DEF r
  <2> QED
    BY <1>3, <2>2, <2>4, RunStepKeepsTypes
<1>9. BeginAttempt(i) => TypeOK'
  BY <1>4, <1>6 DEF BeginAttempt
<1>10. HandleBegins(i) => TypeOK'
  BY <1>5, <1>6 DEF HandleBegins
<1>11. HasResult(i) \/ EvalPanics(i) => TypeOK'
  BY <1>4, <1>5 DEF HasResult, EvalPanics
<1> QED
  BY <1>7, <1>8, <1>9, <1>10, <1>11 DEF Worker

\* Every state of the engine, the queue and the channels is of its type: an attempt
\* never has a number above MaxAttempts, and what is enqueued is a job.
THEOREM TypesHold == Spec => []TypeOK
<1>1. Init => TypeOK /\ EnqueuesJob
  <2> SUFFICES ASSUME Init PROVE TypeOK /\ EnqueuesJob
    OBVIOUS
  <2>1. NoRun \in RunRecords /\ NewJob \in JobRecords
    BY EngineAssumption DEF NoRun, RunRecords, NewJob, JobRecords
  <2>2. runs \in [Runs -> RunRecords] /\ jobs \in [1..Jobs -> JobRecords]
    BY <2>1 DEF Init
  <2>3. queue \in Seq(1..Jobs)
    BY DEF Init
  <2>4. /\ tick \in Int /\ made \in 0..Jobs /\ current \in 0..made
        /\ idleSince \in Int /\ moved \in Int /\ enqueued \in Int /\ doubled \subseteq 1..Jobs
    BY EngineAssumption DEF Init
  <2> QED
    BY <2>2, <2>3, <2>4 DEF Init, TypeOK, EnqueuesJob
<1>2. TypeOK /\ EnqueuesJob /\ [Next]_vars => TypeOK' /\ EnqueuesJob'
  <2> SUFFICES ASSUME TypeOK, EnqueuesJob, [Next]_vars PROVE TypeOK' /\ EnqueuesJob'
    OBVIOUS
  <2>1. CASE Update
    BY <2>1, UpdateKeepsTypes DEF EnqueuesJob, Update
  <2>2. CASE Tick \/ TickerStops \/ UpdateWithNothing \/ ScanSkips \/ ScanEnqueues \/ ScanWaits
               \/ Enqueue
    <3>1. EnqueuesJob'
      BY <2>2 DEF EnqueuesJob, Tick, TickerStops, UpdateWithNothing, ScanSkips, ScanEnqueues,
         ScanWaits, Enqueue
    <3> QED
      BY <2>2, <3>1, SchedulerKeepsTypes
  <2>3. CASE DispatcherStops \/ Stop
    BY <2>3 DEF DispatcherStops, Stop, schedulerVars, timeVars, TypeOK, EnqueuesJob
  <2>4. ASSUME NEW i \in Runs, Dispatch(i) \/ Loop(i) \/ Worker(i)
        PROVE  TypeOK' /\ EnqueuesJob'
    <3>1. UNCHANGED schedulerVars
      BY <2>4 DEF Dispatch, Loop, Worker, StartRun, TakeAttempt, AttemptsClosed, Grace, GraceEnds,
         BeginAttempt, RetryAttempt, HasResult, EvalPanics, HandleBegins, HandleEnds
    <3>2. EnqueuesJob'
      BY <3>1 DEF EnqueuesJob, schedulerVars
    <3> QED
      BY <2>4, <3>2, DispatchKeepsTypes, LoopKeepsTypes, WorkerKeepsTypes
  <2>5. CASE UNCHANGED vars
    BY <2>5 DEF vars, TypeOK, EnqueuesJob
  <2> QED
    BY <2>1, <2>2, <2>3, <2>4, <2>5 DEF Next, Scan
<1> QED
  BY <1>1, <1>2, PTL DEF Spec

-----------------------------------------------------------------------------
(* Results                                                                 *)

\* What is true of a run r, in a server that is asked to stop or is not: while its
\* worker is under way nothing was handled and attemptChan is empty; the result is
\* handled when the channel is closed, and the loop ends on its own only then.
HandledSoFar(r, stops) ==
  /\ r.loop = "start" => r.worker = "none" /\ r.attempts = 0 /\ r.handled = 0
  /\ r.worker # "none" => r.handled = 0 /\ r.attempts = 0
  /\ r.attempts > 0 => r.handled = 0
  /\ r.attempts = Closed => r.handled = 1 \/ r.panicked
  /\ r.handled = 0 \/ (r.handled = 1 /\ r.attempts = Closed)
  /\ r.loop = "grace" => stops
  /\ ~ stops /\ r.job # 0 /\ r.loop = "ended" => r.handled = 1 \/ r.panicked

Handling == \A i \in Runs : HandledSoFar(runs[i], stopping)

\* A step of one run, and of nothing that stops the server, is looked at in that run.
LEMMA HandlingByRun ==
  ASSUME Handling, NEW i \in Runs, \A k \in Runs : k # i => runs'[k] = runs[k],
         stopping' = stopping, HandledSoFar(runs'[i], stopping)
  PROVE  Handling'
<1> SUFFICES ASSUME NEW k \in Runs PROVE HandledSoFar(runs'[k], stopping)
  BY DEF Handling
<1> QED
  BY DEF Handling

\* The other runs of a step are as they were.
LEMMA OthersKept ==
  ASSUME TypeOK, NEW i \in Runs, Dispatch(i) \/ Loop(i) \/ Worker(i)
  PROVE  \A k \in Runs : k # i => runs'[k] = runs[k]
<1>1. CASE Dispatch(i)
  BY <1>1 DEF TypeOK, Dispatch
<1>2. CASE Loop(i)
  BY <1>2 DEF TypeOK, Loop, StartRun, TakeAttempt, AttemptsClosed, Grace, GraceEnds, EndJob
<1>3. CASE Worker(i)
  BY <1>3 DEF TypeOK, Worker, BeginAttempt, RetryAttempt, HasResult, EvalPanics, HandleBegins,
     HandleEnds, SetWorker, Panic
<1> QED
  BY <1>1, <1>2, <1>3

\* A run that begins, and the steps of its loop.
LEMMA LoopKeepsHandling ==
  ASSUME TypeOK, Handling, NEW i \in Runs, Dispatch(i) \/ Loop(i)
  PROVE  Handling'
<1>1. runs[i] \in RunRecords /\ HandledSoFar(runs[i], stopping)
  BY DEF TypeOK, Handling
<1>2. stopping' = stopping
  BY DEF Dispatch, Loop, StartRun, TakeAttempt, AttemptsClosed, Grace, GraceEnds
<1>3. HandledSoFar(runs'[i], stopping)
  <2>1. CASE Dispatch(i)
    <3>1. /\ runs'[i].loop = "start" /\ runs'[i].worker = "none" /\ runs'[i].attempts = 0
          /\ runs'[i].handled = 0
      BY <2>1 DEF Dispatch, NoRun, TypeOK
    <3> QED
      BY <3>1 DEF HandledSoFar, Closed
  <2>2. CASE StartRun(i)
    <3>1. /\ runs'[i].loop = "select" /\ runs'[i].attempts = 1 /\ runs[i].loop = "start"
          /\ runs'[i].worker = runs[i].worker /\ runs'[i].handled = runs[i].handled
      BY <1>1, <2>2 DEF StartRun, TypeOK, RunRecords
    <3> QED
      BY <1>1, <3>1 DEF HandledSoFar, Closed
  <2>3. CASE TakeAttempt(i)
    <3>1. /\ runs'[i].loop = "select" /\ runs'[i].attempts = 0 /\ runs[i].attempts > 0
          /\ runs'[i].handled = runs[i].handled
      BY <1>1, <2>3 DEF TakeAttempt, TypeOK, RunRecords
    <3> QED
      BY <1>1, <3>1 DEF HandledSoFar, Closed
  <2>4. CASE AttemptsClosed(i) \/ GraceEnds(i)
    <3>1. /\ runs'[i].loop = "ended" /\ runs'[i].attempts = runs[i].attempts
          /\ runs[i].attempts = Closed \/ runs[i].loop = "grace"
          /\ runs'[i].worker = runs[i].worker /\ runs'[i].handled = runs[i].handled
          /\ runs'[i].job = runs[i].job /\ runs'[i].panicked = runs[i].panicked
      BY <1>1, <2>4 DEF AttemptsClosed, GraceEnds, EndJob, TypeOK, RunRecords
    <3> QED
      BY <1>1, <3>1 DEF HandledSoFar
  <2>5. CASE Grace(i)
    <3>1. /\ runs'[i].loop = "grace" /\ stopping /\ runs'[i].attempts = runs[i].attempts
          /\ runs'[i].worker = runs[i].worker /\ runs'[i].handled = runs[i].handled
          /\ runs'[i].panicked = runs[i].panicked
      BY <1>1, <2>5 DEF Grace, TypeOK, RunRecords
    <3> QED
      BY <1>1, <3>1 DEF HandledSoFar
  <2> QED
    BY <2>1, <2>2, <2>3, <2>4, <2>5 DEF Loop
<1> QED
  BY <1>2, <1>3, OthersKept, HandlingByRun

\* The steps of the worker.
LEMMA WorkerKeepsHandling ==
  ASSUME TypeOK, Handling, NEW i \in Runs, Worker(i)
  PROVE  Handling'
<1>1. runs[i] \in RunRecords /\ HandledSoFar(runs[i], stopping)
  BY DEF TypeOK, Handling
<1>2. stopping' = stopping
  BY DEF Worker, BeginAttempt, RetryAttempt, HasResult, EvalPanics, HandleBegins, HandleEnds
<1>3. runs[i].worker # "none"
  BY DEF Worker, BeginAttempt, RetryAttempt, HasResult, EvalPanics, HandleBegins, HandleEnds
<1>4. runs[i].handled = 0 /\ runs[i].attempts = 0 /\ runs[i].loop # "start"
  BY <1>1, <1>3 DEF HandledSoFar
<1>5. runs'[i].job = runs[i].job /\ runs'[i].loop = runs[i].loop
  BY <1>1 DEF TypeOK, Worker, BeginAttempt, RetryAttempt, HasResult, EvalPanics, HandleBegins,
     HandleEnds, SetWorker, Panic, RunRecords
<1>6. HandledSoFar(runs'[i], stopping)
  <2>1. CASE Panic(i)
    <3>1. /\ runs'[i].worker = "none" /\ runs'[i].attempts = Closed /\ runs'[i].panicked
          /\ runs'[i].handled = 0
      BY <1>1, <1>4, <2>1 DEF Panic, TypeOK, RunRecords
    <3> QED
      BY <1>1, <1>4, <1>5, <3>1 DEF HandledSoFar, Closed
  <2>2. CASE RetryAttempt(i)
    <3>1. /\ runs'[i].worker = "none" /\ runs'[i].attempts > 0 /\ runs'[i].handled = 0
          /\ runs'[i].panicked = runs[i].panicked
      BY <1>1, <1>4, <2>2 DEF RetryAttempt, TypeOK, RunRecords
    <3> QED
      BY <1>1, <1>4, <1>5, <3>1 DEF HandledSoFar, Closed
  <2>3. CASE HandleEnds(i)
    <3>1. /\ runs'[i].worker = "none" /\ runs'[i].attempts = Closed /\ runs'[i].handled = 1
      BY <1>1, <1>4, <2>3 DEF HandleEnds, TypeOK, RunRecords
    <3> QED
      BY <1>1, <1>4, <1>5, <3>1 DEF HandledSoFar, Closed
  <2>4. CASE ~ Panic(i) /\ ~ RetryAttempt(i) /\ ~ HandleEnds(i)
    <3>1. /\ runs'[i].attempts = 0 /\ runs'[i].handled = 0
          /\ runs'[i].panicked = runs[i].panicked
      BY <1>1, <1>4, <2>4 DEF Worker, BeginAttempt, HasResult, EvalPanics, HandleBegins, SetWorker,
         TypeOK, RunRecords
    <3> QED
      BY <1>1, <1>4, <1>5, <3>1 DEF HandledSoFar, Closed
  <2> QED
    BY <2>1, <2>2, <2>3, <2>4
<1> QED
  BY <1>2, <1>6, OthersKept, HandlingByRun

\* Asked to stop, a server promises less of its runs.
LEMMA StopKeepsHandling == ASSUME Handling, Stop PROVE Handling'
  BY DEF Handling, HandledSoFar, Stop

\* What every run keeps to.
LEMMA HandlingHolds == Spec => []Handling
<1>1. Init => Handling
  BY EngineAssumption DEF Init, Handling, HandledSoFar, NoRun, Closed
<1>2. TypeOK /\ Handling /\ [Next]_vars => Handling'
  <2> SUFFICES ASSUME TypeOK, Handling, [Next]_vars PROVE Handling'
    OBVIOUS
  <2>1. CASE UNCHANGED <<runs, stopping>>
    BY <2>1 DEF Handling
  <2>2. CASE Tick \/ TickerStops \/ DispatcherStops \/ Scan \/ UNCHANGED vars
    BY <2>1, <2>2 DEF Tick, TickerStops, DispatcherStops, Scan, Update, UpdateWithNothing,
       ScanSkips, ScanEnqueues, ScanWaits, Enqueue, vars
  <2>3. CASE Stop
    BY <2>3, StopKeepsHandling
  <2>4. ASSUME NEW i \in Runs, Dispatch(i) \/ Loop(i) \/ Worker(i)
        PROVE  Handling'
    BY <2>4, LoopKeepsHandling, WorkerKeepsHandling
  <2> QED
    BY <2>2, <2>3, <2>4 DEF Next
<1> QED
  BY <1>1, <1>2, TypesHold, PTL DEF Spec

\* However many attempts an evaluation takes, whatever panics, whenever the server is
\* stopped: its result is handled at most once, and at least once if it ended on its own.
THEOREM ResultsHandledOnce == Spec => []HandledOnce
<1>1. Handling => HandledOnce
  BY DEF Handling, HandledSoFar, HandledOnce
<1> QED
  BY <1>1, HandlingHolds, PTL

-----------------------------------------------------------------------------
(* Overlapping evaluations                                                 *)

\* The ticker is about to put the job j into execQueue.
Due(j) == ticker = "enqueue" /\ current = j

Waiting(j) == \E q \in 1..Len(queue) : queue[q] = j

Has(i, j) == Active(i) /\ runs[i].job = j

\* The job j is in one place at most: with the ticker, once in execQueue, or with one
\* run, which has marked it as running by the time it has left its first statement.
OnePlace(j) ==
  /\ \A q, r \in 1..Len(queue) : queue[q] = j /\ queue[r] = j => q = r
  /\ \A i, k \in Runs : Has(i, j) /\ Has(k, j) => i = k
  /\ Due(j) => ~ Waiting(j)
  /\ \A i \in Runs : Has(i, j) => ~ Due(j) /\ ~ Waiting(j)
  /\ \A i \in Runs : Has(i, j) /\ runs[i].loop = "select" => jobs[j].running

\* Until the server is asked to stop a run is over when its loop is.
InLoop ==
  \A i \in Runs :
    Active(i) => /\ runs[i].job \in 1..Jobs
                 /\ runs[i].loop \in {"start", "select"}

Exclusion ==
  ~ stopping => InLoop /\ \A j \in 1..Jobs : j \notin doubled => OnePlace(j)

\* The scheduler's steps that put no job anywhere.
LEMMA RefreshKeepsPlaces ==
  ASSUME TypeOK, Exclusion, ~ stopping,
         Tick \/ TickerStops \/ Update \/ UpdateWithNothing \/ ScanSkips \/ ScanWaits
  PROVE  Exclusion'
<1>1. UNCHANGED <<queue, runs, stopping, doubled>> /\ ticker' # "enqueue"
  BY DEF Tick, TickerStops, Update, UpdateWithNothing, ScanSkips, ScanWaits, timeVars
<1>2. \A j \in 1..Jobs : jobs'[j].running = jobs[j].running
  <2> SUFFICES ASSUME NEW j \in 1..Jobs PROVE jobs'[j].running = jobs[j].running
    OBVIOUS
  <2>0. jobs \in [1..Jobs -> JobRecords]
    BY DEF TypeOK
  <2>1. ASSUME NEW k, NEW o, jobs' = [jobs EXCEPT ![k].offset = o] PROVE jobs'[j].running = jobs[j].running
    BY <2>0, <2>1 DEF JobRecords
  <2>2. ASSUME NEW k, jobs' = [jobs EXCEPT ![k].offsetWait = TRUE] PROVE jobs'[j].running = jobs[j].running
    BY <2>0, <2>2 DEF JobRecords
  <2>3. CASE Update
    <3>1. \E k, o : jobs' = [jobs EXCEPT ![k].offset = o]
      BY <2>3 DEF Update
    <3> QED
      BY <2>1, <3>1
  <2>4. CASE ~ Update
    BY <2>2, <2>4 DEF Tick, TickerStops, UpdateWithNothing, ScanSkips, ScanWaits
  <2> QED
    BY <2>3, <2>4
<1>3. InLoop'
  BY <1>1 DEF Exclusion, InLoop, Active
<1>4. ASSUME NEW j \in 1..Jobs, j \notin doubled PROVE OnePlace(j)'
  BY <1>1, <1>2, <1>4 DEF Exclusion, OnePlace, Has, Active, Due, Waiting
<1> QED
  BY <1>1, <1>3, <1>4 DEF Exclusion

\* A job that is due again before it was marked counts as doubled from then on; one
\* that a run has marked is not due; else there is no trace of it.
LEMMA DueKeepsPlaces == ASSUME TypeOK, Exclusion, ~ stopping, ScanEnqueues PROVE Exclusion'
<1>1. UNCHANGED <<queue, runs, stopping, current>> /\ ~ jobs[current].running /\ current \in 1..Jobs
  BY EngineAssumption DEF ScanEnqueues, TypeOK
<1>2. \A j \in 1..Jobs : jobs'[j].running = jobs[j].running
  BY DEF ScanEnqueues, TypeOK, JobRecords
<1>3. InLoop /\ InLoop'
  BY <1>1 DEF Exclusion, InLoop, Active
<1>4. ASSUME NEW j \in 1..Jobs, j \notin doubled' PROVE OnePlace(j)'
  <2>1. CASE j # current
    <3>1. j \notin doubled
      BY <1>4, <2>1 DEF ScanEnqueues
    <3> QED
      BY <1>1, <1>2, <2>1, <3>1 DEF Exclusion, OnePlace, Has, Active, Due, Waiting
  <2>2. CASE j = current
    <3>1. ~ Unmarked(j)
      BY <1>4, <2>2 DEF ScanEnqueues
    <3>2. ~ \E i \in Runs : Has(i, j)
      <4> SUFFICES ASSUME NEW i \in Runs, Has(i, j) PROVE FALSE
        OBVIOUS
      <4>1. j \notin doubled
        BY <1>4, <2>2, <3>1 DEF ScanEnqueues, Has
      <4>2. runs[i].loop = "select"
        BY <1>3, <3>1 DEF InLoop, Has, Unmarked
      <4> QED
        BY <1>1, <2>2, <4>1, <4>2 DEF Exclusion, OnePlace
    <3>3. ~ Waiting(j)
      BY <3>1 DEF Unmarked, Waiting
    <3>4. ~ Waiting(j)' /\ ~ \E i \in Runs : Has(i, j)'
      BY <1>1, <3>2, <3>3 DEF Has, Active, Waiting
    <3> QED
      BY <3>4 DEF OnePlace, Waiting
  <2> QED
    BY <2>1, <2>2
<1> QED
  BY <1>3, <1>4 DEF Exclusion

\* The job that was due is in the queue once.
LEMMA EnqueueKeepsPlaces == ASSUME TypeOK, Exclusion, ~ stopping, Enqueue PROVE Exclusion'
<1>1. UNCHANGED <<runs, jobs, stopping, current, doubled>> /\ ticker' = "wait" /\ Due(current)
  BY DEF Enqueue, Due
<1>2. /\ queue \in Seq(1..Jobs) /\ queue' = Append(queue, current)
      /\ Len(queue') = Len(queue) + 1 /\ Len(queue) \in Nat
      /\ \A q \in 1..Len(queue) : queue'[q] = queue[q]
      /\ queue'[Len(queue) + 1] = current
  BY DEF Enqueue, TypeOK
<1>3. InLoop'
  BY <1>1 DEF Exclusion, InLoop, Active
<1>4. ASSUME NEW j \in 1..Jobs, j \notin doubled PROVE OnePlace(j)'
  <2>1. OnePlace(j)
    BY <1>4 DEF Exclusion
  <2>2. \A q \in 1..Len(queue') : q \in 1..Len(queue) \/ q = Len(queue) + 1
    BY <1>2
  <2>3. CASE j # current
    <3>1. \A q \in 1..Len(queue') : queue'[q] = j => q \in 1..Len(queue) /\ queue[q] = j
      BY <1>2, <2>2, <2>3
    <3> QED
      BY <1>1, <2>1, <3>1 DEF OnePlace, Has, Active, Due, Waiting
  <2>4. CASE j = current
    <3>1. \A q \in 1..Len(queue') : queue'[q] = j => q = Len(queue) + 1
      BY <1>1, <1>2, <2>1, <2>2, <2>4 DEF OnePlace, Waiting
    <3>2. \A i \in Runs : ~ Has(i, j)'
      BY <1>1, <2>1, <2>4 DEF OnePlace, Has, Active
    <3> QED
      BY <1>1, <3>1, <3>2 DEF OnePlace, Due
  <2> QED
    BY <2>3, <2>4
<1> QED
  BY <1>1, <1>3, <1>4 DEF Exclusion

\* A run that begins takes the job out of the queue.
LEMMA DispatchKeepsPlaces ==
  ASSUME TypeOK, Exclusion, ~ stopping, NEW i \in Runs, Dispatch(i)
  PROVE  Exclusion'
<1>1. UNCHANGED <<jobs, stopping, ticker, current, doubled>> /\ ~ Active(i)
  BY DEF Dispatch, schedulerVars, timeVars, Free, Active
<1>2. /\ queue \in Seq(1..Jobs) /\ queue # <<>> /\ queue' = Tail(queue)
      /\ Len(queue) \in Nat \ {0} /\ Head(queue) = queue[1] /\ queue[1] \in 1..Jobs
      /\ Len(queue') = Len(queue) - 1
      /\ \A q \in 1..Len(queue') : q + 1 \in 1..Len(queue) /\ queue'[q] = queue[q + 1]
  <2>1. queue \in Seq(1..Jobs) /\ queue # <<>> /\ queue' = Tail(queue)
    BY DEF Dispatch, TypeOK
  <2>2. Len(queue) \in Nat \ {0} /\ Head(queue) = queue[1] /\ Head(queue) \in 1..Jobs
    <3>1. Len(queue) \in Nat \ {0}
      BY <2>1, EmptySeq
    <3>2. Head(queue) = queue[1]
      BY <2>1
    <3> QED
      BY <2>1, <3>1, <3>2, HeadTailProperties
  <2>3. Len(queue') = Len(queue) - 1
    BY <2>1, HeadTailProperties
  <2>4. \A q \in 1..Len(queue') : q + 1 \in 1..Len(queue) /\ queue'[q] = queue[q + 1]
    <3>1. \A q \in 1..Len(Tail(queue)) : Tail(queue)[q] = queue[q + 1]
      BY <2>1, HeadTailProperties
    <3>2. \A q \in 1..Len(queue) - 1 : q + 1 \in 1..Len(queue)
      BY <2>2
    <3> QED
      BY <2>1, <2>3, <3>1, <3>2
  <2> QED
    BY <2>1, <2>2, <2>3, <2>4
<1>3. /\ runs'[i].job = queue[1] /\ runs'[i].loop = "start" /\ runs'[i].worker = "none"
      /\ \A k \in Runs : k # i => runs'[k] = runs[k]
  BY <1>2, OthersKept DEF Dispatch, NoRun, TypeOK
<1>4. InLoop'
  BY <1>2, <1>3 DEF Exclusion, InLoop, Active
<1>5. ASSUME NEW j \in 1..Jobs, j \notin doubled PROVE OnePlace(j)'
  <2>1. OnePlace(j)
    BY <1>5 DEF Exclusion
  <2>2. \A q, r \in 1..Len(queue') : queue'[q] = j /\ queue'[r] = j => q = r
    BY <1>2, <2>1 DEF OnePlace
  <2>3. Waiting(j)' => Waiting(j)
    BY <1>2 DEF Waiting
  <2>4. 1 \in 1..Len(queue)
    BY <1>2
  <2>5. CASE j # queue[1]
    <3>1. \A k \in Runs : Has(k, j)' => k # i /\ Has(k, j) /\ runs'[k] = runs[k]
      BY <1>3, <2>5 DEF Has, Active
    <3> QED
      BY <1>1, <2>1, <2>2, <2>3, <3>1 DEF OnePlace, Due
  <2>6. CASE j = queue[1]
    <3>1. Waiting(j)
      BY <2>4, <2>6 DEF Waiting
    <3>2. \A k \in Runs : Has(k, j)' => k = i
      BY <1>3, <2>1, <3>1 DEF OnePlace, Has, Active
    <3>3. ~ Waiting(j)'
      BY <1>2, <2>1, <2>4, <2>6 DEF OnePlace, Waiting
    <3>4. ~ Due(j)'
      BY <1>1, <2>1, <3>1 DEF OnePlace, Due
    <3> QED
      BY <1>3, <2>2, <3>2, <3>3, <3>4 DEF OnePlace
  <2> QED
    BY <2>5, <2>6
<1> QED
  BY <1>1, <1>4, <1>5 DEF Exclusion

\* A run keeps its job until it is over; what it ends is its own job.
LEMMA RunKeepsPlaces ==
  ASSUME TypeOK, Handling, Exclusion, ~ stopping, NEW i \in Runs, Loop(i) \/ Worker(i)
  PROVE  Exclusion'
<1>1. runs[i] \in RunRecords /\ HandledSoFar(runs[i], stopping) /\ jobs \in [1..Jobs -> JobRecords]
  BY DEF TypeOK, Handling
<1>2. UNCHANGED <<ticker, current, doubled, queue, stopping>>
  BY DEF Loop, Worker, StartRun, TakeAttempt, AttemptsClosed, Grace, GraceEnds, schedulerVars, timeVars,
     BeginAttempt, RetryAttempt, HasResult, EvalPanics, HandleBegins, HandleEnds
<1>3. \A k \in Runs : k # i => runs'[k] = runs[k]
  BY OthersKept
<1>4. Active(i)
  BY DEF Active, Loop, Worker, StartRun, TakeAttempt, AttemptsClosed, Grace, GraceEnds,
     BeginAttempt, RetryAttempt, HasResult, EvalPanics, HandleBegins, HandleEnds
<1>5. /\ runs[i].job \in 1..Jobs /\ runs[i].loop \in {"start", "select"}
      /\ \A j \in 1..Jobs : j \notin doubled => OnePlace(j)
  BY <1>4 DEF Exclusion, InLoop
\* It goes on with its job marked, or is over.
<1>6. /\ runs'[i].job = runs[i].job
      /\ \/ /\ runs'[i].loop = "select"
            /\ \/ runs[i].loop = "select" /\ jobs' = jobs
               \/ jobs' = [jobs EXCEPT ![runs[i].job].running = TRUE]
         \/ /\ runs'[i].loop = "ended" /\ runs'[i].worker = "none"
            /\ jobs' = [jobs EXCEPT ![runs[i].job].running = FALSE]
  <2>1. CASE StartRun(i)
    BY <1>1, <2>1 DEF StartRun, TypeOK, RunRecords
  <2>2. CASE TakeAttempt(i)
    BY <1>1, <2>2 DEF TakeAttempt, TypeOK, RunRecords
  <2>3. CASE AttemptsClosed(i)
    <3>1. /\ runs'[i].loop = "ended" /\ runs'[i].job = runs[i].job
          /\ runs'[i].worker = runs[i].worker /\ runs[i].attempts = Closed
          /\ jobs' = [jobs EXCEPT ![runs[i].job].running = FALSE]
      BY <1>1, <2>3 DEF AttemptsClosed, EndJob, TypeOK, RunRecords
    <3> QED
      BY <1>1, <3>1 DEF HandledSoFar, Closed
  <2>4. ~ Grace(i) /\ ~ GraceEnds(i)
    BY <1>5 DEF Grace, GraceEnds
  <2>5. CASE Worker(i)
    <3>1. runs'[i].job = runs[i].job /\ runs'[i].loop = runs[i].loop /\ jobs' = jobs
      BY <1>1, <2>5 DEF TypeOK, Worker, BeginAttempt, RetryAttempt, HasResult, EvalPanics, HandleBegins,
         HandleEnds, SetWorker, Panic, RunRecords
    <3>2. runs[i].worker # "none"
      BY <2>5 DEF Worker, BeginAttempt, RetryAttempt, HasResult, EvalPanics, HandleBegins, HandleEnds
    <3> QED
      BY <1>1, <1>5, <3>1, <3>2 DEF HandledSoFar
  <2> QED
    BY <2>1, <2>2, <2>3, <2>4, <2>5 DEF Loop
<1>7. InLoop'
  BY <1>3, <1>5, <1>6 DEF Exclusion, InLoop, Active
<1>8. ASSUME NEW j \in 1..Jobs, j \notin doubled PROVE OnePlace(j)'
  <2>1. OnePlace(j)
    BY <1>5, <1>8
  <2>2. \A k \in Runs : Has(k, j)' => Has(k, j) /\ (k # i => runs'[k] = runs[k])
    BY <1>3, <1>4, <1>6 DEF Has, Active
  <2>3. \A k \in Runs : Has(k, j)' /\ runs'[k].loop = "select" => jobs'[j].running
    <3> SUFFICES ASSUME NEW k \in Runs, Has(k, j)', runs'[k].loop = "select" PROVE jobs'[j].running
      OBVIOUS
    <3>1. CASE k = i
      <4>1. j = runs[i].job
        BY <1>6, <3>1 DEF Has
      <4>2. CASE jobs' = jobs /\ runs[i].loop = "select"
        BY <2>1, <2>2, <3>1, <4>2 DEF OnePlace
      <4>3. CASE jobs' = [jobs EXCEPT ![j].running = TRUE]
        BY <1>1, <4>3 DEF JobRecords
      <4> QED
        BY <1>6, <3>1, <4>1, <4>2, <4>3
    <3>2. CASE k # i
      <4>1. j # runs[i].job
        BY <1>4, <2>1, <2>2, <3>2 DEF OnePlace, Has
      <4>2. jobs[j].running
        BY <1>3, <2>1, <2>2, <3>2 DEF OnePlace
      <4> QED
        BY <1>1, <1>6, <4>1, <4>2
    <3> QED
      BY <3>1, <3>2
  <2> QED
    BY <1>2, <2>1, <2>2, <2>3 DEF OnePlace, Due, Waiting
<1> QED
  BY <1>2, <1>7, <1>8 DEF Exclusion

\* Until the server is asked to stop, the evaluations of a job overlap only where it
\* became due again before the goroutine that was to evaluate it had marked it: whatever
\* the frequency, the number of attempts, the panics and the length of an evaluation,
\* however far ticker, dispatcher and goroutines are apart, and whatever is forgotten.
THEOREM EvaluationsDoNotOverlap == Spec => []NoOverlap
<1>1. Init => Exclusion
  BY DEF Init, Exclusion, InLoop, OnePlace, Has, Active, Due, Waiting, NoRun
<1>2. TypeOK /\ Handling /\ Exclusion /\ [Next]_vars => Exclusion'
  <2> SUFFICES ASSUME TypeOK, Handling, Exclusion, [Next]_vars, ~ stopping' PROVE Exclusion'
    BY DEF Exclusion
  <2>1. ~ stopping
    BY DEF Next, Tick, TickerStops, DispatcherStops, Stop, Scan, Update, UpdateWithNothing,
       ScanSkips, ScanEnqueues, ScanWaits, Enqueue, Dispatch, Loop, Worker, StartRun, TakeAttempt,
       AttemptsClosed, Grace, GraceEnds, BeginAttempt, RetryAttempt, HasResult, EvalPanics,
       HandleBegins, HandleEnds, vars
  <2>2. CASE Tick \/ Scan
    BY <2>1, <2>2, RefreshKeepsPlaces, DueKeepsPlaces, EnqueueKeepsPlaces DEF Scan
  <2>3. ~ TickerStops /\ ~ DispatcherStops /\ ~ Stop
    BY <2>1 DEF TickerStops, DispatcherStops, Stop
  <2>4. ASSUME NEW i \in Runs, Dispatch(i) \/ Loop(i) \/ Worker(i)
        PROVE  Exclusion'
    BY <2>1, <2>4, DispatchKeepsPlaces, RunKeepsPlaces
  <2>5. CASE UNCHANGED vars
    BY <2>5 DEF vars, Exclusion, InLoop, OnePlace, Has, Active, Due, Waiting
  <2> QED
    BY <2>2, <2>3, <2>4, <2>5 DEF Next
<1>3. Exclusion => NoOverlap
  BY DEF Exclusion, InLoop, OnePlace, Has, NoOverlap
<1> QED
  BY <1>1, <1>2, <1>3, TypesHold, HandlingHolds, PTL DEF Spec

-----------------------------------------------------------------------------
(* Remainders                                                              *)

\* Quotient and remainder of an integer.
LEMMA Division ==
  ASSUME NEW t \in Int, NEW n \in Nat \ {0}
  PROVE  t \div n \in Int /\ t % n \in 0..n - 1 /\ t = n * (t \div n) + (t % n)
  OBVIOUS

\* Two ways to divide an integer leave the same remainder.
LEMMA OneRemainder ==
  ASSUME NEW n \in Nat \ {0}, NEW p \in Int, NEW q \in Int, NEW r \in 0..n - 1, NEW s \in 0..n - 1,
         n * p + r = n * q + s
  PROVE  r = s
<1>1. ASSUME NEW a \in Int, NEW b \in Int, NEW c \in 0..n - 1, NEW d \in 0..n - 1, a > b
      PROVE  n * a + c > n * b + d
  <2>1. PICK k \in Nat : a = b + 1 + k
    <3>1. a - b - 1 \in Nat /\ a = b + 1 + (a - b - 1)
      BY <1>1
    <3> QED
      BY <3>1
  <2>2. n * a = n * b + n + n * k /\ n * k \in Nat /\ n * b \in Int
    BY <2>1
  <2> QED
    BY <2>2
<1>2. p = q
  <2>1. ~ (p > q) /\ ~ (q > p)
    BY <1>1
  <2> QED
    BY <2>1
<1>3. n * p \in Int
  OBVIOUS
<1> QED
  BY <1>2, <1>3

\* A remainder that is found is the remainder.
LEMMA RemainderIs ==
  ASSUME NEW t \in Int, NEW n \in Nat \ {0}, NEW q \in Int, NEW r \in 0..n - 1, t = n * q + r
  PROVE  t % n = r
  BY Division, OneRemainder

\* Among o numbers in a row one is a multiple of o.
LEMMA OneIsMultiple ==
  ASSUME NEW b \in Int, NEW o \in Nat \ {0}
  PROVE  \E t \in b + 1..b + o : t % o = 0
<1> DEFINE t == b + o - (b % o)
<1>1. b % o \in 0..o - 1 /\ b \div o \in Int /\ b = o * (b \div o) + (b % o)
  BY Division
<1>2. t \in b + 1..b + o
  BY <1>1
<1>3. t = o * ((b \div o) + 1) + 0
  BY <1>1
<1>4. t \in Int /\ (b \div o) + 1 \in Int /\ 0 \in 0..o - 1
  BY <1>1, <1>2
<1> HIDE DEF t
<1>5. t % o = 0
  BY <1>3, <1>4, RemainderIs
<1> QED
  BY <1>2, <1>5

-----------------------------------------------------------------------------
(* Intervals                                                               *)

\* The tick that the interval of the tick t began with.
Begun(t) == t - (t % Interval)

\* With the next tick the interval goes on, or the next one begins.
LEMMA NextTick ==
  ASSUME Interval \in Nat \ {0}, NEW t \in Int
  PROVE  /\ Begun(t) \in Int /\ Begun(t) <= t
         /\ (t + 1) % Interval = 0 => Begun(t + 1) = t + 1 /\ Begun(t) = t + 1 - Interval
         /\ (t + 1) % Interval # 0 => Begun(t + 1) = Begun(t)
<1> DEFINE n == Interval
<1>1. t % n \in 0..n - 1 /\ t \div n \in Int /\ t = n * (t \div n) + (t % n)
  BY Division
<1>0. n \in Nat \ {0} /\ Begun(t) = t - (t % n) /\ Begun(t + 1) = t + 1 - ((t + 1) % n)
  BY DEF Begun
<1> HIDE DEF n
<1>2. CASE t % n = n - 1
  <2>1. t + 1 = n * ((t \div n) + 1) + 0
    BY <1>0, <1>1, <1>2
  <2>2. (t + 1) % n = 0
    <3>1. t + 1 \in Int /\ (t \div n) + 1 \in Int /\ 0 \in 0..n - 1
      BY <1>0, <1>1
    <3> QED
      BY <1>0, <2>1, <3>1, RemainderIs
  <2>3. Begun(t + 1) = t + 1 /\ Begun(t) = t + 1 - n /\ Begun(t) \in Int /\ Begun(t) <= t
    BY <1>0, <1>1, <1>2, <2>2
  <2> QED
    BY <2>2, <2>3 DEF n
<1>3. CASE t % n # n - 1
  <2> DEFINE r == (t % n) + 1
  <2>1. t + 1 = n * (t \div n) + r /\ r \in 0..n - 1 /\ r # 0
    BY <1>0, <1>1, <1>3
  <2>2. (t + 1) % n = r
    <3>1. t + 1 \in Int
      OBVIOUS
    <3> HIDE DEF r
    <3> QED
      BY <1>0, <1>1, <2>1, <3>1, RemainderIs
  <2>3. Begun(t + 1) = Begun(t) /\ (t + 1) % n # 0 /\ Begun(t) \in Int /\ Begun(t) <= t
    BY <1>0, <1>1, <2>1, <2>2
  <2> QED
    BY <2>3 DEF n
<1> QED
  BY <1>2, <1>3

\* The offset of a rule is a tick of its interval, but not the first one: the
\* job that waits for it comes to it before the next interval begins.
LEMMA OffsetInInterval ==
  ASSUME Interval > 1, NEW n \in 1..MaxRules, NEW i \in 0..n - 1
  PROVE  Offset(n, i) \in 1..Interval - 1
<1> DEFINE spread == (Frequency * 1000) \div n
           product == spread * i
           offset == product \div 1000
<1>0. n \in Nat \ {0} /\ i \in 0..n - 1 /\ Frequency \in Nat \ {0} /\ MinInterval \in Nat \ {0}
  BY EngineAssumption
<1>1. spread \in Nat /\ n * spread <= Frequency * 1000
  <2>1. Frequency * 1000 \in Nat
    BY <1>0
  <2> QED
    BY <1>0, <2>1
<1>4. Offset(n, i) = IF offset = 0 THEN 1 ELSE offset
  BY DEF Offset
<1> HIDE DEF spread
<1>2. product \in Nat /\ (spread = 0 => product = 0) /\ (spread # 0 => product < Frequency * 1000)
  <2>1. product \in Nat
    BY <1>0, <1>1
  <2>2. spread * i <= spread * (n - 1)
    BY <1>0, <1>1
  <2>3. spread * (n - 1) = n * spread - spread
    BY <1>0, <1>1
  <2> QED
    BY <1>0, <1>1, <2>1, <2>2, <2>3
<1> HIDE DEF product
<1>3. offset \in Nat /\ (product = 0 => offset = 0) /\ (product < Frequency * 1000 => offset < Frequency)
  BY <1>0, <1>2
<1> HIDE DEF offset
<1>5. Interval \in Nat /\ Interval >= Frequency
  BY <1>0 DEF Interval
<1> QED
  BY <1>0, <1>1, <1>2, <1>3, <1>4, <1>5

-----------------------------------------------------------------------------
(* The job in every interval                                               *)

\* The job that was free since before the interval of the tick t was enqueued
\* in it until t, or waits for its offset, which has not come yet or was moved.
Provided(t) ==
  current # 0 /\ idleSince < Begun(t) =>
    \/ enqueued >= Begun(t)
    \/ /\ jobs[current].offsetWait
       /\ moved >= Begun(t) \/ \A u \in Begun(t) + 1..t : u % jobs[current].offset # 0

OffsetFits == current # 0 => jobs[current].offset \in 1..Interval - 1

InTime ==
  /\ OffsetFits
  /\ ticker = "wait" => Provided(tick)
  /\ ticker \in {"update", "scan"} => Provided(tick - 1)

\* Who else runs changes neither offsets nor who waits for them.
LEMMA OthersKeepTime ==
  ASSUME InTime, TypeOK, UNCHANGED schedulerVars,
         \A j \in 1..Jobs : jobs'[j].offset = jobs[j].offset /\ jobs'[j].offsetWait = jobs[j].offsetWait
  PROVE  InTime'
<1>1. /\ UNCHANGED <<tick, ticker, current, idleSince, moved, enqueued>>
      /\ current # 0 => jobs'[current].offset = jobs[current].offset
                        /\ jobs'[current].offsetWait = jobs[current].offsetWait
  BY EngineAssumption DEF schedulerVars, timeVars, TypeOK
<1>2. Provided(tick)' <=> Provided(tick)
  BY <1>1 DEF Provided, Begun, Interval
<1>3. Provided(tick - 1)' <=> Provided(tick - 1)
  BY <1>1 DEF Provided, Begun, Interval
<1> QED
  BY <1>1, <1>2, <1>3 DEF InTime, OffsetFits, Interval

\* An offset that is still to come stays so until its tick.
LEMMA StillToCome ==
  ASSUME NEW b \in Int, NEW t \in Int, NEW o \in Nat, \A u \in b + 1..t - 1 : u % o # 0, t % o # 0
  PROVE  \A u \in b + 1..t : u % o # 0
<1> SUFFICES ASSUME NEW u \in b + 1..t PROVE u % o # 0
  OBVIOUS
<1>1. u = t \/ u \in b + 1..t - 1
  OBVIOUS
<1> QED
  BY <1>1

\* The scheduler leaves the job for the next tick: it was enqueued, or waits.
LEMMA ScanWaitsInTime ==
  ASSUME Interval > 1, InTime, TypeOK, ScanWaits PROVE InTime'
<1> DEFINE o == jobs[current].offset
           w == jobs[current].offsetWait
           b == Begun(tick)
<1>0. /\ Interval \in Nat \ {0} /\ tick \in Int /\ tick - 1 \in Int /\ tick - 1 + 1 = tick
      /\ current \in 1..Jobs /\ jobs \in [1..Jobs -> JobRecords]
      /\ idleSince \in Int /\ enqueued \in Int
  <2>1. Interval \in Nat \ {0} /\ Jobs \in Nat
    BY EngineAssumption DEF Interval
  <2>2. tick \in Int /\ current \in 0..made /\ made \in 0..Jobs /\ current # 0
    BY DEF TypeOK, ScanWaits
  <2>3. jobs \in [1..Jobs -> JobRecords] /\ idleSince \in Int /\ enqueued \in Int
    BY DEF TypeOK
  <2> QED
    BY <2>1, <2>2, <2>3
<1>1. o \in Nat /\ w \in BOOLEAN /\ o \in 1..Interval - 1
  BY <1>0 DEF JobRecords, InTime, OffsetFits, ScanWaits
<1>2. /\ UNCHANGED <<tick, current, idleSince, moved, enqueued>> /\ ticker' = "wait" /\ ticker = "scan"
      /\ ~ (w /\ tick % o = 0) /\ current # 0
  BY DEF ScanWaits, OffsetReached, timeVars
<1>3. /\ jobs'[current].offset = o
      /\ jobs'[current].offsetWait = (w \/ tick % Interval = 0)
  BY <1>0, <1>1 DEF ScanWaits, JobRecords
<1>4. /\ Begun(tick - 1) \in Int /\ b \in Int /\ b <= tick
      /\ tick % Interval = 0 => b = tick
      /\ tick % Interval # 0 => b = Begun(tick - 1)
  BY <1>0, NextTick
<1>5. Provided(tick - 1)
  BY <1>2 DEF InTime
<1>6. idleSince < b =>
        \/ enqueued >= b
        \/ jobs'[current].offsetWait /\ (moved >= b \/ \A u \in b + 1..tick : u % o # 0)
  <2> HIDE DEF o, w, b
  <2>1. CASE tick % Interval = 0
    <3>1. jobs'[current].offsetWait /\ b = tick
      BY <2>1, <1>3, <1>4
    <3>2. \A u \in tick + 1..tick : FALSE
      BY <1>0
    <3> QED
      BY <3>1, <3>2
  <2>2. CASE tick % Interval # 0
    <3> SUFFICES ASSUME idleSince < b, ~ (enqueued >= b)
                 PROVE  /\ jobs'[current].offsetWait
                        /\ moved >= b \/ \A u \in b + 1..tick : u % o # 0
      OBVIOUS
    <3>1. w /\ (moved >= b \/ \A u \in b + 1..tick - 1 : u % o # 0)
      BY <1>2, <1>4, <1>5, <2>2 DEF Provided, o, w
    <3>2. tick % o # 0
      BY <1>2, <3>1
    <3> QED
      BY <1>0, <1>1, <1>3, <1>4, <3>1, <3>2, StillToCome
  <2> QED
    BY <2>1, <2>2
<1>7. Provided(tick)'
  <2>1. Begun(tick)' = b
    BY <1>2 DEF Begun, Interval
  <2> HIDE DEF b, o, w
  <2> QED
    BY <1>2, <1>3, <1>6, <2>1 DEF Provided
<1>8. OffsetFits'
  BY <1>1, <1>2, <1>3 DEF OffsetFits, Interval
<1> QED
  BY <1>2, <1>7, <1>8 DEF InTime

\* A job that has come to its offset is enqueued at this tick.
LEMMA EnqueuedInTime ==
  ASSUME Interval > 1, InTime, TypeOK, ScanEnqueues \/ Enqueue PROVE InTime'
<1>0. Interval \in Nat \ {0} /\ tick \in Int /\ Jobs \in Nat
  BY EngineAssumption DEF TypeOK, Interval
<1>1. CASE ScanEnqueues
  <2>1. ticker' = "enqueue" /\ current' = current /\ jobs' = [jobs EXCEPT ![current].offsetWait = FALSE]
    BY <1>1 DEF ScanEnqueues
  <2>2. current # 0 => jobs'[current].offset = jobs[current].offset
    BY <1>0, <2>1 DEF TypeOK, JobRecords
  <2> QED
    BY <2>1, <2>2 DEF InTime, OffsetFits, Interval
<1>2. CASE Enqueue
  <2>1. enqueued' = tick /\ ticker' = "wait" /\ UNCHANGED <<tick, current, jobs>>
    BY <1>2 DEF Enqueue
  <2>2. Begun(tick) \in Int /\ Begun(tick) <= tick /\ Begun(tick)' = Begun(tick)
    <3>1. Begun(tick)' = Begun(tick)
      BY <2>1 DEF Begun, Interval
    <3> QED
      BY <1>0, <3>1, NextTick
  <2> QED
    BY <1>0, <2>1, <2>2 DEF InTime, OffsetFits, Provided, Interval
<1> QED
  BY <1>1, <1>2

\* A job that runs or is made was not free before the interval began.
LEMMA NotFreeBefore ==
  ASSUME Interval > 1, TypeOK, OffsetFits',
         \/ ticker' = "wait" /\ tick' = tick /\ idleSince' = tick + 1
         \/ ticker' = "scan" /\ tick' = tick /\ idleSince' = tick
         \/ ticker' \in {"wait", "update", "scan"} /\ current' = 0
  PROVE  InTime'
<1>0. Interval \in Nat \ {0} /\ tick \in Int /\ tick - 1 \in Int
  BY EngineAssumption DEF TypeOK, Interval
<1>1. Begun(tick) \in Int /\ Begun(tick) <= tick /\ Begun(tick - 1) \in Int /\ Begun(tick - 1) <= tick - 1
  BY <1>0, NextTick
<1>2. tick' = tick => Begun(tick)' = Begun(tick) /\ Begun(tick - 1)' = Begun(tick - 1)
  BY DEF Begun, Interval
<1> QED
  BY <1>0, <1>1, <1>2 DEF InTime, Provided

\* A refresh keeps the job and what it waits for, or makes one anew.
LEMMA UpdateInTime ==
  ASSUME Interval > 1, InTime, TypeOK, Update PROVE InTime'
<1>n. Interval \in Nat \ {0}
  BY EngineAssumption DEF Interval
<1> DEFINE Made(n, i) ==
        IF current # 0
          THEN /\ jobs' = [jobs EXCEPT ![current].offset = Offset(n, i)]
               /\ moved' = IF jobs[current].offset = Offset(n, i) THEN moved ELSE tick
               /\ UNCHANGED <<made, current, idleSince>>
          ELSE /\ made < Jobs
               /\ made' = made + 1
               /\ current' = made + 1
               /\ jobs' = [jobs EXCEPT ![made + 1].offset = Offset(n, i)]
               /\ idleSince' = tick
               /\ UNCHANGED moved
<1>0. PICK n \in 1..MaxRules : \E i \in 0..n - 1 : Made(n, i)
  BY DEF Update
<1>1. PICK i \in 0..n - 1 : Made(n, i)
  BY <1>0
<1> DEFINE o == Offset(n, i)
<1>2. o \in 1..Interval - 1
  BY OffsetInInterval
<1>3. /\ ticker' = "scan" /\ ticker = "update" /\ UNCHANGED <<tick, enqueued>>
      /\ tick \in Int /\ moved \in Int
      /\ jobs \in [1..Jobs -> JobRecords] /\ made \in 0..Jobs /\ current \in 0..made /\ Jobs \in Nat
  BY EngineAssumption DEF Update, TypeOK
<1> HIDE DEF o
<1>4. CASE current # 0
  <2>1. /\ jobs' = [jobs EXCEPT ![current].offset = o] /\ current' = current /\ current \in 1..Jobs
        /\ idleSince' = idleSince /\ moved' = IF jobs[current].offset = o THEN moved ELSE tick
    BY <1>1, <1>3, <1>4 DEF o
  <2>2. jobs'[current].offset = o /\ jobs'[current].offsetWait = jobs[current].offsetWait
    BY <1>3, <2>1 DEF JobRecords
  <2>3. OffsetFits'
    BY <1>2, <2>1, <2>2 DEF OffsetFits, Interval
  <2>4. CASE jobs[current].offset = o
    <3>1. Provided(tick - 1)' <=> Provided(tick - 1)
      BY <1>3, <2>1, <2>2, <2>4 DEF Provided, Begun, Interval
    <3> QED
      BY <1>3, <2>3, <3>1 DEF InTime
  <2>5. CASE jobs[current].offset # o
    <3>1. Begun(tick - 1)' = Begun(tick - 1) /\ moved' >= Begun(tick - 1)
      <4>1. Begun(tick - 1) \in Int /\ Begun(tick - 1) <= tick - 1
        BY <1>3, <1>n, NextTick
      <4>2. Begun(tick - 1)' = Begun(tick - 1) /\ moved' = tick
        BY <1>3, <2>1, <2>5 DEF Begun, Interval
      <4> QED
        BY <1>3, <4>1, <4>2
    <3>2. Provided(tick - 1)'
      BY <1>3, <2>1, <2>2, <3>1 DEF InTime, Provided
    <3> QED
      BY <1>3, <2>3, <3>2 DEF InTime
  <2> QED
    BY <2>4, <2>5
<1>5. CASE current = 0
  <2>1. /\ jobs' = [jobs EXCEPT ![made + 1].offset = o] /\ current' = made + 1 /\ made + 1 \in 1..Jobs
        /\ idleSince' = tick
    BY <1>1, <1>3, <1>5 DEF o
  <2>2. jobs'[made + 1].offset = o
    BY <1>3, <2>1 DEF JobRecords
  <2>3. OffsetFits'
    BY <1>2, <2>1, <2>2 DEF OffsetFits, Interval
  <2> QED
    BY <1>3, <2>1, <2>3, NotFreeBefore
<1> QED
  BY <1>4, <1>5

\* A rule whose interval is longer than a second is evaluated in every interval
\* in which its job was free and its offset kept: whatever is loaded, forgotten
\* or refreshed, and however late ticks are served.  The offset is within the
\* interval, so that the tick the job waits for comes before the interval is
\* over; where a refresh moved it meanwhile the job may miss it, and waits on.
THEOREM EvaluatedOnTime == ASSUME Interval > 1 PROVE Spec => []EvaluatedEachInterval
<1>0. Interval \in Nat \ {0}
  BY EngineAssumption DEF Interval
<1>1. Init => InTime
  BY DEF Init, InTime, OffsetFits, Provided
<1>2. TypeOK /\ InTime /\ [Next]_vars => InTime'
  <2> SUFFICES ASSUME TypeOK, InTime, [Next]_vars PROVE InTime'
    OBVIOUS
  <2>1. CASE Tick
    <3>1. tick \in Int /\ tick' - 1 = tick /\ ticker = "wait" /\ ticker' \in {"update", "scan"}
          /\ UNCHANGED <<jobs, current, idleSince, moved, enqueued>>
      BY <2>1 DEF Tick, TypeOK, timeVars
    <3>2. Provided(tick - 1)' <=> Provided(tick)
      BY <3>1 DEF Provided, Begun, Interval
    <3> QED
      BY <3>1, <3>2 DEF InTime, OffsetFits, Interval
  <2>2. CASE TickerStops
    BY <2>2 DEF TickerStops, InTime, OffsetFits, Interval
  <2>3. CASE Update
    BY <2>3, UpdateInTime
  <2>4. CASE UpdateWithNothing
    <3>1. OffsetFits'
      BY <2>4 DEF UpdateWithNothing, OffsetFits
    <3> QED
      BY <2>4, <3>1, NotFreeBefore DEF UpdateWithNothing
  <2>5. CASE ScanSkips
    <3>1. OffsetFits'
      BY <2>5 DEF ScanSkips, OffsetFits, InTime, Interval
    <3> QED
      BY <2>5, <3>1, NotFreeBefore DEF ScanSkips
  <2>6. CASE ScanEnqueues \/ Enqueue
    BY <2>6, EnqueuedInTime
  <2>7. CASE ScanWaits
    BY <2>7, ScanWaitsInTime
  <2>8. CASE DispatcherStops \/ Stop
    BY <2>8, OthersKeepTime DEF DispatcherStops, Stop
  <2>9. ASSUME NEW i \in Runs, Dispatch(i) \/ Loop(i) \/ Worker(i) PROVE InTime'
    <3>1. UNCHANGED schedulerVars
      BY <2>9 DEF Dispatch, Loop, Worker, StartRun, TakeAttempt, AttemptsClosed, Grace, GraceEnds,
         BeginAttempt, RetryAttempt, HasResult, EvalPanics, HandleBegins, HandleEnds
    <3>2. jobs' = jobs \/ \E b \in BOOLEAN : jobs' = [jobs EXCEPT ![runs[i].job].running = b]
      BY <2>9 DEF Dispatch, Loop, Worker, StartRun, TakeAttempt, AttemptsClosed, Grace, GraceEnds,
         EndJob, BeginAttempt, RetryAttempt, HasResult, EvalPanics, HandleBegins, HandleEnds
    <3>3. \A j \in 1..Jobs : jobs'[j].offset = jobs[j].offset /\ jobs'[j].offsetWait = jobs[j].offsetWait
      <4> SUFFICES ASSUME NEW j \in 1..Jobs
                   PROVE  jobs'[j].offset = jobs[j].offset /\ jobs'[j].offsetWait = jobs[j].offsetWait
        OBVIOUS
      <4>1. jobs \in [1..Jobs -> JobRecords] /\ jobs[j] \in JobRecords
        BY DEF TypeOK
      <4>2. ASSUME NEW b \in BOOLEAN, NEW k, jobs' = [jobs EXCEPT ![k].running = b]
            PROVE  jobs'[j].offset = jobs[j].offset /\ jobs'[j].offsetWait = jobs[j].offsetWait
        BY <4>1, <4>2 DEF JobRecords
      <4> QED
        BY <3>2, <4>2
    <3> QED
      BY <3>1, <3>3, OthersKeepTime
  <2>10. CASE UNCHANGED vars
    BY <2>10, OthersKeepTime DEF vars, schedulerVars, timeVars
  <2> QED
    BY <2>1, <2>2, <2>3, <2>4, <2>5, <2>6, <2>7, <2>8, <2>9, <2>10 DEF Next, Scan
<1>3. TypeOK /\ InTime => EvaluatedEachInterval
  <2> SUFFICES ASSUME TypeOK, InTime, ticker = "wait", current # 0, (tick + 1) % Interval = 0,
                      idleSince <= tick - Interval
               PROVE  \/ enqueued > tick - Interval
                      \/ moved > tick - Interval /\ jobs[current].offsetWait
    BY DEF EvaluatedEachInterval
  <2> DEFINE o == jobs[current].offset
             b == Begun(tick)
  <2>1. /\ tick \in Int /\ idleSince \in Int /\ enqueued \in Int /\ moved \in Int
        /\ o \in 1..Interval - 1
    BY DEF TypeOK, InTime, OffsetFits
  <2>2. b = tick + 1 - Interval /\ b \in Int
    BY <1>0, <2>1, NextTick
  <2>3. \/ enqueued >= b
        \/ moved >= b /\ jobs[current].offsetWait
        \/ \A u \in b + 1..tick : u % o # 0
    <3>1. idleSince < b
      BY <1>0, <2>1, <2>2
    <3> QED
      BY <3>1 DEF InTime, Provided
  <2> HIDE DEF o, b
  <2>4. \E u \in b + 1..tick : u % o = 0
    <3>1. o \in Nat \ {0} /\ b + o <= tick
      BY <1>0, <2>1, <2>2
    <3>2. PICK u \in b + 1..b + o : u % o = 0
      BY <2>2, <3>1, OneIsMultiple
    <3>3. u \in b + 1..tick
      BY <2>1, <2>2, <3>1
    <3> QED
      BY <3>2, <3>3
  <2> QED
    BY <1>0, <2>1, <2>2, <2>3, <2>4
<1> QED
  BY <1>1, <1>2, <1>3, TypesHold, PTL DEF Spec
-----------------------------------------------------------------------------
(* Evaluations come to an end                                              *)

\* What is true of a run r and its channels: an attempt sends one cancel function when
\* it begins and one more when it has a result, so that cancelChan has room for both,
\* and a loop that waits has an attempt to take or a worker that will bring one.
InReserve(r) ==
  /\ r.loop = "start" => r.cancels = 0 /\ r.attempt = 0
  /\ r.loop # "ended" => ~ r.cancelClosed
  /\ r.loop = "select" => r.attempts # 0 \/ r.worker # "none"
  /\ r.attempts > 0 => r.cancels < r.attempts
  /\ r.worker = "begin" => r.cancels < r.attempt
  /\ r.worker \in {"eval", "result"} => r.cancels <= r.attempt

Reserve == \A i \in Runs : InReserve(runs[i])

\* Nothing that goes on in a run waits for room: its loop has something to take, a
\* worker has room in cancelChan unless that is closed, and attemptChan, which holds
\* one attempt, is empty while a worker may have to put the next one there.
NoneBlocks ==
  \A i \in Runs :
    /\ runs[i].loop = "select" => runs[i].attempts # 0 \/ runs[i].worker # "none"
    /\ runs[i].worker \in {"begin", "result"} => runs[i].cancelClosed \/ CancelFits(i)
    /\ runs[i].worker # "none" => runs[i].attempts = 0

\* A step of a run is looked at in that run.
LEMMA ReserveByRun ==
  ASSUME Reserve, NEW i \in Runs, \A k \in Runs : k # i => runs'[k] = runs[k],
         InReserve(runs'[i])
  PROVE  Reserve'
<1> SUFFICES ASSUME NEW k \in Runs PROVE InReserve(runs'[k])
  BY DEF Reserve
<1> QED
  BY DEF Reserve

\* A run that begins, and the steps of its loop.
LEMMA LoopKeepsReserve ==
  ASSUME TypeOK, Handling, Reserve, NEW i \in Runs, Dispatch(i) \/ Loop(i)
  PROVE  Reserve'
<1>1. runs[i] \in RunRecords /\ HandledSoFar(runs[i], stopping) /\ InReserve(runs[i])
  BY DEF TypeOK, Handling, Reserve
<1>2. InReserve(runs'[i])
  <2>1. CASE Dispatch(i)
    <3>1. /\ runs'[i].loop = "start" /\ runs'[i].worker = "none" /\ runs'[i].attempts = 0
          /\ runs'[i].cancels = 0 /\ runs'[i].attempt = 0 /\ runs'[i].cancelClosed = FALSE
      BY <2>1 DEF Dispatch, NoRun, TypeOK
    <3> QED
      BY <3>1 DEF InReserve
  <2>2. CASE StartRun(i)
    <3>1. /\ runs'[i].loop = "select" /\ runs'[i].attempts = 1 /\ runs[i].loop = "start"
          /\ runs'[i].worker = runs[i].worker /\ runs'[i].cancels = runs[i].cancels
          /\ runs'[i].cancelClosed = runs[i].cancelClosed
      BY <1>1, <2>2 DEF StartRun, TypeOK, RunRecords
    <3> QED
      BY <1>1, <3>1 DEF HandledSoFar, InReserve
  <2>3. CASE TakeAttempt(i)
    <3>1. /\ runs'[i].loop = "select" /\ runs[i].loop = "select"
          /\ runs'[i].attempts = 0 /\ runs[i].attempts > 0
          /\ runs'[i].worker = "begin" /\ runs'[i].attempt = runs[i].attempts
          /\ runs'[i].cancels = runs[i].cancels /\ runs'[i].cancelClosed = runs[i].cancelClosed
      BY <1>1, <2>3 DEF TakeAttempt, TypeOK, RunRecords
    <3> QED
      BY <1>1, <3>1 DEF InReserve
  <2>4. CASE AttemptsClosed(i) \/ GraceEnds(i)
    <3>1. /\ runs'[i].loop = "ended" /\ runs'[i].attempts = runs[i].attempts
          /\ runs'[i].worker = runs[i].worker /\ runs'[i].attempt = runs[i].attempt
          /\ runs'[i].cancels = runs[i].cancels
      BY <1>1, <2>4 DEF AttemptsClosed, GraceEnds, EndJob, TypeOK, RunRecords
    <3> QED
      BY <1>1, <3>1 DEF InReserve
  <2>5. CASE Grace(i)
    <3>1. /\ runs'[i].loop = "grace" /\ runs[i].loop = "select"
          /\ runs'[i].attempts = runs[i].attempts
          /\ runs'[i].worker = runs[i].worker /\ runs'[i].attempt = runs[i].attempt
          /\ runs'[i].cancels = runs[i].cancels /\ runs'[i].cancelClosed = runs[i].cancelClosed
      BY <1>1, <2>5 DEF Grace, TypeOK, RunRecords
    <3> QED
      BY <1>1, <3>1 DEF InReserve
  <2> QED
    BY <2>1, <2>2, <2>3, <2>4, <2>5 DEF Loop
<1> QED
  BY <1>2, OthersKept, ReserveByRun

\* The steps of the worker.
LEMMA WorkerKeepsReserve ==
  ASSUME TypeOK, Handling, Reserve, NEW i \in Runs, Worker(i)
  PROVE  Reserve'
<1>1. runs[i] \in RunRecords /\ HandledSoFar(runs[i], stopping) /\ InReserve(runs[i])
  BY DEF TypeOK, Handling, Reserve
<1>2. /\ runs[i].cancels \in Nat /\ runs[i].attempt \in Nat
      /\ runs[i].worker # "none" /\ runs[i].attempts = 0 /\ runs[i].loop # "start"
  <2>1. runs[i].worker # "none"
    BY DEF Worker, BeginAttempt, RetryAttempt, HasResult, EvalPanics, HandleBegins, HandleEnds
  <2> QED
    BY <1>1, <2>1, EngineAssumption DEF HandledSoFar, RunRecords
<1>3. /\ runs'[i].loop = runs[i].loop /\ runs'[i].cancelClosed = runs[i].cancelClosed
      /\ runs'[i].attempt = runs[i].attempt
  BY <1>1 DEF TypeOK, Worker, BeginAttempt, RetryAttempt, HasResult, EvalPanics, HandleBegins,
     HandleEnds, SetWorker, Panic, RunRecords
<1>4. InReserve(runs'[i])
  <2>1. CASE BeginAttempt(i)
    <3>1. CASE runs[i].cancelClosed
      <4>1. runs'[i].worker = "none" /\ runs'[i].attempts = 0
        BY <1>1, <1>2, <2>1, <3>1 DEF BeginAttempt, SetWorker, TypeOK, RunRecords
      <4> QED
        BY <1>1, <1>2, <1>3, <3>1, <4>1 DEF InReserve
    <3>2. CASE ~ runs[i].cancelClosed
      <4>1. /\ runs'[i].worker = "eval" /\ runs'[i].attempts = 0
            /\ runs'[i].cancels = runs[i].cancels + 1 /\ runs[i].worker = "begin"
        BY <1>1, <1>2, <2>1, <3>2 DEF BeginAttempt, TypeOK, RunRecords
      <4> QED
        BY <1>1, <1>2, <1>3, <4>1 DEF InReserve
    <3> QED
      BY <3>1, <3>2
  <2>2. CASE RetryAttempt(i)
    <3>1. /\ runs'[i].worker = "none" /\ runs'[i].attempts = runs[i].attempt + 1
          /\ runs'[i].cancels = runs[i].cancels /\ runs[i].worker = "eval"
      BY <1>1, <2>2 DEF RetryAttempt, TypeOK, RunRecords
    <3> QED
      BY <1>1, <1>2, <1>3, <3>1 DEF InReserve
  <2>3. CASE HasResult(i)
    <3>1. /\ runs'[i].worker = "result" /\ runs'[i].attempts = 0
          /\ runs'[i].cancels = runs[i].cancels /\ runs[i].worker = "eval"
      BY <1>1, <1>2, <2>3 DEF HasResult, SetWorker, TypeOK, RunRecords
    <3> QED
      BY <1>1, <1>2, <1>3, <3>1 DEF InReserve
  <2>4. CASE HandleBegins(i) /\ ~ runs[i].cancelClosed
    <3>1. runs'[i].worker = "handle" /\ runs'[i].attempts = 0
      BY <1>1, <1>2, <2>4 DEF HandleBegins, TypeOK, RunRecords
    <3> QED
      BY <1>1, <1>2, <1>3, <3>1 DEF InReserve
  <2>5. CASE EvalPanics(i) \/ HandleEnds(i) \/ (HandleBegins(i) /\ runs[i].cancelClosed)
    <3>1. runs'[i].worker = "none" /\ runs'[i].attempts = Closed
      BY <1>1, <2>5 DEF EvalPanics, HandleEnds, HandleBegins, Panic, TypeOK, RunRecords
    <3> QED
      BY <1>1, <1>2, <1>3, <3>1 DEF InReserve, Closed
  <2> QED
    BY <2>1, <2>2, <2>3, <2>4, <2>5 DEF Worker
<1> QED
  BY <1>4, OthersKept, ReserveByRun

\* What every run keeps of its channels.
LEMMA ReserveHolds == Spec => []Reserve
<1>1. Init => Reserve
  BY DEF Init, Reserve, InReserve, NoRun
<1>2. TypeOK /\ Handling /\ Reserve /\ [Next]_vars => Reserve'
  <2> SUFFICES ASSUME TypeOK, Handling, Reserve, [Next]_vars PROVE Reserve'
    OBVIOUS
  <2>1. CASE UNCHANGED runs
    BY <2>1 DEF Reserve
  <2>2. CASE Tick \/ TickerStops \/ DispatcherStops \/ Scan \/ Stop \/ UNCHANGED vars
    BY <2>1, <2>2 DEF Tick, TickerStops, DispatcherStops, Scan, Update, UpdateWithNothing,
       ScanSkips, ScanEnqueues, ScanWaits, Enqueue, Stop, vars
  <2>3. ASSUME NEW i \in Runs, Dispatch(i) \/ Loop(i) \/ Worker(i)
        PROVE  Reserve'
    BY <2>3, LoopKeepsReserve, WorkerKeepsReserve
  <2> QED
    BY <2>2, <2>3 DEF Next
<1> QED
  BY <1>1, <1>2, TypesHold, HandlingHolds, PTL DEF Spec

\* No goroutine of an evaluation waits forever for room in its channels, whatever the
\* number of attempts, the panics and the moment at which the server is stopped.
THEOREM NoGoroutineBlocks == Spec => []NoneBlocks
<1>1. TypeOK /\ Handling /\ Reserve => NoneBlocks
  <2> SUFFICES ASSUME TypeOK, Handling, Reserve, NEW i \in Runs
               PROVE  /\ runs[i].loop = "select" => runs[i].attempts # 0 \/ runs[i].worker # "none"
                      /\ runs[i].worker \in {"begin", "result"} => CancelFits(i)
                      /\ runs[i].worker # "none" => runs[i].attempts = 0
    BY DEF NoneBlocks
  <2>1. /\ InReserve(runs[i]) /\ HandledSoFar(runs[i], stopping)
        /\ runs[i].cancels \in Nat /\ runs[i].attempt \in 0..MaxAttempts
        /\ MaxAttempts \in Nat \ {0}
    BY EngineAssumption DEF TypeOK, Handling, Reserve, RunRecords
  <2>2. runs[i].worker \in {"begin", "result"} => CancelFits(i)
    BY <2>1 DEF InReserve, CancelFits
  <2> QED
    BY <2>1, <2>2 DEF InReserve, HandledSoFar
<1> QED
  BY <1>1, TypesHold, HandlingHolds, ReserveHolds, PTL

\* The number of the attempt a run r is at, 0 before the first one.
AttemptOf(r) == IF r.attempts > 0 THEN r.attempts ELSE r.attempt

\* How far r is in that attempt: the calls of its worker in their order.
Phase(r) ==
  IF r.attempts > 0 THEN 0
  ELSE IF r.worker = "begin" THEN 1
  ELSE IF r.worker = "eval" THEN 2
  ELSE IF r.worker = "result" THEN 3
  ELSE IF r.worker = "handle" THEN 4
  ELSE 5

LoopPhase(r) ==
  IF r.loop = "start" THEN 0
  ELSE IF r.loop = "select" THEN 1
  ELSE IF r.loop = "grace" THEN 2
  ELSE 3

Progress(r) == 9 * AttemptOf(r) + Phase(r) + LoopPhase(r)

\* Each step of a run brings it forward, and there is an end to that: a run takes no
\* more than Progress(r) of its steps before it is over.
Onward ==
  \A i \in Runs :
    Loop(i) \/ Worker(i)
      => Progress(runs'[i]) \in Progress(runs[i]) + 1 .. 9 * MaxAttempts + 8

\* Progress counts steps.
LEMMA ProgressIsBounded ==
  ASSUME NEW r \in RunRecords
  PROVE  /\ AttemptOf(r) \in 0..MaxAttempts /\ Phase(r) \in 0..5 /\ LoopPhase(r) \in 0..3
         /\ Progress(r) \in 0 .. 9 * MaxAttempts + 8
<1>1. MaxAttempts \in Nat \ {0}
  BY EngineAssumption
<1>2. AttemptOf(r) \in 0..MaxAttempts
  BY <1>1 DEF AttemptOf, RunRecords, Closed
<1>3. Phase(r) \in 0..5 /\ LoopPhase(r) \in 0..3
  BY DEF Phase, LoopPhase
<1> QED
  BY <1>1, <1>2, <1>3 DEF Progress

\* A step of the loop.
LEMMA LoopGoesOn ==
  ASSUME TypeOK, Handling, Reserve, NEW i \in Runs, Loop(i)
  PROVE  Progress(runs'[i]) > Progress(runs[i])
<1>1. runs[i] \in RunRecords /\ HandledSoFar(runs[i], stopping) /\ InReserve(runs[i])
  BY DEF TypeOK, Handling, Reserve
<1>2. AttemptOf(runs[i]) \in Int /\ Phase(runs[i]) \in 0..5 /\ LoopPhase(runs[i]) \in Int
  BY <1>1, EngineAssumption, ProgressIsBounded
<1>3. CASE StartRun(i)
  <2>1. /\ runs'[i].loop = "select" /\ runs'[i].attempts = 1 /\ runs[i].loop = "start"
    BY <1>1, <1>3 DEF StartRun, TypeOK, RunRecords
  <2>2. AttemptOf(runs[i]) = 0 /\ LoopPhase(runs[i]) = 0
    BY <1>1, <2>1 DEF HandledSoFar, InReserve, AttemptOf, LoopPhase
  <2>3. AttemptOf(runs'[i]) = 1 /\ Phase(runs'[i]) = 0 /\ LoopPhase(runs'[i]) = 1
    BY <2>1 DEF AttemptOf, Phase, LoopPhase
  <2> QED
    BY <1>2, <2>2, <2>3 DEF Progress
<1>4. CASE TakeAttempt(i)
  <2>1. /\ runs[i].attempts > 0 /\ runs'[i].attempts = 0
        /\ runs'[i].worker = "begin" /\ runs'[i].attempt = runs[i].attempts
        /\ runs'[i].loop = runs[i].loop
    BY <1>1, <1>4 DEF TakeAttempt, TypeOK, RunRecords
  <2>2. AttemptOf(runs'[i]) = AttemptOf(runs[i]) /\ LoopPhase(runs'[i]) = LoopPhase(runs[i])
    BY <2>1 DEF AttemptOf, LoopPhase
  <2>3. Phase(runs[i]) = 0 /\ Phase(runs'[i]) = 1
    BY <2>1 DEF Phase
  <2> QED
    BY <1>2, <2>2, <2>3 DEF Progress
<1>5. CASE AttemptsClosed(i) \/ Grace(i) \/ GraceEnds(i)
  <2>1. /\ runs'[i].attempts = runs[i].attempts /\ runs'[i].worker = runs[i].worker
        /\ runs'[i].attempt = runs[i].attempt
        /\ \/ runs[i].loop \in {"select", "grace"} /\ runs'[i].loop = "ended"
           \/ runs[i].loop = "select" /\ runs'[i].loop = "grace"
    BY <1>1, <1>5 DEF AttemptsClosed, Grace, GraceEnds, EndJob, TypeOK, RunRecords
  <2>2. AttemptOf(runs'[i]) = AttemptOf(runs[i]) /\ Phase(runs'[i]) = Phase(runs[i])
    BY <2>1 DEF AttemptOf, Phase
  <2>3. LoopPhase(runs'[i]) > LoopPhase(runs[i]) /\ LoopPhase(runs'[i]) \in Int
    BY <2>1 DEF LoopPhase
  <2> QED
    BY <1>2, <2>2, <2>3 DEF Progress
<1> QED
  BY <1>3, <1>4, <1>5 DEF Loop

\* A step of the worker.
LEMMA WorkerGoesOn ==
  ASSUME TypeOK, Handling, NEW i \in Runs, Worker(i)
  PROVE  Progress(runs'[i]) > Progress(runs[i])
<1>1. runs[i] \in RunRecords /\ HandledSoFar(runs[i], stopping)
  BY DEF TypeOK, Handling
<1>2. /\ AttemptOf(runs[i]) = runs[i].attempt /\ runs[i].attempt \in Nat
      /\ LoopPhase(runs'[i]) = LoopPhase(runs[i]) /\ LoopPhase(runs[i]) \in Int
      /\ runs[i].attempts = 0 /\ runs'[i].attempt = runs[i].attempt
  <2>1. runs[i].worker # "none"
    BY DEF Worker, BeginAttempt, RetryAttempt, HasResult, EvalPanics, HandleBegins, HandleEnds
  <2>2. runs[i].attempts = 0
    BY <1>1, <2>1 DEF HandledSoFar
  <2>3. runs[i].attempt \in Nat
    BY <1>1, EngineAssumption DEF RunRecords
  <2>4. runs'[i].loop = runs[i].loop /\ runs'[i].attempt = runs[i].attempt
    BY <1>1 DEF TypeOK, Worker, BeginAttempt, RetryAttempt, HasResult, EvalPanics, HandleBegins,
       HandleEnds, SetWorker, Panic, RunRecords
  <2> QED
    BY <2>2, <2>3, <2>4 DEF AttemptOf, LoopPhase
<1>3. CASE RetryAttempt(i)
  <2>1. runs'[i].attempts = runs[i].attempt + 1 /\ runs[i].worker = "eval"
    BY <1>1, <1>3 DEF RetryAttempt, TypeOK, RunRecords
  <2>2. AttemptOf(runs'[i]) = runs[i].attempt + 1 /\ Phase(runs'[i]) = 0 /\ Phase(runs[i]) = 2
    BY <1>2, <2>1 DEF AttemptOf, Phase
  <2> QED
    BY <1>2, <2>2 DEF Progress
<1>4. CASE ~ RetryAttempt(i)
  <2>1. runs'[i].attempts \in {0, Closed}
    BY <1>1, <1>2, <1>4 DEF Worker, BeginAttempt, HasResult, EvalPanics, HandleBegins, HandleEnds,
       SetWorker, Panic, TypeOK, RunRecords
  <2>2. AttemptOf(runs'[i]) = runs[i].attempt
    BY <1>2, <2>1 DEF AttemptOf, Closed
  <2>3. \/ runs[i].worker = "begin" /\ runs'[i].worker \in {"eval", "none"}
        \/ runs[i].worker = "eval" /\ runs'[i].worker \in {"result", "none"}
        \/ runs[i].worker = "result" /\ runs'[i].worker \in {"handle", "none"}
        \/ runs[i].worker = "handle" /\ runs'[i].worker = "none"
    BY <1>1, <1>4 DEF Worker, BeginAttempt, HasResult, EvalPanics, HandleBegins, HandleEnds,
       SetWorker, Panic, TypeOK, RunRecords
  <2>4. Phase(runs'[i]) > Phase(runs[i]) /\ Phase(runs'[i]) \in Int /\ Phase(runs[i]) \in Int
    BY <1>2, <2>1, <2>3 DEF Phase, Closed
  <2> QED
    BY <1>2, <2>2, <2>4 DEF Progress
<1> QED
  BY <1>3, <1>4

\* An evaluation takes a bounded number of steps, of its loop and its workers together,
\* whatever fails and however often: with NoGoroutineBlocks, which says that there is
\* always one to take, and goroutines that run, it ends.
THEOREM EvaluationsGoForward == Spec => [][Onward]_vars
<1>1. TypeOK /\ TypeOK' /\ Handling /\ Reserve /\ [Next]_vars => [Onward]_vars
  <2> SUFFICES ASSUME TypeOK, TypeOK', Handling, Reserve, NEW i \in Runs, Loop(i) \/ Worker(i)
               PROVE  Progress(runs'[i]) \in Progress(runs[i]) + 1 .. 9 * MaxAttempts + 8
    BY DEF Onward
  <2>1. runs[i] \in RunRecords /\ runs'[i] \in RunRecords
    <3>1. runs \in [Runs -> RunRecords] /\ runs' \in [Runs -> RunRecords]
      BY DEF TypeOK, RunRecords, JobRecords, Closed
    <3> QED
      BY <3>1
  <2>2. /\ Progress(runs[i]) \in 0 .. 9 * MaxAttempts + 8
        /\ Progress(runs'[i]) \in 0 .. 9 * MaxAttempts + 8
    BY <2>1, ProgressIsBounded
  <2>3. Progress(runs'[i]) > Progress(runs[i])
    BY LoopGoesOn, WorkerGoesOn
  <2> QED
    BY <2>2, <2>3, EngineAssumption
<1> QED
  BY <1>1, TypesHold, HandlingHolds, ReserveHolds, PTL DEF Spec

=============================================================================
