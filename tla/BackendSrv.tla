----------------------------- MODULE BackendSrv -----------------------------
(***************************************************************************)
(* The requests of the front end: backend_srv.ts with FetchQueue, Fetch-   *)
(* QueueWorker and ResponseQueue.  A request waits in the queue until the  *)
(* worker starts it, api requests at once and requests for data up to      *)
(* MaxParallel; a request that carries the requestId of one under way      *)
(* cancels it.  Everything runs on one thread: an event (a call, an        *)
(* answer) runs until the worker is at rest again, and what one subject    *)
(* calls in the other is a step of its own here.                           *)
(***************************************************************************)
EXTENDS Naturals, FiniteSets, Sequences, SequencesExt

CONSTANTS
  Requests,      \* the calls of BackendSrv.fetch
  DataRequests,  \* those whose url isDataQuery
  RequestId,     \* the requestId of each, NoId where it has none
  NoId,
  Retriable,     \* those of a local url by a user who is signed in
  Groups,        \* the sets of requests one caller may wait for with forkJoin
  MaxParallel    \* maxParallelRequests

ASSUME RequestsAssumption ==
  /\ IsFiniteSet(Requests)
  /\ DataRequests \subseteq Requests
  /\ Retriable \subseteq Requests
  /\ MaxParallel \in Nat \ {0}

VARIABLES
  pending,     \* the entries of FetchQueue.state that are Pending, in their order
  inProgress,  \* those that are InProgress
  updates,     \* what concatMap buffers: noOfInProgress when it was published
  emitting,    \* what the list of the update under way still has to start
  starting,    \* the entry whose fetch(options) is being called
  superseded,  \* the streams that entry cancels
  dropped,     \* the streams the present event ends
  stream,      \* what became of the observable of each entry
  outcome,     \* what its caller got
  together     \* the sets of requests that have one caller

queue == <<pending, inProgress, updates>>
worker == <<emitting, starting>>
vars == <<queue, worker, superseded, dropped, stream, outcome, together>>

\* A request, and the ping of the login that its 401 may call for.
Own(r) == <<r, "own">>
Ping(r) == <<r, "ping">>
Ids == {Own(r) : r \in Requests} \cup {Ping(r) : r \in Retriable}
None == <<>>

IsDataQuery(i) == i[2] = "own" /\ i[1] \in DataRequests
DataIds == {i \in Ids : IsDataQuery(i)}
SameRequestId(i, j) ==
  /\ i[2] = "own" /\ j[2] = "own"
  /\ RequestId[i[1]] # NoId
  /\ RequestId[i[1]] = RequestId[j[1]]

\* The streams that listen to inFlightRequests.
InFlight == {i \in Ids : stream[i] \in {"fetching", "pinging", "refetching"}}

\* The requests whose caller gives up when that of i does.
Siblings(i) == {j \in Ids \ {i} : /\ j[2] = "own" /\ i[2] = "own"
                                  /\ outcome[j] = "waiting"
                                  /\ \E g \in together : {i[1], j[1]} \subseteq g}

\* Nothing of the event before is left to do.
WorkerRests == emitting = <<>> /\ updates = <<>> /\ starting = None
AtRest == WorkerRests /\ superseded = {} /\ dropped = {}

TypeOK ==
  /\ pending \in Seq(Ids) /\ IsInjective(pending)
  /\ inProgress \subseteq Ids \ ToSet(pending)
  /\ updates \in Seq(Nat)
  /\ emitting \in Seq(Ids)
  /\ starting \in Ids \cup {None}
  /\ superseded \subseteq Ids /\ dropped \subseteq Ids
  /\ stream \in [Ids -> {"none", "queued", "fetching", "pinging", "refetching", "ended"}]
  /\ outcome \in [Ids -> {"none", "waiting", "ok", "failed", "unauthorized", "cancelled", "left"}]
  /\ together \subseteq Groups

Init ==
  /\ pending = <<>> /\ inProgress = {} /\ updates = <<>>
  /\ emitting = <<>> /\ starting = None
  /\ superseded = {} /\ dropped = {}
  /\ stream = [i \in Ids |-> "none"]
  /\ outcome = [i \in Ids |-> "none"]
  /\ together \in {{}, Groups}

-----------------------------------------------------------------------------
(* The queue                                                               *)

\* The entries of s that are in S, in their order.
Nth(ks, n) == CHOOSE k \in ks : Cardinality({j \in ks : j <= k}) = n
Among(s, S) ==
  LET ks == {k \in DOMAIN s : s[k] \in S}
  IN  [n \in 1..Cardinality(ks) |-> s[Nth(ks, n)]]

Without(i) == Among(pending, Ids \ {i})

\* The new state of the queue, and the update it publishes; the worker's
\* filter drops one with nothing pending.
Publish(p, g) ==
  /\ pending' = p
  /\ inProgress' = g
  /\ updates' = IF p # <<>> THEN Append(updates, Cardinality(g)) ELSE updates

Add(i) == Publish(Append(pending, i), inProgress)

\* A variant that publishes the count of before.
SetInProgressUncounted(i) ==
  /\ pending' = Without(i)
  /\ inProgress' = inProgress \cup {i}
  /\ updates' = IF pending' # <<>> THEN Append(updates, Cardinality(inProgress)) ELSE updates

\* An entry that was deleted in the meantime is made again.
SetInProgress(i) == Publish(Without(i), inProgress \cup {i})

\* A variant that tells nobody.
SetDoneSilently(i) ==
  /\ pending' = Without(i)
  /\ inProgress' = inProgress \ {i}
  /\ UNCHANGED updates

SetDone(i) == Publish(Without(i), inProgress \ {i})

-----------------------------------------------------------------------------
(* The worker                                                              *)

\* How many requests for data may start, n being in progress.
Allowed(n, apis) == IF n + apis < MaxParallel THEN MaxParallel - n - apis ELSE 0

\* What an update starts: its count of entries in progress is of the moment
\* it was published, the pending entries are those of now.
TakeUpdate ==
  /\ emitting = <<>> /\ starting = None /\ updates # <<>>
  /\ LET apis == Among(pending, Ids \ DataIds)
         data == Among(pending, DataIds)
         n    == Allowed(Head(updates), Len(apis))
     IN  emitting' = apis \o SubSeq(data, 1, IF n < Len(data) THEN n ELSE Len(data))
  /\ updates' = Tail(updates)
  /\ UNCHANGED <<pending, inProgress, starting, superseded, dropped, stream, outcome, together>>

\* inFlightRequests.next(requestId)
Supersedes(i) == {j \in InFlight \ {i} : SameRequestId(i, j)}

\* The callers of these get an error, those who waited for more leave the rest.
GiveUp(cancelled, left) ==
  outcome' = [i \in Ids |-> IF outcome[i] # "waiting" THEN outcome[i]
                            ELSE IF i \in cancelled THEN "cancelled"
                            ELSE IF i \in left THEN "left" ELSE outcome[i]]

\* ResponseQueue: the entry is in progress, and its fetch(options) is called.
Start ==
  /\ starting = None /\ emitting # <<>>
  /\ LET i    == Head(emitting)
         olds == Supersedes(i)
         left == UNION {Siblings(j) : j \in olds}
     IN  /\ SetInProgress(i)
         /\ starting' = i
         /\ superseded' = olds \cup left
         /\ GiveUp(olds, left)
  /\ emitting' = Tail(emitting)
  /\ UNCHANGED <<dropped, stream, together>>

\* The observable goes to whoever still waits for this id; when nobody does,
\* the entry that was made again stays.
Subscribe ==
  /\ starting # None /\ superseded = {}
  /\ stream' = [stream EXCEPT ![starting] = IF @ = "queued" THEN "fetching" ELSE @]
  /\ starting' = None
  /\ UNCHANGED <<queue, emitting, superseded, dropped, outcome, together>>

\* A variant that takes only what was started off the queue.
TearDownStarted(i) ==
  /\ i \in superseded \/ (i \in dropped /\ superseded = {} /\ WorkerRests)
  /\ stream' = [stream EXCEPT ![i] = "ended"]
  /\ IF i \in inProgress THEN SetDone(i) ELSE UNCHANGED queue
  /\ superseded' = superseded \ {i}
  /\ dropped' = dropped \ {i}
  /\ UNCHANGED <<worker, outcome, together>>

\* The teardown of one observable: what the request being started ends comes
\* first, what the event ends when the worker is through with the last one.
TearDown(i) ==
  /\ i \in superseded \/ (i \in dropped /\ superseded = {} /\ WorkerRests)
  /\ stream' = [stream EXCEPT ![i] = "ended"]
  /\ SetDone(i)
  /\ superseded' = superseded \ {i}
  /\ dropped' = dropped \ {i}
  /\ UNCHANGED <<worker, outcome, together>>

-----------------------------------------------------------------------------
(* The events                                                              *)

\* BackendSrv.fetch is subscribed to.
Fetch(r) ==
  /\ AtRest
  /\ stream[Own(r)] = "none"
  /\ stream' = [stream EXCEPT ![Own(r)] = "queued"]
  /\ outcome' = [outcome EXCEPT ![Own(r)] = "waiting"]
  /\ Add(Own(r))
  /\ UNCHANGED <<worker, superseded, dropped, together>>

\* The caller of i gets this and its observable ends.
Settle(i, result) ==
  /\ LET left == IF result = "ok" THEN {} ELSE Siblings(i)
     IN  /\ outcome' = [j \in Ids |-> IF j = i THEN result
                                      ELSE IF j \in left THEN "left" ELSE outcome[j]]
         /\ dropped' = left
  /\ stream' = [stream EXCEPT ![i] = "ended"]
  /\ SetDone(i)
  /\ UNCHANGED <<worker, superseded, together>>

\* The request is answered.  The stream that retries looks for answers that
\* are not ok only, and the one for those that are completed at the first
\* answer: a second request that is answered ok ends with nothing, which
\* handleStreamCancellation takes for a cancellation.
AnswerOk(i) ==
  /\ AtRest
  /\ stream[i] \in {"fetching", "refetching"}
  /\ Settle(i, IF stream[i] = "fetching" THEN "ok" ELSE "cancelled")

\* It is answered with another error than 401, or not reached.
AnswerError(i) ==
  /\ AtRest
  /\ stream[i] \in {"fetching", "refetching"}
  /\ Settle(i, "failed")

\* It is answered 401, and the session is tried; the ping is a request of its own.
AnswerUnauthorized(i) ==
  /\ AtRest
  /\ stream[i] \in {"fetching", "refetching"}
  /\ IF stream[i] = "fetching" /\ i[2] = "own" /\ i[1] \in Retriable
       THEN LET ping == Ping(i[1])
            IN  /\ stream' = [stream EXCEPT ![i] = "pinging", ![ping] = "queued"]
                /\ outcome' = [outcome EXCEPT ![ping] = "waiting"]
                /\ Add(ping)
                /\ UNCHANGED <<worker, superseded, dropped, together>>
       ELSE Settle(i, "unauthorized")

\* A variant that takes no cancellation of the ping for an answer.
PingSettledUncancelled(r) ==
  /\ AtRest
  /\ stream[Own(r)] = "pinging"
  /\ \/ /\ outcome[Ping(r)] = "ok"
        /\ stream' = [stream EXCEPT ![Own(r)] = "refetching"]
        /\ UNCHANGED <<queue, worker, superseded, dropped, outcome, together>>
     \/ /\ outcome[Ping(r)] = "failed"
        /\ Settle(Own(r), outcome[Ping(r)])

\* The promise of the ping: the request is made again, outside of the queue,
\* or fails with the error of the ping.
PingSettled(r) ==
  /\ AtRest
  /\ stream[Own(r)] = "pinging"
  /\ \/ /\ outcome[Ping(r)] = "ok"
        /\ stream' = [stream EXCEPT ![Own(r)] = "refetching"]
        /\ UNCHANGED <<queue, worker, superseded, dropped, outcome, together>>
     \/ /\ outcome[Ping(r)] \in {"failed", "unauthorized", "cancelled"}
        /\ Settle(Own(r), outcome[Ping(r)])

\* The caller unsubscribes: from all it waits for.
Leave(r) ==
  /\ AtRest
  /\ outcome[Own(r)] = "waiting"
  /\ dropped' = {Own(r)} \cup Siblings(Own(r))
  /\ GiveUp({}, dropped')
  /\ UNCHANGED <<queue, worker, superseded, stream, together>>

\* These are cancelled: inFlightRequests has a value for them.
Cancel(olds) ==
  /\ AtRest
  /\ olds # {}
  /\ LET left == UNION {Siblings(j) : j \in olds}
     IN  /\ dropped' = olds \cup left
         /\ GiveUp(olds, left)
  /\ UNCHANGED <<queue, worker, superseded, stream, together>>

\* cancelAllInFlightRequests, when the user leaves a page.
CancelAllInFlightRequests == Cancel(InFlight)

\* resolveCancelerIfExists, when the query with this requestId is given up.
ResolveCancelerIfExists(id) == Cancel({i \in InFlight : i[2] = "own" /\ RequestId[i[1]] = id})

Answer(i) == AnswerOk(i) \/ AnswerError(i) \/ AnswerUnauthorized(i)

\* Every request was made and has its answer.
AllSettled ==
  /\ AtRest
  /\ \A r \in Requests : outcome[Own(r)] \notin {"none", "waiting"}
  /\ UNCHANGED vars

Work == TakeUpdate \/ Start \/ Subscribe \/ \E i \in Ids : TearDown(i)

Next ==
  \/ Work
  \/ \E i \in Ids : Answer(i)
  \/ \E r \in Requests : Fetch(r) \/ Leave(r)
  \/ \E r \in Retriable : PingSettled(r)
  \/ CancelAllInFlightRequests
  \/ \E r \in Requests : RequestId[r] # NoId /\ ResolveCancelerIfExists(RequestId[r])
  \/ AllSettled

\* The thread goes on, and the server answers what it was asked.
Fairness ==
  /\ WF_vars(Work)
  /\ \A i \in Ids : WF_vars(Answer(i))
  /\ \A r \in Retriable : WF_vars(PingSettled(r))

Spec == Init /\ [][Next]_vars /\ Fairness

-----------------------------------------------------------------------------
(* Properties                                                              *)

\* FetchQueueWorker starts no request for data above the limit, whatever was
\* cancelled, answered or abandoned while it worked, as long as no caller
\* waits for several (see the README for what happens then).
DataLimit ==
  together = {} => Cardinality(inProgress \cap DataIds) <= MaxParallel

\* No wake-up is lost: when the worker is through, no call of the api is left
\* waiting, and requests for data wait only while all places are taken.
NoIdlePlace ==
  AtRest => /\ \A k \in DOMAIN pending : IsDataQuery(pending[k])
            /\ pending # <<>> => Cardinality(inProgress) >= MaxParallel

\* A place in progress belongs to a caller that still waits: abandoned and
\* cancelled requests give theirs back, under the same condition.
PlacesAreHeld ==
  together = {} /\ AtRest =>
    \A i \in inProgress : outcome[i] = "waiting" /\ i \in InFlight

\* The places of entries that were made again after their observable had ended.
\* Nobody takes these off the queue (see the README for how they come about).
LostPlaces == {i \in inProgress : stream[i] = "ended"}

\* Every caller gets an answer, an error or the cancellation in the end: also
\* those who wait for several, unless they have cost the queue all its places.
EverySettles ==
  \A i \in Ids :
    outcome[i] = "waiting" ~> outcome[i] # "waiting" \/ Cardinality(LostPlaces) >= MaxParallel
=============================================================================
