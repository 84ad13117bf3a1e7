--------------------------- MODULE SqlTransaction ---------------------------
(***************************************************************************)
(* Transactions of the SQL store (pkg/services/sqlstore/transactions.go    *)
(* and session.go).  SQLStore.InTransaction begins a transaction, puts its *)
(* session into the context and calls a function, the body; the calls that *)
(* the body makes find the session there and use it, each in the way of    *)
(* the helper it was written with:                                         *)
(*                                                                         *)
(*   "plain"    withDbSession: the session is used and left as it is;      *)
(*   "closing"  SQLStore.WithDbSession: it is closed when the call returns;*)
(*   "nested"   inTransactionWithRetryCtx: it is committed or rolled back, *)
(*              and closed, as if the call had begun it.                   *)
(*                                                                         *)
(* One call of InTransaction is followed, with errors at every statement,  *)
(* rollback and commit, retries at both levels, and a crash at any time.   *)
(***************************************************************************)
EXTENDS Integers, Sequences, SequencesExt

CONSTANTS
  Bodies,    \* the bodies that occur: the calls they make, one after the other
  Errors,    \* the errors of a statement that occur: "locked", "busy", "other"
  MaxRetry,  \* a locked database is tried again so many times
  Crashes,   \* the server may stop
  Restarts   \* bound: InTransaction is called again so many times after a failure

Call == [how : {"plain", "closing", "nested"},
         writes : Nat,           \* the statements that change the database
         finds : SUBSET Nat,     \* those that are left out when they find the row
         events : SUBSET Nat,    \* those that are followed by publishAfterCommit
         opaque : BOOLEAN,       \* the body hides the kind of the error
         until : SUBSET (Nat \X Nat)]  \* the body returns when it has seen one of these

ASSUME BodyAssumption ==
  /\ Bodies \subseteq Seq(Call)
  /\ Errors \subseteq {"locked", "busy", "other"}
  /\ MaxRetry \in Nat
  /\ Crashes \in BOOLEAN
  /\ Restarts \in Nat

VARIABLES
  body,       \* the body that InTransaction was given
  pc,         \* "begin", "call", "run", "leave", "end", "publish", "done"
  call,       \* the call of the body that is made
  step,       \* its next statement
  cur,        \* the session it uses: the one of the context, or its own
  sess,       \* the two sessions
  err,        \* the error that is being returned
  retry,      \* retry of InTransaction, not counted beyond MaxRetry
  inner,      \* retry of the nested call, likewise
  db,         \* what is in the database
  sent,       \* how many events of cur were published since its commit
  published,  \* the events given to the bus
  result,     \* what InTransaction returned
  restarts    \* how many times it was called again

vars == <<body, pc, call, step, cur, sess, err, retry, inner, db, sent, published, result,
          restarts>>

Statements == UNION {{<<c, i>> : i \in 1..body[c].writes} : c \in DOMAIN body}

\* A variant: the session that is started has no transaction.
NewTransactionNone == [tx |-> FALSE, writes |-> {}, events |-> <<>>]

\* A session in a transaction collects writes; without one every write is
\* committed by itself.
NewTransaction == [tx |-> TRUE, writes |-> {}, events |-> <<>>]
NoSession == [tx |-> FALSE, writes |-> {}, events |-> <<>>]

Init ==
  /\ body \in Bodies
  /\ pc = "begin"
  /\ call = 1 /\ step = 1
  /\ cur = "shared"
  /\ sess = [k \in {"shared", "own"} |-> NoSession]
  /\ err = "none"
  /\ retry = 0 /\ inner = 0
  /\ db = {}
  /\ sent = 0
  /\ published = <<>>
  /\ result = "none"
  /\ restarts = 0

-----------------------------------------------------------------------------
(***************************************************************************)
(* The sessions of the ORM.  Rollback and Close forget the open            *)
(* transaction, if there is one; the session can still be used, and        *)
(* commits every statement by itself from then on.                         *)
(***************************************************************************)
Released(s) == [s EXCEPT !.tx = FALSE, !.writes = {}]

\* COMMIT; what the calls left to be published is published after it.
Commit(k) ==
  /\ db' = db \cup sess[k].writes
  /\ sess' = [sess EXCEPT ![k] = Released(@)]
  /\ sent' = 0
  /\ pc' = "publish"

\* The condition of the retry: && binds stronger than ||.
Retryable(e, n) == (e = "locked" /\ n < MaxRetry) \/ e = "busy"

\* One more retry: beyond MaxRetry their number makes no difference.
OneMore(n) == IF n < MaxRetry THEN n + 1 ELSE n

\* The ROLLBACK of an open transaction fails; closing its session rolls it back.
RollbackFails(k) == sess[k].tx /\ "other" \in Errors

-----------------------------------------------------------------------------
\* A variant that keeps the session of the attempt before.
BeginAgain ==
  /\ pc = "begin"
  /\ sess' = [sess EXCEPT !.shared = [@ EXCEPT !.tx = TRUE]]
  /\ pc' = "call"
  /\ call' = 1
  /\ UNCHANGED <<body, step, cur, err, retry, inner, db, sent, published, result, restarts>>

\* startSession of InTransaction, at first and after a rollback.
Begin ==
  /\ pc = "begin"
  /\ sess' = [sess EXCEPT !.shared = NewTransaction]
  /\ pc' = "call"
  /\ call' = 1
  /\ UNCHANGED <<body, step, cur, err, retry, inner, db, sent, published, result, restarts>>

BeginFails ==
  /\ pc = "begin"
  /\ "other" \in Errors
  /\ pc' = "done"
  /\ result' = "error"
  /\ UNCHANGED <<body, call, step, cur, sess, err, retry, inner, db, sent, published, restarts>>

\* The body makes its next call; startSession finds the session in the context.
MakeCall ==
  /\ pc = "call"
  /\ call <= Len(body)
  /\ pc' = "run"
  /\ step' = 1 /\ cur' = "shared" /\ inner' = 0
  /\ UNCHANGED <<body, call, sess, err, retry, db, sent, published, result, restarts>>

BodyReturns ==
  /\ pc = "call"
  /\ call > Len(body)
  /\ pc' = "end"
  /\ UNCHANGED <<body, call, step, cur, sess, err, retry, inner, db, sent, published, result, restarts>>

\* An earlier attempt, outside of a transaction, has written the same row.
Found == <<call, step>> \in db

\* A statement of the call, and its publishAfterCommit.
Execute ==
  /\ pc = "run"
  /\ step <= body[call].writes
  /\ ~ Found
  /\ LET w == <<call, step>>
         s == sess[cur]
     IN  /\ sess' = [sess EXCEPT
              ![cur].writes = IF s.tx THEN @ \cup {w} ELSE @,
              ![cur].events = IF step \in body[call].events THEN Append(@, w) ELSE @]
         /\ db' = IF s.tx THEN db ELSE db \cup {w}
  /\ step' = step + 1
  /\ UNCHANGED <<body, pc, call, cur, err, retry, inner, sent, published, result, restarts>>

\* getOrCreateOrg: the row is used as it is.
SkipFound ==
  /\ pc = "run"
  /\ step \in body[call].finds
  /\ Found
  /\ step' = step + 1
  /\ UNCHANGED <<body, pc, call, cur, sess, err, retry, inner, db, sent, published, result, restarts>>

\* ErrUserAlreadyExists, a unique index.
FailFound ==
  /\ pc = "run"
  /\ step <= body[call].writes
  /\ step \notin body[call].finds
  /\ Found
  /\ err' = "other"
  /\ pc' = "leave"
  /\ UNCHANGED <<body, call, step, cur, sess, retry, inner, db, sent, published, result, restarts>>

\* A statement fails, one that writes or one that reads.
Fail ==
  /\ pc = "run"
  /\ err' \in Errors
  /\ pc' = "leave"
  /\ UNCHANGED <<body, call, step, cur, sess, retry, inner, db, sent, published, result, restarts>>

Returns ==
  /\ pc = "run"
  /\ step > body[call].writes
  /\ pc' = "leave"
  /\ UNCHANGED <<body, call, step, cur, sess, err, retry, inner, db, sent, published, result, restarts>>

\* A variant that forgets to look at the error.
ProceedAnyway(e) ==
  /\ pc' = "call"
  /\ call' = call + 1
  /\ err' = "none"

\* The callback of the call has returned: on with the body, or out of it.
Proceed(e) ==
  IF e = "none"
    THEN /\ pc' = "call"
         /\ call' = IF body[call].until \cap db # {} THEN Len(body) + 1 ELSE call + 1
         /\ err' = "none"
    ELSE /\ pc' = "end" /\ UNCHANGED call
         /\ err' = IF body[call].opaque THEN "other" ELSE e

\* withDbSession, WithDbSession.
LeaveSession ==
  /\ pc = "leave"
  /\ body[call].how # "nested"
  /\ sess' = IF body[call].how = "closing" THEN [sess EXCEPT !.shared = Released(@)]
                                           ELSE sess
  /\ Proceed(err)
  /\ UNCHANGED <<body, step, cur, retry, inner, db, sent, published, result, restarts>>

\* inTransactionWithRetryCtx in the body, on an error that is tried again: what the
\* session of the context holds is rolled back; the retry has a new session.
NestedRetry ==
  /\ pc = "leave"
  /\ body[call].how = "nested"
  /\ Retryable(err, inner)
  /\ sess' = [sess EXCEPT ![cur] = Released(@), !.own = NewTransaction]
  /\ cur' = "own"
  /\ inner' = OneMore(inner)
  /\ err' = "none"
  /\ step' = 1
  /\ pc' = "run"
  /\ UNCHANGED <<body, call, retry, db, sent, published, result, restarts>>

\* On another error, or when the rollback fails.
NestedFails ==
  /\ pc = "leave"
  /\ body[call].how = "nested"
  /\ err # "none"
  /\ Retryable(err, inner) => RollbackFails(cur)
  /\ sess' = [sess EXCEPT ![cur] = Released(@)]
  /\ Proceed(err)
  /\ UNCHANGED <<body, step, cur, retry, inner, db, sent, published, result, restarts>>

\* And without: it commits.
NestedCommits ==
  /\ pc = "leave"
  /\ body[call].how = "nested"
  /\ err = "none"
  /\ Commit(cur)
  /\ UNCHANGED <<body, call, step, cur, err, retry, inner, published, result, restarts>>

\* The COMMIT of an open transaction fails.
NestedCommitFails ==
  /\ pc = "leave"
  /\ body[call].how = "nested"
  /\ err = "none"
  /\ sess[cur].tx /\ "other" \in Errors
  /\ sess' = [sess EXCEPT ![cur] = Released(@)]
  /\ Proceed("other")
  /\ UNCHANGED <<body, step, cur, retry, inner, db, sent, published, result, restarts>>

\* After a commit, the next event of its session; one that was published before by a
\* commit of the same session is published again.  Listeners that fail are logged.
Publish ==
  /\ pc = "publish"
  /\ sent < Len(sess[cur].events)
  /\ published' = Append(published, sess[cur].events[sent + 1])
  /\ sent' = sent + 1
  /\ UNCHANGED <<body, pc, call, step, cur, sess, err, retry, inner, db, result, restarts>>

AllPublished == pc = "publish" /\ sent = Len(sess[cur].events)

\* inTransactionWithRetryCtx in the body returns; its session is closed already.
NestedReturns ==
  /\ AllPublished
  /\ call <= Len(body)
  /\ Proceed("none")
  /\ UNCHANGED <<body, step, cur, sess, retry, inner, db, sent, published, result, restarts>>

\* A variant that does not count.
RetryUncounted ==
  /\ pc = "end"
  /\ Retryable(err, retry)
  /\ sess' = [sess EXCEPT !.shared = Released(@)]
  /\ err' = "none"
  /\ pc' = "begin"
  /\ UNCHANGED <<body, call, step, cur, retry, inner, db, sent, published, result, restarts>>

\* The end of InTransaction, in the same four ways.
Retry ==
  /\ pc = "end"
  /\ Retryable(err, retry)
  /\ sess' = [sess EXCEPT !.shared = Released(@)]
  /\ retry' = OneMore(retry)
  /\ err' = "none"
  /\ pc' = "begin"
  /\ UNCHANGED <<body, call, step, cur, inner, db, sent, published, result, restarts>>

Finish(r) == pc' = "done" /\ result' = r

Fails ==
  /\ pc = "end"
  /\ err # "none"
  /\ Retryable(err, retry) => RollbackFails("shared")
  /\ sess' = [sess EXCEPT !.shared = Released(@)]
  /\ Finish("error")
  /\ UNCHANGED <<body, call, step, cur, err, retry, inner, db, sent, published, restarts>>

Commits ==
  /\ pc = "end"
  /\ err = "none"
  /\ Commit("shared")
  /\ cur' = "shared"
  /\ UNCHANGED <<body, call, step, err, retry, inner, published, result, restarts>>

\* It returns.
Succeeds ==
  /\ AllPublished
  /\ call > Len(body)
  /\ Finish("ok")
  /\ UNCHANGED <<body, call, step, cur, sess, err, retry, inner, db, sent, published, restarts>>

CommitFails ==
  /\ pc = "end"
  /\ err = "none"
  /\ sess.shared.tx /\ "other" \in Errors
  /\ sess' = [sess EXCEPT !.shared = Released(@)]
  /\ Finish("error")
  /\ UNCHANGED <<body, call, step, cur, err, retry, inner, db, sent, published, restarts>>

Crash ==
  /\ Crashes
  /\ pc # "done"
  /\ sess' = [k \in {"shared", "own"} |-> NoSession]
  /\ Finish("crashed")
  /\ UNCHANGED <<body, call, step, cur, err, retry, inner, db, sent, published, restarts>>

\* The server is started again after the failure, and makes the call again.
Restart ==
  /\ pc = "done"
  /\ result # "ok"
  /\ restarts < Restarts
  /\ restarts' = restarts + 1
  /\ pc' = "begin"
  /\ call' = 1 /\ step' = 1 /\ cur' = "shared"
  /\ sess' = [k \in {"shared", "own"} |-> NoSession]
  /\ err' = "none" /\ retry' = 0 /\ inner' = 0
  /\ sent' = 0
  /\ published' = <<>>
  /\ result' = "none"
  /\ UNCHANGED <<body, db>>

Step ==
  \/ Begin \/ BeginFails
  \/ MakeCall \/ BodyReturns
  \/ Execute \/ SkipFound \/ FailFound \/ Fail \/ Returns
  \/ LeaveSession
  \/ NestedRetry \/ NestedFails \/ NestedCommits \/ NestedCommitFails
  \/ Publish \/ NestedReturns \/ Succeeds
  \/ Retry \/ Fails \/ Commits \/ CommitFails

Next == Step \/ Crash \/ Restart

Spec == Init /\ [][Next]_vars

\* The goroutine runs, and the database answers or fails.
FairSpec == Spec /\ WF_vars(Step)

-----------------------------------------------------------------------------
Sessions == [tx : BOOLEAN, writes : SUBSET Statements, events : Seq(Statements)]

\* What the sessions collect are statements of the body, in whatever order calls fail.
TypeOK ==
  /\ pc \in {"begin", "call", "run", "leave", "end", "publish", "done"}
  /\ call \in 1..Len(body) + 1
  /\ step \in Nat
  /\ cur \in {"shared", "own"}
  /\ sess \in [{"shared", "own"} -> Sessions]
  /\ err \in {"none", "locked", "busy", "other"}
  /\ retry \in 0..MaxRetry /\ inner \in 0..MaxRetry
  /\ sent \in Nat
  /\ db \in SUBSET Statements
  /\ published \in Seq(Statements)
  /\ result \in {"none", "ok", "error", "crashed"}
  /\ restarts \in Nat

\* The calls of the body leave the session alone, as withDbSession does.
Plain == \A c \in DOMAIN body : body[c].how = "plain"

(***************************************************************************)
(* bus.go:33 promises that all calls of the body are executed in one       *)
(* transaction, committed as a whole when the body succeeds and rolled     *)
(* back when it fails.  It is so for a body whose calls leave the session  *)
(* alone, also when the server stops between the statements, the COMMIT,   *)
(* the events and the return; what others see of it in the database is     *)
(* all or nothing at any time.                                             *)
(***************************************************************************)
PlainAllOrNothing ==
  Plain => /\ db \in {{}, Statements}
           /\ result = "ok" => db = Statements
           /\ result = "error" /\ restarts = 0 => db = {}

(***************************************************************************)
(* When InTransaction reports success, all that the body wrote is in the   *)
(* database, committed by whichever of its calls, in whichever session and *)
(* attempt.  (After a crash half-way, if nothing can be half-way.)         *)
(***************************************************************************)
SuccessIsComplete ==
  result = "ok" /\ (Plain \/ restarts = 0) => db = Statements

(***************************************************************************)
(* Events follow the commits, listeners reading the database: one is       *)
(* published only after its statement was committed.  For a body whose     *)
(* calls leave the session alone it is published once, however often the   *)
(* body was tried, and when InTransaction succeeds none is missing, though *)
(* a retry drops the events of the attempt before it.  (A server that      *)
(* stops after the COMMIT never publishes the rest of them.)               *)
(***************************************************************************)
EventsMatchCommits ==
  LET Announcing == {w \in Statements : w[2] \in body[w[1]].events}
  IN  /\ ToSet(published) \subseteq db
      /\ Plain => IsInjective(published)
      /\ Plain /\ result = "ok" /\ restarts = 0 => Announcing \subseteq ToSet(published)

(***************************************************************************)
(* InTransaction returns, whatever else fails and however often, unless    *)
(* the database is busy again and again: retries of a locked one are       *)
(* limited at both levels, those of a busy one are not (&& binds stronger  *)
(* than ||).                                                               *)
(***************************************************************************)
CallReturns == <>(pc = "done") \/ []<>(err = "busy")
=============================================================================
