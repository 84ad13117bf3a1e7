------------------------- MODULE SqlTransactionProofs -------------------------
(* Proofs about SqlTransaction for any bodies, errors and numbers of       *)
(* retries and restarts.                                                   *)
EXTENDS SqlTransaction, TLAPS

\* A statement is a call of the body and a number of a statement of that call.
LEMMA StatementsArePairs ==
  ASSUME body \in Seq(Call)
  PROVE  /\ \A w \in Statements : /\ w = <<w[1], w[2]>> /\ w[1] \in 1..Len(body)
                                  /\ w[2] \in 1..body[w[1]].writes
         /\ \A c \in 1..Len(body) : \A i \in 1..body[c].writes : <<c, i>> \in Statements
  BY DEF Statements

\* The body stays the same, and all that is defined from it.
LEMMA SameBody ==
  ASSUME body' = body
  PROVE  Statements' = Statements /\ Sessions' = Sessions /\ Plain' = Plain
  BY DEF Statements, Sessions, Plain

\* A call of a body.
LEMMA Calls ==
  ASSUME body \in Seq(Call), NEW c \in 1..Len(body)
  PROVE  /\ DOMAIN body = 1..Len(body) /\ Len(body) \in Nat
         /\ body[c].how \in {"plain", "closing", "nested"} /\ body[c].writes \in Nat
         /\ body[c].opaque \in BOOLEAN
<1>1. DOMAIN body = 1..Len(body) /\ Len(body) \in Nat /\ body[c] \in Call
  OBVIOUS
<1> QED
  BY <1>1 DEF Call

\* The sessions of the ORM.
LEMMA SessionsOfTheORM ==
  /\ NoSession \in Sessions /\ NoSession.tx = FALSE /\ NoSession.writes = {}
  /\ NoSession.events = <<>>
  /\ NewTransaction \in Sessions /\ NewTransaction.tx = TRUE /\ NewTransaction.writes = {}
  /\ NewTransaction.events = <<>>
  BY DEF NoSession, NewTransaction, Sessions

\* A session that is rolled back, committed or closed keeps its events.
LEMMA ReleasedSession ==
  ASSUME NEW s \in Sessions
  PROVE  /\ Released(s) \in Sessions /\ Released(s).tx = FALSE
         /\ Released(s).writes = {} /\ Released(s).events = s.events
  BY DEF Released, Sessions

\* One more event.
LEMMA OneMoreEvent ==
  ASSUME NEW S, NEW es \in Seq(S), NEW w \in S
  PROVE  /\ Append(es, w) \in Seq(S)
         /\ ToSet(Append(es, w)) = ToSet(es) \cup {w}
         /\ w \notin ToSet(es) /\ IsInjective(es) => IsInjective(Append(es, w))
<1>1. ToSet(Append(es, w)) \subseteq ToSet(es) \cup {w}
  BY DEF ToSet
<1>2. w \in ToSet(Append(es, w))
  <2>1. Len(es) + 1 \in DOMAIN Append(es, w) /\ Append(es, w)[Len(es) + 1] = w
    OBVIOUS
  <2> QED
    BY <2>1 DEF ToSet
<1>3. ToSet(es) \subseteq ToSet(Append(es, w))
  <2> SUFFICES ASSUME NEW i \in DOMAIN es
               PROVE  es[i] \in ToSet(Append(es, w))
    BY DEF ToSet
  <2>1. i \in DOMAIN Append(es, w) /\ Append(es, w)[i] = es[i]
    OBVIOUS
  <2> QED
    BY <2>1 DEF ToSet
<1>4. w \notin ToSet(es) /\ IsInjective(es) => IsInjective(Append(es, w))
  BY DEF ToSet, IsInjective
<1> QED
  BY <1>1, <1>2, <1>3, <1>4

\* The events of two sessions, one after the other.
LEMMA EventsOfBoth ==
  ASSUME NEW S, NEW a \in Seq(S), NEW b \in Seq(S)
  PROVE  a \o b \in Seq(S) /\ ToSet(a \o b) \subseteq ToSet(a) \cup ToSet(b)
  BY DEF ToSet

-----------------------------------------------------------------------------
(* What every state satisfies, whatever the bodies are.                    *)

BaseInv ==
  /\ TypeOK /\ body \in Bodies /\ step >= 1
  /\ pc \in {"run", "leave"} => call <= Len(body)
  /\ (pc = "done") <=> (result # "none")
  /\ pc \in {"begin", "call", "run", "publish"} => err = "none"

\* The parts of the state and their types.
LEMMA Parts ==
  ASSUME BaseInv
  PROVE  /\ body \in Seq(Call) /\ Len(body) \in Nat /\ DOMAIN body = 1..Len(body)
         /\ call \in 1..Len(body) + 1 /\ step \in Nat /\ step >= 1
         /\ cur \in {"shared", "own"} /\ sess \in [{"shared", "own"} -> Sessions]
         /\ sess[cur] \in Sessions /\ sess.shared \in Sessions /\ sess["shared"] = sess.shared
         /\ sess[cur].writes \in SUBSET Statements /\ sess.shared.writes \in SUBSET Statements
         /\ sess[cur].events \in Seq(Statements) /\ sess.shared.events \in Seq(Statements)
         /\ db \in SUBSET Statements /\ published \in Seq(Statements)
         /\ retry \in 0..MaxRetry /\ inner \in 0..MaxRetry /\ MaxRetry \in Nat
         /\ sent \in Nat /\ restarts \in Nat
         /\ err \in {"none", "locked", "busy", "other"}
         /\ body \in Bodies
<1>1. body \in Seq(Call) /\ TypeOK /\ body \in Bodies /\ step >= 1
  BY BodyAssumption DEF BaseInv
<1>2. /\ sess \in [{"shared", "own"} -> Sessions] /\ cur \in {"shared", "own"}
  BY <1>1 DEF TypeOK
<1>3. sess[cur] \in Sessions /\ sess["shared"] \in Sessions /\ sess["shared"] = sess.shared
  BY <1>2
<1>4. /\ sess[cur].writes \in SUBSET Statements /\ sess["shared"].writes \in SUBSET Statements
      /\ sess[cur].events \in Seq(Statements) /\ sess["shared"].events \in Seq(Statements)
  BY <1>3 DEF Sessions
<1> QED
  BY <1>1, <1>2, <1>3, <1>4, BodyAssumption DEF TypeOK

\* One session changes.
LEMMA OneSession ==
  ASSUME BaseInv, NEW k \in {"shared", "own"}, NEW s \in Sessions,
         sess' = [sess EXCEPT ![k] = s]
  PROVE  /\ sess' \in [{"shared", "own"} -> Sessions] /\ sess'[k] = s
         /\ \A j \in {"shared", "own"} : j # k => sess'[j] = sess[j]
         /\ sess'.shared = sess'["shared"]
  BY Parts

\* Steps that leave the session, the database and the bus alone.
LEMMA QuietStep ==
  ASSUME BaseInv, UNCHANGED <<body, sess, db, published, restarts>>,
         pc' \in {"begin", "call", "run", "leave", "end", "publish", "done"},
         call' \in 1..Len(body) + 1, step' \in Nat, step' >= 1,
         cur' \in {"shared", "own"},
         err' \in {"none", "locked", "busy", "other"},
         retry' \in 0..MaxRetry, inner' \in 0..MaxRetry, sent' \in Nat,
         result' \in {"none", "ok", "error", "crashed"},
         pc' \in {"run", "leave"} => call' <= Len(body),
         (pc' = "done") <=> (result' # "none"),
         pc' \in {"begin", "call", "run", "publish"} => err' = "none"
  PROVE  BaseInv'
<1>1. Statements' = Statements /\ Sessions' = Sessions
  BY SameBody
<1> QED
  BY <1>1, Parts DEF BaseInv, TypeOK

\* Those that change them as well.
LEMMA Types ==
  ASSUME BaseInv, UNCHANGED body,
         sess' \in [{"shared", "own"} -> Sessions], db' \in SUBSET Statements,
         published' \in Seq(Statements), restarts' \in Nat,
         pc' \in {"begin", "call", "run", "leave", "end", "publish", "done"},
         call' \in 1..Len(body) + 1, step' \in Nat, step' >= 1,
         cur' \in {"shared", "own"},
         err' \in {"none", "locked", "busy", "other"},
         retry' \in 0..MaxRetry, inner' \in 0..MaxRetry, sent' \in Nat,
         result' \in {"none", "ok", "error", "crashed"},
         pc' \in {"run", "leave"} => call' <= Len(body),
         (pc' = "done") <=> (result' # "none"),
         pc' \in {"begin", "call", "run", "publish"} => err' = "none"
  PROVE  BaseInv'
<1>1. Statements' = Statements /\ Sessions' = Sessions
  BY SameBody
<1> QED
  BY <1>1, Parts DEF BaseInv, TypeOK

\* Where a call ends: on with the body, or out of it.
LEMMA ProceedEffect ==
  ASSUME BaseInv, pc = "leave" \/ call <= Len(body),
         NEW e \in {"none", "locked", "busy", "other"}, Proceed(e)
  PROVE  /\ call \in 1..Len(body) /\ call' \in 1..Len(body) + 1
         /\ err' \in {"none", "locked", "busy", "other"}
         /\ \/ /\ e = "none" /\ pc' = "call" /\ err' = "none"
               /\ IF body[call].until \cap db # {} THEN call' = Len(body) + 1
                                                   ELSE call' = call + 1
            \/ /\ e # "none" /\ pc' = "end" /\ call' = call
               /\ err' = IF body[call].opaque THEN "other" ELSE e
               /\ err' # "none"
<1>1. call \in 1..Len(body)
  BY Parts DEF BaseInv
<1> QED
  BY <1>1, Parts DEF Proceed

\* What a statement does.
LEMMA ExecuteEffect ==
  ASSUME BaseInv, Execute
  PROVE  /\ BaseInv'
         /\ UNCHANGED <<body, pc, call, cur, err, retry, inner, sent, published, result, restarts>>
         /\ pc = "run" /\ step' = step + 1
         /\ call \in 1..Len(body) /\ step \in 1..body[call].writes
         /\ <<call, step>> \in Statements /\ <<call, step>> \notin db
         /\ sess'[cur].tx = sess[cur].tx
         /\ sess'[cur].writes = IF sess[cur].tx THEN sess[cur].writes \cup {<<call, step>>}
                                                ELSE sess[cur].writes
         /\ sess'[cur].events = IF step \in body[call].events
                                  THEN Append(sess[cur].events, <<call, step>>)
                                  ELSE sess[cur].events
         /\ \A k \in {"shared", "own"} : k # cur => sess'[k] = sess[k]
         /\ db' = IF sess[cur].tx THEN db ELSE db \cup {<<call, step>>}
<1> DEFINE w == <<call, step>>
           s == sess[cur]
           e == [s EXCEPT !.writes = IF s.tx THEN @ \cup {w} ELSE @,
                          !.events = IF step \in body[call].events THEN Append(@, w) ELSE @]
<1>1. /\ call \in 1..Len(body) /\ step \in 1..body[call].writes /\ pc = "run"
      /\ cur \in {"shared", "own"} /\ sess \in [{"shared", "own"} -> Sessions]
  BY Parts, Calls DEF Execute, BaseInv
<1>2. w \in Statements /\ w \notin db
  BY <1>1, Parts, StatementsArePairs DEF Execute, Found
<1>3. s \in Sessions
  BY <1>1
<1>4. /\ sess' = [sess EXCEPT ![cur].writes = IF s.tx THEN @ \cup {w} ELSE @,
                              ![cur].events = IF step \in body[call].events
                                                THEN Append(@, w) ELSE @]
      /\ db' = IF s.tx THEN db ELSE db \cup {w}
      /\ step' = step + 1
      /\ UNCHANGED <<body, pc, call, cur, err, retry, inner, sent, published, result, restarts>>
  BY DEF Execute
<1>5. sess' = [sess EXCEPT ![cur] = e]
  BY <1>1, <1>3, <1>4 DEF Sessions
<1>6. Append(s.events, w) \in Seq(Statements)
  BY <1>2, <1>3, OneMoreEvent DEF Sessions
<1> HIDE DEF w
<1>7. /\ e \in Sessions /\ e.tx = s.tx
      /\ e.writes = IF s.tx THEN s.writes \cup {w} ELSE s.writes
      /\ e.events = IF step \in body[call].events THEN Append(s.events, w) ELSE s.events
  BY <1>2, <1>3, <1>6 DEF Sessions
<1> HIDE DEF e
<1>8. /\ sess' \in [{"shared", "own"} -> Sessions] /\ sess'[cur] = e
      /\ \A k \in {"shared", "own"} : k # cur => sess'[k] = sess[k]
  BY <1>1, <1>5, <1>7, OneSession
<1>9. db' \in SUBSET Statements
  BY <1>2, <1>4, Parts
<1>10. BaseInv'
  <2>1. /\ call' \in 1..Len(body) + 1 /\ step' \in Nat /\ step' >= 1
        /\ cur' \in {"shared", "own"} /\ err' \in {"none", "locked", "busy", "other"}
        /\ retry' \in 0..MaxRetry /\ inner' \in 0..MaxRetry /\ sent' \in Nat /\ restarts' \in Nat
        /\ published' \in Seq(Statements) /\ UNCHANGED body
    BY <1>1, <1>4, Parts
  <2>2. /\ pc' = "run" /\ result' \in {"none", "ok", "error", "crashed"}
        /\ call' <= Len(body) /\ (pc' = "done" <=> result' # "none") /\ err' = "none"
    BY <1>1, <1>4 DEF BaseInv, TypeOK
  <2> QED
    BY <1>8, <1>9, <2>1, <2>2, Types
<1> QED
  BY <1>1, <1>2, <1>4, <1>7, <1>8, <1>10 DEF w

\* The steps that only move on.
LEMMA QuietSteps ==
  ASSUME BaseInv,
         BeginFails \/ MakeCall \/ BodyReturns \/ SkipFound \/ FailFound \/ Fail \/ Returns
  PROVE  BaseInv'
<1>1. CASE BeginFails
  BY <1>1, Parts, QuietStep DEF BeginFails, BaseInv, TypeOK
<1>2. CASE MakeCall
  BY <1>2, Parts, QuietStep DEF MakeCall, BaseInv, TypeOK
<1>3. CASE BodyReturns
  BY <1>3, Parts, QuietStep DEF BodyReturns, BaseInv, TypeOK
<1>4. CASE SkipFound
  BY <1>4, Parts, QuietStep DEF SkipFound, BaseInv, TypeOK
<1>5. CASE FailFound
  BY <1>5, Parts, QuietStep DEF FailFound, BaseInv, TypeOK
<1>6. CASE Fail
  BY <1>6, Parts, QuietStep, BodyAssumption DEF Fail, BaseInv, TypeOK
<1>7. CASE Returns
  BY <1>7, Parts, QuietStep DEF Returns, BaseInv, TypeOK
<1> QED
  BY <1>1, <1>2, <1>3, <1>4, <1>5, <1>6, <1>7

\* Begin.
LEMMA BeginEffect ==
  ASSUME BaseInv, Begin
  PROVE  /\ BaseInv' /\ pc = "begin" /\ pc' = "call" /\ call' = 1 /\ err = "none"
         /\ UNCHANGED <<body, step, cur, err, retry, inner, db, sent, published, result, restarts>>
         /\ sess'.shared = NewTransaction /\ sess'["shared"] = NewTransaction
<1>1. /\ pc = "begin" /\ pc' = "call" /\ call' = 1 /\ err = "none"
      /\ UNCHANGED <<body, step, cur, err, retry, inner, db, sent, published, result, restarts>>
      /\ sess' = [sess EXCEPT !["shared"] = NewTransaction]
  BY DEF Begin, BaseInv
<1>2. /\ sess' \in [{"shared", "own"} -> Sessions] /\ sess'["shared"] = NewTransaction
      /\ sess'.shared = sess'["shared"]
  BY <1>1, OneSession, SessionsOfTheORM
<1>3. BaseInv'
  BY <1>1, <1>2, Parts, Types DEF BaseInv, TypeOK
<1> QED
  BY <1>1, <1>2, <1>3

\* A session is given up: at the end of a call, or of InTransaction.
LEMMA ReleaseEffect ==
  ASSUME BaseInv, NEW k \in {"shared", "own"}, sess' = [sess EXCEPT ![k] = Released(@)]
  PROVE  /\ sess' \in [{"shared", "own"} -> Sessions]
         /\ sess'[k].tx = FALSE /\ sess'[k].writes = {} /\ sess'[k].events = sess[k].events
         /\ \A j \in {"shared", "own"} : j # k => sess'[j] = sess[j]
         /\ sess'.shared = sess'["shared"]
<1>1. sess[k] \in Sessions
  BY Parts
<1>2. PICK s \in Sessions : s = Released(sess[k])
  BY <1>1, ReleasedSession
<1>3. sess' = [sess EXCEPT ![k] = s]
  BY <1>2
<1>4. s.tx = FALSE /\ s.writes = {} /\ s.events = sess[k].events
  BY <1>1, <1>2, ReleasedSession
<1> QED
  BY <1>3, <1>4, OneSession

\* The ways a call ends.
LEMMA LeaveEffect ==
  ASSUME BaseInv, LeaveSession
  PROVE  /\ BaseInv' /\ pc = "leave" /\ Proceed(err) /\ body[call].how # "nested"
         /\ UNCHANGED <<body, step, cur, retry, inner, db, sent, published, result, restarts>>
         /\ \/ sess' = sess
            \/ /\ body[call].how = "closing"
               /\ sess'.shared.writes = {} /\ sess'.shared.events = sess.shared.events
<1>1. /\ pc = "leave" /\ Proceed(err) /\ body[call].how # "nested"
      /\ UNCHANGED <<body, step, cur, retry, inner, db, sent, published, result, restarts>>
  BY DEF LeaveSession
<1>2. /\ call' \in 1..Len(body) + 1 /\ err' \in {"none", "locked", "busy", "other"}
      /\ pc' \in {"call", "end"} /\ (pc' = "call" => err' = "none")
  BY <1>1, ProceedEffect, Parts
<1>3. CASE body[call].how = "closing"
  <2>1. sess' = [sess EXCEPT !["shared"] = Released(@)]
    BY <1>3 DEF LeaveSession
  <2>2. /\ sess' \in [{"shared", "own"} -> Sessions] /\ sess'.shared.writes = {}
        /\ sess'.shared.events = sess.shared.events
    BY <2>1, ReleaseEffect, Parts
  <2>3. BaseInv'
    BY <1>1, <1>2, <2>2, Parts, Types DEF BaseInv, TypeOK
  <2> QED
    BY <1>1, <1>3, <2>2, <2>3
<1>4. CASE body[call].how # "closing"
  <2>1. sess' = sess
    BY <1>4 DEF LeaveSession
  <2>2. BaseInv'
    BY <1>1, <1>2, <2>1, Parts, Types DEF BaseInv, TypeOK
  <2> QED
    BY <1>1, <2>1, <2>2
<1> QED
  BY <1>3, <1>4

\* inTransactionWithRetryCtx that does not commit.
LEMMA NestedFailsEffect ==
  ASSUME BaseInv, NestedFails \/ NestedCommitFails
  PROVE  /\ BaseInv' /\ pc = "leave" /\ pc' = "end" /\ body[call].how = "nested"
         /\ err' # "none" /\ (body[call].opaque => err' = "other") /\ call' = call
         /\ UNCHANGED <<body, step, cur, retry, inner, db, sent, published, result, restarts>>
<1>1. PICK e \in {"none", "locked", "busy", "other"} : e # "none" /\ Proceed(e)
  BY Parts DEF NestedFails, NestedCommitFails
<1>2. /\ pc = "leave" /\ body[call].how = "nested"
      /\ UNCHANGED <<body, step, cur, retry, inner, db, sent, published, result, restarts>>
      /\ sess' = [sess EXCEPT ![cur] = Released(@)]
  BY DEF NestedFails, NestedCommitFails
<1>3. /\ call' \in 1..Len(body) + 1 /\ err' \in {"none", "locked", "busy", "other"}
      /\ pc' = "end" /\ err' # "none" /\ call' = call
      /\ (body[call].opaque => err' = "other")
  BY <1>1, <1>2, ProceedEffect
<1>4. sess' \in [{"shared", "own"} -> Sessions]
  BY <1>2, ReleaseEffect, Parts
<1>5. BaseInv'
  BY <1>2, <1>3, <1>4, Parts, Types DEF BaseInv, TypeOK
<1> QED
  BY <1>2, <1>3, <1>5

\* A commit of the session k.
LEMMA CommitEffect ==
  ASSUME BaseInv, NEW k \in {"shared", "own"}, Commit(k)
  PROVE  /\ db' = db \cup sess[k].writes /\ db' \in SUBSET Statements
         /\ sent' = 0 /\ pc' = "publish"
         /\ sess' \in [{"shared", "own"} -> Sessions]
         /\ sess'[k].writes = {} /\ sess'[k].events = sess[k].events
         /\ \A j \in {"shared", "own"} : j # k => sess'[j] = sess[j]
         /\ sess'.shared = sess'["shared"]
<1>1. sess[k] \in Sessions
  BY Parts
<1>2. sess[k].writes \in SUBSET Statements
  BY <1>1 DEF Sessions
<1> QED
  BY <1>2, ReleaseEffect, Parts DEF Commit

\* One that commits.
LEMMA NestedCommitsEffect ==
  ASSUME BaseInv, NestedCommits
  PROVE  /\ BaseInv' /\ pc = "leave" /\ err = "none" /\ body[call].how = "nested"
         /\ Commit(cur) /\ call \in 1..Len(body)
         /\ UNCHANGED <<body, call, step, cur, err, retry, inner, published, result, restarts>>
<1>1. /\ pc = "leave" /\ err = "none" /\ body[call].how = "nested" /\ Commit(cur)
      /\ UNCHANGED <<body, call, step, cur, err, retry, inner, published, result, restarts>>
  BY DEF NestedCommits
<1>2. call \in 1..Len(body)
  BY <1>1, Parts DEF BaseInv
<1>3. /\ sess' \in [{"shared", "own"} -> Sessions] /\ db' \in SUBSET Statements
      /\ sent' = 0 /\ pc' = "publish"
  BY <1>1, CommitEffect, Parts
<1>4. BaseInv'
  BY <1>1, <1>2, <1>3, Parts, Types DEF BaseInv, TypeOK
<1> QED
  BY <1>1, <1>2, <1>4

\* One event of the session that was committed.
LEMMA PublishEffect ==
  ASSUME BaseInv, Publish
  PROVE  /\ BaseInv' /\ pc = "publish" /\ sent' = sent + 1 /\ sent + 1 \in 1..Len(sess[cur].events)
         /\ sess[cur].events[sent + 1] \in ToSet(sess[cur].events)
         /\ sess[cur].events[sent + 1] \in Statements
         /\ published' = Append(published, sess[cur].events[sent + 1])
         /\ UNCHANGED <<body, pc, call, step, cur, sess, err, retry, inner, db, result, restarts>>
<1>1. /\ pc = "publish" /\ sent' = sent + 1 /\ sent < Len(sess[cur].events)
      /\ published' = Append(published, sess[cur].events[sent + 1])
      /\ UNCHANGED <<body, pc, call, step, cur, sess, err, retry, inner, db, result, restarts>>
  BY DEF Publish
<1>2. sess[cur].events \in Seq(Statements) /\ sent \in Nat
  BY Parts
<1> DEFINE es == sess[cur].events
<1>3. sent + 1 \in 1..Len(es) /\ es[sent + 1] \in Statements /\ es[sent + 1] \in ToSet(es)
  <2> HIDE DEF es
  <2>1. es \in Seq(Statements) /\ sent < Len(es)
    BY <1>1, <1>2 DEF es
  <2>2. sent + 1 \in 1..Len(es) /\ DOMAIN es = 1..Len(es)
    BY <1>2, <2>1
  <2> QED
    BY <2>1, <2>2 DEF ToSet
<1>4. published' \in Seq(Statements)
  BY <1>1, <1>3, Parts, OneMoreEvent
<1>5. BaseInv'
  BY <1>1, <1>2, <1>4, Parts, Types DEF BaseInv, TypeOK
<1> QED
  BY <1>1, <1>3, <1>5

\* The events were published: the call in the body returns, or InTransaction.
LEMMA PublishedEffect ==
  ASSUME BaseInv, NestedReturns \/ Succeeds
  PROVE  /\ BaseInv' /\ pc = "publish" /\ sent = Len(sess[cur].events) /\ err = "none"
         /\ UNCHANGED <<body, step, cur, sess, retry, inner, db, sent, published, restarts>>
         /\ \/ /\ call \in 1..Len(body) /\ Proceed("none") /\ pc' = "call" /\ err' = "none"
               /\ UNCHANGED result
               /\ IF body[call].until \cap db # {} THEN call' = Len(body) + 1
                                                   ELSE call' = call + 1
            \/ call > Len(body) /\ pc' = "done" /\ result' = "ok" /\ UNCHANGED <<call, err>>
<1>1. /\ pc = "publish" /\ sent = Len(sess[cur].events) /\ err = "none"
      /\ UNCHANGED <<body, step, cur, sess, retry, inner, db, sent, published, restarts>>
  BY DEF NestedReturns, Succeeds, AllPublished, BaseInv
<1>2. CASE NestedReturns
  <2>1. call <= Len(body) /\ Proceed("none") /\ UNCHANGED result
    BY <1>2 DEF NestedReturns
  <2>2. /\ call \in 1..Len(body) /\ call' \in 1..Len(body) + 1 /\ pc' = "call" /\ err' = "none"
        /\ IF body[call].until \cap db # {} THEN call' = Len(body) + 1 ELSE call' = call + 1
    BY <2>1, ProceedEffect
  <2>3. BaseInv'
    BY <1>1, <2>1, <2>2, Parts, Types DEF BaseInv, TypeOK
  <2> QED
    BY <1>1, <2>1, <2>2, <2>3
<1>3. CASE Succeeds
  <2>1. call > Len(body) /\ pc' = "done" /\ result' = "ok" /\ UNCHANGED <<call, err>>
    BY <1>3 DEF Succeeds, Finish
  <2>2. BaseInv'
    BY <1>1, <2>1, Parts, Types DEF BaseInv, TypeOK
  <2> QED
    BY <1>1, <2>1, <2>2
<1> QED
  BY <1>2, <1>3

\* The number of retries stays within its bound, and grows until it gets there.
LEMMA MoreRetries ==
  ASSUME NEW n \in 0..MaxRetry
  PROVE  OneMore(n) \in 0..MaxRetry /\ (n < MaxRetry => OneMore(n) = n + 1)
  BY BodyAssumption DEF OneMore

\* And one that is tried again.
LEMMA NestedRetryEffect ==
  ASSUME BaseInv, NestedRetry
  PROVE  /\ BaseInv' /\ pc = "leave" /\ pc' = "run" /\ body[call].how = "nested"
         /\ cur' = "own" /\ step' = 1 /\ err' = "none"
         /\ UNCHANGED <<body, call, retry, db, sent, published, result, restarts>>
         /\ sess'["own"] = NewTransaction /\ sess'.shared = sess'["shared"]
         /\ sess'.shared.events = sess.shared.events
         /\ sess'.shared.writes = IF cur = "shared" THEN {} ELSE sess.shared.writes
<1>1. /\ pc = "leave" /\ pc' = "run" /\ body[call].how = "nested"
      /\ cur' = "own" /\ step' = 1 /\ err' = "none" /\ inner' = OneMore(inner)
      /\ UNCHANGED <<body, call, retry, db, sent, published, result, restarts>>
      /\ sess' = [sess EXCEPT ![cur] = Released(@), !["own"] = NewTransaction]
  BY DEF NestedRetry
<1>2. sess \in [{"shared", "own"} -> Sessions] /\ cur \in {"shared", "own"}
  BY Parts
<1>3. PICK s \in Sessions : s = Released(sess[cur])
  BY <1>2, ReleasedSession
<1>4. s.writes = {} /\ s.events = sess[cur].events
  BY <1>2, <1>3, ReleasedSession
<1>5. sess' = [sess EXCEPT ![cur] = s, !["own"] = NewTransaction]
  BY <1>1, <1>3
<1>6. /\ sess' \in [{"shared", "own"} -> Sessions] /\ sess'["own"] = NewTransaction
      /\ sess'["shared"] = IF cur = "shared" THEN s ELSE sess["shared"]
  BY <1>2, <1>5, SessionsOfTheORM
<1>7. sess'.shared = sess'["shared"] /\ sess.shared = sess["shared"]
  BY <1>2, <1>6
<1>8. inner' \in 0..MaxRetry
  BY <1>1, Parts, MoreRetries
<1>9. BaseInv'
  BY <1>1, <1>6, <1>8, Parts, Types DEF BaseInv, TypeOK
<1> QED
  BY <1>1, <1>4, <1>6, <1>7, <1>9

\* The ends of InTransaction that commit nothing.
LEMMA EndEffect ==
  ASSUME BaseInv, Retry \/ Fails \/ CommitFails
  PROVE  BaseInv'
<1>1. sess' = [sess EXCEPT !["shared"] = Released(@)]
  BY DEF Retry, Fails, CommitFails
<1>2. sess' \in [{"shared", "own"} -> Sessions]
  BY <1>1, ReleaseEffect
<1>3. OneMore(retry) \in 0..MaxRetry
  BY Parts, MoreRetries
<1> QED
  BY <1>2, <1>3, Parts, Types DEF Retry, Fails, CommitFails, Finish, BaseInv, TypeOK

\* The commit.
LEMMA CommitsEffect ==
  ASSUME BaseInv, Commits
  PROVE  /\ BaseInv' /\ pc = "end" /\ err = "none" /\ cur' = "shared"
         /\ UNCHANGED <<body, call, step, err, retry, inner, published, result, restarts>>
         /\ Commit("shared")
<1>1. /\ pc = "end" /\ err = "none" /\ cur' = "shared"
      /\ UNCHANGED <<body, call, step, err, retry, inner, published, result, restarts>>
      /\ Commit("shared")
  BY DEF Commits
<1>2. /\ sess' \in [{"shared", "own"} -> Sessions] /\ db' \in SUBSET Statements
      /\ sent' = 0 /\ pc' = "publish"
  BY <1>1, CommitEffect
<1>3. BaseInv'
  BY <1>1, <1>2, Parts, Types DEF BaseInv, TypeOK
<1> QED
  BY <1>1, <1>3

\* The server stops, or is started again.
LEMMA ServerStops ==
  ASSUME BaseInv, Crash \/ Restart
  PROVE  BaseInv'
<1>1. UNCHANGED <<body, db>> /\ sess' = [k \in {"shared", "own"} |-> NoSession]
  BY DEF Crash, Restart
<1>2. sess' \in [{"shared", "own"} -> Sessions]
  BY <1>1, SessionsOfTheORM
<1>3. CASE Crash
  BY <1>1, <1>2, <1>3, Parts, Types DEF Crash, Finish, BaseInv, TypeOK
<1>4. CASE Restart
  BY <1>1, <1>2, <1>4, Parts, Types DEF Restart, BaseInv, TypeOK
<1> QED
  BY <1>3, <1>4

\* Initially.
LEMMA BaseInvInit == Init => BaseInv
  BY SessionsOfTheORM, BodyAssumption DEF Init, BaseInv, TypeOK

\* Always.
LEMMA BaseInvNext == BaseInv /\ [Next]_vars => BaseInv'
<1> SUFFICES ASSUME BaseInv, [Next]_vars
             PROVE  BaseInv'
  OBVIOUS
<1>1. CASE UNCHANGED vars
  <2>1. Statements' = Statements /\ Sessions' = Sessions
    BY <1>1, SameBody DEF vars
  <2> QED
    BY <1>1, <2>1 DEF vars, BaseInv, TypeOK
<1>2. CASE Step
  BY <1>2, BeginEffect, QuietSteps, ExecuteEffect, LeaveEffect, NestedFailsEffect,
     NestedCommitsEffect, NestedRetryEffect, PublishEffect, PublishedEffect, EndEffect,
     CommitsEffect DEF Step
<1>3. CASE Crash \/ Restart
  BY <1>3, ServerStops
<1> QED
  BY <1>1, <1>2, <1>3 DEF Next

\* The types hold in every state: what a session or the bus holds are statements of
\* the body.
THEOREM TypeCorrect == Spec => []TypeOK
<1>1. BaseInv => TypeOK
  BY DEF BaseInv
<1> QED
  BY <1>1, BaseInvInit, BaseInvNext, PTL DEF Spec

-----------------------------------------------------------------------------
(* A body whose calls leave the session alone: what the transaction holds  *)
(* is what the body has executed so far, and nobody sees it.               *)

\* The statements before the i-th of the call c.
Before(c, i) == {w \in Statements : w[1] < c \/ (w[1] = c /\ w[2] < i)}

\* Those of W that are followed by publishAfterCommit.
Announced(W) == {w \in W : w[2] \in body[w[1]].events}

InTx == pc \in {"call", "run", "leave", "end"}

OneTransaction ==
  /\ cur = "shared"
  /\ db \in {{}, Statements}
  /\ restarts = 0 /\ pc \notin {"publish", "done"} => db = {}
  /\ result = "ok" => db = Statements
  /\ result = "error" /\ restarts = 0 => db = {}
  /\ IsInjective(published) /\ ToSet(published) \subseteq db
  /\ pc \notin {"publish", "done"} => published = <<>>
  /\ result = "ok" /\ restarts = 0 => ToSet(published) = Announced(Statements)
  /\ InTx => /\ sess.shared.tx
             /\ IsInjective(sess.shared.events)
             /\ ToSet(sess.shared.events) = Announced(sess.shared.writes)
  /\ pc = "call" => sess.shared.writes = Before(call, 1) \ db
  /\ pc = "run" => sess.shared.writes = Before(call, step) \ db
  /\ pc = "leave" /\ err = "none" => sess.shared.writes = Before(call + 1, 1) \ db
  /\ pc = "end" /\ err = "none" => call > Len(body) /\ sess.shared.writes = Statements \ db
  /\ pc = "publish" =>
       /\ call > Len(body) /\ db = Statements
       /\ IsInjective(sess.shared.events)
       /\ restarts = 0 => ToSet(sess.shared.events) = Announced(Statements)
       /\ Len(published) = sent /\ sent <= Len(sess.shared.events)
       /\ \A i \in 1..sent : published[i] = sess.shared.events[i]

\* One more statement.
LEMMA BeforeNext ==
  ASSUME body \in Seq(Call), NEW c \in 1..Len(body), NEW i \in 1..body[c].writes
  PROVE  /\ Before(c, i + 1) = Before(c, i) \cup {<<c, i>>}
         /\ <<c, i>> \notin Before(c, i)
<1>1. <<c, i>> \in Statements /\ body[c].writes \in Nat /\ Len(body) \in Nat
  BY StatementsArePairs, Calls
<1>2. ASSUME NEW w \in Statements
      PROVE  /\ w = <<w[1], w[2]>> /\ w[1] \in Int /\ w[2] \in Int
  <2>1. w = <<w[1], w[2]>> /\ w[1] \in 1..Len(body) /\ w[2] \in 1..body[w[1]].writes
    BY StatementsArePairs
  <2>2. body[w[1]].writes \in Nat
    BY <2>1, Calls
  <2> QED
    BY <1>1, <2>1, <2>2
<1>3. ASSUME NEW w \in Statements
      PROVE  w \in Before(c, i + 1) <=> w \in Before(c, i) \/ w = <<c, i>>
  <2>1. w = <<w[1], w[2]>> /\ w[1] \in Int /\ w[2] \in Int
    BY <1>2
  <2>2. w = <<c, i>> <=> w[1] = c /\ w[2] = i
    BY <2>1
  <2> QED
    BY <1>1, <2>1, <2>2 DEF Before
<1>4. <<c, i>> \notin Before(c, i)
  BY <1>1 DEF Before
<1> QED
  BY <1>1, <1>3, <1>4 DEF Before

\* The end of a call, and of the body; its beginning.
LEMMA BeforeEnds ==
  ASSUME body \in Seq(Call)
  PROVE  /\ Before(1, 1) = {}
         /\ Before(Len(body) + 1, 1) = Statements
         /\ \A c \in 1..Len(body) : \A i \in Nat :
              i > body[c].writes => Before(c, i) = Before(c + 1, 1)
<1>1. ASSUME NEW w \in Statements
      PROVE  /\ w[1] \in 1..Len(body) /\ w[2] \in 1..body[w[1]].writes
             /\ body[w[1]].writes \in Nat /\ Len(body) \in Nat
  BY StatementsArePairs, Calls
<1>2. Before(1, 1) = {}
  BY <1>1 DEF Before
<1>3. Before(Len(body) + 1, 1) = Statements
  BY <1>1 DEF Before
<1>4. ASSUME NEW c \in 1..Len(body), NEW i \in Nat, i > body[c].writes
      PROVE  Before(c, i) = Before(c + 1, 1)
  <2>1. ASSUME NEW w \in Statements
        PROVE  w \in Before(c, i) <=> w \in Before(c + 1, 1)
    <3>1. /\ w[1] \in Int /\ w[2] \in Int /\ w[2] >= 1
          /\ w[1] = c => w[2] < i
      BY <1>1, <1>4
    <3> QED
      BY <3>1 DEF Before
  <2> QED
    BY <2>1 DEF Before
<1> QED
  BY <1>2, <1>3, <1>4

\* No step leaves the transaction but its end.
LEMMA OneTransactionKept ==
  ASSUME BaseInv, Plain, OneTransaction, [Next]_vars
  PROVE  OneTransaction'
<1>1. /\ body \in Seq(Call) /\ Len(body) \in Nat /\ DOMAIN body = 1..Len(body)
      /\ call \in 1..Len(body) + 1 /\ step \in Nat /\ step >= 1
      /\ sess.shared = sess["shared"]
      /\ sess.shared.events \in Seq(Statements)
  BY Parts
<1>2. body' = body => /\ Statements' = Statements
                      /\ \A c, i : Before(c, i)' = Before(c, i)
                      /\ \A W : Announced(W)' = Announced(W)
  BY SameBody DEF Before, Announced
<1>3. pc \in {"run", "leave"} => call \in 1..Len(body) /\ body[call].how = "plain"
  BY <1>1 DEF BaseInv, Plain
<1>4. CASE UNCHANGED vars
  BY <1>2, <1>4 DEF vars, OneTransaction, InTx
<1>5. CASE Begin
  <2>1. /\ pc = "begin" /\ pc' = "call" /\ call' = 1 /\ err = "none"
        /\ UNCHANGED <<body, step, cur, err, db, published, result, restarts>>
        /\ sess'.shared = NewTransaction
    BY <1>5, BeginEffect
  <2>2. result = "none"
    BY <2>1 DEF BaseInv
  <2>3. /\ IsInjective(sess'.shared.events) /\ ToSet(sess'.shared.events) = {}
        /\ Announced({}) = {} /\ {} \ db = {}
    BY <2>1, SessionsOfTheORM DEF IsInjective, ToSet, Announced
  <2> QED
    BY <1>1, <1>2, <2>1, <2>2, <2>3, SessionsOfTheORM, BeforeEnds DEF OneTransaction, InTx
<1>6. CASE BeginFails
  BY <1>2, <1>6 DEF BeginFails, BaseInv, OneTransaction, InTx
<1>7. CASE MakeCall
  BY <1>2, <1>7 DEF MakeCall, OneTransaction, InTx
<1>8. CASE BodyReturns
  <2>1. call = Len(body) + 1
    BY <1>1, <1>8 DEF BodyReturns
  <2> QED
    BY <1>1, <1>2, <1>8, <2>1, BeforeEnds DEF BodyReturns, OneTransaction, InTx
<1>9. CASE Execute
  <2> DEFINE w == <<call, step>>
  <2>1. /\ UNCHANGED <<body, pc, call, cur, err, published, result, restarts>> /\ pc = "run"
        /\ step' = step + 1 /\ call \in 1..Len(body) /\ step \in 1..body[call].writes
        /\ w \in Statements /\ w \notin db
    BY <1>9, ExecuteEffect
  <2>2. /\ cur = "shared" /\ sess.shared.tx /\ sess.shared.writes = Before(call, step) \ db
        /\ ToSet(sess.shared.events) = Announced(sess.shared.writes)
        /\ IsInjective(sess.shared.events)
    BY <2>1 DEF OneTransaction, InTx
  <2>3. /\ sess'["shared"].tx /\ sess'["shared"].writes = sess.shared.writes \cup {w}
        /\ sess'["shared"].events = IF step \in body[call].events
                                      THEN Append(sess.shared.events, w) ELSE sess.shared.events
        /\ db' = db
    BY <1>1, <1>9, <2>2, ExecuteEffect
  <2>4. sess'.shared = sess'["shared"]
    BY <1>9, ExecuteEffect DEF BaseInv, TypeOK
  <2>5. sess'.shared.writes = Before(call, step + 1) \ db /\ w \notin sess.shared.writes
    <3>1. Before(call, step + 1) = Before(call, step) \cup {w} /\ w \notin Before(call, step)
      BY <1>1, <2>1, BeforeNext
    <3> HIDE DEF w
    <3> QED
      BY <2>1, <2>2, <2>3, <2>4, <3>1
  <2>6. w \notin ToSet(sess.shared.events)
    BY <2>2, <2>5 DEF Announced
  <2>7. /\ IsInjective(sess'.shared.events)
        /\ ToSet(sess'.shared.events) = Announced(sess'.shared.writes)
    <3>1. Announced(sess'.shared.writes) =
            IF step \in body[call].events THEN Announced(sess.shared.writes) \cup {w}
                                          ELSE Announced(sess.shared.writes)
      <4>1. /\ sess'.shared.writes = sess.shared.writes \cup {w}
            /\ w[1] = call /\ w[2] = step
        BY <2>3, <2>4
      <4> HIDE DEF w
      <4> QED
        BY <4>1 DEF Announced
    <3> HIDE DEF w
    <3>2. /\ ToSet(Append(sess.shared.events, w)) = ToSet(sess.shared.events) \cup {w}
          /\ IsInjective(Append(sess.shared.events, w))
      BY <1>1, <2>1, <2>2, <2>6, OneMoreEvent
    <3> QED
      BY <2>2, <2>3, <2>4, <3>1, <3>2
  <2> HIDE DEF w
  <2> QED
    BY <1>2, <2>1, <2>2, <2>3, <2>4, <2>5, <2>7 DEF OneTransaction, InTx
<1>10. CASE SkipFound
  <2> DEFINE w == <<call, step>>
  <2>1. /\ UNCHANGED <<body, pc, call, cur, sess, err, db, sent, published, result, restarts>>
        /\ pc = "run" /\ step' = step + 1 /\ w \in db /\ call \in 1..Len(body)
    BY <1>3, <1>10 DEF SkipFound, Found
  <2>2. step \in 1..body[call].writes
    <3>1. w \in Statements => w[2] \in 1..body[w[1]].writes
      BY <1>1, StatementsArePairs
    <3> QED
      BY <2>1, <3>1, Parts
  <2>3. Before(call, step + 1) = Before(call, step) \cup {w}
    BY <1>1, <2>1, <2>2, BeforeNext
  <2>4. Before(call, step + 1) \ db = Before(call, step) \ db
    <3> HIDE DEF w
    <3> QED
      BY <2>1, <2>3
  <2> HIDE DEF w
  <2> QED
    BY <1>2, <2>1, <2>4 DEF OneTransaction, InTx
<1>11. CASE FailFound \/ Fail
  <2>1. /\ UNCHANGED <<body, call, step, cur, sess, db, sent, published, result, restarts>>
        /\ pc = "run" /\ pc' = "leave" /\ err' # "none"
    BY <1>11, BodyAssumption DEF FailFound, Fail
  <2> QED
    BY <1>2, <2>1 DEF OneTransaction, InTx
<1>12. CASE Returns
  <2>1. Before(call, step) = Before(call + 1, 1)
    BY <1>1, <1>3, <1>12, BeforeEnds DEF Returns
  <2> QED
    BY <1>2, <1>12, <2>1 DEF Returns, OneTransaction, InTx
<1>13. CASE LeaveSession
  <2>1. /\ pc = "leave" /\ Proceed(err) /\ sess' = sess
        /\ UNCHANGED <<body, step, cur, db, published, result, restarts>>
    BY <1>3, <1>13, LeaveEffect
  <2>2. result = "none"
    BY <2>1 DEF BaseInv
  <2>3. \/ err = "none" /\ pc' = "call" /\ err' = "none" /\ call' = call + 1
        \/ err = "none" /\ pc' = "call" /\ err' = "none" /\ db # {}
        \/ err # "none" /\ pc' = "end" /\ err' # "none"
    BY <2>1, ProceedEffect, Parts
  <2>4. db # {} => \A c : Before(c, 1) \ db = {}
    BY DEF OneTransaction, Before
  <2> QED
    BY <1>2, <2>1, <2>2, <2>3, <2>4 DEF OneTransaction, InTx
<1>14. CASE NestedRetry \/ NestedFails \/ NestedCommits \/ NestedCommitFails
  BY <1>3, <1>14 DEF NestedRetry, NestedFails, NestedCommits, NestedCommitFails
<1>15. CASE Retry \/ Fails \/ CommitFails
  BY <1>2, <1>15 DEF Retry, Fails, CommitFails, Finish, BaseInv, OneTransaction, InTx
<1>16. CASE Commits
  <2>1. /\ pc' = "publish" /\ pc = "end" /\ err = "none" /\ result = "none" /\ sent' = 0
        /\ cur' = "shared" /\ UNCHANGED <<body, call, published, result, restarts>>
        /\ db' = db \cup sess.shared.writes
        /\ sess'.shared.events = sess.shared.events
    BY <1>1, <1>16, CommitsEffect, CommitEffect DEF BaseInv
  <2>2. /\ published = <<>> /\ sess.shared.writes = Statements \ db /\ call > Len(body)
        /\ IsInjective(sess.shared.events)
        /\ ToSet(sess.shared.events) = Announced(sess.shared.writes)
        /\ restarts = 0 => db = {}
    BY <2>1 DEF OneTransaction, InTx
  <2>3. db' = Statements
    BY <1>1, <2>1, <2>2, Parts
  <2>4. restarts = 0 => ToSet(sess.shared.events) = Announced(Statements)
    <3>1. restarts = 0 => sess.shared.writes = Statements
      BY <2>2
    <3> QED
      BY <2>2, <3>1
  <2>5. Len(published) = 0 /\ 0 <= Len(sess.shared.events) /\ ToSet(published) = {}
    BY <1>1, <2>2 DEF ToSet
  <2> QED
    BY <1>2, <2>1, <2>2, <2>3, <2>4, <2>5 DEF OneTransaction, InTx
<1>17. CASE Publish
  <2> DEFINE es == sess.shared.events
  <2>1. /\ pc = "publish" /\ sent' = sent + 1 /\ sent + 1 \in 1..Len(es)
        /\ published' = Append(published, es[sent + 1])
        /\ UNCHANGED <<body, pc, call, step, cur, sess, err, db, result, restarts>>
        /\ es[sent + 1] \in Statements
    BY <1>1, <1>17, PublishEffect DEF OneTransaction
  <2>2. /\ published \in Seq(Statements) /\ es \in Seq(Statements) /\ sent \in Nat
        /\ db = Statements /\ IsInjective(es) /\ Len(published) = sent
        /\ \A i \in 1..sent : published[i] = es[i]
        /\ IsInjective(published) /\ ToSet(published) \subseteq db
    BY <2>1, Parts DEF OneTransaction
  <2> HIDE DEF es
  <2>3. es[sent + 1] \notin ToSet(published)
    <3>1. ASSUME NEW i \in 1..sent
          PROVE  published[i] # es[sent + 1]
      BY <2>1, <2>2 DEF IsInjective
    <3> QED
      BY <2>2, <3>1 DEF ToSet
  <2>4. IsInjective(published') /\ ToSet(published') \subseteq db
    BY <2>1, <2>2, <2>3, OneMoreEvent
  <2>5. /\ Len(published') = sent + 1 /\ sent + 1 <= Len(es)
        /\ \A i \in 1..sent + 1 : published'[i] = es[i]
    BY <2>1, <2>2
  <2>6. result = "none"
    BY <2>1 DEF BaseInv
  <2> QED
    BY <1>2, <2>1, <2>2, <2>4, <2>5, <2>6 DEF es, OneTransaction, InTx
<1>18. CASE NestedReturns
  BY <1>1, <1>18 DEF NestedReturns, AllPublished, OneTransaction
<1>19. CASE Succeeds
  <2>1. /\ pc = "publish" /\ sent = Len(sess.shared.events) /\ pc' = "done" /\ result' = "ok"
        /\ UNCHANGED <<body, call, step, cur, sess, err, db, sent, published, restarts>>
    BY <1>1, <1>19 DEF Succeeds, AllPublished, Finish, OneTransaction
  <2>2. /\ published \in Seq(Statements) /\ db = Statements /\ Len(published) = sent
        /\ \A i \in 1..sent : published[i] = sess.shared.events[i]
        /\ restarts = 0 => ToSet(sess.shared.events) = Announced(Statements)
    BY <2>1, Parts DEF OneTransaction
  <2>3. ToSet(published) = ToSet(sess.shared.events)
    <3> DEFINE es == sess.shared.events
    <3>1. es \in Seq(Statements) /\ Len(published) = Len(es)
          /\ \A i \in 1..Len(es) : published[i] = es[i]
      BY <1>1, <2>1, <2>2
    <3> HIDE DEF es
    <3>2. ToSet(published) = ToSet(es)
      BY <2>2, <3>1 DEF ToSet
    <3> QED
      BY <3>2 DEF es
  <2> QED
    BY <1>2, <2>1, <2>2, <2>3 DEF OneTransaction, InTx
<1>20. CASE Crash
  BY <1>2, <1>20 DEF Crash, Finish, BaseInv, OneTransaction, InTx
<1>21. CASE Restart
  <2>1. /\ pc = "done" /\ pc' = "begin" /\ restarts' = restarts + 1 /\ published' = <<>>
        /\ UNCHANGED <<body, db>> /\ result' = "none" /\ cur' = "shared"
    BY <1>21 DEF Restart
  <2>2. IsInjective(published') /\ ToSet(published') = {} /\ restarts' # 0
    BY <2>1, Parts DEF IsInjective, ToSet
  <2> QED
    BY <1>2, <2>1, <2>2 DEF OneTransaction, InTx
<1> QED
  BY <1>4, <1>5, <1>6, <1>7, <1>8, <1>9, <1>10, <1>11, <1>12, <1>13, <1>14, <1>15, <1>16,
     <1>17, <1>18, <1>19, <1>20, <1>21 DEF Next, Step

\* Initially there is nothing.
LEMMA OneTransactionInit == Init => OneTransaction
<1> SUFFICES ASSUME Init PROVE OneTransaction
  OBVIOUS
<1>1. published = <<>> => IsInjective(published) /\ ToSet(published) = {}
  BY DEF IsInjective, ToSet
<1> QED
  BY <1>1 DEF Init, OneTransaction, InTx

PlainInv == BaseInv /\ (Plain => OneTransaction)

\* Every step keeps it.
LEMMA PlainInvNext ==
  ASSUME PlainInv, [Next]_vars
  PROVE  PlainInv' /\ BaseInv /\ BaseInv' /\ body' = body
<1>1. BaseInv /\ BaseInv'
  BY BaseInvNext DEF PlainInv
<1>2. body' = body
  BY DEF Next, Step, vars, Begin, BeginFails, MakeCall, BodyReturns, Execute, SkipFound,
     FailFound, Fail, Returns, LeaveSession, NestedRetry, NestedFails, NestedCommits,
     NestedCommitFails, Publish, NestedReturns, Succeeds, Retry, Fails, Commits, CommitFails,
     Commit, Crash, Restart
<1>3. Plain' = Plain
  BY <1>2, SameBody
<1> QED
  BY <1>1, <1>2, <1>3, OneTransactionKept DEF PlainInv

\* It is so from the beginning.
LEMMA PlainInvAlways == Spec => []PlainInv
<1>1. Init => PlainInv
  BY BaseInvInit, OneTransactionInit DEF PlainInv
<1>2. PlainInv /\ [Next]_vars => PlainInv'
  BY PlainInvNext
<1> QED
  BY <1>1, <1>2, PTL DEF Spec

(***************************************************************************)
(* PlainAllOrNothing: a body whose calls leave the session alone is        *)
(* committed as a whole or not at all, whatever fails or is tried again,   *)
(* and also when the server stops after the COMMIT, before InTransaction   *)
(* has returned.                                                           *)
(***************************************************************************)
THEOREM PlainBodiesAreAtomic == Spec => []PlainAllOrNothing
<1>1. PlainInv => PlainAllOrNothing
  BY DEF PlainInv, OneTransaction, PlainAllOrNothing
<1> QED
  BY <1>1, PlainInvAlways, PTL

-----------------------------------------------------------------------------
(* A body in which one call only writes, as if it had begun the            *)
(* transaction, and hides the kind of its error: ensureMainOrgAndAdminUser *)
(* with createUser.  What that call wrote is committed when it returns, or *)
(* the body fails for good.                                                *)

OneWriter(b, c) ==
  /\ c \in DOMAIN b /\ b[c].how = "nested" /\ b[c].opaque
  /\ \A d \in DOMAIN b \ {c} : b[d].writes = 0

\* The writer is called.
Under(c) == pc \in {"run", "leave"} /\ call = c

\* While it is, what it has done is committed already or in its session.
WriterCollects(c) ==
  Under(c) =>
    /\ cur = "own" => sess.shared.writes = {}
    /\ \A i \in 1..step - 1 : <<c, i>> \in db \cup sess[cur].writes
    /\ pc = "leave" /\ err = "none" => step > body[c].writes

\* Else the sessions that may be committed hold nothing that is not.
NothingHeld(c) ==
  InTx /\ ~ Under(c) /\ (pc = "end" => err = "none") =>
    /\ ToSet(sess.shared.events) \subseteq db /\ sess.shared.writes = {}
    /\ pc \in {"run", "leave"} => ToSet(sess[cur].events) \subseteq db /\ sess[cur].writes = {}

\* Nor does the one whose events are published.
NothingLeft ==
  pc = "publish" => /\ ToSet(sess.shared.events) \subseteq db /\ sess.shared.writes = {}
                    /\ ToSet(sess[cur].events) \subseteq db

\* Unless the server was started again the writer is done or has not begun; when the
\* body is beyond it, it is done.
AllOfIt(c) ==
  restarts = 0 =>
    /\ pc # "done" /\ ~ Under(c) /\ err # "other" => db \in {{}, Statements}
    /\ pc \in {"call", "run", "leave", "publish"} /\ call > c => db = Statements
    /\ pc = "publish" /\ call = c => db = Statements
    /\ pc = "end" /\ err = "none" => db = Statements
    /\ result = "ok" => db = Statements

WriterInv(c) ==
  /\ ToSet(published) \subseteq db
  /\ WriterCollects(c) /\ NothingHeld(c) /\ NothingLeft /\ AllOfIt(c)

\* All statements are the writer's.
LEMMA StatementsOfTheWriter ==
  ASSUME body \in Seq(Call), NEW c, OneWriter(body, c)
  PROVE  /\ c \in 1..Len(body) /\ Len(body) \in Nat /\ body[c].writes \in Nat
         /\ \A w \in Statements : w = <<c, w[2]>> /\ w[2] \in 1..body[c].writes
         /\ \A d \in 1..Len(body) : d # c => body[d].writes = 0
<1>1. /\ c \in 1..Len(body) /\ Len(body) \in Nat /\ body[c].writes \in Nat
      /\ \A d \in 1..Len(body) : d # c => body[d].writes = 0
  BY Calls DEF OneWriter
<1>2. ASSUME NEW w \in Statements
      PROVE  w = <<c, w[2]>> /\ w[2] \in 1..body[c].writes
  <2>1. w = <<w[1], w[2]>> /\ w[1] \in 1..Len(body) /\ w[2] \in 1..body[w[1]].writes
    BY StatementsArePairs
  <2>2. w[1] = c
    BY <1>1, <2>1
  <2> QED
    BY <2>1, <2>2
<1> QED
  BY <1>1, <1>2

\* The commit of the writer leaves nothing out.
LEMMA WriterCommitsAll ==
  ASSUME BaseInv, NEW c, OneWriter(body, c), WriterCollects(c), Under(c),
         pc = "leave", err = "none", db' = db \cup sess[cur].writes
  PROVE  db' = Statements
<1>1. body \in Seq(Call) /\ db \subseteq Statements /\ sess[cur].writes \subseteq Statements
      /\ step \in Nat
  BY Parts
<1>2. step > body[c].writes /\ \A i \in 1..step - 1 : <<c, i>> \in db'
  BY DEF WriterCollects
<1>3. ASSUME NEW w \in Statements
      PROVE  w \in db'
  <2>1. w = <<c, w[2]>> /\ w[2] \in 1..body[c].writes /\ body[c].writes \in Nat
    BY <1>1, StatementsOfTheWriter
  <2>2. w[2] \in 1..step - 1
    BY <1>1, <1>2, <2>1
  <2> QED
    BY <1>2, <2>1, <2>2
<1> QED
  BY <1>1, <1>3

\* No step leaves that.
LEMMA WriterInvKept ==
  ASSUME BaseInv, BaseInv', NEW c, OneWriter(body, c), WriterInv(c), [Next]_vars
  PROVE  WriterInv(c)'
<1>1. /\ body \in Seq(Call) /\ Len(body) \in Nat /\ DOMAIN body = 1..Len(body)
      /\ call \in 1..Len(body) + 1 /\ step \in Nat /\ step >= 1
      /\ cur \in {"shared", "own"} /\ sess.shared = sess["shared"]
      /\ db \subseteq Statements /\ restarts \in Nat
      /\ sess.shared.events \in Seq(Statements) /\ sess[cur].events \in Seq(Statements)
      /\ published \in Seq(Statements)
  BY Parts
<1>2. /\ c \in 1..Len(body) /\ body[c].writes \in Nat
      /\ body[c].how = "nested" /\ body[c].opaque
      /\ \A d \in 1..Len(body) : d # c => body[d].writes = 0
  BY <1>1, StatementsOfTheWriter DEF OneWriter
<1>3. body' = body => Statements' = Statements
  BY SameBody
<1>4. /\ ToSet(published) \subseteq db /\ WriterCollects(c) /\ NothingHeld(c) /\ AllOfIt(c)
      /\ NothingLeft
  BY DEF WriterInv, NothingLeft
<1>5. CASE UNCHANGED vars
  BY <1>3, <1>4, <1>5 DEF vars, WriterInv, WriterCollects, NothingHeld, NothingLeft, AllOfIt, Under, InTx
<1>6. CASE Begin
  <2>1. /\ pc = "begin" /\ pc' = "call" /\ call' = 1 /\ err = "none"
        /\ UNCHANGED <<body, step, cur, err, db, published, result, restarts>>
        /\ sess'.shared = NewTransaction
    BY <1>6, BeginEffect
  <2>2. ToSet(sess'.shared.events) = {} /\ sess'.shared.writes = {}
    BY <2>1, SessionsOfTheORM DEF ToSet
  <2>3. NothingHeld(c)'
    BY <2>1, <2>2 DEF NothingHeld
  <2>4. AllOfIt(c)'
    BY <1>2, <1>3, <1>4, <2>1 DEF AllOfIt, Under, BaseInv
  <2> QED
    BY <1>4, <2>1, <2>3, <2>4 DEF WriterInv, NothingLeft, WriterCollects, Under
<1>7. CASE BeginFails
  BY <1>3, <1>4, <1>7 DEF BeginFails, BaseInv, WriterInv, NothingLeft, WriterCollects, NothingHeld, AllOfIt,
     Under, InTx
<1>8. CASE MakeCall
  <2>1. /\ pc = "call" /\ pc' = "run" /\ step' = 1 /\ cur' = "shared" /\ err = "none"
        /\ UNCHANGED <<body, call, sess, err, db, published, result, restarts>>
    BY <1>8 DEF MakeCall, BaseInv
  <2> QED
    BY <1>1, <1>3, <1>4, <2>1 DEF WriterInv, NothingLeft, WriterCollects, NothingHeld, AllOfIt, Under, InTx
<1>9. CASE BodyReturns
  <2>1. /\ pc = "call" /\ pc' = "end" /\ call > Len(body)
        /\ UNCHANGED <<body, call, step, cur, sess, err, db, published, result, restarts>>
    BY <1>9 DEF BodyReturns
  <2> QED
    BY <1>1, <1>2, <1>3, <1>4, <2>1
       DEF WriterInv, NothingLeft, WriterCollects, NothingHeld, AllOfIt, Under, InTx
<1>10. CASE Execute
  <2>1. /\ UNCHANGED <<body, pc, call, cur, err, published, result, restarts>> /\ pc = "run"
        /\ step' = step + 1 /\ call \in 1..Len(body) /\ step \in 1..body[call].writes
        /\ \A k \in {"shared", "own"} : k # cur => sess'[k] = sess[k]
        /\ sess'[cur].writes = IF sess[cur].tx THEN sess[cur].writes \cup {<<call, step>>}
                                               ELSE sess[cur].writes
        /\ db' = IF sess[cur].tx THEN db ELSE db \cup {<<call, step>>}
    BY <1>10, ExecuteEffect
  <2>2. call = c /\ Under(c) /\ Under(c)'
    BY <1>2, <2>1 DEF Under
  <2>3. sess'.shared = sess'["shared"] /\ err = "none"
    BY <2>1 DEF BaseInv, TypeOK
  <2>4. WriterCollects(c)'
    <3>1. \A i \in 1..step - 1 : <<c, i>> \in db' \cup sess'[cur].writes
      BY <1>4, <2>1, <2>2 DEF WriterCollects
    <3>2. <<c, step>> \in db' \cup sess'[cur].writes
      BY <2>1, <2>2
    <3>3. \A i \in 1..step' - 1 : <<c, i>> \in db' \cup sess'[cur].writes
      <4>1. step' - 1 = step /\ \A i \in 1..step : i \in 1..step - 1 \/ i = step
        BY <1>1, <2>1
      <4> QED
        BY <3>1, <3>2, <4>1
    <3>4. cur = "own" => sess'.shared.writes = {}
      BY <1>1, <1>4, <2>1, <2>2, <2>3 DEF WriterCollects
    <3> QED
      BY <2>1, <3>3, <3>4 DEF WriterCollects
  <2>5. ToSet(published)' \subseteq db' /\ NothingHeld(c)' /\ AllOfIt(c)'
    <3>1. result # "ok" /\ pc' = "run" /\ call' = c
      BY <2>1, <2>2 DEF BaseInv
    <3> QED
      BY <1>2, <1>4, <2>1, <2>2, <3>1 DEF NothingHeld, AllOfIt
  <2> QED
    BY <2>1, <2>4, <2>5 DEF WriterInv, NothingLeft
<1>11. CASE SkipFound
  <2>1. /\ UNCHANGED <<body, pc, call, cur, sess, err, db, published, result, restarts>>
        /\ pc = "run" /\ step' = step + 1 /\ <<call, step>> \in db
    BY <1>11 DEF SkipFound, Found
  <2>2. WriterCollects(c)'
    <3> SUFFICES ASSUME Under(c)
                 PROVE  WriterCollects(c)'
      BY <2>1 DEF WriterCollects, Under
    <3>1. <<c, step>> \in db /\ \A i \in 1..step - 1 : <<c, i>> \in db \cup sess[cur].writes
      BY <1>4, <2>1 DEF WriterCollects, Under
    <3>2. \A i \in 1..step' - 1 : <<c, i>> \in db \cup sess[cur].writes
      BY <1>1, <2>1, <3>1
    <3> QED
      BY <1>4, <2>1, <3>2 DEF WriterCollects
  <2> QED
    BY <1>3, <1>4, <2>1, <2>2 DEF WriterInv, NothingLeft, NothingHeld, AllOfIt, Under, InTx
<1>12. CASE FailFound \/ Fail
  <2>1. /\ UNCHANGED <<body, call, step, cur, sess, db, published, result, restarts>>
        /\ pc = "run" /\ pc' = "leave" /\ err' # "none" /\ err = "none"
    BY <1>12, BodyAssumption DEF FailFound, Fail, BaseInv
  <2> QED
    BY <1>3, <1>4, <2>1 DEF WriterInv, NothingLeft, WriterCollects, NothingHeld, AllOfIt, Under, InTx
<1>13. CASE Returns
  <2>1. /\ UNCHANGED <<body, call, step, cur, sess, err, db, published, result, restarts>>
        /\ pc = "run" /\ pc' = "leave" /\ step > body[call].writes
    BY <1>13 DEF Returns
  <2> QED
    BY <1>3, <1>4, <2>1 DEF WriterInv, NothingLeft, WriterCollects, NothingHeld, AllOfIt, Under, InTx
<1>14. CASE LeaveSession
  <2>1. /\ pc = "leave" /\ Proceed(err) /\ body[call].how # "nested"
        /\ UNCHANGED <<body, step, cur, db, published, result, restarts>>
        /\ sess'.shared.writes \in {sess.shared.writes, {}}
        /\ sess'.shared.events = sess.shared.events
    BY <1>14, LeaveEffect
  <2>2. ~ Under(c) /\ call \in 1..Len(body) /\ call # c
    BY <1>2, <2>1, ProceedEffect, Parts DEF Under
  <2>3. \/ /\ err = "none" /\ pc' = "call" /\ err' = "none"
           /\ IF body[call].until \cap db # {} THEN call' = Len(body) + 1 ELSE call' = call + 1
        \/ err # "none" /\ pc' = "end" /\ err' # "none" /\ call' = call /\ err' \in {err, "other"}
    BY <2>1, ProceedEffect, Parts
  <2>4. NothingHeld(c)' /\ WriterCollects(c)'
    BY <1>4, <2>1, <2>2, <2>3 DEF NothingHeld, WriterCollects, Under, InTx
  <2>5. AllOfIt(c)'
    <3>1. CASE err # "none"
      BY <1>3, <1>4, <2>1, <2>2, <2>3, <3>1 DEF AllOfIt, Under, BaseInv
    <3>2. CASE err = "none" /\ body[call].until \cap db # {}
      BY <1>3, <1>4, <2>1, <2>2, <2>3, <3>2 DEF AllOfIt, Under, BaseInv
    <3>3. CASE err = "none" /\ call' = call + 1
      BY <1>2, <1>3, <1>4, <2>1, <2>2, <2>3, <3>3 DEF AllOfIt, Under, BaseInv
    <3> QED
      BY <2>3, <3>1, <3>2, <3>3
  <2>6. pc' # "publish"
    BY <2>3
  <2> QED
    BY <1>4, <2>1, <2>4, <2>5, <2>6 DEF WriterInv, NothingLeft
<1>15. CASE NestedRetry
  <2>1. /\ pc = "leave" /\ pc' = "run" /\ cur' = "own" /\ step' = 1 /\ err' = "none"
        /\ UNCHANGED <<body, call, db, published, result, restarts>>
        /\ sess'["own"] = NewTransaction
        /\ sess'.shared.events = sess.shared.events
        /\ sess'.shared.writes = IF cur = "shared" THEN {} ELSE sess.shared.writes
    BY <1>15, NestedRetryEffect
  <2>2. sess'[cur'].writes = {} /\ ToSet(sess'[cur'].events) = {}
    BY <2>1, SessionsOfTheORM DEF ToSet
  <2>3. WriterCollects(c)'
    BY <1>1, <1>4, <2>1, <2>2 DEF WriterCollects, Under
  <2>4. NothingHeld(c)'
    BY <1>1, <1>4, <2>1, <2>2 DEF NothingHeld, Under, InTx
  <2>5. AllOfIt(c)'
    <3>1. err # "other"
      BY <1>15 DEF NestedRetry, Retryable
    <3> QED
      BY <1>3, <1>4, <2>1, <3>1 DEF AllOfIt, Under, BaseInv
  <2> QED
    BY <1>4, <2>1, <2>3, <2>4, <2>5 DEF WriterInv, NothingLeft
<1>16. CASE NestedFails \/ NestedCommitFails
  <2>1. /\ pc = "leave" /\ pc' = "end" /\ err' # "none" /\ (body[call].opaque => err' = "other")
        /\ call' = call /\ UNCHANGED <<body, step, cur, db, published, result, restarts>>
    BY <1>16, NestedFailsEffect
  <2>2. err # "other" \/ err' = "other"
    BY <1>16 DEF NestedFails, NestedCommitFails, Proceed
  <2>3. Under(c) => err' = "other"
    BY <1>2, <2>1 DEF Under
  <2>4. AllOfIt(c)'
    BY <1>3, <1>4, <2>1, <2>2, <2>3 DEF AllOfIt, Under, BaseInv
  <2> QED
    BY <1>4, <2>1, <2>4 DEF WriterInv, NothingLeft, WriterCollects, NothingHeld, Under, InTx
<1>17. CASE NestedCommits
  <2>1. /\ pc = "leave" /\ err = "none" /\ Commit(cur) /\ call \in 1..Len(body)
        /\ UNCHANGED <<body, call, step, cur, err, published, result, restarts>>
    BY <1>17, NestedCommitsEffect
  <2>2. result = "none" /\ pc' = "publish"
    BY <2>1 DEF BaseInv, Commit
  <2>3. /\ db' = db \cup sess[cur].writes
        /\ sess'[cur].writes = {} /\ sess'[cur].events = sess[cur].events
        /\ \A j \in {"shared", "own"} : j # cur => sess'[j] = sess[j]
        /\ sess'.shared = sess'["shared"]
    BY <1>1, <2>1, CommitEffect
  <2>4. ToSet(published') \subseteq db' /\ WriterCollects(c)' /\ NothingHeld(c)'
    BY <1>4, <2>1, <2>2, <2>3 DEF WriterCollects, NothingHeld, Under, InTx
  <2>5. sess'.shared.events = sess.shared.events
    BY <1>1, <2>3
  <2>6. CASE call = c
    <3>1. db' = Statements
      BY <1>4, <2>1, <2>3, <2>6, WriterCommitsAll DEF Under
    <3>2. ToSet(sess[cur].events) \subseteq Statements /\ ToSet(sess.shared.events) \subseteq Statements
      BY <1>1 DEF ToSet
    <3>3. sess'.shared.writes = {}
      BY <1>1, <1>4, <2>1, <2>3, <2>6 DEF WriterCollects, Under
    <3>4. NothingLeft'
      BY <2>1, <2>3, <2>5, <3>1, <3>2, <3>3 DEF NothingLeft
    <3>5. AllOfIt(c)'
      BY <1>3, <2>1, <2>2, <3>1 DEF AllOfIt
    <3> QED
      BY <2>4, <3>4, <3>5 DEF WriterInv
  <2>7. CASE call # c
    <3>1. /\ ToSet(sess.shared.events) \subseteq db /\ sess.shared.writes = {}
          /\ ToSet(sess[cur].events) \subseteq db /\ sess[cur].writes = {}
      BY <1>4, <2>1, <2>7 DEF NothingHeld, InTx, Under
    <3>2. db' = db /\ sess'.shared.writes = {}
      BY <1>1, <2>3, <3>1
    <3>3. NothingLeft'
      BY <2>1, <2>3, <2>5, <3>1, <3>2 DEF NothingLeft
    <3>4. AllOfIt(c)'
      BY <1>3, <1>4, <2>1, <2>2, <2>7, <3>2 DEF AllOfIt, Under, BaseInv
    <3> QED
      BY <2>4, <3>3, <3>4 DEF WriterInv
  <2> QED
    BY <2>6, <2>7
<1>18. CASE Publish
  <2>1. /\ pc = "publish" /\ published' = Append(published, sess[cur].events[sent + 1])
        /\ sess[cur].events[sent + 1] \in ToSet(sess[cur].events)
        /\ sess[cur].events[sent + 1] \in Statements
        /\ UNCHANGED <<body, pc, call, step, cur, sess, err, db, result, restarts>>
    BY <1>18, PublishEffect
  <2>2. ToSet(published') \subseteq ToSet(published) \cup ToSet(sess[cur].events)
    BY <1>1, <2>1, OneMoreEvent
  <2>3. ToSet(published') \subseteq db'
    BY <1>4, <2>1, <2>2 DEF NothingLeft
  <2> QED
    BY <1>3, <1>4, <2>1, <2>3 DEF WriterInv, NothingLeft, WriterCollects, NothingHeld, AllOfIt,
       Under, InTx
<1>19. CASE NestedReturns \/ Succeeds
  <2>1. /\ pc = "publish" /\ err = "none"
        /\ UNCHANGED <<body, step, cur, sess, db, published, restarts>>
        /\ \/ /\ call \in 1..Len(body) /\ pc' = "call" /\ err' = "none" /\ UNCHANGED result
              /\ IF body[call].until \cap db # {} THEN call' = Len(body) + 1
                                                  ELSE call' = call + 1
           \/ call > Len(body) /\ pc' = "done" /\ result' = "ok"
    BY <1>19, PublishedEffect
  <2>2. ToSet(published') \subseteq db' /\ WriterCollects(c)' /\ NothingHeld(c)' /\ NothingLeft'
    BY <1>4, <2>1 DEF WriterCollects, NothingHeld, NothingLeft, Under, InTx
  <2>3. AllOfIt(c)'
    <3>1. CASE pc' = "done"
      BY <1>1, <1>2, <1>3, <1>4, <2>1, <3>1 DEF AllOfIt
    <3>2. CASE pc' = "call" /\ body[call].until \cap db # {}
      BY <1>3, <1>4, <2>1, <3>2 DEF AllOfIt, Under, BaseInv
    <3>3. CASE pc' = "call" /\ call' = call + 1
      BY <1>1, <1>2, <1>3, <1>4, <2>1, <3>3 DEF AllOfIt, Under, BaseInv
    <3> QED
      BY <2>1, <3>1, <3>2, <3>3
  <2> QED
    BY <2>2, <2>3 DEF WriterInv
<1>20. CASE Retry
  <2>1. /\ pc = "end" /\ pc' = "begin" /\ err # "other" /\ err' = "none"
        /\ UNCHANGED <<body, call, step, cur, db, published, result, restarts>>
    BY <1>20 DEF Retry, Retryable
  <2> QED
    BY <1>3, <1>4, <2>1 DEF WriterInv, NothingLeft, WriterCollects, NothingHeld, AllOfIt, Under, InTx, BaseInv
<1>21. CASE Fails \/ CommitFails
  <2>1. /\ pc' = "done" /\ result' = "error" /\ UNCHANGED <<body, db, published, restarts>>
    BY <1>21 DEF Fails, CommitFails, Finish
  <2> QED
    BY <1>4, <2>1 DEF WriterInv, NothingLeft, WriterCollects, NothingHeld, AllOfIt, Under, InTx
<1>22. CASE Commits
  <2>1. /\ pc = "end" /\ pc' = "publish" /\ err = "none" /\ result = "none" /\ cur' = "shared"
        /\ UNCHANGED <<body, call, step, err, published, result, restarts>>
        /\ db' = db \cup sess.shared.writes
        /\ sess'["shared"].writes = {} /\ sess'["shared"].events = sess.shared.events
        /\ sess'.shared = sess'["shared"]
    BY <1>1, <1>22, CommitsEffect, CommitEffect DEF BaseInv
  <2>2. ToSet(sess.shared.events) \subseteq db /\ sess.shared.writes = {}
    BY <1>4, <2>1 DEF NothingHeld, InTx, Under
  <2>3. db' = db /\ NothingLeft'
    BY <2>1, <2>2 DEF NothingLeft
  <2>4. AllOfIt(c)'
    BY <1>3, <1>4, <2>1, <2>3 DEF AllOfIt
  <2> QED
    BY <1>4, <2>1, <2>3, <2>4 DEF WriterInv, WriterCollects, NothingHeld, Under, InTx
<1>23. CASE Crash
  <2>1. /\ pc' = "done" /\ result' = "crashed" /\ UNCHANGED <<body, db, published, restarts>>
    BY <1>23 DEF Crash, Finish
  <2> QED
    BY <1>4, <2>1 DEF WriterInv, NothingLeft, WriterCollects, NothingHeld, AllOfIt, Under, InTx
<1>24. CASE Restart
  <2>1. /\ pc' = "begin" /\ restarts' = restarts + 1 /\ UNCHANGED <<body, db>>
        /\ published' = <<>>
    BY <1>24 DEF Restart
  <2>2. ToSet(published') = {}
    BY <2>1 DEF ToSet
  <2> QED
    BY <1>1, <2>1, <2>2 DEF WriterInv, NothingLeft, WriterCollects, NothingHeld, AllOfIt, Under, InTx
<1> QED
  BY <1>5, <1>6, <1>7, <1>8, <1>9, <1>10, <1>11, <1>12, <1>13, <1>14, <1>15, <1>16, <1>17,
     <1>18, <1>19, <1>20, <1>21, <1>22, <1>23, <1>24 DEF Next, Step

\* The bodies of which a success is complete: all calls leave the session alone, or one
\* of them writes, commits, and hides the kind of its error.
CommitsOnce(b) ==
  \/ \A c \in DOMAIN b : b[c].how = "plain"
  \/ \E c \in DOMAIN b : OneWriter(b, c)

WholeInv == PlainInv /\ \A c \in DOMAIN body : OneWriter(body, c) => WriterInv(c)

\* It is so from the beginning.
LEMMA WholeInvAlways == Spec => []WholeInv
<1>1. ASSUME Init
      PROVE  WholeInv
  <2>1. PlainInv
    BY <1>1, BaseInvInit, OneTransactionInit DEF PlainInv
  <2>2. ASSUME NEW c \in DOMAIN body
        PROVE  WriterInv(c)
    <3>1. ToSet(published) = {}
      BY <1>1 DEF Init, ToSet
    <3> QED
      BY <1>1, <3>1 DEF Init, WriterInv, WriterCollects, NothingHeld, NothingLeft, AllOfIt,
         Under, InTx
  <2> QED
    BY <2>1, <2>2 DEF WholeInv
<1>2. ASSUME WholeInv, [Next]_vars
      PROVE  WholeInv'
  <2>1. PlainInv' /\ BaseInv /\ BaseInv' /\ body' = body
    BY <1>2, PlainInvNext DEF WholeInv
  <2>2. ASSUME NEW c \in DOMAIN body, OneWriter(body, c)
        PROVE  WriterInv(c)'
    BY <1>2, <2>1, <2>2, WriterInvKept DEF WholeInv
  <2> QED
    BY <2>1, <2>2 DEF WholeInv
<1> QED
  BY <1>1, <1>2, PTL DEF Spec

(***************************************************************************)
(* SuccessIsComplete: when InTransaction reports success all that the body *)
(* wrote is in the database, however often its calls were tried again, in  *)
(* whichever session.                                                      *)
(***************************************************************************)
THEOREM SuccessesAreComplete ==
  (\A b \in Bodies : CommitsOnce(b)) => (Spec => []SuccessIsComplete)
<1> SUFFICES ASSUME \A b \in Bodies : CommitsOnce(b)
             PROVE  Spec => []SuccessIsComplete
  OBVIOUS
<1>1. ASSUME WholeInv
      PROVE  SuccessIsComplete
  <2>1. /\ Plain => OneTransaction
        /\ CommitsOnce(body)
        /\ \A c \in DOMAIN body : OneWriter(body, c) => AllOfIt(c)
    BY <1>1, Parts DEF WholeInv, PlainInv, WriterInv
  <2>2. Plain \/ \E c \in DOMAIN body : OneWriter(body, c)
    BY <2>1 DEF CommitsOnce, Plain
  <2>3. CASE Plain
    BY <2>1, <2>3 DEF OneTransaction, SuccessIsComplete
  <2>4. CASE ~ Plain
    BY <2>1, <2>2, <2>4 DEF AllOfIt, SuccessIsComplete
  <2> QED
    BY <2>3, <2>4
<1> QED
  BY <1>1, WholeInvAlways, PTL

(***************************************************************************)
(* EventsMatchCommits: no event is published of what was not committed;    *)
(* and where the calls leave the session alone each is published once, and *)
(* none is missing.                                                        *)
(***************************************************************************)
THEOREM EventsFollowCommits ==
  (\A b \in Bodies : CommitsOnce(b)) => (Spec => []EventsMatchCommits)
<1> SUFFICES ASSUME \A b \in Bodies : CommitsOnce(b)
             PROVE  Spec => []EventsMatchCommits
  OBVIOUS
<1>1. ASSUME WholeInv
      PROVE  EventsMatchCommits
  <2>1. /\ Plain => OneTransaction
        /\ CommitsOnce(body)
        /\ \A c \in DOMAIN body : OneWriter(body, c) => ToSet(published) \subseteq db
    BY <1>1, Parts DEF WholeInv, PlainInv, WriterInv
  <2>2. Plain \/ \E c \in DOMAIN body : OneWriter(body, c)
    BY <2>1 DEF CommitsOnce, Plain
  <2>3. CASE Plain
    BY <2>1, <2>3 DEF OneTransaction, EventsMatchCommits, Announced
  <2>4. CASE ~ Plain
    BY <2>1, <2>2, <2>4 DEF EventsMatchCommits
  <2> QED
    BY <2>3, <2>4
<1> QED
  BY <1>1, WholeInvAlways, PTL

-----------------------------------------------------------------------------
(* InTransaction comes to an end unless the database is busy for ever:     *)
(* every other step goes forward in an order of which each part is         *)
(* bounded.  (That it takes those steps is fairness.)                      *)

\* What an attempt is at: its begin, its calls, its end, its events.
Phase ==
  CASE pc = "begin" -> 0
    [] pc \in {"call", "run", "leave"} \/ (pc = "publish" /\ call <= Len(body)) -> 1
    [] pc = "end" -> 2
    [] pc = "publish" /\ call > Len(body) -> 3
    [] pc = "done" -> 4

\* What the attempt of a call is at: its statements, its end, its events.
Stage == IF pc = "run" THEN 0 ELSE IF pc = "leave" THEN 1 ELSE 2

\* Another start, another attempt, its next phase, call of the body, attempt
\* of that call, statement, stage of the call, event.
Forward ==
  \/ restarts' > restarts
  \/ /\ restarts' = restarts
     /\ \/ retry' > retry
        \/ /\ retry' = retry
           /\ \/ Phase' > Phase
              \/ /\ Phase' = Phase
                 /\ \/ call' > call
                    \/ call' = call /\ pc = "call" /\ pc' = "run"
                    \/ /\ call' = call /\ pc # "call" /\ pc' # "call"
                       /\ \/ inner' > inner
                          \/ /\ inner' = inner
                             /\ \/ step' > step
                                \/ step' = step /\ Stage' > Stage
                                \/ step' = step /\ Stage' = Stage /\ sent' > sent

\* The database is busy, and all is tried again.
BusyAgain == err = "busy" /\ (Retry \/ NestedRetry)

\* The parts of that order: no attempt makes more calls, statements or events
\* than the body has and its session holds.
Bounded ==
  /\ restarts <= Restarts /\ retry <= MaxRetry /\ inner <= MaxRetry
  /\ call <= Len(body) + 1
  /\ pc \in {"run", "leave"} => step <= body[call].writes + 1
  /\ pc = "publish" => sent <= Len(sess[cur].events)

BoundedInv == Bounded /\ (pc = "end" /\ err = "none" => call > Len(body))

LEMMA BoundedNext ==
  ASSUME BaseInv, BaseInv', BoundedInv, [Next]_vars
  PROVE  BoundedInv' /\ (Forward \/ BusyAgain \/ UNCHANGED vars)
<1>1. /\ retry \in 0..MaxRetry /\ inner \in 0..MaxRetry /\ restarts \in Nat /\ step \in Nat
      /\ retry' \in 0..MaxRetry /\ inner' \in 0..MaxRetry /\ MaxRetry \in Nat
      /\ Restarts \in Nat /\ sent \in Nat
      /\ Len(body) \in Nat /\ call \in 1..(Len(body) + 1)
      /\ pc \in {"begin", "call", "run", "leave", "end", "publish", "done"}
      /\ err \in {"none", "locked", "busy", "other"}
      /\ pc \in {"begin", "call", "run", "publish"} => err = "none"
      /\ pc \in {"run", "leave"} => call \in 1..Len(body) /\ body[call].writes \in Nat
  <2>1. /\ Restarts \in Nat /\ call \in 1..(Len(body) + 1)
        /\ retry' \in 0..MaxRetry /\ inner' \in 0..MaxRetry
    BY Parts, BodyAssumption DEF BaseInv, TypeOK
  <2>2. pc \in {"run", "leave"} => call \in 1..Len(body)
    BY Parts, <2>1 DEF BaseInv
  <2>3. pc \in {"run", "leave"} => body[call].writes \in Nat
    BY Parts, Calls, <2>2
  <2> QED
    BY Parts, <2>1, <2>2, <2>3 DEF BaseInv, TypeOK
<1>2. CASE UNCHANGED vars
  BY <1>2 DEF vars, BoundedInv, Bounded
<1>3. CASE Begin \/ BeginFails
  BY <1>1, <1>3 DEF Begin, BeginFails, BoundedInv, Bounded, Forward, Phase
<1>4. CASE MakeCall
  <2>1. call \in 1..Len(body) /\ body[call].writes \in Nat
    BY <1>1, <1>4, Parts, Calls DEF MakeCall
  <2> QED
    BY <1>1, <1>4, <2>1 DEF MakeCall, BoundedInv, Bounded, Forward, Phase
<1>5. CASE BodyReturns
  BY <1>1, <1>5 DEF BodyReturns, BoundedInv, Bounded, Forward, Phase
<1>6. CASE Execute
  BY <1>1, <1>6 DEF Execute, BoundedInv, Bounded, Forward, Phase
<1>7. CASE SkipFound
  <2>1. <<call, step>> \in Statements
    BY <1>7, Parts DEF SkipFound, Found
  <2>2. step \in 1..body[call].writes
    <3> DEFINE w == <<call, step>>
    <3>1. w \in Statements => w[2] \in 1..body[w[1]].writes
      BY Parts, StatementsArePairs
    <3> QED
      BY <2>1, <3>1
  <2> QED
    BY <1>1, <1>7, <2>2 DEF SkipFound, BoundedInv, Bounded, Forward, Phase
<1>8. CASE FailFound \/ Returns
  BY <1>1, <1>8 DEF FailFound, Returns, BoundedInv, Bounded, Forward, Phase, Stage
<1>9. CASE Fail
  BY <1>1, <1>9, BodyAssumption DEF Fail, BoundedInv, Bounded, Forward, Phase, Stage
<1>10. CASE LeaveSession \/ NestedFails \/ NestedCommitFails
  <2>1. /\ pc = "leave"
        /\ UNCHANGED <<body, step, retry, inner, restarts>>
        /\ Proceed(err) \/ Proceed("other")
    BY <1>10 DEF LeaveSession, NestedFails, NestedCommitFails
  <2>2. PICK e \in {"none", "locked", "busy", "other"} : Proceed(e) /\ e \in {err, "other"}
    BY <1>1, <2>1
  <2>3. \/ pc' = "call" /\ call' > call /\ call' <= Len(body) + 1 /\ err' = "none"
        \/ pc' = "end" /\ call' = call /\ err' # "none"
    BY <1>1, <2>1, <2>2, ProceedEffect
  <2> QED
    BY <1>1, <2>1, <2>3 DEF BoundedInv, Bounded, Forward, Phase
<1>11. CASE NestedCommits
  <2>1. /\ pc = "leave" /\ pc' = "publish" /\ sent' = 0 /\ sess'[cur].events = sess[cur].events
        /\ UNCHANGED <<body, call, step, cur, err, retry, inner, restarts>>
    BY <1>11, NestedCommitsEffect, CommitEffect, Parts
  <2>2. 0 <= Len(sess[cur].events)
    BY Parts
  <2> QED
    BY <1>1, <2>1, <2>2 DEF BoundedInv, Bounded, Forward, Phase, Stage
<1>12. CASE Publish
  <2>1. /\ pc = "publish" /\ sent' = sent + 1 /\ sent + 1 \in 1..Len(sess[cur].events)
        /\ UNCHANGED <<body, pc, call, step, cur, sess, err, retry, inner, restarts>>
    BY <1>12, PublishEffect
  <2> QED
    BY <1>1, <2>1 DEF BoundedInv, Bounded, Forward, Phase, Stage
<1>13. CASE NestedReturns \/ Succeeds
  <2>1. /\ pc = "publish"
        /\ UNCHANGED <<body, step, retry, inner, restarts>>
        /\ \/ /\ call \in 1..Len(body) /\ pc' = "call" /\ err' = "none"
              /\ call' \in {call + 1, Len(body) + 1}
           \/ call > Len(body) /\ pc' = "done" /\ UNCHANGED call
    BY <1>13, PublishedEffect
  <2> QED
    BY <1>1, <2>1 DEF BoundedInv, Bounded, Forward, Phase
<1>14. CASE NestedRetry
  <2>1. /\ pc = "leave" /\ pc' = "run" /\ err' = "none" /\ inner' = OneMore(inner) /\ step' = 1
        /\ UNCHANGED <<body, call, retry, restarts>> /\ Retryable(err, inner)
    BY <1>14 DEF NestedRetry
  <2>2. err # "busy" => inner' > inner
    BY <1>1, <2>1, MoreRetries DEF Retryable
  <2>3. BoundedInv'
    BY <1>1, <2>1 DEF BoundedInv, Bounded
  <2> QED
    BY <1>1, <1>14, <2>1, <2>2, <2>3 DEF Forward, Phase, BusyAgain
<1>15. CASE Retry
  <2>1. /\ retry' = OneMore(retry) /\ Retryable(err, retry) /\ pc' = "begin"
        /\ UNCHANGED <<body, call, restarts>>
    BY <1>15 DEF Retry
  <2>2. err # "busy" => retry' > retry
    BY <1>1, <2>1, MoreRetries DEF Retryable
  <2>3. BoundedInv'
    BY <1>1, <1>15, <2>1 DEF Retry, BoundedInv, Bounded
  <2> QED
    BY <1>1, <1>15, <2>1, <2>2, <2>3 DEF Forward, BusyAgain
<1>16. CASE Commits
  <2>1. /\ pc = "end" /\ err = "none" /\ pc' = "publish" /\ sent' = 0 /\ cur' = "shared"
        /\ sess'["shared"].events = sess.shared.events
        /\ UNCHANGED <<body, call, step, err, retry, inner, restarts>>
    BY <1>16, CommitsEffect, CommitEffect, Parts
  <2>2. 0 <= Len(sess.shared.events)
    BY Parts
  <2> QED
    BY <1>1, <2>1, <2>2 DEF BoundedInv, Bounded, Forward, Phase
<1>17. CASE Fails \/ CommitFails \/ Crash
  BY <1>1, <1>17 DEF Fails, CommitFails, Crash, Finish, BoundedInv, Bounded, Forward, Phase
<1>18. CASE Restart
  BY <1>1, <1>18 DEF Restart, BoundedInv, Bounded, Forward
<1> QED
  BY <1>2, <1>3, <1>4, <1>5, <1>6, <1>7, <1>8, <1>9, <1>10, <1>11, <1>12, <1>13, <1>14, <1>15,
     <1>16, <1>17, <1>18 DEF Next, Step

LEMMA BoundedAlways == Spec => [](BaseInv /\ BoundedInv)
<1>1. Init => BaseInv /\ BoundedInv
  <2> SUFFICES ASSUME Init PROVE BoundedInv
    BY BaseInvInit
  <2>1. BaseInv
    BY BaseInvInit
  <2> QED
    BY <2>1, Parts, BodyAssumption DEF Init, BoundedInv, Bounded
<1>2. BaseInv /\ BoundedInv /\ [Next]_vars => (BaseInv /\ BoundedInv)'
  BY BaseInvNext, BoundedNext
<1> QED
  BY <1>1, <1>2, PTL DEF Spec

(***************************************************************************)
(* Every step of InTransaction goes forward, but for the retries of a busy *)
(* database; with the bounds there are no endless executions without one,  *)
(* for any body and any mix of errors at both levels.                      *)
(***************************************************************************)
THEOREM EachStepForward == Spec => []Bounded /\ [][Forward \/ BusyAgain]_vars
<1>1. BoundedInv => Bounded
  BY DEF BoundedInv
<1>2. BaseInv /\ BoundedInv /\ [Next]_vars => [Forward \/ BusyAgain]_vars
  BY BaseInvNext, BoundedNext
<1> QED
  BY <1>1, <1>2, BoundedAlways, PTL DEF Spec
=============================================================================
