---------------------------- MODULE AlertHAProofs ----------------------------
(* Proofs about AlertHA for every set of servers, every rule and channel. *)
EXTENDS AlertHA, SequenceTheorems, FiniteSetTheorems, TLAPS

\* An evaluation works on a rule that was loaded from the database.
EvaluatesLoadedRules ==
  \A s \in Servers : ev[s].pc # "idle" =>
    /\ ev[s].prev \in AlertStates
    /\ ev[s].rule \in LoadedRules
    /\ rule[s] \in LoadedRules \cup {DeletedRule}
    /\ ev[s].pc = "write" => ev[s].read \in LoadedRules

\* Evaluations work on rules that were loaded: with the types, this is inductive.
HAInv == TypeOK /\ EvaluatesLoadedRules

\* Loaded rules are rules, and have states of alerts.
LEMMA RuleTypes ==
  /\ NoRule \in Rules /\ DeletedRule \in Rules /\ LoadedRules \subseteq Rules
  /\ NoRule.state \notin AlertStates /\ DeletedRule.state \notin AlertStates
  /\ NoEval \in Evaluations
  /\ \A r \in Rules : r.state \notin {"none", "deleted"} => r \in LoadedRules
  /\ \A r \in LoadedRules : r.changes \in Nat /\ r.date \in Nat /\ r.state \in AlertStates
  BY DEF NoRule, DeletedRule, Rules, LoadedRules, AlertStates, NoEval, Evaluations

\* The state an evaluation leads to is a state of alerts.
LEMMA NewStateType ==
  ASSUME NEW prev \in AlertStates, NEW result \in Results, NEW since \in Int
  PROVE  NewState(prev, result, since) \in AlertStates
<1>1. ResultState(prev, result) \in AlertStates
  BY RuleAssumption DEF ResultState, Results, AlertStates
<1> QED
  BY <1>1 DEF NewState, AlertStates

\* What is loaded from the database is a rule.
LEMMA LoadedFromDatabase ==
  ASSUME TypeOK
  PROVE  /\ RuleOf(alert) \in LoadedRules
         /\ RuleInDatabase \in LoadedRules \cup {DeletedRule}
  BY DEF TypeOK, RuleOf, RuleInDatabase, LoadedRules

\* Only s's evaluation changes, from one legal record to another.
LEMMA OneEvaluationChanges ==
  ASSUME ev \in [Servers -> Evaluations], NEW s \in Servers, NEW e \in Evaluations,
         ev' = [ev EXCEPT ![s] = e]
  PROVE  /\ ev' \in [Servers -> Evaluations]
         /\ ev'[s] = e
         /\ \A t \in Servers \ {s} : ev'[t] = ev[t]
  OBVIOUS

\* HAInv holds after a step of s that leaves its evaluation in a state e which
\* is idle or has a loaded rule, and writes no other rule than s's.
LEMMA HAInvByEvaluation ==
  ASSUME HAInv, NEW s \in Servers, NEW e \in Evaluations,
         ev' = [ev EXCEPT ![s] = e],
         e.pc # "idle" =>
           /\ e.prev \in AlertStates
           /\ e.rule \in LoadedRules
           /\ e.pc = "write" => e.read \in LoadedRules
           /\ rule'[s] \in LoadedRules \cup {DeletedRule},
         rule' \in [Servers -> Rules],
         \A t \in Servers \ {s} : rule'[t] = rule[t]
  PROVE  ev' \in [Servers -> Evaluations] /\ EvaluatesLoadedRules'
<1>1. /\ ev' \in [Servers -> Evaluations]
      /\ ev'[s] = e
      /\ \A t \in Servers \ {s} : ev'[t] = ev[t]
  BY OneEvaluationChanges DEF HAInv, TypeOK
<1>2. EvaluatesLoadedRules'
  <2> SUFFICES ASSUME NEW t \in Servers, ev'[t].pc # "idle"
               PROVE  /\ ev'[t].prev \in AlertStates
                      /\ ev'[t].rule \in LoadedRules
                      /\ rule'[t] \in LoadedRules \cup {DeletedRule}
                      /\ ev'[t].pc = "write" => ev'[t].read \in LoadedRules
    BY DEF EvaluatesLoadedRules
  <2>1. CASE t = s
    BY <2>1, <1>1
  <2>2. CASE t # s
    BY <2>2, <1>1 DEF HAInv, EvaluatesLoadedRules
  <2> QED
    BY <2>1, <2>2
<1> QED
  BY <1>1, <1>2

\* The initial state.
LEMMA HAInvInit == Init => HAInv
<1> SUFFICES ASSUME Init PROVE HAInv
  OBVIOUS
<1>1. \A s \in Servers : ev[s] = NoEval
  BY DEF Init
<1>2. EvaluatesLoadedRules
  BY <1>1 DEF EvaluatesLoadedRules, NoEval
<1>3. /\ rule \in [Servers -> Rules] /\ fetched \in [Servers -> Rules]
      /\ ev \in [Servers -> Evaluations]
  BY RuleTypes DEF Init
<1>4. /\ alert \in [exists : BOOLEAN, state : AlertStates, changes : Nat, date : Nat]
      /\ nstate \in [id : 0..2, status : {"unknown", "pending", "completed"},
                     version : Nat, updatedAt : Nat, seen : Nat]
      /\ lastChange \in Changes /\ lost \subseteq Nat
      /\ claims \in Seq(Claims) /\ now \in Nat
  BY DEF Init, AlertStates, NoRow, NoChange, Changes
<1> QED
  BY <1>2, <1>3, <1>4 DEF HAInv, TypeOK

-----------------------------------------------------------------------------
(* HAInv, step by step.  The steps that leave claims and the rows alone.   *)

\* The rows and histories a step may leave alone keep their types.
LEMMA HAInvReaders ==
  ASSUME HAInv, NEW s \in Servers, Refresh(s) \/ Fetch(s) \/ Update(s) \/ Crash(s)
  PROVE  HAInv'
<1> USE RuleTypes
<1>1. ev[s] \in Evaluations /\ fetched[s] \in Rules
  BY DEF HAInv, TypeOK
<1> DEFINE detached == [ev[s] EXCEPT !.attached = FALSE]
<1>2. /\ detached \in Evaluations
      /\ detached.pc = ev[s].pc /\ detached.prev = ev[s].prev
      /\ detached.rule = ev[s].rule /\ detached.read = ev[s].read
  BY <1>1 DEF Evaluations
<1>3. detached.pc # "idle" =>
        /\ detached.prev \in AlertStates
        /\ detached.rule \in LoadedRules
        /\ detached.pc = "write" => detached.read \in LoadedRules
  BY <1>2 DEF HAInv, EvaluatesLoadedRules
<1> HIDE DEF detached
<1>4. CASE Refresh(s)
  <2>1. ev' = [ev EXCEPT ![s] = detached]
    BY <1>4 DEF Refresh, detached
  <2>2. /\ rule' \in [Servers -> Rules]
        /\ rule'[s] \in LoadedRules \cup {DeletedRule}
        /\ \A t \in Servers \ {s} : rule'[t] = rule[t]
    BY <1>4, LoadedFromDatabase DEF Refresh, HAInv, TypeOK
  <2>3. ev' \in [Servers -> Evaluations] /\ EvaluatesLoadedRules'
    BY <1>2, <1>3, <2>1, <2>2, HAInvByEvaluation
  <2> QED
    BY <1>4, <2>2, <2>3 DEF Refresh, HAInv, TypeOK
<1>5. CASE Fetch(s)
  BY <1>5, LoadedFromDatabase DEF Fetch, HAInv, TypeOK, EvaluatesLoadedRules
<1>6. CASE Update(s)
  <2>1. ev' = [ev EXCEPT ![s] = detached]
    BY <1>6 DEF Update, detached
  <2>2. /\ rule' \in [Servers -> Rules]
        /\ rule'[s] \in LoadedRules \cup {DeletedRule}
        /\ \A t \in Servers \ {s} : rule'[t] = rule[t]
    BY <1>1, <1>6 DEF Update, HAInv, TypeOK, Rules
  <2>3. ev' \in [Servers -> Evaluations] /\ EvaluatesLoadedRules'
    BY <1>2, <1>3, <2>1, <2>2, HAInvByEvaluation
  <2> QED
    BY <1>6, <2>2, <2>3 DEF Update, HAInv, TypeOK
<1>7. CASE Crash(s)
  <2>1. ev' = [ev EXCEPT ![s] = NoEval] /\ NoEval.pc = "idle"
    BY <1>7 DEF Crash, End, NoEval
  <2>2. /\ rule' \in [Servers -> Rules]
        /\ \A t \in Servers \ {s} : rule'[t] = rule[t]
    BY <1>7 DEF Crash, HAInv, TypeOK
  <2>3. ev' \in [Servers -> Evaluations] /\ EvaluatesLoadedRules'
    BY <2>1, <2>2, HAInvByEvaluation
  <2> QED
    BY <1>7, <2>2, <2>3 DEF Crash, HAInv, TypeOK
<1> QED
  BY <1>4, <1>5, <1>6, <1>7

\* An evaluation that ends, and changes nothing but the notification state.
LEMMA HAInvEnd ==
  ASSUME HAInv, NEW s \in Servers, End(s),
         UNCHANGED <<now, alert, rule, fetched, lastChange, lost, claims>>,
         nstate' \in [id : 0..2, status : {"unknown", "pending", "completed"},
                      version : Nat, updatedAt : Nat, seen : Nat]
  PROVE  HAInv'
<1>1. ev' = [ev EXCEPT ![s] = NoEval] /\ NoEval.pc = "idle"
  BY DEF End, NoEval
<1>2. ev' \in [Servers -> Evaluations] /\ EvaluatesLoadedRules'
  BY <1>1, RuleTypes, HAInvByEvaluation DEF HAInv, TypeOK
<1> QED
  BY <1>2 DEF HAInv, TypeOK

\* An evaluation that begins, first or next attempt.
LEMMA HAInvStart ==
  ASSUME HAInv, NEW s \in Servers, Start(s) \/ Retry(s)
  PROVE  HAInv'
<1> USE RuleTypes
<1>1. ev[s] \in Evaluations /\ rule[s] \in Rules
  BY DEF HAInv, TypeOK
<1>2. rule[s] \in LoadedRules
  BY <1>1 DEF Start, Retry, HAInv, EvaluatesLoadedRules
<1> DEFINE first == [NoEval EXCEPT !.pc = "eval", !.rule = rule[s],
                                   !.attached = TRUE, !.prev = rule[s].state]
           again == [ev[s] EXCEPT !.rule = rule[s], !.attached = TRUE,
                                  !.prev = rule[s].state]
<1>3. /\ first \in Evaluations /\ first.pc = "eval"
      /\ first.prev \in AlertStates /\ first.rule \in LoadedRules
  BY <1>2 DEF Evaluations, NoEval
<1>4. ASSUME ev[s].pc = "eval"
      PROVE  /\ again \in Evaluations /\ again.pc = "eval"
             /\ again.prev \in AlertStates /\ again.rule \in LoadedRules
  BY <1>1, <1>2, <1>4 DEF Evaluations
<1> HIDE DEF first, again
<1>5. /\ Start(s) => ev' = [ev EXCEPT ![s] = first]
      /\ Retry(s) => ev' = [ev EXCEPT ![s] = again] /\ ev[s].pc = "eval"
      /\ UNCHANGED <<now, alert, nstate, rule, fetched, lastChange, lost, claims>>
  BY DEF Start, Retry, first, again
<1>6. ev' \in [Servers -> Evaluations] /\ EvaluatesLoadedRules'
  <2>1. CASE Start(s)
    BY <2>1, <1>2, <1>3, <1>5, HAInvByEvaluation DEF HAInv, TypeOK
  <2>2. CASE Retry(s)
    BY <2>2, <1>2, <1>4, <1>5, HAInvByEvaluation DEF HAInv, TypeOK
  <2> QED
    BY <2>1, <2>2
<1> QED
  BY <1>5, <1>6 DEF HAInv, TypeOK

\* WriteRule keeps the types when the rule written is a loaded one.
LEMMA WriteRuleType ==
  ASSUME HAInv, NEW s \in Servers, NEW r \in LoadedRules, WriteRule(s, r),
         ev[s].pc # "idle"
  PROVE  /\ rule' \in [Servers -> Rules]
         /\ rule'[s] \in LoadedRules \cup {DeletedRule}
         /\ \A t \in Servers \ {s} : rule'[t] = rule[t]
<1>1. rule \in [Servers -> Rules] /\ rule[s] \in LoadedRules \cup {DeletedRule}
  BY DEF HAInv, TypeOK, EvaluatesLoadedRules
<1>2. CASE ev[s].attached
  BY <1>1, <1>2, RuleTypes DEF WriteRule
<1>3. CASE ~ ev[s].attached
  BY <1>1, <1>3 DEF WriteRule
<1> QED
  BY <1>2, <1>3

\* An evaluation finds a result, and may write the new state to the job's rule.
LEMMA HAInvEvaluate ==
  ASSUME HAInv, NEW s \in Servers, Evaluate(s)
  PROVE  HAInv'
<1>1. /\ ev[s] \in Evaluations /\ ev[s].prev \in AlertStates
      /\ ev[s].rule \in LoadedRules /\ ev[s].pc = "eval" /\ now \in Nat
  BY RuleTypes DEF Evaluate, HAInv, TypeOK, EvaluatesLoadedRules
<1> DEFINE new(result) == NewState(ev[s].prev, result, now - ev[s].rule.date)
           r(result) == [ev[s].rule EXCEPT !.state = new(result)]
           e(result) == [ev[s] EXCEPT !.rule = r(result),
                           !.pc = IF new(result) = ev[s].prev THEN "notify" ELSE "save",
                           !.attached = new(result) # ev[s].prev /\ @]
<1>2. PICK result \in Outcomes :
        /\ ev' = [ev EXCEPT ![s] = e(result)]
        /\ WriteRule(s, r(result))
  <2>1. \E result \in Outcomes :
          /\ ev' = [ev EXCEPT ![s].rule = r(result),
                   ![s].pc = IF new(result) = ev[s].prev THEN "notify" ELSE "save",
                   ![s].attached = new(result) # ev[s].prev /\ @]
          /\ WriteRule(s, r(result))
    BY Zenon DEF Evaluate
  <2>2. ASSUME NEW result \in Outcomes,
               ev' = [ev EXCEPT ![s].rule = r(result),
                   ![s].pc = IF new(result) = ev[s].prev THEN "notify" ELSE "save",
                   ![s].attached = new(result) # ev[s].prev /\ @]
        PROVE  ev' = [ev EXCEPT ![s] = e(result)]
    <3> HIDE DEF r, new
    <3> QED
      BY <2>2, <1>1 DEF Evaluations
  <2> QED
    BY <2>1, <2>2, Zenon
<1>3. new(result) \in AlertStates
  <2>1. result \in Results
    BY HAAssumption
  <2>2. ev[s].rule.date \in Nat
    BY <1>1, RuleTypes
  <2>3. now - ev[s].rule.date \in Int
    BY <1>1, <2>2
  <2> QED
    BY <1>1, <2>1, <2>3, NewStateType
<1> HIDE DEF new
<1>4. r(result) \in LoadedRules
  BY <1>1, <1>3 DEF LoadedRules
<1> HIDE DEF r
<1>5. /\ e(result) \in Evaluations /\ e(result).prev \in AlertStates
      /\ e(result).rule \in LoadedRules /\ e(result).pc \in {"notify", "save"}
  <2>1. (new(result) # ev[s].prev /\ ev[s].attached) \in BOOLEAN
    OBVIOUS
  <2> QED
    BY <1>1, <1>4, <2>1, RuleTypes DEF Evaluations
<1> HIDE DEF e
<1>6. /\ rule' \in [Servers -> Rules]
      /\ rule'[s] \in LoadedRules \cup {DeletedRule}
      /\ \A t \in Servers \ {s} : rule'[t] = rule[t]
  BY <1>1, <1>2, <1>4, WriteRuleType
<1>7. ev' \in [Servers -> Evaluations] /\ EvaluatesLoadedRules'
  BY <1>2, <1>5, <1>6, HAInvByEvaluation
<1> QED
  BY <1>6, <1>7 DEF Evaluate, HAInv, TypeOK

\* SetAlertState fails, or has only read the row.
LEMMA HAInvSaveStops ==
  ASSUME HAInv, NEW s \in Servers, SaveFails(s) \/ SaveRead(s)
  PROVE  HAInv'
<1> USE RuleTypes
<1>1. /\ ev[s] \in Evaluations /\ ev[s].pc \in {"save", "write"}
      /\ ev[s].prev \in AlertStates /\ ev[s].rule \in LoadedRules
      /\ rule[s] \in LoadedRules \cup {DeletedRule}
  BY DEF SaveFails, SaveRead, HAInv, TypeOK, EvaluatesLoadedRules
<1>2. RuleOf(alert) \in LoadedRules
  BY LoadedFromDatabase DEF HAInv
<1> DEFINE failed == [ev[s] EXCEPT !.pc = "notify", !.read = NoRule, !.attached = FALSE]
           half == [ev[s] EXCEPT !.pc = "write", !.read = RuleOf(alert)]
<1>3. /\ failed \in Evaluations /\ failed.pc = "notify"
      /\ failed.prev \in AlertStates /\ failed.rule \in LoadedRules
  BY <1>1 DEF Evaluations
<1>4. /\ half \in Evaluations /\ half.prev \in AlertStates
      /\ half.rule \in LoadedRules /\ half.read \in LoadedRules
  BY <1>1, <1>2 DEF Evaluations
<1> HIDE DEF failed, half
<1>5. /\ SaveFails(s) => ev' = [ev EXCEPT ![s] = failed]
      /\ SaveRead(s) => ev' = [ev EXCEPT ![s] = half]
      /\ UNCHANGED <<now, alert, nstate, rule, fetched, lastChange, lost, claims>>
  BY DEF SaveFails, SaveRead, failed, half
<1>6. ev' \in [Servers -> Evaluations] /\ EvaluatesLoadedRules'
  <2>1. CASE SaveFails(s)
    BY <2>1, <1>1, <1>3, <1>5, HAInvByEvaluation DEF HAInv, TypeOK
  <2>2. CASE SaveRead(s)
    BY <2>2, <1>1, <1>4, <1>5, HAInvByEvaluation DEF HAInv, TypeOK
  <2> QED
    BY <2>1, <2>2
<1> QED
  BY <1>5, <1>6 DEF HAInv, TypeOK

\* The rule after a change that was saved.
LEMMA RuleUpdate ==
  ASSUME NEW r \in LoadedRules, NEW n \in Nat, NEW d \in Nat
  PROVE  [r EXCEPT !.changes = n, !.date = d] \in LoadedRules
  BY DEF LoadedRules

\* What WriteState makes of the rule of the evaluation.
SavedRule(s, row) == [ev[s].rule EXCEPT !.changes = row.changes + 1, !.date = now]

\* The UPDATE of SetAlertState.
LEMMA HAInvWrite ==
  ASSUME HAInv, NEW s \in Servers, NEW row \in LoadedRules, WriteState(s, row),
         ev[s].pc = "write", lost' \subseteq Nat,
         UNCHANGED <<now, nstate, fetched, claims>>
  PROVE  HAInv'
<1> USE RuleTypes
<1>1. /\ ev[s] \in Evaluations /\ ev[s].prev \in AlertStates
      /\ ev[s].rule \in LoadedRules /\ now \in Nat
  BY DEF HAInv, TypeOK, EvaluatesLoadedRules
<1>2. SavedRule(s, row) \in LoadedRules
  <2>1. row.changes + 1 \in Nat
    BY DEF LoadedRules
  <2> QED
    BY <1>1, <2>1, RuleUpdate DEF SavedRule
<1> DEFINE e == [ev[s] EXCEPT !.pc = "notify", !.rule = SavedRule(s, row),
                              !.read = NoRule, !.saved = TRUE, !.attached = FALSE]
<1>3. /\ e \in Evaluations /\ e.pc = "notify"
      /\ e.prev \in AlertStates /\ e.rule \in LoadedRules
  BY <1>1, <1>2 DEF Evaluations
<1>4. ev' = [ev EXCEPT ![s] = e] /\ WriteRule(s, SavedRule(s, row))
  BY DEF WriteState, SavedRule
<1> HIDE DEF e
<1>5. /\ rule' \in [Servers -> Rules]
      /\ rule'[s] \in LoadedRules \cup {DeletedRule}
      /\ \A t \in Servers \ {s} : rule'[t] = rule[t]
  BY <1>2, <1>4, WriteRuleType
<1>6. ev' \in [Servers -> Evaluations] /\ EvaluatesLoadedRules'
  BY <1>3, <1>4, <1>5, HAInvByEvaluation
<1>7. /\ alert' \in [exists : BOOLEAN, state : AlertStates, changes : Nat, date : Nat]
      /\ lastChange' \in Changes
  <2>1. /\ alert.exists \in BOOLEAN /\ alert.state \in AlertStates
        /\ alert.changes \in Nat /\ alert.date \in Nat
    BY DEF HAInv, TypeOK
  <2>2. /\ SavedRule(s, row).state \in AlertStates
        /\ SavedRule(s, row).changes \in Nat
        /\ row.state \in AlertStates
    BY <1>2
  <2>3. CASE alert.exists
    <3>1. /\ alert' = [alert EXCEPT !.state = SavedRule(s, row).state,
                                    !.changes = SavedRule(s, row).changes, !.date = now]
          /\ lastChange' = [number |-> SavedRule(s, row).changes, prev |-> row.state,
                            believed |-> ev[s].prev, new |-> SavedRule(s, row).state,
                            at |-> now]
      BY <2>3 DEF WriteState, SavedRule
    <3>2. lastChange' \in Changes
      BY <3>1, <2>2, <1>1 DEF Changes
    <3> QED
      BY <3>1, <3>2, <2>1, <2>2, <1>1 DEF HAInv, TypeOK
  <2>4. CASE ~ alert.exists
    BY <2>4 DEF WriteState, HAInv, TypeOK
  <2> QED
    BY <2>3, <2>4
<1> QED
  BY <1>5, <1>6, <1>7 DEF HAInv, TypeOK

\* The change is saved.
LEMMA HAInvSave ==
  ASSUME HAInv, NEW s \in Servers, SaveWrite(s)
  PROVE  HAInv'
<1>1. /\ ev[s].read \in LoadedRules
      /\ WriteState(s, ev[s].read)
      /\ ev[s].pc = "write"
      /\ UNCHANGED <<now, nstate, fetched, claims>>
  BY DEF SaveWrite, HAInv, EvaluatesLoadedRules
<1>2. lost' \subseteq Nat
  <2>1. ev[s].read.changes + 1 \in Nat
    BY <1>1, RuleTypes
  <2> QED
    BY <2>1 DEF SaveWrite, HAInv, TypeOK
<1> QED
  BY <1>1, <1>2, HAInvWrite

\* The row of the channel, read or made.
LEMMA RowOrNewType ==
  ASSUME TypeOK
  PROVE  RowOrNew \in [id : 0..2, status : {"unknown", "pending", "completed"},
                       version : Nat, updatedAt : Nat, seen : Nat]
<1>1. CASE nstate # NoRow
  BY <1>1 DEF TypeOK, RowOrNew
<1>2. CASE nstate = NoRow
  <2> DEFINE id == IF alert.exists THEN 1 ELSE 2
  <2>1. /\ RowOrNew = [NoRow EXCEPT !.id = id, !.updatedAt = now]
        /\ now \in Nat /\ id \in 0..2
    BY <1>2 DEF TypeOK, RowOrNew
  <2> HIDE DEF id
  <2>2. RowOrNew = [id |-> id, status |-> "unknown", version |-> 0,
                    updatedAt |-> now, seen |-> 0]
    BY <2>1 DEF NoRow
  <2> QED
    BY <2>1, <2>2
<1> QED
  BY <1>1, <1>2

\* The notification state is read, or made.
LEMMA HAInvDecide ==
  ASSUME HAInv, NEW s \in Servers, Decide(s)
  PROVE  HAInv'
<1> USE RuleTypes
<1>1. /\ ev[s] \in Evaluations /\ ev[s].prev \in AlertStates
      /\ ev[s].rule \in LoadedRules /\ rule[s] \in LoadedRules \cup {DeletedRule}
  BY DEF Decide, HAInv, TypeOK, EvaluatesLoadedRules
<1>2. RowOrNew \in [id : 0..2, status : {"unknown", "pending", "completed"},
                    version : Nat, updatedAt : Nat, seen : Nat]
  BY RowOrNewType DEF HAInv
<1> DEFINE e == [ev[s] EXCEPT !.pc = "claim", !.id = RowOrNew.id,
                              !.version = RowOrNew.version]
<1>3. /\ e \in Evaluations /\ e.pc = "claim"
      /\ e.prev \in AlertStates /\ e.rule \in LoadedRules
  <2>1. RowOrNew.id \in 0..2 /\ RowOrNew.version \in Nat
    BY <1>2
  <2> QED
    BY <1>1, <2>1 DEF Evaluations
<1>4. CASE ev' = [ev EXCEPT ![s] = e]
  <2> HIDE DEF e
  <2>1. ev' \in [Servers -> Evaluations] /\ EvaluatesLoadedRules'
    BY <1>1, <1>3, <1>4, HAInvByEvaluation DEF Decide, HAInv, TypeOK
  <2> QED
    BY <1>2, <2>1 DEF Decide, HAInv, TypeOK
<1>5. CASE End(s)
  BY <1>2, <1>5, HAInvEnd DEF Decide
<1> QED
  BY <1>4, <1>5 DEF Decide

\* The notification is claimed.
LEMMA HAInvClaim ==
  ASSUME HAInv, NEW s \in Servers, Claim(s)
  PROVE  HAInv'
<1> USE RuleTypes
<1>1. /\ ev[s] \in Evaluations /\ ev[s].prev \in AlertStates
      /\ ev[s].rule \in LoadedRules /\ rule[s] \in LoadedRules \cup {DeletedRule}
      /\ claims \in Seq(Claims) /\ now \in Nat
      /\ Len(claims) + 1 \in Nat /\ ev[s].version + 1 \in Nat
  BY DEF Claim, HAInv, TypeOK, EvaluatesLoadedRules, Evaluations
<1> DEFINE e == [ev[s] EXCEPT !.pc = "send", !.version = ev[s].version + 1,
                              !.claim = Len(claims) + 1]
           c == [change |-> ev[s].rule.changes, prev |-> ev[s].prev,
                 new |-> ev[s].rule.state, at |-> now, saved |-> ev[s].saved,
                 sent |-> FALSE]
<1>2. /\ e \in Evaluations /\ e.pc = "send"
      /\ e.prev \in AlertStates /\ e.rule \in LoadedRules
  BY <1>1 DEF Evaluations
<1>3. c \in Claims
  BY <1>1 DEF Claims, Evaluations
<1>4. ev' = [ev EXCEPT ![s] = e] /\ claims' = Append(claims, c)
  BY DEF Claim
<1> HIDE DEF e, c
<1>5. claims' \in Seq(Claims)
  BY <1>1, <1>3, <1>4
<1>6. ev' \in [Servers -> Evaluations] /\ EvaluatesLoadedRules'
  <2>1. rule' = rule /\ rule \in [Servers -> Rules]
    BY DEF Claim, HAInv, TypeOK
  <2> QED
    BY <1>1, <1>2, <1>4, <2>1, HAInvByEvaluation
<1>7. nstate' \in [id : 0..2, status : {"unknown", "pending", "completed"},
                   version : Nat, updatedAt : Nat, seen : Nat]
  <2>1. nstate' = [id |-> nstate.id, status |-> "pending", version |-> ev[s].version + 1,
                   updatedAt |-> now, seen |-> ev[s].rule.changes]
    BY DEF Claim, HAInv, TypeOK
  <2>2. nstate.id \in 0..2
    BY DEF HAInv, TypeOK
  <2> QED
    BY <1>1, <2>1, <2>2
<1> QED
  BY <1>5, <1>6, <1>7 DEF Claim, HAInv, TypeOK

\* It is sent, and the row completed.
LEMMA HAInvSend ==
  ASSUME HAInv, NEW s \in Servers, Send(s)
  PROVE  HAInv'
<1> USE RuleTypes
<1>1. /\ ev[s] \in Evaluations /\ ev[s].prev \in AlertStates
      /\ ev[s].rule \in LoadedRules /\ rule[s] \in LoadedRules \cup {DeletedRule}
      /\ claims \in Seq(Claims)
  BY DEF Send, HAInv, TypeOK, EvaluatesLoadedRules
<1> DEFINE e == [ev[s] EXCEPT !.pc = "complete"]
<1>2. /\ e \in Evaluations /\ e.pc = "complete"
      /\ e.prev \in AlertStates /\ e.rule \in LoadedRules
  BY <1>1 DEF Evaluations
<1>3. ev' = [ev EXCEPT ![s] = e]
  BY DEF Send
<1> HIDE DEF e
<1>4. ev' \in [Servers -> Evaluations] /\ EvaluatesLoadedRules'
  BY <1>1, <1>2, <1>3, HAInvByEvaluation DEF Send, HAInv, TypeOK
<1>5. claims' \in Seq(Claims)
  <2> DEFINE i == ev[s].claim
  <2>1. claims' = [claims EXCEPT ![i] = [@ EXCEPT !.sent = TRUE]]
    BY DEF Send
  <2> HIDE DEF i
  <2>2. ASSUME i \in 1..Len(claims)
        PROVE  [claims[i] EXCEPT !.sent = TRUE] \in Claims
    <3>1. claims[i] \in Claims
      BY <1>1, <2>2
    <3> QED
      BY <3>1 DEF Claims
  <2>3. CASE i \in 1..Len(claims)
    BY <1>1, <2>1, <2>2, <2>3, ExceptSeq
  <2>4. CASE i \notin 1..Len(claims)
    <3>1. claims' = claims
      BY <1>1, <2>1, <2>4
    <3> QED
      BY <1>1, <3>1
  <2> QED
    BY <2>3, <2>4
<1> QED
  BY <1>4, <1>5 DEF Send, HAInv, TypeOK

\* Every step keeps the types, and evaluations on loaded rules.
LEMMA HAInvStep == HAInv /\ [Next]_vars => HAInv'
<1> SUFFICES ASSUME HAInv, [Next]_vars PROVE HAInv'
  OBVIOUS
<1>1. CASE UNCHANGED vars
  BY <1>1 DEF vars, HAInv, TypeOK, EvaluatesLoadedRules
<1>2. CASE Tick
  BY <1>2 DEF Tick, HAInv, TypeOK, EvaluatesLoadedRules
<1>3. CASE Delete
  <2>1. NoRow \in [id : 0..2, status : {"unknown", "pending", "completed"},
                   version : Nat, updatedAt : Nat, seen : Nat]
    BY DEF NoRow
  <2>2. alert' \in [exists : BOOLEAN, state : AlertStates, changes : Nat, date : Nat]
    BY <1>3 DEF Delete, HAInv, TypeOK
  <2> QED
    BY <1>3, <2>1, <2>2 DEF Delete, HAInv, TypeOK, EvaluatesLoadedRules
<1>4. ASSUME NEW to \in {"paused", "unknown"}, SetPaused(to)
      PROVE  HAInv'
  <2>1. alert' \in [exists : BOOLEAN, state : AlertStates, changes : Nat, date : Nat]
    <3>1. alert' = [exists |-> alert.exists, state |-> to, changes |-> alert.changes,
                    date |-> now]
      BY <1>4 DEF SetPaused, HAInv, TypeOK
    <3> QED
      BY <3>1 DEF HAInv, TypeOK, AlertStates
  <2> QED
    BY <1>4, <2>1 DEF SetPaused, HAInv, TypeOK, EvaluatesLoadedRules
<1>5. ASSUME NEW s \in Servers, ServerStep(s)
      PROVE  HAInv'
  <2>1. CASE Refresh(s) \/ Fetch(s) \/ Update(s) \/ Crash(s)
    BY <2>1, HAInvReaders
  <2>2. CASE Start(s) \/ Retry(s)
    BY <2>2, HAInvStart
  <2>3. CASE Evaluate(s)
    BY <2>3, HAInvEvaluate
  <2>4. CASE SaveFails(s) \/ SaveRead(s)
    BY <2>4, HAInvSaveStops
  <2>5. CASE SaveWrite(s)
    BY <2>5, HAInvSave
  <2>6. CASE Decide(s)
    BY <2>6, HAInvDecide
  <2>7. CASE Claim(s)
    BY <2>7, HAInvClaim
  <2>8. CASE Send(s)
    BY <2>8, HAInvSend
  <2>9. CASE SaveRefused(s) \/ ClaimLost(s) \/ SendFails(s) \/ CompleteFails(s)
    BY <2>9, HAInvEnd DEF SaveRefused, ClaimLost, SendFails, CompleteFails, HAInv, TypeOK
  <2>10. CASE Complete(s)
    <3>1. ev[s].version + 1 \in Nat
      BY DEF HAInv, TypeOK, Evaluations
    <3>2. nstate' \in [id : 0..2, status : {"unknown", "pending", "completed"},
                       version : Nat, updatedAt : Nat, seen : Nat]
      BY <2>10, <3>1 DEF Complete, HAInv, TypeOK
    <3> QED
      BY <2>10, <3>2, HAInvEnd DEF Complete
  <2> QED
    BY <1>5, <2>1, <2>2, <2>3, <2>4, <2>5, <2>6, <2>7, <2>8, <2>9, <2>10
    DEF ServerStep, EvalStep
<1> QED
  BY <1>1, <1>2, <1>3, <1>4, <1>5 DEF Next

(***************************************************************************)
(* The variables of the two tables, of the rules and of the evaluations    *)
(* keep their types, and no evaluation works on a rule that was never      *)
(* loaded: with every fault and every user action.                          *)
(***************************************************************************)
THEOREM EvaluationsAreOfLoadedRules == Spec => [](TypeOK /\ EvaluatesLoadedRules)
<1>1. HAInv => TypeOK /\ EvaluatesLoadedRules
  BY DEF HAInv
<1> QED
  BY <1>1, HAInvInit, HAInvStep, PTL DEF Spec

-----------------------------------------------------------------------------
(* The deduplication, with any faults and users.                           *)

\* The evaluation of s saved a change and has not finished announcing it.
Announcing(s) ==
  ev[s].pc \in {"notify", "claim", "send", "complete"} /\ ev[s].saved

Announcement(i) == i \in 1..Len(claims) /\ IsAnnouncement(claims[i])

\* Nothing is saved before the UPDATE.
NotSavedYet ==
  \A s \in Servers : ev[s].pc \in {"idle", "eval", "save", "write"} => ~ ev[s].saved

\* A change that is being announced has a number of its own, which no one has
\* claimed before this evaluation does, as long as the number is firm.
OwnNumbers ==
  /\ \A s \in Servers : Announcing(s) =>
       /\ ev[s].rule.changes >= 1
       /\ Firm(ev[s].rule.changes) => ev[s].rule.changes <= alert.changes
  /\ \A s, t \in Servers :
       /\ s # t /\ Announcing(s) /\ Announcing(t)
       /\ ev[s].rule.changes = ev[t].rule.changes
       => ~ Firm(ev[s].rule.changes)
  /\ \A s \in Servers : \A i \in 1..Len(claims) :
       /\ Announcing(s) /\ ev[s].pc \in {"notify", "claim"} /\ Announcement(i)
       /\ claims[i].change = ev[s].rule.changes
       => ~ Firm(ev[s].rule.changes)

OneClaimPerChange ==
  /\ \A i \in 1..Len(claims) : Announcement(i) =>
       /\ claims[i].change >= 1
       /\ Firm(claims[i].change) => claims[i].change <= alert.changes
  /\ \A i, j \in 1..Len(claims) :
       /\ i # j /\ Announcement(i) /\ Announcement(j)
       /\ claims[i].change = claims[j].change
       => ~ Firm(claims[i].change)

DedupInv == HAInv /\ NotSavedYet /\ OwnNumbers /\ OneClaimPerChange

\* A step that begins no announcement and claims nothing keeps DedupInv.
LEMMA DedupKept ==
  ASSUME DedupInv, HAInv', NotSavedYet',
         alert'.changes = alert.changes, claims' = claims, lost' = lost,
         \A t \in Servers : Announcing(t)' =>
           /\ Announcing(t)
           /\ ev'[t].rule.changes = ev[t].rule.changes
           /\ ev'[t].pc \in {"notify", "claim"} => ev[t].pc \in {"notify", "claim"}
  PROVE  DedupInv'
<1>1. OneClaimPerChange'
  BY DEF DedupInv, OneClaimPerChange, Announcement, IsAnnouncement, IsReminder, Firm
<1>2. OwnNumbers'
  BY DEF DedupInv, OwnNumbers, Announcement, IsAnnouncement, IsReminder, Firm
<1> QED
  BY <1>1, <1>2 DEF DedupInv

\* The evaluations of the other servers are not touched.
OthersKept(s) == \A t \in Servers \ {s} : ev'[t] = ev[t]

\* The same when only one evaluation moves.
LEMMA DedupKeptByOne ==
  ASSUME DedupInv, HAInv', NEW s \in Servers,
         alert' = alert, claims' = claims, lost' = lost, OthersKept(s),
         ev'[s].pc \in {"idle", "eval", "save", "write"} => ~ ev'[s].saved,
         Announcing(s)' =>
           /\ Announcing(s)
           /\ ev'[s].rule.changes = ev[s].rule.changes
           /\ ev'[s].pc \in {"notify", "claim"} => ev[s].pc \in {"notify", "claim"}
  PROVE  DedupInv'
<1>1. NotSavedYet'
  BY DEF DedupInv, NotSavedYet, OthersKept
<1>2. ASSUME NEW t \in Servers, Announcing(t)'
      PROVE  /\ Announcing(t)
             /\ ev'[t].rule.changes = ev[t].rule.changes
             /\ ev'[t].pc \in {"notify", "claim"} => ev[t].pc \in {"notify", "claim"}
  BY <1>2 DEF OthersKept, Announcing
<1> QED
  BY <1>1, <1>2, DedupKept

\* Firm, with the numbers lost at the end of the step.
FirmNext(k) == \A n \in lost' : k < n

\* What SaveWrite does to numbers: one that is firm afterwards was firm before, and
\* the one it gives is firm only if it is the next.
LEMMA SaveNumbers ==
  ASSUME HAInv, NEW s \in Servers, SaveWrite(s)
  PROVE  /\ ev[s].pc = "write" /\ alert.changes \in Nat
         /\ OthersKept(s)
         /\ ev'[s].pc = "notify" /\ ev'[s].rule.changes \in Nat
         /\ ev'[s].rule.changes >= 1
         /\ claims' = claims
         /\ \A k \in Nat : FirmNext(k) =>
              Firm(k) /\ (k <= alert.changes => k <= alert'.changes)
         /\ FirmNext(ev'[s].rule.changes) =>
              /\ ev'[s].rule.changes = alert.changes + 1
              /\ ev'[s].rule.changes <= alert'.changes
<1>1. /\ ev \in [Servers -> Evaluations] /\ ev[s] \in Evaluations /\ ev[s].pc = "write"
      /\ ev[s].rule \in LoadedRules /\ ev[s].read \in LoadedRules
      /\ alert \in [exists : BOOLEAN, state : AlertStates, changes : Nat, date : Nat]
      /\ lost \subseteq Nat
  BY DEF SaveWrite, HAInv, TypeOK, EvaluatesLoadedRules
<1> DEFINE n == ev[s].read.changes + 1
<1>2. n \in Nat /\ n >= 1 /\ alert.changes \in Nat /\ ev[s].read.changes \in Nat
  BY <1>1 DEF LoadedRules
<1>3. SavedRule(s, ev[s].read).changes = n
  BY <1>1 DEF SavedRule, LoadedRules
<1>4. /\ ev' = [ev EXCEPT ![s].pc = "notify", ![s].rule = SavedRule(s, ev[s].read),
                          ![s].read = NoRule, ![s].saved = TRUE, ![s].attached = FALSE]
      /\ claims' = claims
      /\ lost' = IF StillAsRead(s) THEN lost ELSE lost \cup {n}
  BY DEF SaveWrite, WriteState, SavedRule
<1>5. OthersKept(s) /\ ev'[s].pc = "notify" /\ ev'[s].rule.changes = n
  BY <1>1, <1>3, <1>4 DEF OthersKept, Evaluations
<1>6. alert'.changes = IF alert.exists THEN n ELSE alert.changes
  <2>1. CASE alert.exists
    <3>1. alert' = [alert EXCEPT !.state = SavedRule(s, ev[s].read).state,
                                 !.changes = SavedRule(s, ev[s].read).changes, !.date = now]
      BY <2>1 DEF SaveWrite, WriteState, SavedRule
    <3> QED
      BY <1>1, <1>3, <2>1, <3>1
  <2>2. CASE ~ alert.exists
    BY <2>2 DEF SaveWrite, WriteState
  <2> QED
    BY <2>1, <2>2
<1> HIDE DEF n
<1>7. CASE StillAsRead(s)
  <2>1. alert.exists /\ n = alert.changes + 1 /\ lost' = lost
    BY <1>4, <1>7 DEF StillAsRead, n
  <2> QED
    BY <1>1, <1>2, <1>4, <1>5, <1>6, <2>1 DEF Firm, FirmNext
<1>8. CASE ~ StillAsRead(s)
  <2>1. lost' = lost \cup {n}
    BY <1>4, <1>8
  <2>2. ~ FirmNext(n)
    BY <1>2, <2>1 DEF Firm, FirmNext
  <2>3. \A k \in Nat : FirmNext(k) => Firm(k) /\ k < n
    BY <2>1 DEF Firm, FirmNext
  <2> QED
    BY <1>1, <1>2, <1>4, <1>5, <1>6, <2>2, <2>3
<1> QED
  BY <1>7, <1>8

\* The UPDATE gives the change a number that nobody has, if it is firm.
LEMMA DedupSave ==
  ASSUME DedupInv, HAInv', NEW s \in Servers, SaveWrite(s)
  PROVE  DedupInv'
<1>1. /\ alert.changes \in Nat /\ alert'.changes \in Nat
      /\ claims \in Seq(Claims)
      /\ \A t \in Servers : Announcing(t) => ev[t].rule.changes \in Nat
  <2>1. alert.changes \in Nat /\ alert'.changes \in Nat /\ claims \in Seq(Claims)
    BY DEF DedupInv, HAInv, TypeOK
  <2>2. \A t \in Servers : Announcing(t) => ev[t].rule \in LoadedRules
    BY DEF DedupInv, HAInv, EvaluatesLoadedRules, Announcing
  <2> QED
    BY <2>1, <2>2 DEF LoadedRules
<1>2. \A i \in 1..Len(claims) : claims[i].change \in Nat
  <2>1. \A i \in 1..Len(claims) : claims[i] \in Claims
    BY <1>1 DEF DedupInv, HAInv, TypeOK
  <2> QED
    BY <2>1 DEF Claims
<1>a. \A k : Firm(k)' <=> FirmNext(k)
  BY DEF Firm, FirmNext
<1>3. /\ ev[s].pc = "write" /\ OthersKept(s) /\ ev'[s].pc = "notify"
      /\ ev'[s].rule.changes \in Nat /\ ev'[s].rule.changes >= 1 /\ claims' = claims
  BY SaveNumbers DEF DedupInv
<1>4. \A k \in Nat : FirmNext(k) => Firm(k) /\ (k <= alert.changes => k <= alert'.changes)
  BY SaveNumbers DEF DedupInv
<1>5. FirmNext(ev'[s].rule.changes) =>
        /\ ev'[s].rule.changes = alert.changes + 1
        /\ ev'[s].rule.changes <= alert'.changes
  BY SaveNumbers DEF DedupInv
<1>6. NotSavedYet'
  BY <1>3 DEF DedupInv, NotSavedYet, OthersKept
<1>7. \A t \in Servers \ {s} :
        (Announcing(t)' <=> Announcing(t)) /\ ev'[t] = ev[t]
  BY <1>3 DEF Announcing, OthersKept
<1>8. \A i \in 1..Len(claims) : Announcement(i)' <=> Announcement(i)
  BY <1>3 DEF Announcement, IsAnnouncement, IsReminder
<1>9. OneClaimPerChange'
  BY <1>1, <1>2, <1>3, <1>4, <1>8, <1>a DEF DedupInv, OneClaimPerChange
<1>10. OwnNumbers'
  <2>1. \A t \in Servers : Announcing(t)' =>
          /\ ev'[t].rule.changes >= 1
          /\ FirmNext(ev'[t].rule.changes) => ev'[t].rule.changes <= alert'.changes
    BY <1>1, <1>3, <1>4, <1>5, <1>7 DEF DedupInv, OwnNumbers
  <2>2. ASSUME NEW t \in Servers, NEW u \in Servers, t # u, Announcing(t)', Announcing(u)',
               ev'[t].rule.changes = ev'[u].rule.changes, FirmNext(ev'[t].rule.changes)
        PROVE  FALSE
    <3>1. ASSUME NEW v \in Servers \ {s}, Announcing(v)', FirmNext(ev'[v].rule.changes)
          PROVE  ev'[v].rule.changes <= alert.changes
      BY <1>1, <1>4, <1>7, <3>1 DEF DedupInv, OwnNumbers
    <3>2. CASE t = s \/ u = s
      BY <1>1, <1>5, <2>2, <3>1, <3>2
    <3>3. CASE t # s /\ u # s
      BY <1>1, <1>4, <1>7, <2>2, <3>3 DEF DedupInv, OwnNumbers
    <3> QED
      BY <3>2, <3>3
  <2>3. ASSUME NEW t \in Servers, NEW i \in 1..Len(claims), Announcing(t)',
               ev'[t].pc \in {"notify", "claim"}, Announcement(i),
               claims[i].change = ev'[t].rule.changes, FirmNext(ev'[t].rule.changes)
        PROVE  FALSE
    <3>1. claims[i].change <= alert.changes
      BY <1>2, <1>4, <2>3 DEF DedupInv, OneClaimPerChange
    <3>2. CASE t = s
      BY <1>1, <1>5, <2>3, <3>1, <3>2
    <3>3. CASE t # s
      BY <1>1, <1>4, <1>7, <2>3, <3>3 DEF DedupInv, OwnNumbers
    <3> QED
      BY <3>2, <3>3
  <2>4. \A t, u \in Servers :
          /\ t # u /\ Announcing(t)' /\ Announcing(u)'
          /\ ev'[t].rule.changes = ev'[u].rule.changes
          => ~ FirmNext(ev'[t].rule.changes)
    BY <2>2
  <2>5. \A t \in Servers : \A i \in 1..Len(claims) :
          /\ Announcing(t)' /\ ev'[t].pc \in {"notify", "claim"} /\ Announcement(i)
          /\ claims[i].change = ev'[t].rule.changes
          => ~ FirmNext(ev'[t].rule.changes)
    BY <2>3
  <2> QED
    BY <1>3, <1>8, <1>a, <2>1, <2>4, <2>5 DEF OwnNumbers
<1> QED
  BY <1>6, <1>9, <1>10 DEF DedupInv

\* A claim carries the number of the change that its evaluation announces.
LEMMA DedupClaim ==
  ASSUME DedupInv, HAInv', NEW s \in Servers, Claim(s)
  PROVE  DedupInv'
<1>1. /\ alert.changes \in Nat /\ claims \in Seq(Claims)
      /\ ev \in [Servers -> Evaluations] /\ ev[s].pc = "claim"
      /\ ev[s].rule \in LoadedRules /\ Len(claims) \in Nat
  <2>1. TypeOK /\ EvaluatesLoadedRules /\ ev[s].pc = "claim"
    BY DEF DedupInv, HAInv, Claim
  <2>2. alert.changes \in Nat /\ claims \in Seq(Claims) /\ ev \in [Servers -> Evaluations]
    BY <2>1 DEF TypeOK
  <2>3. ev[s].rule \in LoadedRules
    BY <2>1 DEF EvaluatesLoadedRules
  <2> QED
    BY <2>1, <2>2, <2>3
<1>0. PICK n \in Nat : n = Len(claims) + 1
  BY <1>1
<1> DEFINE c == [change |-> ev[s].rule.changes, prev |-> ev[s].prev,
                new |-> ev[s].rule.state, at |-> now, saved |-> ev[s].saved,
                sent |-> FALSE]
<1>2. /\ alert' = alert /\ lost' = lost /\ claims' = Append(claims, c)
      /\ OthersKept(s) /\ ev'[s].pc = "send" /\ ev'[s].saved = ev[s].saved
      /\ ev'[s].rule = ev[s].rule /\ ev'[s].prev = ev[s].prev
  BY <1>1 DEF Claim, OthersKept, Evaluations
<1>3. /\ Len(claims') = n
      /\ claims'[n] = c
      /\ \A i \in 1..Len(claims) : claims'[i] = claims[i]
      /\ \A i \in 1..n : i # n => i \in 1..Len(claims)
  BY <1>0, <1>1, <1>2
<1>4. /\ \A i \in 1..Len(claims) : Announcement(i)' <=> Announcement(i)
      /\ Announcement(n)' => Announcing(s)
  BY <1>0, <1>1, <1>2, <1>3 DEF Announcement, Announcing, IsAnnouncement, IsReminder
<1>5. \A t \in Servers : Announcing(t)' <=> Announcing(t)
  BY <1>1, <1>2 DEF Announcing, OthersKept
<1>6. NotSavedYet'
  BY <1>2 DEF DedupInv, NotSavedYet, OthersKept
<1>7. c.change = ev[s].rule.changes
  OBVIOUS
<1>a. \A k : Firm(k)' <=> Firm(k)
  BY <1>2 DEF Firm
<1> HIDE DEF c
<1>8. Announcing(s) => \A i \in 1..Len(claims) :
        Announcement(i) /\ claims[i].change = ev[s].rule.changes
          => ~ Firm(ev[s].rule.changes)
  BY <1>1 DEF DedupInv, OwnNumbers
<1>9. OneClaimPerChange'
  <2>1. \A i \in 1..n : Announcement(i)' =>
          /\ claims'[i].change >= 1
          /\ Firm(claims'[i].change) => claims'[i].change <= alert'.changes
    BY <1>1, <1>2, <1>3, <1>4, <1>7 DEF DedupInv, OneClaimPerChange, OwnNumbers
  <2>2. \A i, j \in 1..n :
          /\ i # j /\ Announcement(i)' /\ Announcement(j)'
          /\ claims'[i].change = claims'[j].change
          => ~ Firm(claims'[i].change)
    BY <1>1, <1>3, <1>4, <1>7, <1>8 DEF DedupInv, OneClaimPerChange
  <2> QED
    BY <1>3, <1>a, <2>1, <2>2 DEF OneClaimPerChange
<1>10. OwnNumbers'
  <2>1. \A t \in Servers : Announcing(t)' =>
          /\ ev'[t].rule.changes >= 1
          /\ Firm(ev'[t].rule.changes) => ev'[t].rule.changes <= alert'.changes
    BY <1>2, <1>5 DEF DedupInv, OwnNumbers, OthersKept
  <2>2. \A t, u \in Servers :
          /\ t # u /\ Announcing(t)' /\ Announcing(u)'
          /\ ev'[t].rule.changes = ev'[u].rule.changes
          => ~ Firm(ev'[t].rule.changes)
    BY <1>2, <1>5 DEF DedupInv, OwnNumbers, OthersKept
  <2>3. ASSUME NEW t \in Servers, NEW i \in 1..n,
               Announcing(t)', ev'[t].pc \in {"notify", "claim"}, Announcement(i)',
               claims'[i].change = ev'[t].rule.changes
        PROVE  ~ Firm(ev'[t].rule.changes)
    <3>1. t # s /\ ev'[t] = ev[t] /\ Announcing(t) /\ ev[t].pc \in {"notify", "claim"}
      BY <1>2, <1>5, <2>3 DEF OthersKept
    <3>2. CASE i = n
      BY <3>1, <3>2, <1>3, <1>4, <1>7, <2>3 DEF DedupInv, OwnNumbers
    <3>3. CASE i # n
      BY <3>1, <3>3, <1>1, <1>3, <1>4, <2>3 DEF DedupInv, OwnNumbers
    <3> QED
      BY <3>2, <3>3
  <2> QED
    BY <1>3, <1>a, <2>1, <2>2, <2>3 DEF OwnNumbers
<1> QED
  BY <1>6, <1>9, <1>10 DEF DedupInv

\* A notification that is sent, or not, keeps its number.
LEMMA DedupSend ==
  ASSUME DedupInv, HAInv', NEW s \in Servers, Send(s)
  PROVE  DedupInv'
<1>1. /\ claims \in Seq(Claims) /\ ev \in [Servers -> Evaluations] /\ ev[s].pc = "send"
  BY DEF DedupInv, HAInv, TypeOK, Send
<1>2. /\ Len(claims') = Len(claims)
      /\ \A i \in 1..Len(claims) :
           /\ claims'[i].change = claims[i].change /\ claims'[i].saved = claims[i].saved
           /\ claims'[i].prev = claims[i].prev
           /\ claims'[i].new = claims[i].new
  BY <1>1 DEF Send, Claims
<1>3. /\ alert' = alert /\ lost' = lost /\ OthersKept(s) /\ ev'[s].pc = "complete"
      /\ ev'[s].rule = ev[s].rule /\ ev'[s].prev = ev[s].prev /\ ev'[s].saved = ev[s].saved
  BY <1>1 DEF Send, OthersKept, Evaluations
<1>4. \A i \in 1..Len(claims) : Announcement(i)' <=> Announcement(i)
  BY <1>2 DEF Announcement, IsAnnouncement, IsReminder
<1>5. \A t \in Servers : Announcing(t)' <=> Announcing(t)
  BY <1>1, <1>3 DEF Announcing, OthersKept
<1>6. NotSavedYet'
  BY <1>3 DEF DedupInv, NotSavedYet, OthersKept
<1>a. \A k : Firm(k)' <=> Firm(k)
  BY <1>3 DEF Firm
<1>7. OneClaimPerChange'
  BY <1>2, <1>3, <1>4, <1>a DEF DedupInv, OneClaimPerChange
<1>8. OwnNumbers'
  BY <1>2, <1>3, <1>4, <1>5, <1>a DEF DedupInv, OwnNumbers, OthersKept
<1> QED
  BY <1>6, <1>7, <1>8 DEF DedupInv

\* Users and time, and the reader of the rules, leave announcements alone.
LEMMA DedupOutside ==
  ASSUME DedupInv, HAInv',
         \/ Tick \/ Delete \/ UNCHANGED vars
         \/ \E to \in {"paused", "unknown"} : SetPaused(to)
         \/ \E s \in Servers : Refresh(s) \/ Fetch(s) \/ Update(s)
  PROVE  DedupInv'
<1>1. /\ ev \in [Servers -> Evaluations]
      /\ alert \in [exists : BOOLEAN, state : AlertStates, changes : Nat, date : Nat]
  BY DEF DedupInv, HAInv, TypeOK
<1>2. alert'.changes = alert.changes /\ claims' = claims /\ lost' = lost
  BY <1>1 DEF Tick, Delete, vars, SetPaused, Refresh, Fetch, Update
<1>3. \A t \in Servers :
        /\ ev'[t].pc = ev[t].pc /\ ev'[t].saved = ev[t].saved /\ ev'[t].rule = ev[t].rule
  BY <1>1 DEF Tick, Delete, vars, SetPaused, Refresh, Fetch, Update, Evaluations
<1>4. NotSavedYet'
  BY <1>3 DEF DedupInv, NotSavedYet
<1>5. \A t \in Servers : Announcing(t)' <=> Announcing(t)
  BY <1>3 DEF Announcing
<1> QED
  BY <1>2, <1>3, <1>4, <1>5, DedupKept

\* Steps of an evaluation that save nothing and claim nothing.
LEMMA DedupEvaluation ==
  ASSUME DedupInv, HAInv', NEW s \in Servers,
         \/ Start(s) \/ Retry(s) \/ Crash(s) \/ Evaluate(s) \/ SaveRefused(s)
         \/ SaveFails(s) \/ SaveRead(s) \/ Decide(s) \/ ClaimLost(s)
         \/ SendFails(s) \/ Complete(s) \/ CompleteFails(s)
  PROVE  DedupInv'
<1>1. /\ ev \in [Servers -> Evaluations] /\ ev[s] \in Evaluations
      /\ NoEval.pc = "idle" /\ NoEval.saved = FALSE
      /\ ev[s].pc \in {"idle", "eval", "save", "write"} => ~ ev[s].saved
  BY DEF DedupInv, HAInv, TypeOK, NotSavedYet, NoEval
<1>2. CASE Start(s) \/ Retry(s)
  <2>1. /\ alert' = alert /\ claims' = claims /\ lost' = lost /\ OthersKept(s)
        /\ ev'[s].pc = "eval" /\ ~ ev'[s].saved
    <3>1. CASE Start(s)
      <4> DEFINE first == [NoEval EXCEPT !.pc = "eval", !.rule = rule[s],
                                         !.attached = TRUE, !.prev = rule[s].state]
      <4>1. ev' = [ev EXCEPT ![s] = first] /\ first.pc = "eval" /\ ~ first.saved
        BY <3>1 DEF Start, NoEval
      <4> HIDE DEF first
      <4> QED
        BY <1>1, <3>1, <4>1 DEF Start, OthersKept
    <3>2. CASE Retry(s)
      BY <1>1, <3>2 DEF Retry, OthersKept, Evaluations
    <3> QED
      BY <1>2, <3>1, <3>2
  <2> QED
    BY <2>1, DedupKeptByOne DEF Announcing
<1>3. CASE Evaluate(s)
  <2>1. /\ alert' = alert /\ claims' = claims /\ lost' = lost /\ OthersKept(s)
    BY <1>1, <1>3 DEF Evaluate, OthersKept
  <2>2. PICK result \in Outcomes :
          LET new == NewState(ev[s].prev, result, now - ev[s].rule.date)
          IN  ev' = [ev EXCEPT ![s].rule = [ev[s].rule EXCEPT !.state = new],
                               ![s].pc = IF new = ev[s].prev THEN "notify" ELSE "save",
                               ![s].attached = new # ev[s].prev /\ @]
    BY <1>3 DEF Evaluate
  <2>3. ev'[s].saved = ev[s].saved /\ ev[s].pc = "eval"
    BY <1>1, <1>3, <2>2 DEF Evaluate, Evaluations
  <2> QED
    BY <1>1, <2>1, <2>3, DedupKeptByOne DEF Announcing
<1>4. CASE SaveFails(s) \/ SaveRead(s)
  <2>1. /\ alert' = alert /\ claims' = claims /\ lost' = lost /\ OthersKept(s)
        /\ ev'[s].saved = ev[s].saved /\ ev[s].pc \in {"save", "write"}
    BY <1>1, <1>4 DEF SaveFails, SaveRead, OthersKept, Evaluations
  <2> QED
    BY <1>1, <2>1, DedupKeptByOne DEF Announcing
<1>5. CASE End(s) /\ alert' = alert /\ claims' = claims /\ lost' = lost
  <2>1. OthersKept(s) /\ ev'[s].pc = "idle" /\ ~ ev'[s].saved
    BY <1>1, <1>5 DEF End, OthersKept
  <2> QED
    BY <1>5, <2>1, DedupKeptByOne DEF Announcing
<1>6. CASE Decide(s)
  <2>1. CASE End(s)
    BY <1>5, <1>6, <2>1 DEF Decide
  <2>2. CASE ~ End(s)
    <3>1. /\ alert' = alert /\ claims' = claims /\ lost' = lost /\ OthersKept(s)
          /\ ev'[s].pc = "claim" /\ ev[s].pc = "notify" /\ ev'[s].saved = ev[s].saved
          /\ ev'[s].rule = ev[s].rule
      BY <1>1, <1>6, <2>2 DEF Decide, OthersKept, Evaluations
    <3> QED
      BY <3>1, DedupKeptByOne DEF Announcing
  <2> QED
    BY <2>1, <2>2
<1>7. CASE \/ Crash(s) \/ SaveRefused(s) \/ ClaimLost(s) \/ SendFails(s)
           \/ Complete(s) \/ CompleteFails(s)
  BY <1>5, <1>7 DEF Crash, SaveRefused, ClaimLost, SendFails, Complete, CompleteFails
<1> QED
  BY <1>2, <1>3, <1>4, <1>6, <1>7

\* No change, no claim.
LEMMA DedupInvInit == Init => DedupInv
<1> SUFFICES ASSUME Init PROVE DedupInv
  OBVIOUS
<1>1. /\ \A s \in Servers : ev[s].pc = "idle" /\ ~ ev[s].saved
      /\ claims = <<>>
  BY DEF Init, NoEval
<1> QED
  BY <1>1, HAInvInit
  DEF DedupInv, NotSavedYet, OwnNumbers, OneClaimPerChange, Announcing, Announcement

\* Every step keeps DedupInv.
LEMMA DedupInvStep ==
  ASSUME DedupInv, [Next]_vars
  PROVE  DedupInv'
<1>1. HAInv'
  BY HAInvStep DEF DedupInv
<1>2. CASE \/ Tick \/ Delete \/ UNCHANGED vars
           \/ \E to \in {"paused", "unknown"} : SetPaused(to)
           \/ \E s \in Servers : Refresh(s) \/ Fetch(s) \/ Update(s)
  BY <1>1, <1>2, DedupOutside
<1>3. ASSUME NEW s \in Servers, SaveWrite(s) PROVE DedupInv'
  BY <1>1, <1>3, DedupSave
<1>4. ASSUME NEW s \in Servers, Claim(s) PROVE DedupInv'
  BY <1>1, <1>4, DedupClaim
<1>5. ASSUME NEW s \in Servers, Send(s) PROVE DedupInv'
  BY <1>1, <1>5, DedupSend
<1>6. ASSUME NEW s \in Servers,
             \/ Start(s) \/ Retry(s) \/ Crash(s) \/ Evaluate(s) \/ SaveRefused(s)
             \/ SaveFails(s) \/ SaveRead(s) \/ Decide(s) \/ ClaimLost(s)
             \/ SendFails(s) \/ Complete(s) \/ CompleteFails(s)
      PROVE  DedupInv'
  BY <1>1, <1>6, DedupEvaluation
<1> QED
  BY <1>2, <1>3, <1>4, <1>5, <1>6 DEF Next, ServerStep, EvalStep

(***************************************************************************)
(* Every change whose number is firm is announced at most once: for any    *)
(* number of servers, whatever they crash at, however late their steps,    *)
(* and with everything that users do, saves and notifications that fail,   *)
(* and reminders in between.                                               *)
(***************************************************************************)
THEOREM AnnouncedOnce == Spec => []OneNotificationPerChange
<1>1. DedupInv => OneNotificationPerChange
  BY DEF DedupInv, OneClaimPerChange, Announcement, OneNotificationPerChange
<1>2. Init => DedupInv
  BY DedupInvInit
<1>3. DedupInv /\ [Next]_vars => DedupInv'
  BY DedupInvStep
<1> QED
  BY <1>1, <1>2, <1>3, PTL DEF Spec

\* The evaluations at their claims stay as they are, or end; no version is read.
ClaimsUntouched ==
  \A t \in Servers :
    /\ ev'[t].version \in {0, ev[t].version}
    /\ ev'[t].pc \in {"claim", "send", "complete"} =>
         /\ ev'[t].pc = ev[t].pc /\ ev'[t].prev = ev[t].prev /\ ev'[t].rule = ev[t].rule
         /\ ev'[t].id = ev[t].id /\ ev'[t].version = ev[t].version
         /\ ev'[t].claim = ev[t].claim

\* All the steps of a server before it reads the row, and those that give up.
LEMMA StepsAwayFromClaims ==
  ASSUME HAInv, NEW s \in Servers,
         \/ Refresh(s) \/ Fetch(s) \/ Update(s) \/ Start(s) \/ Retry(s) \/ Crash(s)
         \/ Evaluate(s) \/ SaveRefused(s) \/ SaveFails(s) \/ SaveRead(s)
         \/ SaveWrite(s) \/ ClaimLost(s) \/ SendFails(s) \/ CompleteFails(s)
  PROVE  nstate' = nstate /\ claims' = claims /\ ClaimsUntouched
<1>1. /\ ev \in [Servers -> Evaluations] /\ ev[s] \in Evaluations
      /\ NoEval.pc = "idle" /\ NoEval.version = 0
  BY DEF HAInv, TypeOK, NoEval
<1>2. nstate' = nstate /\ claims' = claims
  BY DEF Refresh, Fetch, Update, Start, Retry, Crash, Evaluate, SaveRefused, SaveFails,
         SaveRead, SaveWrite, ClaimLost, SendFails, CompleteFails
<1>3. CASE Refresh(s) \/ Fetch(s) \/ Update(s)
  <2>1. \A t \in Servers :
          /\ ev'[t].pc = ev[t].pc /\ ev'[t].prev = ev[t].prev /\ ev'[t].rule = ev[t].rule
          /\ ev'[t].id = ev[t].id /\ ev'[t].version = ev[t].version
          /\ ev'[t].claim = ev[t].claim
    BY <1>1, <1>3 DEF Refresh, Fetch, Update, Evaluations
  <2> QED
    BY <1>2, <2>1 DEF ClaimsUntouched
<1>4. CASE /\ OthersKept(s) /\ ev'[s].pc \notin {"claim", "send", "complete"}
           /\ ev'[s].version \in {0, ev[s].version}
  <2>1. \A t \in Servers : t # s => ev'[t] = ev[t]
    BY <1>4 DEF OthersKept
  <2> QED
    BY <1>2, <1>4, <2>1 DEF ClaimsUntouched
<1>5. CASE End(s)
  BY <1>1, <1>4, <1>5 DEF End, OthersKept
<1>6. CASE Start(s)
  <2> DEFINE first == [NoEval EXCEPT !.pc = "eval", !.rule = rule[s],
                                     !.attached = TRUE, !.prev = rule[s].state]
  <2>1. ev' = [ev EXCEPT ![s] = first] /\ first.pc = "eval" /\ first.version = 0
    BY <1>6 DEF Start, NoEval
  <2> HIDE DEF first
  <2> QED
    BY <1>1, <1>4, <2>1 DEF OthersKept
<1>7. CASE Retry(s)
  BY <1>1, <1>4, <1>7 DEF Retry, OthersKept, Evaluations
<1>8. CASE Evaluate(s)
  <2>1. PICK result \in Outcomes :
          LET new == NewState(ev[s].prev, result, now - ev[s].rule.date)
          IN  ev' = [ev EXCEPT ![s].rule = [ev[s].rule EXCEPT !.state = new],
                               ![s].pc = IF new = ev[s].prev THEN "notify" ELSE "save",
                               ![s].attached = new # ev[s].prev /\ @]
    BY <1>8 DEF Evaluate
  <2>2. /\ OthersKept(s) /\ ev'[s].pc \in {"notify", "save"}
        /\ ev'[s].version = ev[s].version
    BY <1>1, <2>1 DEF OthersKept, Evaluations
  <2> QED
    BY <1>4, <2>2
<1>9. CASE SaveFails(s) \/ SaveRead(s)
  BY <1>1, <1>4, <1>9 DEF SaveFails, SaveRead, OthersKept, Evaluations
<1>10. CASE SaveWrite(s)
  <2>1. OthersKept(s) /\ ev'[s].pc = "notify" /\ ev'[s].version = ev[s].version
    BY <1>1, <1>10 DEF SaveWrite, WriteState, OthersKept, Evaluations
  <2> QED
    BY <1>4, <2>1
<1> QED
  BY <1>3, <1>5, <1>6, <1>7, <1>8, <1>9, <1>10
  DEF Crash, SaveRefused, ClaimLost, SendFails, CompleteFails

-----------------------------------------------------------------------------
(* AlertHA implements AlertDedup. *)

\* An evaluation that is sending has a claim of its own, which it has not sent yet.
OwnClaims ==
  /\ \A s \in Servers : ev[s].pc = "send" =>
       /\ ev[s].claim \in 1..Len(claims)
       /\ ~ claims[ev[s].claim].sent
  /\ \A s, t \in Servers : s # t /\ ev[s].pc = "send" /\ ev[t].pc = "send"
       => ev[s].claim # ev[t].claim

RefInv == DedupInv /\ OwnClaims

\* A step after which no evaluation is sending that was not keeps the claims owned.
LEMMA OwnClaimsKept ==
  ASSUME OwnClaims, claims' = claims,
         \A t \in Servers : ev'[t].pc = "send" => ev[t].pc = "send" /\ ev'[t].claim = ev[t].claim
  PROVE  OwnClaims'
  BY DEF OwnClaims

\* The row is read, or completed.
LEMMA DecideCompleteEffect ==
  ASSUME HAInv, NEW s \in Servers, Decide(s) \/ Complete(s)
  PROVE  claims' = claims /\ OthersKept(s) /\ ev'[s].pc \in {"claim", "idle"}
<1>1. /\ ev \in [Servers -> Evaluations] /\ ev[s] \in Evaluations /\ NoEval.pc = "idle"
  BY DEF HAInv, TypeOK, NoEval
<1>2. CASE End(s)
  BY <1>1, <1>2 DEF Decide, Complete, End, OthersKept
<1>3. CASE ~ End(s)
  BY <1>1, <1>3 DEF Decide, Complete, OthersKept, Evaluations
<1> QED
  BY <1>2, <1>3

\* The steps of AlertHA that claim and send nothing.
LEMMA OwnClaimsElsewhere ==
  ASSUME HAInv, OwnClaims, NEW s \in Servers, ServerStep(s), ~ Claim(s), ~ Send(s)
  PROVE  OwnClaims' /\ claims' = claims
<1>1. CASE Decide(s) \/ Complete(s)
  <2>1. \A t \in Servers : ev'[t].pc = "send" => ev'[t] = ev[t]
    BY <1>1, DecideCompleteEffect DEF OthersKept
  <2> QED
    BY <1>1, <2>1, DecideCompleteEffect, OwnClaimsKept
<1>2. CASE ~ (Decide(s) \/ Complete(s))
  BY <1>2, StepsAwayFromClaims, OwnClaimsKept DEF ServerStep, EvalStep, ClaimsUntouched
<1> QED
  BY <1>1, <1>2

\* What a claim makes of the claims.
LEMMA ClaimAppends ==
  ASSUME HAInv, NEW s \in Servers, Claim(s)
  PROVE  /\ Len(claims) \in Nat
         /\ Len(claims') = Len(claims) + 1
         /\ \A i \in 1..Len(claims) : claims'[i] = claims[i]
         /\ claims'[Len(claims) + 1] =
              [change |-> ev[s].rule.changes, prev |-> ev[s].prev,
               new |-> ev[s].rule.state, at |-> now, saved |-> ev[s].saved,
                 sent |-> FALSE]
         /\ ~ claims'[Len(claims) + 1].sent
         /\ OthersKept(s)
         /\ ev'[s].pc = "send" /\ ev'[s].claim = Len(claims) + 1
<1>1. /\ claims \in Seq(Claims) /\ ev \in [Servers -> Evaluations] /\ ev[s] \in Evaluations
      /\ Len(claims) \in Nat
  BY DEF HAInv, TypeOK
<1>2. PICK n \in Nat : n = Len(claims) + 1
  BY <1>1
<1> DEFINE c == [change |-> ev[s].rule.changes, prev |-> ev[s].prev,
                 new |-> ev[s].rule.state, at |-> now, saved |-> ev[s].saved,
                 sent |-> FALSE]
<1>3. claims' = Append(claims, c) /\ ~ c.sent
  BY DEF Claim
<1> HIDE DEF c
<1>4. /\ Len(claims') = n /\ claims'[n] = c
      /\ \A i \in 1..Len(claims) : claims'[i] = claims[i]
  BY <1>1, <1>2, <1>3
<1>5. OthersKept(s) /\ ev'[s].pc = "send" /\ ev'[s].claim = Len(claims) + 1
  BY <1>1 DEF Claim, OthersKept, Evaluations
<1> QED
  BY <1>1, <1>2, <1>3, <1>4, <1>5 DEF c

\* What sending makes of them.
LEMMA SendMarks ==
  ASSUME HAInv, OwnClaims, NEW s \in Servers, Send(s)
  PROVE  /\ ev[s].claim \in 1..Len(claims)
         /\ Len(claims') = Len(claims)
         /\ claims'[ev[s].claim] = [claims[ev[s].claim] EXCEPT !.sent = TRUE]
         /\ \A i \in 1..Len(claims) : i # ev[s].claim => claims'[i] = claims[i]
         /\ OthersKept(s) /\ ev[s].pc = "send" /\ ev'[s].pc = "complete"
<1>1. /\ claims \in Seq(Claims) /\ ev \in [Servers -> Evaluations] /\ ev[s] \in Evaluations
      /\ ev[s].pc = "send"
  BY DEF HAInv, TypeOK, Send
<1>2. ev[s].claim \in 1..Len(claims)
  BY <1>1 DEF OwnClaims
<1> DEFINE k == ev[s].claim
           marked == [claims[k] EXCEPT !.sent = TRUE]
<1>3. claims' = [claims EXCEPT ![k] = marked]
  BY DEF Send
<1>4. OthersKept(s) /\ ev'[s].pc = "complete"
  BY <1>1 DEF Send, OthersKept, Evaluations
<1>5. k \in 1..Len(claims)
  BY <1>2
<1> HIDE DEF k, marked
<1>6. /\ Len(claims') = Len(claims)
      /\ claims'[k] = marked
      /\ \A i \in 1..Len(claims) : i # k => claims'[i] = claims[i]
  BY <1>1, <1>3, <1>5
<1> QED
  BY <1>1, <1>4, <1>5, <1>6 DEF k, marked

\* Every step of AlertHA keeps the claims owned.
LEMMA OwnClaimsStep ==
  ASSUME HAInv, OwnClaims, [Next]_vars
  PROVE  OwnClaims'
<1>1. CASE Tick \/ Delete \/ UNCHANGED vars \/ \E to \in {"paused", "unknown"} : SetPaused(to)
  BY <1>1, OwnClaimsKept DEF Tick, Delete, vars, SetPaused
<1>2. ASSUME NEW s \in Servers, Claim(s) PROVE OwnClaims'
  <2>1. PICK n \in Nat : n = Len(claims)
    BY <1>2, ClaimAppends
  <2>2. /\ n + 1 = Len(claims') /\ ~ claims'[n + 1].sent
        /\ \A i \in 1..n : claims'[i] = claims[i]
        /\ ev'[s].claim = n + 1 /\ OthersKept(s)
    BY <1>2, <2>1, ClaimAppends
  <2>3. \A t \in Servers \ {s} : ev'[t].pc = "send" =>
          ev'[t].claim \in 1..n /\ ~ claims[ev'[t].claim].sent
    BY <2>1, <2>2 DEF OwnClaims, OthersKept
  <2>4. \A t \in Servers : ev'[t].pc = "send" =>
          ev'[t].claim \in 1..(n + 1) /\ ~ claims'[ev'[t].claim].sent
    BY <2>2, <2>3
  <2>5. \A t, u \in Servers : t # u /\ ev'[t].pc = "send" /\ ev'[u].pc = "send"
          => ev'[t].claim # ev'[u].claim
    BY <2>2, <2>3 DEF OwnClaims, OthersKept
  <2> QED
    BY <2>2, <2>4, <2>5 DEF OwnClaims
<1>3. ASSUME NEW s \in Servers, Send(s) PROVE OwnClaims'
  <2>1. /\ Len(claims') = Len(claims)
        /\ \A i \in 1..Len(claims) : i # ev[s].claim => claims'[i] = claims[i]
        /\ OthersKept(s) /\ ev[s].pc = "send" /\ ev'[s].pc = "complete"
    BY <1>3, SendMarks
  <2> QED
    BY <2>1 DEF OwnClaims, OthersKept
<1>4. ASSUME NEW s \in Servers, ServerStep(s), ~ Claim(s), ~ Send(s)
      PROVE  OwnClaims'
  BY <1>4, OwnClaimsElsewhere
<1> QED
  BY <1>1, <1>2, <1>3, <1>4 DEF Next

AnnouncedChanges == {claims[i].change : i \in SentAnnouncements}

\* Only the UPDATE of a change numbers changes.
LEMMA OnlySavesNumber ==
  ASSUME NEW s \in Servers, ServerStep(s), ~ SaveWrite(s)
  PROVE  alert'.changes = alert.changes /\ lost' = lost
  BY DEF ServerStep, EvalStep, Refresh, Fetch, Update, Start, Retry, Crash, Evaluate,
         SaveRefused, SaveFails, SaveRead, Decide, Claim, ClaimLost, Send, SendFails, Complete,
         CompleteFails, End

\* The announcements do not change when the claims stay or an unsent one is added.
LEMMA DedupStutters ==
  ASSUME Len(claims) \in Nat,
         claims' = claims \/ (/\ Len(claims') = Len(claims) + 1
                              /\ \A i \in 1..Len(claims) : claims'[i] = claims[i]
                              /\ ~ claims'[Len(claims) + 1].sent)
  PROVE  SentAnnouncements' = SentAnnouncements /\ AnnouncedChanges' = AnnouncedChanges
<1>1. SentAnnouncements' = SentAnnouncements
  <2>1. CASE claims' = claims
    BY <2>1 DEF SentAnnouncements, IsAnnouncement, IsReminder
  <2>2. CASE claims' # claims
    BY <2>2 DEF SentAnnouncements, IsAnnouncement, IsReminder
  <2> QED
    BY <2>1, <2>2
<1>2. \A i \in SentAnnouncements : claims'[i] = claims[i]
  BY DEF SentAnnouncements
<1> QED
  BY <1>1, <1>2 DEF AnnouncedChanges

\* The announcements that were sent are finitely many.
LEMMA SentIsFinite ==
  ASSUME HAInv
  PROVE  IsFiniteSet(SentAnnouncements)
<1>1. Len(claims) \in Nat
  BY DEF HAInv, TypeOK
<1>2. IsFiniteSet(1..Len(claims))
  BY <1>1, FS_Interval
<1>3. SentAnnouncements \subseteq 1..Len(claims)
  BY DEF SentAnnouncements
<1> QED
  BY <1>2, <1>3, FS_Subset

\* What AlertDedup has of a state of AlertHA.
DedupState == <<alert.changes, lost, AnnouncedChanges, Cardinality(SentAnnouncements)>>

\* An UPDATE gives the next number, or one that is lost.
LEMMA DedupSaveStep ==
  ASSUME RefInv, NEW s \in Servers, SaveWrite(s)
  PROVE  Dedup!Next
<1>1. /\ HAInv /\ Len(claims) \in Nat
      /\ alert \in [exists : BOOLEAN, state : AlertStates, changes : Nat, date : Nat]
      /\ ev[s].rule \in LoadedRules /\ ev[s].read \in LoadedRules
  BY DEF RefInv, DedupInv, HAInv, TypeOK, EvaluatesLoadedRules, SaveWrite
<1> DEFINE n == ev[s].read.changes + 1
<1>2. SavedRule(s, ev[s].read).changes = n
  BY <1>1 DEF SavedRule, LoadedRules
<1>3. alert'.changes = IF alert.exists THEN n ELSE alert.changes
  <2>1. CASE alert.exists
    <3>1. alert' = [alert EXCEPT !.state = SavedRule(s, ev[s].read).state,
                                 !.changes = SavedRule(s, ev[s].read).changes, !.date = now]
      BY <2>1 DEF SaveWrite, WriteState, SavedRule
    <3> QED
      BY <1>1, <1>2, <2>1, <3>1
  <2>2. CASE ~ alert.exists
    BY <2>2 DEF SaveWrite, WriteState
  <2> QED
    BY <2>1, <2>2
<1>4. /\ SentAnnouncements' = SentAnnouncements
      /\ AnnouncedChanges' = AnnouncedChanges
      /\ lost' = IF StillAsRead(s) THEN lost ELSE lost \cup {n}
  BY <1>1, DedupStutters DEF SaveWrite
<1>5. CASE StillAsRead(s)
  <2>1. alert'.changes = alert.changes + 1
    BY <1>3, <1>5 DEF StillAsRead
  <2> QED
    BY <1>4, <1>5, <2>1 DEF Dedup!Next, Dedup!Change, AnnouncedChanges
<1>6. CASE ~ StillAsRead(s)
  <2> HIDE DEF n
  <2>1. lost' = lost \cup {n} /\ alert'.changes \in {alert.changes, n}
    BY <1>3, <1>4, <1>6
  <2>2. Dedup!Lose(n)
    BY <1>4, <2>1 DEF Dedup!Lose, AnnouncedChanges
  <2> QED
    BY <2>1, <2>2, Zenon DEF Dedup!Next
<1> QED
  BY <1>5, <1>6

\* A notification that is sent announces a change, unless it is no announcement.
LEMMA DedupSendStep ==
  ASSUME RefInv, NEW s \in Servers, Send(s)
  PROVE  Dedup!Next \/ UNCHANGED DedupState
<1>0. HAInv /\ OwnClaims /\ Len(claims) \in Nat /\ claims \in Seq(Claims)
  BY DEF RefInv, DedupInv, HAInv, TypeOK
<1> DEFINE k == ev[s].claim
           change == claims[k].change
<1>1. /\ k \in 1..Len(claims) /\ Len(claims') = Len(claims)
      /\ claims'[k] = [claims[k] EXCEPT !.sent = TRUE]
      /\ \A i \in 1..Len(claims) : i # k => claims'[i] = claims[i]
      /\ ~ claims[k].sent /\ claims[k] \in Claims
      /\ alert' = alert /\ lost' = lost
  <2>1. k \in 1..Len(claims)
    BY <1>0, SendMarks
  <2>2. claims[k] \in Claims
    BY <1>0, <2>1
  <2>3. ~ claims[k].sent /\ alert' = alert /\ lost' = lost
    BY <1>0 DEF OwnClaims, Send
  <2> QED
    BY <1>0, <2>2, <2>3, SendMarks
<1> HIDE DEF k
<1>2. /\ claims'[k].change = change /\ claims'[k].sent /\ claims'[k].saved = claims[k].saved
      /\ claims'[k].prev = claims[k].prev /\ claims'[k].new = claims[k].new
  BY <1>1 DEF Claims
<1>a. claims[k].change = change
  OBVIOUS
<1> HIDE DEF change
<1>3. k \notin SentAnnouncements
  BY <1>1 DEF SentAnnouncements
<1>4. CASE ~ IsAnnouncement(claims[k])
  <2>1. SentAnnouncements' = SentAnnouncements
    BY <1>1, <1>2, <1>4 DEF SentAnnouncements, IsAnnouncement, IsReminder
  <2>2. \A i \in SentAnnouncements : claims'[i] = claims[i]
    BY <1>1, <1>3 DEF SentAnnouncements
  <2> QED
    BY <1>1, <2>1, <2>2 DEF AnnouncedChanges, DedupState
<1>5. CASE IsAnnouncement(claims[k])
  <2>1. SentAnnouncements' = SentAnnouncements \cup {k}
    BY <1>1, <1>2, <1>5 DEF SentAnnouncements, IsAnnouncement, IsReminder
  <2>2. \A i \in SentAnnouncements : claims'[i] = claims[i]
    BY <1>1, <1>3 DEF SentAnnouncements
  <2>3. AnnouncedChanges' = AnnouncedChanges \cup {change}
    BY <1>2, <2>1, <2>2 DEF AnnouncedChanges
  <2>4. Firm(change) => change \in (1..alert.changes) \ AnnouncedChanges
    <3> SUFFICES ASSUME Firm(change)
                 PROVE  change \in (1..alert.changes) \ AnnouncedChanges
      OBVIOUS
    <3>1. Announcement(k) /\ change \in Nat
      BY <1>1, <1>5, <1>a DEF Announcement, Claims
    <3>2. change >= 1 /\ change <= alert.changes /\ alert.changes \in Nat
      BY <1>1, <1>a, <3>1 DEF RefInv, DedupInv, OneClaimPerChange, HAInv, TypeOK
    <3>3. change \notin AnnouncedChanges
      BY <1>1, <1>3, <1>a, <3>1
      DEF RefInv, DedupInv, OneClaimPerChange, Announcement, AnnouncedChanges,
          SentAnnouncements
    <3> QED
      BY <3>1, <3>2, <3>3
  <2>5. Cardinality(SentAnnouncements') = Cardinality(SentAnnouncements) + 1
    BY <1>0, <1>3, <2>1, SentIsFinite, FS_AddElement
  <2>6. PICK n \in AnnouncedChanges' : n = change
    BY <2>3
  <2>7. Dedup!Announce(n)
    BY <1>1, <2>3, <2>4, <2>5, <2>6 DEF Dedup!Announce, AnnouncedChanges, Firm
  <2>8. \E m \in AnnouncedChanges' : Dedup!Announce(m)
    BY <2>7
  <2> QED
    BY <2>8 DEF Dedup!Next, AnnouncedChanges
<1> QED
  BY <1>4, <1>5

\* A step of AlertHA is a step of AlertDedup, or changes nothing that it has.
LEMMA DedupStep ==
  ASSUME RefInv, [Next]_vars
  PROVE  [Dedup!Next]_DedupState
<1>0. HAInv /\ OwnClaims /\ Len(claims) \in Nat
      /\ alert \in [exists : BOOLEAN, state : AlertStates, changes : Nat, date : Nat]
  BY DEF RefInv, DedupInv, HAInv, TypeOK
<1>1. CASE Tick \/ Delete \/ UNCHANGED vars \/ \E to \in {"paused", "unknown"} : SetPaused(to)
  <2>1. claims' = claims /\ alert'.changes = alert.changes /\ lost' = lost
    BY <1>0, <1>1 DEF Tick, Delete, vars, SetPaused
  <2> QED
    BY <1>0, <2>1, DedupStutters DEF DedupState
<1>2. ASSUME NEW s \in Servers, SaveWrite(s)
      PROVE  Dedup!Next
  BY <1>2, DedupSaveStep
<1>3. ASSUME NEW s \in Servers, Claim(s)
      PROVE  UNCHANGED DedupState
  <2>1. alert' = alert /\ lost' = lost
    BY <1>3 DEF Claim
  <2> QED
    BY <1>0, <1>3, <2>1, ClaimAppends, DedupStutters DEF DedupState
<1>4. ASSUME NEW s \in Servers, Send(s)
      PROVE  Dedup!Next \/ UNCHANGED DedupState
  BY <1>4, DedupSendStep
<1>5. ASSUME NEW s \in Servers, ServerStep(s), ~ SaveWrite(s), ~ Claim(s), ~ Send(s)
      PROVE  UNCHANGED DedupState
  <2>1. claims' = claims
    BY <1>0, <1>5, OwnClaimsElsewhere
  <2>2. alert'.changes = alert.changes /\ lost' = lost
    BY <1>5, OnlySavesNumber
  <2> QED
    BY <1>0, <2>1, <2>2, DedupStutters DEF DedupState
<1> QED
  BY <1>1, <1>2, <1>3, <1>4, <1>5 DEF Next

(***************************************************************************)
(* The two tables implement the deduplication that AlertDedup specifies,   *)
(* with any number of servers, faults and users: an UPDATE of a row that   *)
(* is as it was read is a change there, any other UPDATE is the loss of a  *)
(* number, a notification that is sent, unless it announces nothing, is    *)
(* the announcement of a change, and nothing else is seen.                 *)
(***************************************************************************)
THEOREM TablesImplementDedup == Spec => ImplementsDedup
<1>1. Init => RefInv /\ Dedup!Init
  <2> SUFFICES ASSUME Init PROVE RefInv /\ Dedup!Init
    OBVIOUS
  <2>1. /\ \A s \in Servers : ev[s].pc = "idle"
        /\ claims = <<>> /\ alert.changes = 0 /\ lost = {}
    BY DEF Init, NoEval
  <2>2. SentAnnouncements = {}
    BY <2>1 DEF SentAnnouncements
  <2>3. Cardinality(SentAnnouncements) = 0
    BY <2>2, FS_EmptySet
  <2> QED
    BY <2>1, <2>2, <2>3, DedupInvInit DEF RefInv, OwnClaims, Dedup!Init
<1>2. RefInv /\ [Next]_vars => RefInv'
  BY DedupInvStep, OwnClaimsStep DEF RefInv, DedupInv
<1>3. RefInv /\ [Next]_vars => [Dedup!Next]_DedupState
  BY DedupStep
<1> QED
  BY <1>1, <1>2, <1>3, PTL DEF Spec, ImplementsDedup, Dedup!Spec, DedupState,
                               AnnouncedChanges

-----------------------------------------------------------------------------
(* The row and the claims, with any faults. *)

\* A notification state row that was moved was moved by a claim, and the number of
\* changes it has seen is a claim's.
RowFollowsClaims ==
  /\ nstate.seen # 0 => \E i \in 1..Len(claims) : claims[i].change = nstate.seen
  /\ nstate.version # 0 => claims # <<>>
  /\ \A s \in Servers : /\ ev[s].version # 0 => claims # <<>>
                        /\ ev[s].pc \in {"send", "complete"} => claims # <<>>

FollowInv == HAInv /\ RowFollowsClaims

\* Whichever step is taken, a row that it moves was claimed.
LEMMA FollowInvStep == FollowInv /\ [Next]_vars => FollowInv'
<1> SUFFICES ASSUME FollowInv, [Next]_vars PROVE FollowInv'
  OBVIOUS
<1>1. HAInv'
  BY HAInvStep DEF FollowInv
<1>2. HAInv /\ RowFollowsClaims
  BY DEF FollowInv
<1>3. CASE Tick \/ UNCHANGED vars \/ \E to \in {"paused", "unknown"} : SetPaused(to)
  BY <1>1, <1>2, <1>3 DEF Tick, vars, SetPaused, FollowInv, RowFollowsClaims
<1>4. CASE Delete
  BY <1>1, <1>2, <1>4 DEF Delete, NoRow, FollowInv, RowFollowsClaims
<1>5. ASSUME NEW s \in Servers, ServerStep(s)
      PROVE  RowFollowsClaims'
  <2>1. /\ ev \in [Servers -> Evaluations] /\ ev[s] \in Evaluations
        /\ nstate \in [id : 0..2, status : {"unknown", "pending", "completed"},
                       version : Nat, updatedAt : Nat, seen : Nat]
        /\ NoEval.pc = "idle" /\ NoEval.version = 0
    BY <1>2 DEF HAInv, TypeOK, NoEval
  <2>2. CASE Decide(s)
    <3>1. /\ nstate' = RowOrNew /\ claims' = claims
          /\ nstate'.seen = nstate.seen /\ nstate'.version = nstate.version
      BY <2>1, <2>2 DEF Decide, RowOrNew, NoRow
    <3>2. /\ OthersKept(s) /\ ev'[s].version \in {0, nstate.version}
          /\ ev'[s].pc \in {"claim", "idle"}
      <4>1. CASE End(s)
        BY <2>1, <4>1 DEF End, OthersKept
      <4>2. CASE ~ End(s)
        BY <2>1, <2>2, <3>1, <4>2 DEF Decide, OthersKept, Evaluations
      <4> QED
        BY <4>1, <4>2
    <3> QED
      BY <1>2, <3>1, <3>2 DEF RowFollowsClaims, OthersKept
  <2>3. CASE Claim(s)
    <3>1. PICK n \in Nat : n = Len(claims) + 1
      BY <1>2, <2>3, ClaimAppends
    <3>a. Len(claims') = n
      BY <1>2, <2>3, <3>1, ClaimAppends
    <3>2. Len(claims') = n /\ n \in 1..n /\ claims' # <<>>
      <4>1. n \in 1..n /\ n # 0 /\ Len(<<>>) = 0
        BY <1>2, <2>3, <3>1, ClaimAppends
      <4> QED
        BY <3>a, <4>1
    <3>3. claims'[n].change = nstate'.seen
      <4>1. claims \in Seq(Claims)
        BY <1>2 DEF HAInv, TypeOK
      <4> QED
        BY <2>1, <2>3, <3>1, <4>1 DEF Claim
    <3> QED
      BY <3>2, <3>3 DEF RowFollowsClaims
  <2>4. CASE Send(s)
    <3>1. claims \in Seq(Claims) /\ claims # <<>> /\ ev[s].pc = "send"
      BY <1>2, <2>4 DEF HAInv, TypeOK, Send, RowFollowsClaims
    <3>2. /\ Len(claims') = Len(claims) /\ claims' # <<>>
          /\ \A i \in 1..Len(claims) : claims'[i].change = claims[i].change
      BY <2>4, <3>1 DEF Send, Claims
    <3> QED
      BY <1>2, <2>4, <3>2 DEF Send, RowFollowsClaims
  <2>5. CASE Complete(s)
    <3>1. claims # <<>> /\ claims' = claims /\ nstate'.seen = nstate.seen
      BY <1>2, <2>1, <2>5 DEF Complete, RowFollowsClaims
    <3> QED
      BY <1>2, <3>1 DEF RowFollowsClaims
  <2>6. CASE ~ (Decide(s) \/ Claim(s) \/ Send(s) \/ Complete(s))
    <3>1. nstate' = nstate /\ claims' = claims /\ ClaimsUntouched
      BY <1>2, <1>5, <2>6, StepsAwayFromClaims DEF ServerStep, EvalStep
    <3> QED
      BY <1>2, <3>1 DEF RowFollowsClaims, ClaimsUntouched
  <2> QED
    BY <2>2, <2>3, <2>4, <2>5, <2>6
<1> QED
  BY <1>1, <1>3, <1>4, <1>5 DEF Next, FollowInv

\* The row is not there yet.
LEMMA FollowInvInit == Init => FollowInv
<1> SUFFICES ASSUME Init PROVE FollowInv
  OBVIOUS
<1>1. \A s \in Servers : ev[s].pc = "idle" /\ ev[s].version = 0
  BY DEF Init, NoEval
<1> QED
  BY <1>1, HAInvInit DEF Init, NoRow, FollowInv, RowFollowsClaims

(***************************************************************************)
(* A server that finds the row taken gives up only where a change with     *)
(* its number or a later one was claimed: with every fault, every user     *)
(* action and reminders.                                                   *)
(***************************************************************************)
THEOREM GivenUpForAClaim == Spec => []GivenUpOnlyIfClaimed
<1>1. Init => FollowInv
  BY FollowInvInit
<1>2. FollowInv => GivenUpOnlyIfClaimed
  <2> SUFFICES ASSUME FollowInv, NEW s \in Servers, ev[s].pc = "claim",
                      nstate.id = ev[s].id, ~ ClaimHolds(s)
               PROVE  \E i \in 1..Len(claims) : claims[i].change >= ev[s].rule.changes
    BY DEF GivenUpOnlyIfClaimed
  <2>1. /\ claims \in Seq(Claims) /\ nstate.seen \in Nat /\ nstate.version \in Nat
        /\ ev[s].rule \in LoadedRules
    BY DEF FollowInv, HAInv, TypeOK, EvaluatesLoadedRules
  <2>2. nstate.seen >= ev[s].rule.changes /\ ev[s].rule.changes \in Nat
    BY <2>1 DEF ClaimHolds, LoadedRules
  <2>3. CASE nstate.seen # 0
    BY <2>2, <2>3 DEF FollowInv, RowFollowsClaims
  <2>4. CASE nstate.seen = 0
    <3>1. nstate.version # 0 \/ ev[s].version # 0
      BY DEF ClaimHolds
    <3>2. claims # <<>>
      BY <3>1 DEF FollowInv, RowFollowsClaims
    <3>3. 1 \in 1..Len(claims) /\ claims[1] \in Claims
      BY <2>1, <3>2
    <3>4. claims[1].change \in Nat /\ ev[s].rule.changes = 0
      BY <2>1, <2>2, <2>4, <3>3 DEF Claims
    <3> QED
      BY <3>3, <3>4
  <2> QED
    BY <2>3, <2>4
<1> QED
  BY <1>1, <1>2, FollowInvStep, PTL DEF Spec

(***************************************************************************)
(* A server that saved the latest change and goes to announce it is told   *)
(* that the row was taken only if a reminder took it, or a notification    *)
(* whose save had failed, or one whose number is not firm: never by the    *)
(* announcement of an earlier change, nor by the completion of one, for    *)
(* any number of servers, faults and users.                                *)
(***************************************************************************)
THEOREM LatestChangeWins == Spec => []LastChangeClaims
<1>1. Init => DedupInv /\ FollowInv
  BY DedupInvInit, FollowInvInit
<1>2. DedupInv /\ FollowInv /\ [Next]_vars => (DedupInv /\ FollowInv)'
  BY DedupInvStep, FollowInvStep
<1>3. DedupInv /\ FollowInv => LastChangeClaims
  <2> SUFFICES ASSUME DedupInv, FollowInv, NEW s \in Servers,
                      ev[s].pc = "claim", ev[s].saved, nstate.id = ev[s].id,
                      ev[s].rule.changes = alert.changes, ~ ClaimHolds(s)
               PROVE  \E i \in 1..Len(claims) :
                        /\ claims[i].change >= alert.changes
                        /\ IsAnnouncement(claims[i]) => ~ Firm(claims[i].change)
    BY DEF LastChangeClaims
  <2>1. nstate.seen \in Nat /\ alert.changes \in Nat
    BY DEF DedupInv, HAInv, TypeOK
  <2>2. Announcing(s) /\ alert.changes >= 1
    BY DEF Announcing, DedupInv, OwnNumbers
  <2>3. nstate.seen >= alert.changes
    BY <2>1 DEF ClaimHolds
  <2>4. PICK i \in 1..Len(claims) : claims[i].change = nstate.seen
    BY <2>1, <2>2, <2>3 DEF FollowInv, RowFollowsClaims
  <2>5. ASSUME IsAnnouncement(claims[i]), Firm(claims[i].change) PROVE FALSE
    <3>1. Announcement(i)
      BY <2>5 DEF Announcement
    <3>2. claims[i].change <= alert.changes
      BY <2>5, <3>1 DEF DedupInv, OneClaimPerChange
    <3>3. claims[i].change = ev[s].rule.changes
      BY <2>1, <2>3, <2>4, <3>2
    <3> QED
      BY <2>2, <2>5, <3>1, <3>3 DEF DedupInv, OwnNumbers
  <2> QED
    BY <2>3, <2>4, <2>5
<1> QED
  BY <1>1, <1>2, <1>3, PTL DEF Spec

-----------------------------------------------------------------------------
(* One server: reminders.                                                   *)

Alone == \A s, t \in Servers : s = t

\* The row is at least as young as the last claim; it is never removed.
RowDatesClaims ==
  /\ now >= 1 /\ nstate.updatedAt <= now
  /\ \A i \in 1..Len(claims) : claims[i].at \in 1..nstate.updatedAt

\* A reminder that goes to be claimed is due, and those claimed were.
RemindersDue ==
  /\ \A s \in Servers : ev[s].pc = "claim" /\ ev[s].prev = ev[s].rule.state =>
       \A i \in 1..Len(claims) : claims[i].at + Frequency <= now
  /\ \A i, j \in 1..Len(claims) :
       i < j /\ IsReminder(claims[j]) => claims[i].at + Frequency <= claims[j].at

SpacedInv == HAInv /\ RowDatesClaims /\ RemindersDue

\* Every step keeps the reminders spaced.
LEMMA SpacedInvStep ==
  ASSUME Alone, "delete" \notin Users, SpacedInv, [Next]_vars
  PROVE  SpacedInv'
<1> USE RuleAssumption
<1>1. HAInv'
  BY HAInvStep DEF SpacedInv
<1>2. HAInv /\ RowDatesClaims /\ RemindersDue
  BY DEF SpacedInv
<1>a. /\ now \in Nat /\ Len(claims) \in Nat /\ claims \in Seq(Claims)
      /\ \A i \in 1..Len(claims) : claims[i].at \in Nat
      /\ nstate \in [id : 0..2, status : {"unknown", "pending", "completed"},
                     version : Nat, updatedAt : Nat, seen : Nat]
      /\ ev \in [Servers -> Evaluations]
  <2>1. /\ now \in Nat /\ claims \in Seq(Claims)
        /\ nstate \in [id : 0..2, status : {"unknown", "pending", "completed"},
                       version : Nat, updatedAt : Nat, seen : Nat]
        /\ ev \in [Servers -> Evaluations]
    BY <1>2 DEF HAInv, TypeOK
  <2>2. \A i \in 1..Len(claims) : claims[i] \in Claims
    BY <2>1
  <2> QED
    BY <2>1, <2>2 DEF Claims
<1>3. CASE UNCHANGED vars \/ \E to \in {"paused", "unknown"} : SetPaused(to)
  BY <1>1, <1>2, <1>3 DEF vars, SetPaused, SpacedInv, RowDatesClaims, RemindersDue, IsReminder
<1>4. CASE Delete
  BY <1>4 DEF Delete
<1>5. CASE Tick
  <2>1. RowDatesClaims'
    BY <1>2, <1>5, <1>a DEF Tick, RowDatesClaims
  <2>2. RemindersDue'
    BY <1>2, <1>5, <1>a DEF Tick, RemindersDue, IsReminder
  <2> QED
    BY <1>1, <2>1, <2>2 DEF SpacedInv
<1>6. ASSUME NEW s \in Servers, Decide(s)
      PROVE  RowDatesClaims' /\ RemindersDue'
  <2>1. claims' = claims /\ now' = now /\ nstate' = RowOrNew /\ OthersKept(s)
    BY <1>2, <1>6, DecideCompleteEffect DEF Decide
  <2>2. /\ nstate'.updatedAt \in Nat /\ nstate'.updatedAt <= now
        /\ nstate.updatedAt <= nstate'.updatedAt
    <3>1. CASE nstate # NoRow
      BY <1>2, <1>a, <2>1, <3>1 DEF RowOrNew, RowDatesClaims
    <3>2. CASE nstate = NoRow
      <4>1. nstate'.updatedAt = now /\ nstate.updatedAt = 0
        BY <1>a, <2>1, <3>2 DEF RowOrNew, NoRow
      <4> QED
        BY <1>a, <4>1
    <3> QED
      BY <3>1, <3>2
  <2>3. RowDatesClaims'
    BY <1>2, <1>a, <2>1, <2>2 DEF RowDatesClaims
  <2>4. ASSUME ev'[s].pc = "claim", ev'[s].prev = ev'[s].rule.state,
               NEW i \in 1..Len(claims)
        PROVE  claims[i].at + Frequency <= now
    <3>1. ~ End(s)
      BY <1>a, <2>4 DEF End, NoEval
    <3>2. /\ ShouldNotify(ev[s].prev, ev[s].rule.state, RowOrNew, now)
          /\ ev'[s].prev = ev[s].prev /\ ev'[s].rule = ev[s].rule
      BY <1>6, <1>a, <3>1 DEF Decide, Evaluations
    <3>3. RowOrNew.updatedAt = 0 \/ RowOrNew.updatedAt + Frequency <= now
      BY <2>4, <3>2 DEF ShouldNotify, ReminderDue
    <3>4. claims[i].at \in 1..nstate'.updatedAt
      BY <2>1, <2>3 DEF RowDatesClaims
    <3> QED
      BY <1>a, <2>1, <2>2, <3>3, <3>4
  <2>5. RemindersDue'
    BY <1>2, <2>1, <2>4 DEF RemindersDue, OthersKept, IsReminder, Alone
  <2> QED
    BY <2>3, <2>5
<1>7. ASSUME NEW s \in Servers, Claim(s)
      PROVE  RowDatesClaims' /\ RemindersDue'
  <2>1. PICK n \in Nat : n = Len(claims) + 1
    BY <1>a
  <2>c. \A i \in 1..n : i # n => i \in 1..Len(claims)
    BY <1>a, <2>1
  <2>d. now' = now
    BY <1>7 DEF Claim
  <2>2. /\ Len(claims') = n /\ \A i \in 1..Len(claims) : claims'[i] = claims[i]
        /\ ev'[s].pc = "send" /\ now' = now
        /\ \A i \in 1..n : i # n => i \in 1..Len(claims)
    BY <1>2, <1>7, <2>1, <2>c, <2>d, ClaimAppends
  <2>a. nstate'.updatedAt = now /\ ev[s].pc = "claim"
    BY <1>7, <1>a DEF Claim
  <2>b. claims'[n] = [change |-> ev[s].rule.changes, prev |-> ev[s].prev,
                      new |-> ev[s].rule.state, at |-> now, saved |-> ev[s].saved,
                 sent |-> FALSE]
    BY <1>2, <1>7, <2>1, ClaimAppends
  <2>3. claims'[n].at = now /\ nstate'.updatedAt = now
    BY <2>a, <2>b
  <2>4. /\ claims'[n].prev = ev[s].prev /\ claims'[n].new = ev[s].rule.state
        /\ ev[s].pc = "claim"
    BY <2>a, <2>b
  <2>5. RowDatesClaims'
    BY <1>2, <1>a, <2>2, <2>3 DEF RowDatesClaims
  <2>6. ASSUME NEW i \in 1..n, NEW j \in 1..n, i < j, IsReminder(claims'[j])
        PROVE  claims'[i].at + Frequency <= claims'[j].at
    <3>1. CASE j = n
      BY <1>2, <2>1, <2>2, <2>3, <2>4, <2>6, <3>1 DEF RemindersDue, IsReminder
    <3>2. CASE j # n
      <4>1. i # n
        BY <2>6, <3>2
      <4> QED
        BY <1>2, <2>2, <2>6, <3>2, <4>1 DEF RemindersDue, IsReminder
    <3> QED
      BY <3>1, <3>2
  <2>7. RemindersDue'
    BY <2>2, <2>6 DEF RemindersDue, IsReminder, Alone
  <2> QED
    BY <2>5, <2>7
<1>8. ASSUME NEW s \in Servers, Send(s)
      PROVE  RowDatesClaims' /\ RemindersDue'
  <2>1. /\ Len(claims') = Len(claims)
        /\ \A i \in 1..Len(claims) :
             /\ claims'[i].at = claims[i].at
             /\ claims'[i].prev = claims[i].prev /\ claims'[i].new = claims[i].new
    BY <1>8, <1>a DEF Send, Claims
  <2>2. now' = now /\ nstate' = nstate /\ ev'[s].pc = "complete"
    BY <1>8, <1>a DEF Send, Evaluations
  <2>3. RowDatesClaims'
    BY <1>2, <2>1, <2>2 DEF RowDatesClaims
  <2>4. RemindersDue'
    BY <1>2, <2>1, <2>2 DEF RemindersDue, IsReminder, Alone
  <2> QED
    BY <2>3, <2>4
<1>9. ASSUME NEW s \in Servers, Complete(s)
      PROVE  RowDatesClaims' /\ RemindersDue'
  <2>1. claims' = claims /\ now' = now /\ ev'[s].pc = "idle"
    BY <1>9, <1>a DEF Complete, End, NoEval
  <2>2. nstate'.updatedAt \in {now, nstate.updatedAt}
    BY <1>9, <1>a DEF Complete
  <2>3. RowDatesClaims'
    BY <1>2, <1>a, <2>1, <2>2 DEF RowDatesClaims
  <2>4. RemindersDue'
    BY <1>2, <2>1 DEF RemindersDue, IsReminder, Alone
  <2> QED
    BY <2>3, <2>4
<1>10. ASSUME NEW s \in Servers, ServerStep(s),
              ~ (Decide(s) \/ Claim(s) \/ Send(s) \/ Complete(s))
       PROVE  RowDatesClaims' /\ RemindersDue'
  <2>1. nstate' = nstate /\ claims' = claims /\ ClaimsUntouched
    BY <1>2, <1>10, StepsAwayFromClaims DEF ServerStep, EvalStep
  <2>2. now' = now
    BY <1>10 DEF ServerStep, EvalStep, Refresh, Fetch, Update, Start, Retry, Crash, Evaluate,
         SaveRefused, SaveFails, SaveRead, SaveWrite, ClaimLost, SendFails, CompleteFails
  <2> QED
    BY <1>2, <2>1, <2>2 DEF RowDatesClaims, RemindersDue, ClaimsUntouched, IsReminder
<1> QED
  BY <1>1, <1>3, <1>4, <1>5, <1>6, <1>7, <1>8, <1>9, <1>10 DEF Next, SpacedInv

(***************************************************************************)
(* With one server, and the alert not deleted, a reminder is claimed at    *)
(* least Frequency after whatever was claimed before it: changes, other    *)
(* reminders, notifications that failed, and after any number of restarts. *)
(***************************************************************************)
THEOREM RemindersAreSpaced ==
  Alone /\ "delete" \notin Users => (Spec => []RemindersSpaced)
<1> SUFFICES ASSUME Alone, "delete" \notin Users PROVE Spec => []RemindersSpaced
  OBVIOUS
<1>1. Init => SpacedInv
  <2> SUFFICES ASSUME Init PROVE SpacedInv
    OBVIOUS
  <2>1. /\ \A s \in Servers : ev[s].pc = "idle"
        /\ claims = <<>> /\ nstate.updatedAt = 0 /\ now = 1
    BY DEF Init, NoEval, NoRow
  <2> QED
    BY <2>1, HAInvInit DEF SpacedInv, RowDatesClaims, RemindersDue
<1>2. SpacedInv /\ [Next]_vars => SpacedInv'
  BY SpacedInvStep
<1>3. SpacedInv => RemindersSpaced
  <2> SUFFICES ASSUME SpacedInv, NEW i \in 1..Len(claims), NEW j \in 1..Len(claims),
                      i < j, IsReminder(claims[j])
               PROVE  claims[j].at - claims[i].at >= Frequency
    BY DEF RemindersSpaced
  <2>1. claims \in Seq(Claims)
    BY DEF SpacedInv, HAInv, TypeOK
  <2>2. claims[i] \in Claims /\ claims[j] \in Claims
    BY <2>1
  <2>3. claims[i].at \in Nat /\ claims[j].at \in Nat /\ Frequency \in Nat
    BY <2>2, RuleAssumption DEF Claims
  <2>4. claims[i].at + Frequency <= claims[j].at
    BY DEF SpacedInv, RemindersDue
  <2> QED
    BY <2>3, <2>4
<1> QED
  BY <1>1, <1>2, <1>3, PTL DEF Spec

-----------------------------------------------------------------------------
(* One server and no faults: every change that is to be announced is.       *)

Undisturbed == Alone /\ Faults = {} /\ Users = {}

\* s has the latest change to announce.
OnItsWay(s) ==
  /\ ev[s].pc \in {"notify", "claim", "send"}
  /\ ev[s].prev = lastChange.believed /\ ev[s].rule.state = lastChange.new
  /\ ev[s].rule.changes = lastChange.number

\* The latest change, from the state that the server took it for, was announced, or is
\* on its way.
ChangeInHand ==
  lastChange.number # 0 =>
    /\ lastChange.believed # lastChange.new
    /\ Notifiable(lastChange.believed, lastChange.new) =>
         \/ \E i \in 1..Len(claims) : claims[i].change = lastChange.number /\ claims[i].sent
         \/ \E s \in Servers : OnItsWay(s)

\* No copy of the rule is paused.
NeverPaused ==
  /\ alert.exists /\ alert.state # "paused"
  /\ \A s \in Servers : /\ rule[s].state # "paused" /\ fetched[s].state # "paused"
                        /\ ev[s].rule.state # "paused" /\ ev[s].prev # "paused"

\* What has been decided at a step of the evaluation holds until its last.
Steady ==
  \A s \in Servers :
    /\ ev[s].pc \in {"save", "write"} => ev[s].prev # ev[s].rule.state
    /\ ev[s].rule.state = "pending" => ev[s].prev # "alerting"
    /\ ev[s].pc = "claim" => nstate.id = ev[s].id /\ nstate.version = ev[s].version
    /\ ev[s].pc \in {"claim", "send"} => ev[s].rule.state # "pending"
    /\ ev[s].pc = "send" => claims[ev[s].claim].change = ev[s].rule.changes
    /\ ev[s].pc \in {"send", "complete"} => nstate.id = ev[s].id

\* The row is pending only while a notification is being sent.
RowReleased ==
  nstate.status = "pending" => \E s \in Servers : ev[s].pc \in {"send", "complete"}

NotifiedInv ==
  HAInv /\ OwnClaims /\ NeverPaused /\ Steady /\ RowReleased /\ ChangeInHand

\* An evaluation does not pause a rule, nor bring an alerting one back to pending.
LEMMA NewStateSteady ==
  ASSUME NEW prev \in AlertStates, prev # "paused", NEW result \in Results,
         NEW since \in Int
  PROVE  /\ NewState(prev, result, since) # "paused"
         /\ NewState(prev, result, since) = "pending" => prev # "alerting"
<1>1. ResultState(prev, result) \in {prev, "alerting", "ok", "no_data"}
  BY RuleAssumption DEF ResultState, Results
<1> QED
  BY <1>1 DEF NewState

\* The fields that a step of the evaluation before the notification changes.
LEMMA EvaluateEffect ==
  ASSUME HAInv, NEW s \in Servers, Evaluate(s)
  PROVE  \E new \in AlertStates :
           /\ \E result \in Results, since \in Int : new = NewState(ev[s].prev, result, since)
           /\ OthersKept(s)
           /\ ev'[s].pc = IF new = ev[s].prev THEN "notify" ELSE "save"
           /\ ev'[s].prev = ev[s].prev /\ ev'[s].rule.state = new
           /\ rule'[s].state \in {rule[s].state, new}
           /\ \A t \in Servers \ {s} : rule'[t] = rule[t]
<1>1. /\ ev \in [Servers -> Evaluations] /\ ev[s] \in Evaluations
      /\ rule \in [Servers -> Rules]
      /\ ev[s].rule \in LoadedRules /\ ev[s].prev \in AlertStates
      /\ now \in Nat /\ ev[s].rule.date \in Nat
  BY RuleTypes DEF Evaluate, HAInv, TypeOK, EvaluatesLoadedRules
<1> DEFINE new(result) == NewState(ev[s].prev, result, now - ev[s].rule.date)
           r(result) == [ev[s].rule EXCEPT !.state = new(result)]
<1>2. PICK result \in Outcomes :
        /\ ev' = [ev EXCEPT ![s].rule = r(result),
                  ![s].pc = IF new(result) = ev[s].prev THEN "notify" ELSE "save",
                  ![s].attached = new(result) # ev[s].prev /\ @]
        /\ WriteRule(s, r(result))
  BY Zenon DEF Evaluate
<1>3. result \in Results /\ now - ev[s].rule.date \in Int
  BY <1>1, HAAssumption
<1>4. new(result) \in AlertStates
  BY <1>1, <1>3, NewStateType
<1>5. \E res \in Results, since \in Int : new(result) = NewState(ev[s].prev, res, since)
  BY <1>3
<1> HIDE DEF new
<1>6. r(result).state = new(result)
  BY <1>1 DEF LoadedRules
<1> HIDE DEF r
<1>7. /\ OthersKept(s)
      /\ ev'[s].pc = IF new(result) = ev[s].prev THEN "notify" ELSE "save"
      /\ ev'[s].prev = ev[s].prev /\ ev'[s].rule = r(result)
  BY <1>1, <1>2 DEF OthersKept, Evaluations
<1>8. /\ rule'[s] \in {rule[s], r(result)}
      /\ \A t \in Servers \ {s} : rule'[t] = rule[t]
  BY <1>1, <1>2 DEF WriteRule
<1> QED
  BY <1>4, <1>5, <1>6, <1>7, <1>8

\* The UPDATE of SetAlertState where the alert exists.
LEMMA WriteEffect ==
  ASSUME HAInv, NEW s \in Servers, SaveWrite(s), alert.exists
  PROVE  \E r \in LoadedRules :
           /\ r.state = ev[s].rule.state
           /\ OthersKept(s)
           /\ ev'[s].pc = "notify" /\ ev'[s].prev = ev[s].prev /\ ev'[s].rule = r
           /\ rule'[s].state \in {rule[s].state, r.state}
           /\ \A t \in Servers \ {s} : rule'[t] = rule[t]
           /\ alert'.exists /\ alert'.state = r.state
           /\ lastChange'.number = r.changes /\ lastChange'.believed = ev[s].prev
           /\ lastChange'.new = r.state
           /\ ev[s].pc = "write"
<1>1. /\ ev \in [Servers -> Evaluations] /\ ev[s] \in Evaluations
      /\ rule \in [Servers -> Rules] /\ now \in Nat
      /\ alert \in [exists : BOOLEAN, state : AlertStates, changes : Nat, date : Nat]
      /\ ev[s].pc = "write" /\ ev[s].rule \in LoadedRules
  BY DEF SaveWrite, HAInv, TypeOK, EvaluatesLoadedRules
<1>2. PICK row \in LoadedRules : WriteState(s, row)
  BY DEF SaveWrite, HAInv, EvaluatesLoadedRules
<1> DEFINE r == SavedRule(s, row)
<1>3. r \in LoadedRules /\ r.state = ev[s].rule.state
  <2>1. row.changes + 1 \in Nat
    BY DEF LoadedRules
  <2>2. r \in LoadedRules
    BY <1>1, <2>1, RuleUpdate DEF SavedRule
  <2> QED
    BY <1>1, <2>2 DEF SavedRule, LoadedRules
<1>4. /\ alert' = [alert EXCEPT !.state = r.state, !.changes = r.changes, !.date = now]
      /\ lastChange' = [number |-> r.changes, prev |-> row.state, believed |-> ev[s].prev,
                        new |-> r.state, at |-> now]
      /\ ev' = [ev EXCEPT ![s].pc = "notify", ![s].rule = r, ![s].read = NoRule,
                          ![s].saved = TRUE, ![s].attached = FALSE]
      /\ WriteRule(s, r)
  BY <1>2 DEF WriteState, SavedRule
<1> HIDE DEF r
<1>5. /\ OthersKept(s)
      /\ ev'[s].pc = "notify" /\ ev'[s].prev = ev[s].prev /\ ev'[s].rule = r
  BY <1>1, <1>4 DEF OthersKept, Evaluations
<1>6. alert'.exists /\ alert'.state = r.state
  BY <1>1, <1>4
<1>7. /\ rule'[s] \in {rule[s], r}
      /\ \A t \in Servers \ {s} : rule'[t] = rule[t]
  BY <1>1, <1>4 DEF WriteRule
<1> QED
  BY <1>1, <1>3, <1>4, <1>5, <1>6, <1>7

\* NoRule and DeletedRule are not paused, and an evaluation that is over has neither.
LEMMA NoRuleStates ==
  /\ NoRule.state = "none" /\ DeletedRule.state = "deleted"
  /\ NoEval.rule.state = "none" /\ NoEval.prev = "none" /\ NoEval.pc = "idle"
  BY DEF NoRule, DeletedRule, NoEval

\* No step pauses a rule where no user does.
LEMMA NeverPausedStep ==
  ASSUME Users = {}, HAInv, NeverPaused, [Next]_vars
  PROVE  NeverPaused'
<1> USE NoRuleStates
<1>1. CASE Tick \/ UNCHANGED vars
  BY <1>1 DEF Tick, vars, NeverPaused
<1>2. CASE Delete \/ \E to \in {"paused", "unknown"} : SetPaused(to)
  BY <1>2 DEF Delete, SetPaused
<1>3. ASSUME NEW s \in Servers, ServerStep(s)
      PROVE  NeverPaused'
  <2>1. /\ ev \in [Servers -> Evaluations] /\ ev[s] \in Evaluations
        /\ rule \in [Servers -> Rules] /\ fetched \in [Servers -> Rules]
        /\ alert.exists /\ alert.state # "paused"
    BY DEF HAInv, TypeOK, NeverPaused
  <2>2. CASE Evaluate(s)
    <3>1. ev[s].prev \in AlertStates /\ ev[s].prev # "paused"
      BY <2>2 DEF Evaluate, HAInv, EvaluatesLoadedRules, NeverPaused
    <3>2. PICK new \in AlertStates :
            /\ \E result \in Results, since \in Int : new = NewState(ev[s].prev, result, since)
            /\ OthersKept(s)
            /\ ev'[s].prev = ev[s].prev /\ ev'[s].rule.state = new
            /\ rule'[s].state \in {rule[s].state, new}
            /\ \A t \in Servers \ {s} : rule'[t] = rule[t]
      BY <2>2, EvaluateEffect
    <3>3. new # "paused"
      BY <3>1, <3>2, NewStateSteady
    <3>4. alert' = alert /\ fetched' = fetched
      BY <2>2 DEF Evaluate
    <3> QED
      BY <3>2, <3>3, <3>4 DEF NeverPaused, OthersKept
  <2>3. CASE SaveWrite(s)
    <3>1. fetched' = fetched
      BY <2>3 DEF SaveWrite
    <3>2. PICK r \in LoadedRules :
            /\ r.state = ev[s].rule.state
            /\ OthersKept(s)
            /\ ev'[s].prev = ev[s].prev /\ ev'[s].rule = r
            /\ rule'[s].state \in {rule[s].state, r.state}
            /\ \A t \in Servers \ {s} : rule'[t] = rule[t]
            /\ alert'.exists /\ alert'.state = r.state
      BY <2>1, <2>3, WriteEffect
    <3> QED
      BY <3>1, <3>2 DEF NeverPaused, OthersKept
  <2>4. CASE Refresh(s) \/ Fetch(s) \/ Update(s) \/ Crash(s)
    <3>1. alert' = alert /\ RuleInDatabase.state # "paused"
      BY <2>1, <2>4 DEF Refresh, Fetch, Update, Crash, RuleInDatabase, RuleOf
    <3>2. \A t \in Servers : /\ ev'[t].rule.state # "paused" /\ ev'[t].prev # "paused"
      <4>1. CASE Crash(s)
        BY <2>1, <4>1 DEF Crash, End, NeverPaused
      <4>2. CASE Refresh(s) \/ Fetch(s) \/ Update(s)
        <5>1. \A t \in Servers : ev'[t].rule = ev[t].rule /\ ev'[t].prev = ev[t].prev
          BY <2>1, <4>2 DEF Refresh, Fetch, Update, Evaluations
        <5> QED
          BY <5>1 DEF NeverPaused
      <4> QED
        BY <2>4, <4>1, <4>2
    <3>3. \A t \in Servers : rule'[t].state # "paused" /\ fetched'[t].state # "paused"
      BY <2>1, <2>4, <3>1 DEF Refresh, Fetch, Update, Crash, NeverPaused
    <3> QED
      BY <2>1, <3>1, <3>2, <3>3 DEF NeverPaused
  <2>5. CASE Start(s) \/ Retry(s)
    <3>1. /\ alert' = alert /\ rule' = rule /\ fetched' = fetched /\ OthersKept(s)
          /\ ev'[s].rule = rule[s] /\ ev'[s].prev = rule[s].state
      <4>1. CASE Start(s)
        <5> DEFINE first == [NoEval EXCEPT !.pc = "eval", !.rule = rule[s],
                                           !.attached = TRUE, !.prev = rule[s].state]
        <5>1. /\ ev' = [ev EXCEPT ![s] = first]
              /\ first.rule = rule[s] /\ first.prev = rule[s].state
          BY <4>1 DEF Start, NoEval
        <5> HIDE DEF first
        <5> QED
          BY <2>1, <4>1, <5>1 DEF Start, OthersKept
      <4>2. CASE Retry(s)
        BY <2>1, <4>2 DEF Retry, OthersKept, Evaluations
      <4> QED
        BY <2>5, <4>1, <4>2
    <3> QED
      BY <3>1 DEF NeverPaused, OthersKept
  <2>6. CASE \/ SaveRefused(s) \/ SaveFails(s) \/ SaveRead(s) \/ Decide(s) \/ Claim(s)
             \/ ClaimLost(s) \/ Send(s) \/ SendFails(s) \/ Complete(s) \/ CompleteFails(s)
    <3>1. alert' = alert /\ rule' = rule /\ fetched' = fetched
      BY <2>6 DEF SaveRefused, SaveFails, SaveRead, Decide, Claim, ClaimLost, Send, SendFails,
           Complete, CompleteFails
    <3>2. OthersKept(s) /\ \/ ev'[s].rule = ev[s].rule /\ ev'[s].prev = ev[s].prev
                           \/ ev'[s] = NoEval
      <4>1. CASE End(s)
        BY <2>1, <4>1 DEF End, OthersKept
      <4>2. CASE ~ End(s)
        BY <2>1, <2>6, <4>2 DEF SaveRefused, SaveFails, SaveRead, Decide, Claim, ClaimLost,
           Send, SendFails, Complete, CompleteFails, OthersKept, Evaluations
      <4> QED
        BY <4>1, <4>2
    <3> QED
      BY <3>1, <3>2 DEF NeverPaused, OthersKept
  <2> QED
    BY <1>3, <2>2, <2>3, <2>4, <2>5, <2>6 DEF ServerStep, EvalStep
<1> QED
  BY <1>1, <1>2, <1>3 DEF Next

\* A step that changes no row, no claim, and no evaluation beyond its result.
LEMMA NotifiedKept ==
  ASSUME Steady, RowReleased, ChangeInHand,
         nstate' = nstate, claims' = claims, lastChange' = lastChange,
         \A t \in Servers : /\ ev'[t].pc = ev[t].pc /\ ev'[t].prev = ev[t].prev
                            /\ ev'[t].rule = ev[t].rule /\ ev'[t].id = ev[t].id
                            /\ ev'[t].version = ev[t].version /\ ev'[t].claim = ev[t].claim
  PROVE  Steady' /\ RowReleased' /\ ChangeInHand'
<1>1. Steady' /\ RowReleased'
  BY DEF Steady, RowReleased
<1>2. \A t \in Servers : OnItsWay(t)' <=> OnItsWay(t)
  BY DEF OnItsWay
<1> QED
  BY <1>1, <1>2 DEF ChangeInHand

\* A step of an evaluation that has no change to announce yet, or is over.
LEMMA NotifiedBefore ==
  ASSUME Alone, Steady, RowReleased, ChangeInHand, NEW s \in Servers,
         nstate' = nstate, claims' = claims, lastChange' = lastChange,
         ev[s].pc \in {"idle", "eval", "save"},
         ev'[s].pc \in {"idle", "eval", "save", "write", "notify"},
         ev'[s].pc \in {"save", "write"} => ev'[s].prev # ev'[s].rule.state,
         ev'[s].rule.state = "pending" => ev'[s].prev # "alerting"
  PROVE  Steady' /\ RowReleased' /\ ChangeInHand'
<1>1. \A t \in Servers : t = s
  BY DEF Alone
<1>2. Steady'
  BY <1>1 DEF Steady
<1>3. nstate.status # "pending"
  BY <1>1 DEF RowReleased
<1>4. ~ OnItsWay(s)
  BY DEF OnItsWay
<1> QED
  BY <1>1, <1>2, <1>3, <1>4 DEF RowReleased, ChangeInHand

\* The evaluation begins, or finds a result, or may not save it.
LEMMA NotifiedEarly ==
  ASSUME Undisturbed, NotifiedInv, NEW s \in Servers,
         Start(s) \/ Retry(s) \/ Evaluate(s) \/ SaveRefused(s) \/ SaveRead(s)
  PROVE  Steady' /\ RowReleased' /\ ChangeInHand'
<1> USE NoRuleStates
<1>1. /\ Alone /\ Steady /\ RowReleased /\ ChangeInHand /\ HAInv
      /\ nstate' = nstate /\ claims' = claims /\ lastChange' = lastChange
      /\ ev \in [Servers -> Evaluations] /\ ev[s] \in Evaluations
  BY DEF Undisturbed, NotifiedInv, HAInv, TypeOK, Start, Retry, Evaluate, SaveRefused, SaveRead
<1>2. CASE Start(s)
  <2> DEFINE first == [NoEval EXCEPT !.pc = "eval", !.rule = rule[s],
                                     !.attached = TRUE, !.prev = rule[s].state]
  <2>1. /\ ev' = [ev EXCEPT ![s] = first] /\ ev[s].pc = "idle"
        /\ first.pc = "eval" /\ first.rule = rule[s] /\ first.prev = rule[s].state
    BY <1>2 DEF Start, NoEval
  <2> HIDE DEF first
  <2> QED
    BY <1>1, <2>1, NotifiedBefore
<1>3. CASE Retry(s)
  <2>1. /\ ev[s].pc = "eval" /\ ev'[s].pc = "eval"
        /\ ev'[s].rule = rule[s] /\ ev'[s].prev = rule[s].state
    BY <1>1, <1>3 DEF Retry, Evaluations
  <2> QED
    BY <1>1, <2>1, NotifiedBefore
<1>4. CASE Evaluate(s)
  <2>1. ev[s].prev \in AlertStates /\ ev[s].prev # "paused" /\ ev[s].pc = "eval"
    BY <1>4 DEF Evaluate, NotifiedInv, HAInv, EvaluatesLoadedRules, NeverPaused
  <2>2. PICK new \in AlertStates :
          /\ \E result \in Results, since \in Int : new = NewState(ev[s].prev, result, since)
          /\ ev'[s].pc = IF new = ev[s].prev THEN "notify" ELSE "save"
          /\ ev'[s].prev = ev[s].prev /\ ev'[s].rule.state = new
    BY <1>1, <1>4, EvaluateEffect
  <2>3. new = "pending" => ev[s].prev # "alerting"
    BY <2>1, <2>2, NewStateSteady
  <2> QED
    BY <1>1, <2>1, <2>2, <2>3, NotifiedBefore
<1>5. CASE SaveRefused(s)
  <2>1. ev[s].pc = "save" /\ ev'[s] = NoEval
    BY <1>1, <1>5 DEF SaveRefused, End
  <2> QED
    BY <1>1, <2>1, NotifiedBefore
<1>6. CASE SaveRead(s)
  <2>1. /\ ev[s].pc = "save" /\ ev'[s].pc = "write"
        /\ ev'[s].rule = ev[s].rule /\ ev'[s].prev = ev[s].prev
    BY <1>1, <1>6 DEF SaveRead, Evaluations
  <2> QED
    BY <1>1, <2>1, NotifiedBefore DEF Steady
<1> QED
  BY <1>2, <1>3, <1>4, <1>5, <1>6

\* A change that is saved is on its way to be announced.
LEMMA NotifiedSave ==
  ASSUME Undisturbed, NotifiedInv, NEW s \in Servers, SaveWrite(s)
  PROVE  Steady' /\ RowReleased' /\ ChangeInHand'
<1>1. /\ \A t \in Servers : t = s
      /\ nstate' = nstate /\ claims' = claims /\ alert.exists
      /\ ev[s].rule \in LoadedRules /\ HAInv
  BY DEF Undisturbed, Alone, NotifiedInv, HAInv, EvaluatesLoadedRules, SaveWrite,
         NeverPaused
<1>2. PICK r \in LoadedRules :
        /\ r.state = ev[s].rule.state
        /\ ev'[s].pc = "notify" /\ ev'[s].prev = ev[s].prev /\ ev'[s].rule = r
        /\ lastChange'.number = r.changes /\ lastChange'.believed = ev[s].prev
        /\ lastChange'.new = r.state
        /\ ev[s].pc = "write"
  BY <1>1, WriteEffect
<1>3. /\ lastChange'.number = r.changes /\ lastChange'.believed = ev[s].prev
      /\ lastChange'.new = r.state
  BY <1>2
<1>4. ev[s].prev # r.state
  BY <1>2 DEF NotifiedInv, Steady
<1>5. Steady'
  BY <1>1, <1>2 DEF NotifiedInv, Steady
<1>6. RowReleased'
  BY <1>1, <1>2 DEF NotifiedInv, RowReleased
<1>7. OnItsWay(s)'
  BY <1>2, <1>3 DEF OnItsWay
<1> QED
  BY <1>3, <1>4, <1>5, <1>6, <1>7 DEF ChangeInHand

\* The channel is told of a change it is to be told of.
LEMMA NotifiedDecide ==
  ASSUME Undisturbed, NotifiedInv, NEW s \in Servers, Decide(s)
  PROVE  Steady' /\ RowReleased' /\ ChangeInHand'
<1> USE NoRuleStates
<1>1. /\ \A t \in Servers : t = s
      /\ claims' = claims /\ lastChange' = lastChange /\ nstate' = RowOrNew
      /\ ev \in [Servers -> Evaluations] /\ ev[s] \in Evaluations /\ ev[s].pc = "notify"
      /\ ev[s].prev \in AlertStates /\ ev[s].prev # "paused"
      /\ Steady /\ RowReleased /\ ChangeInHand
  BY DEF Undisturbed, Alone, NotifiedInv, HAInv, TypeOK, EvaluatesLoadedRules, NeverPaused,
         Decide
<1>2. nstate.status # "pending" /\ RowOrNew.status # "pending"
  <2>1. nstate.status # "pending"
    BY <1>1 DEF RowReleased
  <2> QED
    BY <2>1 DEF RowOrNew, NoRow
<1>3. RowReleased'
  BY <1>1, <1>2 DEF RowReleased
<1>4. OnItsWay(s) /\ lastChange.believed # lastChange.new
        /\ Notifiable(lastChange.believed, lastChange.new)
      => ShouldNotify(ev[s].prev, ev[s].rule.state, RowOrNew, now)
  BY <1>2 DEF OnItsWay, ShouldNotify, InHand
<1>5. CASE ShouldNotify(ev[s].prev, ev[s].rule.state, RowOrNew, now)
  <2>1. /\ ev'[s].pc = "claim" /\ ev'[s].id = RowOrNew.id
        /\ ev'[s].version = RowOrNew.version
        /\ ev'[s].prev = ev[s].prev /\ ev'[s].rule = ev[s].rule
    BY <1>1, <1>5 DEF Decide, Evaluations
  <2>2. ev[s].rule.state = "pending" => ev[s].prev # "alerting"
    BY <1>1 DEF Steady
  <2>3. ev[s].rule.state # "pending"
    BY <1>1, <1>5, <2>2 DEF ShouldNotify, ReminderDue, Notifiable, AlertStates
  <2>4. Steady'
    BY <1>1, <2>1, <2>2, <2>3 DEF Steady
  <2>5. OnItsWay(s) => OnItsWay(s)'
    BY <1>1, <2>1 DEF OnItsWay
  <2>6. ChangeInHand'
    BY <1>1, <2>5 DEF ChangeInHand
  <2> QED
    BY <1>3, <2>4, <2>6
<1>6. CASE ~ ShouldNotify(ev[s].prev, ev[s].rule.state, RowOrNew, now)
  <2>1. ev'[s] = NoEval
    BY <1>1, <1>6 DEF Decide, End
  <2>2. Steady'
    BY <1>1, <2>1 DEF Steady
  <2>3. ChangeInHand'
    BY <1>1, <1>4, <1>6 DEF ChangeInHand
  <2> QED
    BY <1>3, <2>2, <2>3
<1> QED
  BY <1>5, <1>6

\* The only server gets the row.
LEMMA NotifiedClaim ==
  ASSUME Undisturbed, NotifiedInv, NEW s \in Servers, Claim(s)
  PROVE  Steady' /\ RowReleased' /\ ChangeInHand'
<1>1. /\ \A t \in Servers : t = s
      /\ lastChange' = lastChange /\ HAInv /\ ev[s].pc = "claim"
      /\ ev \in [Servers -> Evaluations] /\ ev[s] \in Evaluations
      /\ nstate \in [id : 0..2, status : {"unknown", "pending", "completed"},
                     version : Nat, updatedAt : Nat, seen : Nat]
      /\ Steady /\ ChangeInHand
  BY DEF Undisturbed, Alone, NotifiedInv, HAInv, TypeOK, Claim
<1>2. PICK n \in Nat : n = Len(claims) + 1
  BY <1>1, ClaimAppends
<1>3. /\ ev'[s].pc = "send" /\ ev'[s].claim = n
      /\ \A i \in 1..Len(claims) : claims'[i] = claims[i]
      /\ claims'[n] = [change |-> ev[s].rule.changes, prev |-> ev[s].prev,
                       new |-> ev[s].rule.state, at |-> now, saved |-> ev[s].saved,
                 sent |-> FALSE]
      /\ Len(claims') = n /\ Len(claims) \in Nat
  BY <1>1, <1>2, ClaimAppends
<1>4. /\ ev'[s].prev = ev[s].prev /\ ev'[s].rule = ev[s].rule /\ ev'[s].id = ev[s].id
      /\ nstate'.id = nstate.id
  BY <1>1 DEF Claim, Evaluations
<1>5. Steady'
  BY <1>1, <1>3, <1>4 DEF Steady
<1>6. RowReleased'
  BY <1>3 DEF RowReleased
<1>7. OnItsWay(s) => OnItsWay(s)'
  BY <1>1, <1>3, <1>4 DEF OnItsWay
<1>8. \A i \in 1..Len(claims) : i \in 1..n
  BY <1>2, <1>3
<1>9. ChangeInHand'
  BY <1>1, <1>3, <1>7, <1>8 DEF ChangeInHand
<1> QED
  BY <1>5, <1>6, <1>9

\* What is on its way arrives.
LEMMA NotifiedSend ==
  ASSUME Undisturbed, NotifiedInv, NEW s \in Servers, Send(s)
  PROVE  Steady' /\ RowReleased' /\ ChangeInHand'
<1>1. /\ \A t \in Servers : t = s
      /\ lastChange' = lastChange /\ nstate' = nstate /\ HAInv /\ OwnClaims
      /\ ev \in [Servers -> Evaluations] /\ ev[s] \in Evaluations /\ claims \in Seq(Claims)
      /\ Steady /\ ChangeInHand
  BY DEF Undisturbed, Alone, NotifiedInv, HAInv, TypeOK, Send
<1>2. /\ ev'[s].pc = "complete" /\ ev[s].pc = "send"
      /\ ev'[s].prev = ev[s].prev /\ ev'[s].rule = ev[s].rule /\ ev'[s].id = ev[s].id
  BY <1>1 DEF Send, Evaluations
<1> DEFINE k == ev[s].claim
<1>3. /\ k \in 1..Len(claims) /\ Len(claims') = Len(claims)
      /\ claims'[k] = [claims[k] EXCEPT !.sent = TRUE]
      /\ \A i \in 1..Len(claims) : i # k => claims'[i] = claims[i]
      /\ claims[k].change = ev[s].rule.changes
  <2>1. claims[k].change = ev[s].rule.changes
    BY <1>1, <1>2 DEF Steady
  <2> QED
    BY <1>1, <2>1, SendMarks
<1> HIDE DEF k
<1>4. claims'[k].sent /\ claims'[k].change = ev[s].rule.changes
  <2>1. claims[k] \in Claims
    BY <1>1, <1>3
  <2> QED
    BY <1>3, <2>1 DEF Claims
<1>5. Steady'
  BY <1>1, <1>2 DEF Steady
<1>6. RowReleased'
  BY <1>2 DEF RowReleased
<1>7. ChangeInHand'
  <2> SUFFICES ASSUME lastChange.number # 0, Notifiable(lastChange.believed, lastChange.new)
               PROVE  \E i \in 1..Len(claims') :
                        claims'[i].change = lastChange.number /\ claims'[i].sent
    BY <1>1 DEF ChangeInHand
  <2>1. CASE OnItsWay(s)
    BY <1>3, <1>4, <2>1 DEF OnItsWay
  <2>2. CASE ~ OnItsWay(s)
    <3>1. PICK i \in 1..Len(claims) : claims[i].change = lastChange.number /\ claims[i].sent
      BY <1>1, <2>2 DEF ChangeInHand
    <3>2. CASE i = k
      BY <1>3, <1>4, <3>1, <3>2
    <3>3. CASE i # k
      BY <1>3, <3>1, <3>3
    <3> QED
      BY <3>2, <3>3
  <2> QED
    BY <2>1, <2>2
<1> QED
  BY <1>5, <1>6, <1>7

\* The row is released.
LEMMA NotifiedComplete ==
  ASSUME Undisturbed, NotifiedInv, NEW s \in Servers, Complete(s)
  PROVE  Steady' /\ RowReleased' /\ ChangeInHand'
<1> USE NoRuleStates
<1>1. /\ \A t \in Servers : t = s
      /\ lastChange' = lastChange /\ claims' = claims /\ ev[s].pc = "complete"
      /\ ev \in [Servers -> Evaluations]
      /\ nstate \in [id : 0..2, status : {"unknown", "pending", "completed"},
                     version : Nat, updatedAt : Nat, seen : Nat]
      /\ Steady /\ ChangeInHand
  BY DEF Undisturbed, Alone, NotifiedInv, HAInv, TypeOK, Complete
<1>2. ev'[s] = NoEval /\ ~ OnItsWay(s)
  BY <1>1 DEF Complete, End, OnItsWay
<1>3. nstate'.status = "completed"
  BY <1>1 DEF Complete, Steady
<1>4. Steady' /\ RowReleased'
  BY <1>1, <1>2, <1>3 DEF Steady, RowReleased
<1>5. ChangeInHand'
  BY <1>1, <1>2 DEF ChangeInHand
<1> QED
  BY <1>4, <1>5

\* With one server, and no faults, the server never gives up.
LEMMA NothingIsLost ==
  ASSUME Undisturbed, NotifiedInv, NEW s \in Servers
  PROVE  ~ (SaveFails(s) \/ ClaimLost(s) \/ SendFails(s) \/ CompleteFails(s) \/ Crash(s))
<1>1. ~ (SaveFails(s) \/ CompleteFails(s) \/ Crash(s))
  BY DEF Undisturbed, NotifiedInv, NeverPaused, SaveFails, CompleteFails, Crash
<1>2. ~ ClaimLost(s)
  BY DEF NotifiedInv, Steady, ClaimLost, ClaimHolds
<1>3. ~ SendFails(s)
  <2> SUFFICES ASSUME ev[s].pc = "send" PROVE ev[s].rule.state \in Describable
    BY DEF SendFails, Undisturbed
  <2>1. ev[s].rule.state \in AlertStates
    BY RuleTypes DEF NotifiedInv, HAInv, EvaluatesLoadedRules
  <2>2. ev[s].rule.state \notin {"pending", "paused"}
    BY DEF NotifiedInv, Steady, NeverPaused
  <2> QED
    BY <2>1, <2>2 DEF AlertStates, Describable
<1> QED
  BY <1>1, <1>2, <1>3

\* Every step keeps NotifiedInv.
LEMMA NotifiedInvStep ==
  ASSUME Undisturbed, NotifiedInv, [Next]_vars
  PROVE  NotifiedInv'
<1>1. HAInv' /\ OwnClaims' /\ NeverPaused'
  BY HAInvStep, OwnClaimsStep, NeverPausedStep DEF NotifiedInv, Undisturbed
<1>2. CASE Tick \/ UNCHANGED vars
  BY <1>1, <1>2, NotifiedKept DEF Tick, vars, NotifiedInv
<1>3. CASE Delete \/ \E to \in {"paused", "unknown"} : SetPaused(to)
  BY <1>3 DEF Delete, SetPaused, Undisturbed
<1>4. ASSUME NEW s \in Servers, Refresh(s) \/ Fetch(s) \/ Update(s)
      PROVE  NotifiedInv'
  <2>1. ev \in [Servers -> Evaluations]
    BY DEF NotifiedInv, HAInv, TypeOK
  <2>2. /\ nstate' = nstate /\ claims' = claims /\ lastChange' = lastChange
        /\ \A t \in Servers : /\ ev'[t].pc = ev[t].pc /\ ev'[t].prev = ev[t].prev
                              /\ ev'[t].rule = ev[t].rule /\ ev'[t].id = ev[t].id
                              /\ ev'[t].version = ev[t].version /\ ev'[t].claim = ev[t].claim
    BY <1>4, <2>1 DEF Refresh, Fetch, Update, Evaluations
  <2> QED
    BY <1>1, <2>2, NotifiedKept DEF NotifiedInv
<1>5. ASSUME NEW s \in Servers, ServerStep(s), ~ (Refresh(s) \/ Fetch(s) \/ Update(s))
      PROVE  Steady' /\ RowReleased' /\ ChangeInHand'
  BY <1>5, NotifiedEarly, NotifiedSave, NotifiedDecide, NotifiedClaim, NotifiedSend,
     NotifiedComplete, NothingIsLost
  DEF ServerStep, EvalStep
<1> QED
  BY <1>1, <1>2, <1>3, <1>4, <1>5 DEF Next, NotifiedInv

(***************************************************************************)
(* With one server that does not fail, and users who leave the alert       *)
(* alone, whenever no evaluation is under way the channel has received the *)
(* latest change of state, if it is one that the channel is told about,    *)
(* unless the server took the state that it changed for another: whatever  *)
(* the results, the rule and the channel are set to, and with the rule     *)
(* reloaded at any step.                                                   *)
(***************************************************************************)
THEOREM LatestChangeIsNotified == Undisturbed => (Spec => []LastChangeNotified)
<1> SUFFICES ASSUME Undisturbed PROVE Spec => []LastChangeNotified
  OBVIOUS
<1>1. Init => NotifiedInv
  <2> SUFFICES ASSUME Init PROVE NotifiedInv
    OBVIOUS
  <2>1. \A s \in Servers : ev[s] = NoEval /\ rule[s] = NoRule /\ fetched[s] = NoRule
    BY DEF Init
  <2>2. /\ lastChange.number = 0 /\ nstate.status = "unknown"
        /\ alert.exists /\ alert.state = "unknown"
    BY DEF Init, NoChange, NoRow
  <2> QED
    BY <2>1, <2>2, HAInvInit, NoRuleStates
    DEF NotifiedInv, OwnClaims, NeverPaused, Steady, RowReleased, ChangeInHand
<1>2. NotifiedInv /\ [Next]_vars => NotifiedInv'
  BY NotifiedInvStep
<1>3. NotifiedInv => LastChangeNotified
  BY DEF NotifiedInv, ChangeInHand, LastChangeNotified, Announced, Misjudged, Quiet, OnItsWay
<1> QED
  BY <1>1, <1>2, <1>3, PTL DEF Spec
=============================================================================
