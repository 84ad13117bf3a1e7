------------------------------- MODULE AlertHA -------------------------------
(***************************************************************************)
(* Legacy alerting in a high-availability set-up: every server evaluates   *)
(* every alert rule, they share the database, and the tables alert and     *)
(* alert_notification_state are all they know of each other.  The module   *)
(* follows one rule and one notification channel through the whole of an   *)
(* evaluation: AlertEngine.processJob, defaultResultHandler.handle,        *)
(* notificationService.SendIfNeeded and the SQL below them.                *)
(*                                                                         *)
(* An evaluation is a sequence of database statements and calls of other   *)
(* systems; every one is an action, so that the other servers, the rule    *)
(* reader of the same server and the users come in between.                *)
(***************************************************************************)
EXTENDS AlertRule, Sequences, FiniteSets

CONSTANTS
  Servers,        \* the servers that share the database
  SlowReader,     \* an evaluation may write between the reading of the rules
                  \* and their handing over to the scheduler
  Faults,         \* the faults that occur: "crash", "save", "notify", "complete"
  Users,          \* what users do to the alert: "pause", "delete"
  Outcomes,       \* the results of evaluations that occur
  LastTime,       \* bound: time stops here
  MaxChanges,     \* bound: no evaluation begins a change after so many
  MaxClaims       \* bound: nor after so many attempts to notify

ASSUME HAAssumption ==
  /\ SlowReader \in BOOLEAN
  /\ Faults \subseteq {"crash", "save", "notify", "complete"}
  /\ Users \subseteq {"pause", "delete"}
  /\ Outcomes \subseteq Results
  /\ LastTime \in Nat
  /\ MaxChanges \in Nat
  /\ MaxClaims \in Nat

VARIABLES
  now,         \* the time
  alert,       \* the row of table alert
  nstate,      \* the row of table alert_notification_state
  rule,        \* rule[s]: Job.Rule, the rule as the scheduler of s knows it
  fetched,     \* fetched[s]: what ruleReader.fetch returned, before Update
  ev,          \* ev[s]: the evaluation in progress on s
  lastChange,  \* history: the latest change of alert.state by an evaluation
  lost,        \* history: the numbers that were given to changes by an UPDATE
               \* after the row its SELECT had read was changed or deleted
  claims       \* history: the notifications claimed, and which were sent

vars == <<now, alert, nstate, rule, fetched, ev, lastChange, lost, claims>>

NoRule == [state |-> "none", changes |-> 0, date |-> 0]
DeletedRule == [NoRule EXCEPT !.state = "deleted"]
NoRow == [id |-> 0, status |-> "unknown", version |-> 0, updatedAt |-> 0, seen |-> 0]
NoEval == [pc |-> "idle", rule |-> NoRule, attached |-> FALSE, prev |-> "none",
           read |-> NoRule, saved |-> FALSE, id |-> 0, version |-> 0, claim |-> 0]
NoChange == [number |-> 0, prev |-> "unknown", believed |-> "unknown",
             new |-> "unknown", at |-> 0]

Init ==
  /\ now = 1
  /\ alert = [exists |-> TRUE, state |-> "unknown", changes |-> 0, date |-> 1]
  /\ nstate = NoRow
  /\ rule = [s \in Servers |-> NoRule]
  /\ fetched = [s \in Servers |-> NoRule]
  /\ ev = [s \in Servers |-> NoEval]
  /\ lastChange = NoChange
  /\ lost = {}
  /\ claims = <<>>

-----------------------------------------------------------------------------
(***************************************************************************)
(* The rule of a server.  NewRuleFromDBAlert copies the row; Update makes  *)
(* the copy the job's rule, and an evaluation that is under way keeps the  *)
(* rule object it began with ("attached" says that it is the job's still,  *)
(* as long as the evaluation may write to it).                             *)
(***************************************************************************)
RuleOf(row) == [state |-> row.state, changes |-> row.changes, date |-> row.date]

\* What ruleReader.fetch returns of the rule: a deleted alert is not returned.
RuleInDatabase == IF alert.exists THEN RuleOf(alert) ELSE DeletedRule

\* alertingTicker refreshes the rules: fetch, and Update with what it returned.
Refresh(s) ==
  /\ ~ SlowReader
  /\ rule' = [rule EXCEPT ![s] = RuleInDatabase]
  /\ ev' = [ev EXCEPT ![s].attached = FALSE]
  /\ UNCHANGED <<now, alert, nstate, fetched, lastChange, lost, claims>>

\* The same in two steps, with steps of the evaluation of s in between.
Fetch(s) ==
  /\ SlowReader
  /\ fetched[s] = NoRule
  /\ fetched' = [fetched EXCEPT ![s] = RuleInDatabase]
  /\ UNCHANGED <<now, alert, nstate, rule, ev, lastChange, lost, claims>>

Update(s) ==
  /\ fetched[s] # NoRule
  /\ rule' = [rule EXCEPT ![s] = fetched[s]]
  /\ fetched' = [fetched EXCEPT ![s] = NoRule]
  /\ ev' = [ev EXCEPT ![s].attached = FALSE]
  /\ UNCHANGED <<now, alert, nstate, lastChange, lost, claims>>

\* The evaluation of s writes to its rule object, and so to the job's rule
\* when that is the same object.
WriteRule(s, r) ==
  rule' = IF ev[s].attached THEN [rule EXCEPT ![s] = r] ELSE rule

\* The evaluation is over: attemptChan is closed.
End(s) == ev' = [ev EXCEPT ![s] = NoEval]

-----------------------------------------------------------------------------
(***************************************************************************)
(* One evaluation, in the order of its steps.                              *)
(***************************************************************************)
\* NewEvalContext for the first attempt; Tick skips paused rules.
Start(s) ==
  /\ ev[s].pc = "idle"
  /\ rule[s].state \notin {"none", "deleted", "paused"}
  /\ ev' = [ev EXCEPT ![s] = [NoEval EXCEPT !.pc = "eval", !.rule = rule[s],
                                             !.attached = TRUE, !.prev = rule[s].state]]
  /\ UNCHANGED <<now, alert, nstate, rule, fetched, lastChange, lost, claims>>

\* An attempt ended in an error and another follows: a new EvalContext takes the
\* rule the job has now.  (The job of a deleted alert keeps its last rule.)
Retry(s) ==
  /\ ev[s].pc = "eval"
  /\ "error" \in Outcomes
  /\ ~ ev[s].attached
  /\ rule[s] # DeletedRule
  /\ ev' = [ev EXCEPT ![s].rule = rule[s], ![s].attached = TRUE, ![s].prev = rule[s].state]
  /\ UNCHANGED <<now, alert, nstate, rule, fetched, lastChange, lost, claims>>

\* Eval, and evalContext.Rule.State = evalContext.GetNewState().
Evaluate(s) ==
  /\ ev[s].pc = "eval"
  /\ \E result \in Outcomes :
       LET prev == ev[s].prev
           new  == NewState(prev, result, now - ev[s].rule.date)
           r    == [ev[s].rule EXCEPT !.state = new]
       IN  /\ new = prev \/ alert.changes < MaxChanges
           /\ Len(claims) < MaxClaims
           /\ ev' = [ev EXCEPT ![s].rule = r,
                               ![s].pc = IF new = prev THEN "notify" ELSE "save",
                               ![s].attached = new # prev /\ @]
           /\ WriteRule(s, r)
  /\ UNCHANGED <<now, alert, nstate, fetched, lastChange, lost, claims>>

\* The SELECT of SetAlertState, when it is one step and when the row is changed.
MayChange(s) ==
  /\ alert.exists
  /\ alert.state \notin {"paused", ev[s].rule.state}

\* ErrCannotChangeStateOnPausedAlert, ErrRequiresNewState: handle returns, no
\* notification is considered.
SaveRefused(s) ==
  /\ ev[s].pc = "save"
  /\ alert.exists
  /\ ~ MayChange(s)
  /\ End(s)
  /\ UNCHANGED <<now, alert, nstate, rule, fetched, lastChange, lost, claims>>

\* Any other error ("could not find alert", an error of the database) is logged,
\* and handle goes on to the notification with the StateChanges it had.
SaveFails(s) ==
  /\ \/ ev[s].pc = "save" /\ ~ alert.exists
     \/ ev[s].pc \in {"save", "write"} /\ "save" \in Faults
  /\ ev' = [ev EXCEPT ![s].pc = "notify", ![s].read = NoRule, ![s].attached = FALSE]
  /\ UNCHANGED <<now, alert, nstate, rule, fetched, lastChange, lost, claims>>

\* Variants: alert.StateChanges++ is left out; the rule does not take the new number
\* over from the command's result.
WriteStateUncounted(s, row) ==
  LET r == [ev[s].rule EXCEPT !.changes = row.changes, !.date = now]
  IN  /\ IF alert.exists
           THEN /\ alert' = [alert EXCEPT !.state = r.state, !.changes = r.changes,
                                          !.date = now]
                /\ lastChange' = [number |-> r.changes, prev |-> row.state,
                                  believed |-> ev[s].prev, new |-> r.state, at |-> now]
           ELSE UNCHANGED <<alert, lastChange>>
      /\ ev' = [ev EXCEPT ![s].pc = "notify", ![s].rule = r, ![s].read = NoRule,
                          ![s].saved = TRUE, ![s].attached = FALSE]
      /\ WriteRule(s, r)

WriteStateOldNumber(s, row) ==
  LET r == [ev[s].rule EXCEPT !.date = now]
  IN  /\ IF alert.exists
           THEN /\ alert' = [alert EXCEPT !.state = r.state, !.changes = row.changes + 1,
                                          !.date = now]
                /\ lastChange' = [number |-> row.changes + 1, prev |-> row.state,
                                  believed |-> ev[s].prev, new |-> r.state, at |-> now]
           ELSE UNCHANGED <<alert, lastChange>>
      /\ ev' = [ev EXCEPT ![s].pc = "notify", ![s].rule = r, ![s].read = NoRule,
                          ![s].saved = TRUE, ![s].attached = FALSE]
      /\ WriteRule(s, r)

\* The UPDATE of SetAlertState writes all the columns of the row it read, changed;
\* of a row that is gone it changes nothing, and reports no error.  The rule takes
\* over the number and the time of the change.
WriteState(s, row) ==
  LET r == [ev[s].rule EXCEPT !.changes = row.changes + 1, !.date = now]
  IN  /\ IF alert.exists
           THEN /\ alert' = [alert EXCEPT !.state = r.state, !.changes = r.changes,
                                          !.date = now]
                /\ lastChange' = [number |-> r.changes, prev |-> row.state,
                                  believed |-> ev[s].prev, new |-> r.state, at |-> now]
           ELSE UNCHANGED <<alert, lastChange>>
      /\ ev' = [ev EXCEPT ![s].pc = "notify", ![s].rule = r, ![s].read = NoRule,
                          ![s].saved = TRUE, ![s].attached = FALSE]
      /\ WriteRule(s, r)

\* SetAlertState opens its transaction at the isolation level that is the database's
\* default: others commit between its SELECT and its UPDATE.
SaveRead(s) ==
  /\ ev[s].pc = "save"
  /\ MayChange(s)
  /\ ev' = [ev EXCEPT ![s].pc = "write", ![s].read = RuleOf(alert)]
  /\ UNCHANGED <<now, alert, nstate, rule, fetched, lastChange, lost, claims>>

\* The row is still the one that the SELECT of s read, as far as changes go.
StillAsRead(s) == alert.exists /\ alert.changes = ev[s].read.changes

SaveWrite(s) ==
  /\ ev[s].pc = "write"
  /\ WriteState(s, ev[s].read)
  /\ lost' = IF StillAsRead(s) THEN lost ELSE lost \cup {ev[s].read.changes + 1}
  /\ UNCHANGED <<now, nstate, fetched, claims>>

-----------------------------------------------------------------------------
\* GetOrCreateAlertNotificationState.  A row inserted after the alert was deleted
\* is another row than the one that was deleted with it.
RowOrNew ==
  IF nstate # NoRow THEN nstate
  ELSE [NoRow EXCEPT !.id = IF alert.exists THEN 1 ELSE 2, !.updatedAt = now]

\* getNeededNotifiers: the row is read, or made, and ShouldNotify decides.
Decide(s) ==
  /\ ev[s].pc = "notify"
  /\ nstate' = RowOrNew
  /\ IF ShouldNotify(ev[s].prev, ev[s].rule.state, RowOrNew, now)
       THEN ev' = [ev EXCEPT ![s].pc = "claim", ![s].id = RowOrNew.id,
                             ![s].version = RowOrNew.version]
       ELSE End(s)
  /\ UNCHANGED <<now, alert, rule, fetched, lastChange, lost, claims>>

\* A variant that compares the version alone.
ClaimHoldsVersion(s) == nstate.id = ev[s].id /\ nstate.version = ev[s].version

\* The WHERE of SetAlertNotificationStateToPendingCommand.
ClaimHolds(s) ==
  /\ nstate.id = ev[s].id
  /\ nstate.version = ev[s].version \/ nstate.seen < ev[s].rule.changes

\* SetAlertNotificationStateToPendingCommand: this server sends the notification.
Claim(s) ==
  /\ ev[s].pc = "claim"
  /\ ClaimHolds(s)
  /\ nstate' = [nstate EXCEPT !.status = "pending", !.version = ev[s].version + 1,
                              !.updatedAt = now, !.seen = ev[s].rule.changes]
  /\ claims' = Append(claims, [change |-> ev[s].rule.changes, prev |-> ev[s].prev,
                               new |-> ev[s].rule.state, at |-> now,
                               saved |-> ev[s].saved, sent |-> FALSE])
  /\ ev' = [ev EXCEPT ![s].pc = "send", ![s].version = ev[s].version + 1,
                      ![s].claim = Len(claims) + 1]
  /\ UNCHANGED <<now, alert, rule, fetched, lastChange, lost>>

\* ErrAlertNotificationStateVersionConflict: another server sends it.
ClaimLost(s) ==
  /\ ev[s].pc = "claim"
  /\ ~ ClaimHolds(s)
  /\ End(s)
  /\ UNCHANGED <<now, alert, nstate, rule, fetched, lastChange, lost, claims>>

\* The states GetStateModel has words for; notifiers panic at the others.
Describable == {"ok", "no_data", "alerting", "unknown"}

\* notifier.Notify succeeds.
Send(s) ==
  /\ ev[s].pc = "send"
  /\ ev[s].rule.state \in Describable
  /\ claims' = [claims EXCEPT ![ev[s].claim].sent = TRUE]
  /\ ev' = [ev EXCEPT ![s].pc = "complete"]
  /\ UNCHANGED <<now, alert, nstate, rule, fetched, lastChange, lost>>

\* notifier.Notify fails, or panics: the row stays pending.
SendFails(s) ==
  /\ ev[s].pc = "send"
  /\ "notify" \in Faults \/ ev[s].rule.state \notin Describable
  /\ End(s)
  /\ UNCHANGED <<now, alert, nstate, rule, fetched, lastChange, lost, claims>>

\* A variant that leaves the row pending.
CompleteNothing(s) ==
  /\ ev[s].pc = "complete"
  /\ nstate' = IF nstate.id = ev[s].id
                 THEN [nstate EXCEPT !.version = ev[s].version + 1, !.updatedAt = now]
                 ELSE nstate
  /\ End(s)
  /\ UNCHANGED <<now, alert, rule, fetched, lastChange, lost, claims>>

\* SetAlertNotificationStateToCompleteCommand compares no version.
Complete(s) ==
  /\ ev[s].pc = "complete"
  /\ nstate' = IF nstate.id = ev[s].id
                 THEN [nstate EXCEPT !.status = "completed", !.version = ev[s].version + 1,
                                     !.updatedAt = now]
                 ELSE nstate
  /\ End(s)
  /\ UNCHANGED <<now, alert, rule, fetched, lastChange, lost, claims>>

CompleteFails(s) ==
  /\ ev[s].pc = "complete"
  /\ "complete" \in Faults
  /\ End(s)
  /\ UNCHANGED <<now, alert, nstate, rule, fetched, lastChange, lost, claims>>

\* The server stops, and is started again: it knows no rule until it fetches them.
Crash(s) ==
  /\ "crash" \in Faults
  /\ End(s)
  /\ rule' = [rule EXCEPT ![s] = NoRule]
  /\ fetched' = [fetched EXCEPT ![s] = NoRule]
  /\ UNCHANGED <<now, alert, nstate, lastChange, lost, claims>>

-----------------------------------------------------------------------------
(***************************************************************************)
(* What users do to the alert, and time.                                   *)
(***************************************************************************)
\* PauseAlert, PauseAllAlerts: the number of state changes stays.
SetPaused(to) ==
  /\ "pause" \in Users
  /\ alert.exists
  /\ alert' = [alert EXCEPT !.state = to, !.date = now]
  /\ UNCHANGED <<now, nstate, rule, fetched, ev, lastChange, lost, claims>>

\* deleteAlertByIdInternal: the notification state goes with the alert.
Delete ==
  /\ "delete" \in Users
  /\ alert.exists
  /\ alert' = [alert EXCEPT !.exists = FALSE]
  /\ nstate' = NoRow
  /\ UNCHANGED <<now, rule, fetched, ev, lastChange, lost, claims>>

Tick ==
  /\ now < LastTime
  /\ now' = now + 1
  /\ UNCHANGED <<alert, nstate, rule, fetched, ev, lastChange, lost, claims>>

EvalStep(s) ==
  \/ Evaluate(s)
  \/ SaveRefused(s) \/ SaveFails(s) \/ SaveRead(s) \/ SaveWrite(s)
  \/ Decide(s) \/ Claim(s) \/ ClaimLost(s)
  \/ Send(s) \/ SendFails(s) \/ Complete(s) \/ CompleteFails(s)

ServerStep(s) ==
  \/ Refresh(s)
  \/ Fetch(s)
  \/ Update(s)
  \/ Start(s)
  \/ Retry(s)
  \/ EvalStep(s)
  \/ Crash(s)

Next ==
  \/ Tick
  \/ Delete
  \/ \E to \in {"paused", "unknown"} : SetPaused(to)
  \/ \E s \in Servers : ServerStep(s)

Spec == Init /\ [][Next]_vars

\* An evaluation that was begun is carried on: its goroutine runs, the database
\* and the notified system answer or their calls time out.
FairSpec == Spec /\ \A s \in Servers : WF_vars(EvalStep(s))

-----------------------------------------------------------------------------
LoadedRules == [state : AlertStates, changes : Nat, date : Nat]

Rules == LoadedRules \cup {NoRule, DeletedRule}

Evaluations ==
  [pc : {"idle", "eval", "save", "write", "notify", "claim", "send", "complete"},
   rule : Rules, attached : BOOLEAN, prev : AlertStates \cup {"none"},
   read : Rules, saved : BOOLEAN, id : 0..2, version : Nat, claim : Nat]

Claims == [change : Nat, prev : AlertStates, new : AlertStates, at : Nat,
           saved : BOOLEAN, sent : BOOLEAN]

Changes == [number : Nat, prev : AlertStates, believed : AlertStates,
            new : AlertStates, at : Nat]

\* Every state is one of the AlertStateType, and numbers of changes and versions stay natural.
TypeOK ==
  /\ now \in Nat
  /\ alert \in [exists : BOOLEAN, state : AlertStates, changes : Nat, date : Nat]
  /\ nstate \in [id : 0..2, status : {"unknown", "pending", "completed"},
                 version : Nat, updatedAt : Nat, seen : Nat]
  /\ rule \in [Servers -> Rules]
  /\ fetched \in [Servers -> Rules]
  /\ ev \in [Servers -> Evaluations]
  /\ lastChange \in Changes
  /\ lost \subseteq Nat
  /\ claims \in Seq(Claims)

Quiet == \A s \in Servers : ev[s].pc = "idle"

\* The state was not changed: the notification repeats the one before.
IsReminder(c) == c.prev = c.new

\* The notification of a change that was saved, under the number it was saved with.
IsAnnouncement(c) == c.saved /\ ~ IsReminder(c)

\* No UPDATE that came too late has given this number or a lower one: the numbers
\* from there on may be those of several changes.
Firm(k) == \A n \in lost : k < n

(***************************************************************************)
(* Whatever the servers do at the same time, a change of the alert's state *)
(* is announced at most once, by whichever server: what the notification   *)
(* state row is for.  The one exception is a number that two changes may   *)
(* have, since the UPDATE of one came after that of another between its    *)
(* SELECT and itself.                                                      *)
(***************************************************************************)
OneNotificationPerChange ==
  \A i, j \in 1..Len(claims) :
    /\ i # j
    /\ claims[i].sent /\ IsAnnouncement(claims[i])
    /\ claims[j].sent /\ IsAnnouncement(claims[j])
    /\ claims[i].change = claims[j].change
    => ~ Firm(claims[i].change)

(***************************************************************************)
(* What the documentation says of a cluster: no duplicate notification is  *)
(* sent.  (It does not hold of the code.)                                  *)
(***************************************************************************)
NoDuplicates ==
  \A i, j \in 1..Len(claims) :
    /\ i # j
    /\ claims[i].sent /\ IsAnnouncement(claims[i])
    /\ claims[j].sent /\ IsAnnouncement(claims[j])
    => claims[i].change # claims[j].change

\* The announcements received by the channel, as AlertDedup sees them.
SentAnnouncements ==
  {i \in 1..Len(claims) : claims[i].sent /\ IsAnnouncement(claims[i])}

Dedup == INSTANCE AlertDedup WITH
  changes   <- alert.changes,
  announced <- {claims[i].change : i \in SentAnnouncements},
  messages  <- Cardinality(SentAnnouncements)

(***************************************************************************)
(* The two tables implement the deduplication, as far as AlertDedup        *)
(* promises it.                                                            *)
(***************************************************************************)
ImplementsDedup == Dedup!Spec

(***************************************************************************)
(* A server that saved the latest change of the state and goes to announce *)
(* it gets the notification state row, whoever else has moved it since it  *)
(* was read ("the server with the last state change always sends").  Only  *)
(* a reminder, a notification whose save had failed, or one whose number   *)
(* is not firm may take the row from it.                                   *)
(***************************************************************************)
LastChangeClaims ==
  \A s \in Servers :
    /\ ev[s].pc = "claim" /\ ev[s].saved
    /\ nstate.id = ev[s].id
    /\ ev[s].rule.changes = alert.changes
    /\ ~ ClaimHolds(s)
    => \E i \in 1..Len(claims) :
         /\ claims[i].change >= alert.changes
         /\ IsAnnouncement(claims[i]) => ~ Firm(claims[i].change)

(***************************************************************************)
(* When a server finds the row taken and gives its notification up, one    *)
(* with the same number of state changes or a higher one has been claimed. *)
(***************************************************************************)
GivenUpOnlyIfClaimed ==
  \A s \in Servers :
    /\ ev[s].pc = "claim"
    /\ nstate.id = ev[s].id
    /\ ~ ClaimHolds(s)
    => \E i \in 1..Len(claims) : claims[i].change >= ev[s].rule.changes

\* The channel was told of the change number k, or its notifier was called in vain.
Announced(k) ==
  \E i \in 1..Len(claims) :
    claims[i].change = k /\ (claims[i].sent \/ "notify" \in Faults)

\* The server took the state that it changed for another one, from which the change
\* is not one the channel is told about: its rule was older than the row.
Misjudged == ~ Notifiable(lastChange.believed, lastChange.new)

\* A notification that was claimed within the PendingWindow before the change, and
\* did not reach the channel, keeps the row.
HeldBack ==
  \E i \in 1..Len(claims) :
    /\ claims[i].change # lastChange.number /\ ~ claims[i].sent
    /\ claims[i].at <= lastChange.at /\ lastChange.at < claims[i].at + PendingWindow

(***************************************************************************)
(* When no evaluation is in progress, the latest change of the row's state *)
(* was announced, if it is one the channel is told about.  It goes         *)
(* unannounced in two cases only: a rule that was handed over late hid it, *)
(* or a notification that failed less than PendingWindow ago.              *)
(***************************************************************************)
LastChangeNotified ==
  /\ Quiet
  /\ lastChange.number > 0
  /\ Notifiable(lastChange.prev, lastChange.new)
  => Announced(lastChange.number) \/ Misjudged \/ HeldBack

(***************************************************************************)
(* A reminder comes at least Frequency after whatever was sent before it.  *)
(***************************************************************************)
RemindersSpaced ==
  \A i, j \in 1..Len(claims) :
    i < j /\ claims[i].sent /\ claims[j].sent /\ IsReminder(claims[j])
      => claims[j].at - claims[i].at >= Frequency

(***************************************************************************)
(* Every change of the row's state that the channel is to be told about is *)
(* announced in the end, with the same two exceptions.                     *)
(***************************************************************************)
ChangesAnnounced ==
  \A k \in 1..MaxChanges :
    /\ lastChange.number = k
    /\ Notifiable(lastChange.prev, lastChange.new)
    /\ ~ Misjudged /\ ~ HeldBack
    ~> Announced(k)
=============================================================================
