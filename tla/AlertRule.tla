------------------------------ MODULE AlertRule ------------------------------
(***************************************************************************)
(* The decisions of one alert rule and of one notification channel, as     *)
(* functions of what they look at: the state an evaluation leads to        *)
(* (EvalContext.GetNewState) and whether the channel is to be told         *)
(* (NotifierBase.ShouldNotify).  They keep no state of their own; AlertHA  *)
(* calls them.                                                             *)
(***************************************************************************)
EXTENDS Integers

CONSTANTS
  For,             \* Rule.For: how long the condition holds before it alerts
  NoDataState,     \* Rule.NoDataState: a state, or "keep_state"
  ErrorState,      \* Rule.ExecutionErrorState: "alerting" or "keep_state"
  SendReminder,    \* the channel repeats the notification of a bad state ...
  Frequency,       \* ... this long after the last one
  DisableResolve,  \* DisableResolveMessage: the channel is not told of "ok"
  PendingWindow    \* the minute during which a pending notification is in hand

ASSUME RuleAssumption ==
  /\ For \in Nat
  /\ NoDataState \in {"ok", "no_data", "alerting", "keep_state"}
  /\ ErrorState \in {"alerting", "keep_state"}
  /\ SendReminder \in BOOLEAN
  /\ Frequency \in Nat
  /\ DisableResolve \in BOOLEAN
  /\ PendingWindow \in Nat

AlertStates == {"unknown", "ok", "pending", "alerting", "no_data", "paused"}

\* What an evaluation of the conditions finds, the first that applies.
Results == {"error", "firing", "no_data", "ok"}

\* getNewStateInternal: the state the result stands for.
ResultState(prev, result) ==
  CASE result = "error"   -> IF ErrorState = "keep_state" THEN prev ELSE ErrorState
    [] result = "firing"  -> "alerting"
    [] result = "no_data" -> IF NoDataState = "keep_state" THEN prev ELSE NoDataState
    [] result = "ok"      -> "ok"

\* GetNewState: alerting is delayed, through pending, until it lasted For.
NewState(prev, result, since) ==
  LET raw == ResultState(prev, result)
      due == For = 0 \/ prev = "alerting" \/ (prev = "pending" /\ since > For)
  IN  IF raw = "alerting" /\ ~ due THEN "pending" ELSE raw

\* The changes of state a channel is told about, whatever the time.
Notifiable(prev, new) ==
  /\ ~ (prev = "unknown" /\ new \in {"ok", "pending"})
  /\ ~ (prev = "no_data" /\ new = "pending")
  /\ ~ (prev = "pending" /\ new = "ok")
  /\ ~ (prev = "ok" /\ new = "pending")
  /\ ~ (new = "ok" /\ DisableResolve)

\* A variant that does not look at the age of the last message.
ReminderAlways(new, row, time) == SendReminder /\ new \notin {"ok", "pending"}

\* An unchanged state is repeated when it is bad and the last message is old.
ReminderDue(new, row, time) ==
  /\ SendReminder
  /\ row.updatedAt = 0 \/ row.updatedAt + Frequency <= time
  /\ new \notin {"ok", "pending"}

\* The row says a notification is being sent right now.
InHand(row, time) ==
  row.status = "pending" /\ row.updatedAt + PendingWindow > time

\* A variant that holds changes back, instead of repetitions, until a reminder is due.
ShouldNotifyReversed(prev, new, row, time) ==
  /\ prev # new => ReminderDue(new, row, time)
  /\ Notifiable(prev, new)
  /\ ~ InHand(row, time)

ShouldNotify(prev, new, row, time) ==
  /\ prev = new => ReminderDue(new, row, time)
  /\ Notifiable(prev, new)
  /\ ~ InHand(row, time)
=============================================================================
