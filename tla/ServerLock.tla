----------------------------- MODULE ServerLock -----------------------------
(***************************************************************************)
(* The database lock by which the servers of a high-availability set-up    *)
(* agree on who runs a periodic job (pkg/infra/serverlock).  One row of    *)
(* the table server_lock is modelled, the one of a single operation: rows  *)
(* of different operations never meet.                                     *)
(*                                                                         *)
(* Every server runs LockAndExecute again and again, from the tickers of   *)
(* its background services.  A call is three statements on the database    *)
(* with other servers' statements in between: find the row or insert it,   *)
(* compare its last execution with the clock, update it if its version is  *)
(* still the one that was read.                                            *)
(***************************************************************************)
EXTENDS Integers, Sequences

CONSTANTS
  Servers,      \* the servers that share the database
  MaxInterval,  \* the argument maxInterval of LockAndExecute, in seconds
  Skew,         \* Skew[s]: how far the clock of s is ahead of real time
  MaxSkew,      \* the largest difference between two clocks
  FirstTime,    \* the real time at which the behaviour starts
  LastTime      \* bound: real time stops here

ASSUME ClockAssumption ==
  /\ FirstTime \in Nat \ {0}
  /\ LastTime \in Nat
  /\ MaxInterval \in Nat
  /\ MaxSkew \in Nat
  /\ Skew \in [Servers -> 0..MaxSkew]

VARIABLES
  now,      \* real time, in seconds
  lockRow,  \* the row of the operation: whether it exists, and its columns
  pc,       \* pc[s]: the statement of LockAndExecute that s executes next
  rowLock,  \* rowLock[s]: the copy of the row that the call of s works with
  grants    \* history: who moved the row to version i, and when

vars == <<now, lockRow, pc, rowLock, grants>>

NoRow == [exists |-> FALSE, version |-> 0, lastExecution |-> 0]

Columns == [version : Nat, lastExecution : Nat]

\* time.Now().Unix() on server s
Clock(s) == now + Skew[s]

Init ==
  /\ now = FirstTime
  /\ lockRow = NoRow
  /\ pc = [s \in Servers |-> "idle"]
  /\ rowLock = [s \in Servers |-> [version |-> 0, lastExecution |-> 0]]
  /\ grants = <<>>

-----------------------------------------------------------------------------
\* The SELECT of getOrCreate: the row is copied, or it has to be inserted.
Find(s) ==
  /\ pc[s] = "idle"
  /\ IF lockRow.exists
       THEN /\ pc' = [pc EXCEPT ![s] = "check"]
            /\ rowLock' = [rowLock EXCEPT ![s] =
                 [version |-> lockRow.version, lastExecution |-> lockRow.lastExecution]]
       ELSE /\ pc' = [pc EXCEPT ![s] = "insert"]
            /\ UNCHANGED rowLock
  /\ UNCHANGED <<now, lockRow, grants>>

\* The INSERT of getOrCreate.  The column operation_uid is unique: when another
\* server inserted the row first the statement fails, and with it the call.
Insert(s) ==
  /\ pc[s] = "insert"
  /\ IF lockRow.exists
       THEN /\ pc' = [pc EXCEPT ![s] = "idle"]
            /\ UNCHANGED <<lockRow, rowLock>>
       ELSE /\ pc' = [pc EXCEPT ![s] = "check"]
            /\ lockRow' = [exists |-> TRUE, version |-> 0, lastExecution |-> 0]
            /\ rowLock' = [rowLock EXCEPT ![s] = [version |-> 0, lastExecution |-> 0]]
  /\ UNCHANGED <<now, grants>>

\* A variant that has lost the interval.
TooRecentNoInterval(s) ==
  /\ rowLock[s].lastExecution # 0
  /\ rowLock[s].lastExecution > Clock(s)

\* The last execution is too recent, by the clock of this server.
TooRecent(s) ==
  /\ rowLock[s].lastExecution # 0
  /\ rowLock[s].lastExecution > Clock(s) - MaxInterval

\* The early return of LockAndExecute, or on to acquireLock.
Check(s) ==
  /\ pc[s] = "check"
  /\ pc' = [pc EXCEPT ![s] = IF TooRecent(s) THEN "idle" ELSE "acquire"]
  /\ UNCHANGED <<now, lockRow, rowLock, grants>>

\* Variants of the UPDATE: last_execution is not set; the version is not raised.
MoveVersionUntimed(s) ==
  /\ lockRow.version = rowLock[s].version
  /\ lockRow' = [lockRow EXCEPT !.version = rowLock[s].version + 1]
  /\ grants' = Append(grants, [by |-> s, at |-> now])

MoveVersionInPlace(s) ==
  /\ lockRow.version = rowLock[s].version
  /\ lockRow' = [lockRow EXCEPT !.lastExecution = Clock(s)]
  /\ grants' = Append(grants, [by |-> s, at |-> now])

\* The UPDATE of acquireLock takes effect on the row version it was given.
MoveVersion(s) ==
  /\ lockRow.version = rowLock[s].version
  /\ lockRow' = [lockRow EXCEPT !.version = rowLock[s].version + 1,
                                !.lastExecution = Clock(s)]
  /\ grants' = Append(grants, [by |-> s, at |-> now])

\* acquireLock: one row affected means the lock is held; none, that another
\* server was faster.
Acquire(s) ==
  /\ pc[s] = "acquire"
  /\ \/ /\ MoveVersion(s)
        /\ pc' = [pc EXCEPT ![s] = "run"]
     \/ /\ lockRow.version # rowLock[s].version
        /\ pc' = [pc EXCEPT ![s] = "idle"]
        /\ UNCHANGED <<lockRow, grants>>
  /\ UNCHANGED <<now, rowLock>>

\* The row was updated but the answer was an error: fn is not run.
AcquireAnswerLost(s) ==
  /\ pc[s] = "acquire"
  /\ MoveVersion(s)
  /\ pc' = [pc EXCEPT ![s] = "idle"]
  /\ UNCHANGED <<now, rowLock>>

\* fn() returns.
Finish(s) ==
  /\ pc[s] = "run"
  /\ pc' = [pc EXCEPT ![s] = "idle"]
  /\ UNCHANGED <<now, lockRow, rowLock, grants>>

\* A statement fails, or the server stops and starts again: the call is over
\* and nothing is written.
Abort(s) ==
  /\ pc[s] # "idle"
  /\ pc' = [pc EXCEPT ![s] = "idle"]
  /\ UNCHANGED <<now, lockRow, rowLock, grants>>

Tick ==
  /\ now < LastTime
  /\ now' = now + 1
  /\ UNCHANGED <<lockRow, pc, rowLock, grants>>

Next ==
  \/ Tick
  \/ \E s \in Servers :
       \/ Find(s)
       \/ Insert(s)
       \/ Check(s)
       \/ Acquire(s)
       \/ AcquireAnswerLost(s)
       \/ Finish(s)
       \/ Abort(s)

Spec == Init /\ [][Next]_vars

-----------------------------------------------------------------------------
Grant == [by : Servers, at : Nat]

\* The columns of the row and of its copies are counters and times that never go below zero.
TypeOK ==
  /\ now \in Nat
  /\ lockRow \in [exists : BOOLEAN, version : Nat, lastExecution : Nat]
  /\ pc \in [Servers -> {"idle", "insert", "check", "acquire", "run"}]
  /\ rowLock \in [Servers -> Columns]
  /\ grants \in Seq(Grant)

(***************************************************************************)
(* The lock is granted once per interval: whatever the interleaving of the *)
(* statements, and with stale copies of the row, two grants in a row are   *)
(* MaxInterval apart, less what the two clocks disagree by.                *)
(***************************************************************************)
GrantsSpaced ==
  \A i \in 1..Len(grants) - 1 :
    grants[i + 1].at - grants[i].at >= MaxInterval - MaxSkew

(***************************************************************************)
(* Two servers that execute fn at the same moment were granted different   *)
(* versions of the row.  (They may well overlap, when fn takes longer than *)
(* MaxInterval: the lock is a lease that the holder does not watch.)       *)
(***************************************************************************)
OneHolderPerVersion ==
  \A s, t \in Servers :
    s # t /\ pc[s] = "run" /\ pc[t] = "run"
      => rowLock[s].version # rowLock[t].version

(***************************************************************************)
(* The part of the state that makes these inductive: the row records the   *)
(* latest grant, no copy is ahead of the row, a copy with the row's        *)
(* version has the row's last execution, and a server about to acquire has *)
(* compared its copy with a clock that has not gone back since.            *)
(***************************************************************************)
RowRecordsGrants ==
  /\ lockRow.version = Len(grants)
  /\ lockRow.lastExecution =
       IF grants = <<>> THEN 0
       ELSE grants[Len(grants)].at + Skew[grants[Len(grants)].by]
  /\ ~ lockRow.exists => grants = <<>>

GrantsInThePast == \A i \in 1..Len(grants) : grants[i].at \in FirstTime..now

CopiesOfTheRow ==
  \A s \in Servers :
    pc[s] \in {"check", "acquire"} =>
      /\ lockRow.exists
      /\ rowLock[s].version <= lockRow.version
      /\ rowLock[s].version = lockRow.version
           => rowLock[s].lastExecution = lockRow.lastExecution

CheckedBeforeAcquire == \A s \in Servers : pc[s] = "acquire" => ~ TooRecent(s)

RunnersWereGranted ==
  \A s \in Servers : pc[s] = "run" =>
    /\ rowLock[s].version < Len(grants)
    /\ grants[rowLock[s].version + 1].by = s

LockInv ==
  /\ TypeOK
  /\ FirstTime <= now
  /\ RowRecordsGrants
  /\ GrantsInThePast
  /\ CopiesOfTheRow
  /\ CheckedBeforeAcquire
  /\ RunnersWereGranted
  /\ GrantsSpaced
=============================================================================
