-------------------------- MODULE ServerLockProofs --------------------------
(* Proofs about ServerLock for every set of servers, interval and skew.    *)
EXTENDS ServerLock, TLAPS

\* The initial state satisfies the inductive invariant.
LEMMA LockInvInit == Init => LockInv
  BY ClockAssumption
  DEF Init, NoRow, LockInv, TypeOK, Columns, Grant, RowRecordsGrants, GrantsInThePast,
      CopiesOfTheRow, CheckedBeforeAcquire, RunnersWereGranted, GrantsSpaced

\* Moving the row to its next version appends a grant that is at least
\* MaxInterval - MaxSkew younger than the one before: the guard of the UPDATE
\* makes the checked copy the row itself.
LEMMA MoveVersionKeeps ==
  ASSUME LockInv, NEW s \in Servers, pc[s] = "acquire", MoveVersion(s),
         UNCHANGED <<now, rowLock>>,
         pc' \in {[pc EXCEPT ![s] = "run"], [pc EXCEPT ![s] = "idle"]}
  PROVE  LockInv'
<1> USE ClockAssumption
<1>1. /\ TypeOK
      /\ FirstTime <= now
      /\ Len(grants) \in Nat
      /\ lockRow.version = Len(grants)
      /\ rowLock[s].version = Len(grants)
      /\ lockRow.exists
  BY DEF LockInv, TypeOK, RowRecordsGrants, CopiesOfTheRow, MoveVersion
<1>2. /\ grants' \in Seq(Grant)
      /\ Len(grants') = Len(grants) + 1
      /\ \A i \in 1..Len(grants) : grants'[i] = grants[i]
      /\ grants'[Len(grants) + 1] = [by |-> s, at |-> now]
  BY <1>1 DEF MoveVersion, TypeOK, Grant
<1>3. /\ lockRow'.exists
      /\ lockRow'.version = Len(grants) + 1
      /\ lockRow'.lastExecution = now + Skew[s]
      /\ now + Skew[s] \in Nat
  BY <1>1 DEF MoveVersion, TypeOK, Clock
<1>4. TypeOK'
  <2>1. now' \in Nat /\ rowLock' \in [Servers -> Columns] /\ grants' \in Seq(Grant)
    BY <1>1, <1>2 DEF TypeOK
  <2>2. lockRow' = [exists |-> TRUE, version |-> Len(grants) + 1,
                    lastExecution |-> now + Skew[s]]
    BY <1>1 DEF MoveVersion, TypeOK, Clock
  <2>3. lockRow' \in [exists : BOOLEAN, version : Nat, lastExecution : Nat]
    BY <2>2, <1>1, <1>3
  <2>4. pc' \in [Servers -> {"idle", "insert", "check", "acquire", "run"}]
    BY <1>1 DEF TypeOK
  <2> QED
    BY <2>1, <2>3, <2>4 DEF TypeOK
<1>5. RowRecordsGrants'
  BY <1>1, <1>2, <1>3 DEF RowRecordsGrants
<1>6. GrantsInThePast'
  <2> SUFFICES ASSUME NEW i \in 1..Len(grants) + 1
               PROVE  grants'[i].at \in FirstTime..now
    BY <1>1, <1>2 DEF GrantsInThePast
  <2>0. now \in Nat /\ FirstTime \in Int
    BY <1>1 DEF TypeOK
  <2>1. CASE i \in 1..Len(grants)
    <3>1. grants'[i] = grants[i]
      BY <2>1, <1>2
    <3>2. grants[i].at \in FirstTime..now
      BY <2>1 DEF LockInv, GrantsInThePast
    <3> QED
      BY <3>1, <3>2
  <2>2. CASE i = Len(grants) + 1
    <3>1. grants'[i].at = now
      BY <2>2, <1>2
    <3> QED
      BY <3>1, <2>0, <1>1
  <2> QED
    BY <2>1, <2>2, <1>1
<1>7. CopiesOfTheRow'
  <2> SUFFICES ASSUME NEW t \in Servers, pc'[t] \in {"check", "acquire"}
               PROVE  /\ lockRow'.exists
                      /\ rowLock'[t].version <= lockRow'.version
                      /\ rowLock'[t].version # lockRow'.version
    BY DEF CopiesOfTheRow
  <2>1. pc[t] = "check" \/ pc[t] = "acquire"
    BY <1>1 DEF TypeOK
  <2>2. rowLock[t].version <= Len(grants)
    BY <2>1, <1>1 DEF LockInv, CopiesOfTheRow
  <2>3. rowLock[t].version \in Nat /\ rowLock' = rowLock
    BY <1>1 DEF TypeOK, Columns
  <2> QED
    BY <2>2, <2>3, <1>1, <1>3
<1>8. CheckedBeforeAcquire'
  BY <1>1 DEF LockInv, CheckedBeforeAcquire, TooRecent, Clock, TypeOK
<1>9. RunnersWereGranted'
  <2> SUFFICES ASSUME NEW t \in Servers, pc'[t] = "run"
               PROVE  /\ rowLock'[t].version < Len(grants')
                      /\ grants'[rowLock'[t].version + 1].by = t
    BY DEF RunnersWereGranted
  <2>1. CASE t = s
    BY <2>1, <1>1, <1>2 DEF TypeOK
  <2>2. CASE t # s
    <3>1. pc[t] = "run" /\ rowLock'[t] = rowLock[t] /\ rowLock[t].version \in Nat
      BY <2>2, <1>1 DEF TypeOK, Columns
    <3>2. rowLock[t].version < Len(grants) /\ grants[rowLock[t].version + 1].by = t
      BY <3>1 DEF LockInv, RunnersWereGranted
    <3>3. rowLock[t].version + 1 \in 1..Len(grants)
      BY <3>1, <3>2, <1>1
    <3>4. grants'[rowLock[t].version + 1] = grants[rowLock[t].version + 1]
      BY <3>3, <1>2
    <3> QED
      BY <3>1, <3>2, <3>4, <1>1, <1>2
  <2> QED
    BY <2>1, <2>2
<1>10. GrantsSpaced'
  <2> SUFFICES ASSUME NEW i \in 1..Len(grants)
               PROVE  grants'[i + 1].at - grants'[i].at >= MaxInterval - MaxSkew
    BY <1>1, <1>2 DEF GrantsSpaced
  <2>1. CASE i < Len(grants)
    <3>1. grants'[i] = grants[i] /\ grants'[i + 1] = grants[i + 1]
      BY <2>1, <1>1, <1>2
    <3> QED
      BY <2>1, <3>1, <1>1 DEF LockInv, GrantsSpaced
  <2>2. CASE i = Len(grants)
    <3> DEFINE last == grants[Len(grants)]
    <3>1. last \in Grant /\ grants # <<>> /\ last.at \in FirstTime..now
      BY <2>2, <1>1 DEF TypeOK, LockInv, GrantsInThePast
    <3>2. /\ last.at \in Nat
          /\ last.by \in Servers
          /\ Skew[last.by] \in 0..MaxSkew
          /\ Skew[s] \in 0..MaxSkew
      BY <3>1 DEF Grant
    <3>3. rowLock[s].lastExecution = last.at + Skew[last.by]
      BY <3>1, <1>1 DEF LockInv, RowRecordsGrants, CopiesOfTheRow, MoveVersion
    <3>4. rowLock[s].lastExecution # 0
      BY <3>1, <3>2, <3>3
    <3>5. rowLock[s].lastExecution <= now + Skew[s] - MaxInterval
      BY <3>2, <3>3, <3>4, <1>1 DEF LockInv, CheckedBeforeAcquire, TooRecent, Clock, TypeOK
    <3>6. now - last.at >= MaxInterval - MaxSkew
      <4>1. now \in Nat /\ MaxInterval \in Nat /\ MaxSkew \in Nat
        BY <1>1 DEF TypeOK
      <4>2. last.at + Skew[last.by] <= now + Skew[s] - MaxInterval
        BY <3>3, <3>5
      <4> QED
        BY <4>1, <4>2, <3>2
    <3>7. grants'[i].at = last.at
      BY <2>2, <1>2
    <3>8. grants'[i + 1].at = now
      BY <2>2, <1>2
    <3> QED
      BY <3>6, <3>7, <3>8
  <2> QED
    BY <2>1, <2>2, <1>1
<1> QED
  BY <1>1, <1>4, <1>5, <1>6, <1>7, <1>8, <1>9, <1>10 DEF LockInv

\* A step of one server that writes nothing to the table: it may take a new copy of
\* the row, and goes on to acquireLock only with the copy it has just compared.
LEMMA OneServerMoves ==
  ASSUME LockInv, NEW s \in Servers, NEW copy \in Columns,
         NEW next \in {"idle", "insert", "check", "acquire"},
         pc' = [pc EXCEPT ![s] = next],
         rowLock' = [rowLock EXCEPT ![s] = copy],
         UNCHANGED <<now, lockRow, grants>>,
         next \in {"check", "acquire"} =>
           /\ lockRow.exists
           /\ copy.version <= lockRow.version
           /\ copy.version = lockRow.version => copy.lastExecution = lockRow.lastExecution,
         next = "acquire" => copy = rowLock[s] /\ ~ TooRecent(s)
  PROVE  LockInv'
<1>1. TypeOK'
  BY DEF LockInv, TypeOK
<1>2. /\ pc'[s] = next
      /\ rowLock'[s] = copy
      /\ \A t \in Servers \ {s} : pc'[t] = pc[t] /\ rowLock'[t] = rowLock[t]
  BY DEF LockInv, TypeOK
<1>3. RowRecordsGrants' /\ GrantsInThePast' /\ GrantsSpaced' /\ (FirstTime <= now)'
  BY DEF LockInv, RowRecordsGrants, GrantsInThePast, GrantsSpaced
<1>4. CopiesOfTheRow'
  BY <1>2 DEF LockInv, CopiesOfTheRow
<1>5. CheckedBeforeAcquire'
  BY <1>2 DEF LockInv, CheckedBeforeAcquire, TooRecent, Clock
<1>6. RunnersWereGranted'
  BY <1>2 DEF LockInv, RunnersWereGranted
<1> QED
  BY <1>1, <1>3, <1>4, <1>5, <1>6 DEF LockInv

\* The SELECT copies the row as it is.
LEMMA FindKeeps == ASSUME LockInv, NEW s \in Servers, Find(s) PROVE LockInv'
<1>1. lockRow.version \in Nat /\ rowLock[s] \in Columns
  BY DEF LockInv, TypeOK
<1>2. CASE lockRow.exists
  <2> DEFINE copy == [version |-> lockRow.version, lastExecution |-> lockRow.lastExecution]
  <2>1. copy \in Columns
    BY DEF LockInv, TypeOK, Columns
  <2>2. /\ pc' = [pc EXCEPT ![s] = "check"]
        /\ rowLock' = [rowLock EXCEPT ![s] = copy]
        /\ UNCHANGED <<now, lockRow, grants>>
    BY <1>2 DEF Find
  <2>3. copy.version = lockRow.version /\ copy.lastExecution = lockRow.lastExecution
    OBVIOUS
  <2> HIDE DEF copy
  <2>4. copy.version <= lockRow.version
    BY <2>3, <1>1
  <2> QED
    BY <2>1, <2>2, <2>3, <2>4, <1>2, OneServerMoves
<1>3. CASE ~ lockRow.exists
  <2>1. /\ pc' = [pc EXCEPT ![s] = "insert"]
        /\ rowLock' = [rowLock EXCEPT ![s] = rowLock[s]]
        /\ UNCHANGED <<now, lockRow, grants>>
    BY <1>3 DEF Find, LockInv, TypeOK
  <2> QED
    BY <1>1, <2>1, OneServerMoves
<1> QED
  BY <1>2, <1>3

\* The INSERT succeeds only while no server has a copy.
LEMMA InsertKeeps == ASSUME LockInv, NEW s \in Servers, Insert(s) PROVE LockInv'
<1>1. CASE lockRow.exists
  <2>1. /\ pc' = [pc EXCEPT ![s] = "idle"]
        /\ rowLock' = [rowLock EXCEPT ![s] = rowLock[s]]
        /\ UNCHANGED <<now, lockRow, grants>>
    BY <1>1 DEF Insert, LockInv, TypeOK
  <2>2. rowLock[s] \in Columns
    BY DEF LockInv, TypeOK
  <2> QED
    BY <2>1, <2>2, OneServerMoves
<1>2. CASE ~ lockRow.exists
  <2> DEFINE fresh == [version |-> 0, lastExecution |-> 0]
  <2>1. /\ lockRow' = [exists |-> TRUE, version |-> 0, lastExecution |-> 0]
        /\ rowLock' = [rowLock EXCEPT ![s] = fresh]
        /\ pc' = [pc EXCEPT ![s] = "check"]
        /\ UNCHANGED <<now, grants>>
    BY <1>2 DEF Insert
  <2>2. fresh \in Columns /\ fresh.version = 0 /\ fresh.lastExecution = 0
    BY DEF Columns
  <2>3. /\ lockRow' \in [exists : BOOLEAN, version : Nat, lastExecution : Nat]
        /\ lockRow'.exists /\ lockRow'.version = 0 /\ lockRow'.lastExecution = 0
    BY <2>1
  <2> HIDE DEF fresh
  <2>4. TypeOK'
    BY <2>1, <2>2, <2>3 DEF LockInv, TypeOK
  <2>5. grants = <<>> /\ \A t \in Servers : pc[t] \notin {"check", "acquire"}
    BY <1>2 DEF LockInv, RowRecordsGrants, CopiesOfTheRow
  <2>6. /\ pc'[s] = "check" /\ rowLock'[s] = fresh
        /\ \A t \in Servers \ {s} : pc'[t] = pc[t] /\ rowLock'[t] = rowLock[t]
    BY <2>1 DEF LockInv, TypeOK
  <2>7. RowRecordsGrants'
    BY <2>1, <2>3, <2>5 DEF RowRecordsGrants
  <2>8. GrantsInThePast' /\ GrantsSpaced' /\ (FirstTime <= now)'
    BY <2>1 DEF LockInv, GrantsInThePast, GrantsSpaced
  <2>9. CopiesOfTheRow'
    BY <2>2, <2>3, <2>5, <2>6 DEF CopiesOfTheRow
  <2>10. CheckedBeforeAcquire'
    BY <2>5, <2>6 DEF CheckedBeforeAcquire
  <2>11. RunnersWereGranted'
    BY <2>1, <2>6 DEF LockInv, RunnersWereGranted
  <2> QED
    BY <2>4, <2>7, <2>8, <2>9, <2>10, <2>11 DEF LockInv
<1> QED
  BY <1>1, <1>2

\* The comparison sends a server on with the copy it has compared.
LEMMA CheckKeeps == ASSUME LockInv, NEW s \in Servers, Check(s) PROVE LockInv'
<1> DEFINE next == IF TooRecent(s) THEN "idle" ELSE "acquire"
<1>1. /\ pc' = [pc EXCEPT ![s] = next]
      /\ rowLock' = [rowLock EXCEPT ![s] = rowLock[s]]
      /\ UNCHANGED <<now, lockRow, grants>>
      /\ rowLock[s] \in Columns
  BY DEF Check, LockInv, TypeOK
<1>2. /\ lockRow.exists
      /\ rowLock[s].version <= lockRow.version
      /\ rowLock[s].version = lockRow.version
           => rowLock[s].lastExecution = lockRow.lastExecution
  BY DEF Check, LockInv, CopiesOfTheRow
<1>3. next \in {"idle", "acquire"} /\ (next = "acquire" => ~ TooRecent(s))
  OBVIOUS
<1> HIDE DEF next
<1> QED
  BY <1>1, <1>2, <1>3, OneServerMoves

\* Time goes on: a comparison that was passed stays passed.
LEMMA TickKeeps == ASSUME LockInv, Tick PROVE LockInv'
<1>1. now \in Nat /\ now' = now + 1 /\ UNCHANGED <<lockRow, pc, rowLock, grants>>
  BY DEF Tick, LockInv, TypeOK
<1>2. TypeOK' /\ (FirstTime <= now)'
  BY <1>1, ClockAssumption DEF LockInv, TypeOK
<1>3. RowRecordsGrants' /\ CopiesOfTheRow' /\ RunnersWereGranted' /\ GrantsSpaced'
  BY <1>1 DEF LockInv, RowRecordsGrants, CopiesOfTheRow, RunnersWereGranted, GrantsSpaced
<1>4. GrantsInThePast'
  BY <1>1, ClockAssumption DEF LockInv, GrantsInThePast
<1>5. ASSUME NEW s \in Servers, pc[s] = "acquire" PROVE ~ TooRecent(s)'
  <2>1. /\ rowLock[s].lastExecution \in Nat /\ Skew[s] \in Nat /\ MaxInterval \in Nat
        /\ ~ TooRecent(s)
    BY <1>5, ClockAssumption DEF LockInv, TypeOK, Columns, CheckedBeforeAcquire
  <2> QED
    BY <2>1, <1>1 DEF TooRecent, Clock
<1>6. CheckedBeforeAcquire'
  BY <1>1, <1>5 DEF CheckedBeforeAcquire
<1> QED
  BY <1>2, <1>3, <1>4, <1>6 DEF LockInv

\* Every step preserves the inductive invariant.
LEMMA LockInvStep == LockInv /\ [Next]_vars => LockInv'
<1> SUFFICES ASSUME LockInv, [Next]_vars PROVE LockInv'
  OBVIOUS
<1>1. CASE Tick
  BY <1>1, TickKeeps
<1>2. ASSUME NEW s \in Servers, Find(s) PROVE LockInv'
  BY <1>2, FindKeeps
<1>3. ASSUME NEW s \in Servers, Insert(s) PROVE LockInv'
  BY <1>3, InsertKeeps
<1>4. ASSUME NEW s \in Servers, Check(s) PROVE LockInv'
  BY <1>4, CheckKeeps
<1>5. ASSUME NEW s \in Servers, Acquire(s) PROVE LockInv'
  <2>1. CASE MoveVersion(s)
    <3>1. lockRow.version = rowLock[s].version
      BY <2>1 DEF MoveVersion
    <3>2. pc[s] = "acquire" /\ pc' = [pc EXCEPT ![s] = "run"] /\ UNCHANGED <<now, rowLock>>
      BY <1>5, <3>1 DEF Acquire
    <3> QED
      BY <2>1, <3>2, MoveVersionKeeps
  <2>2. CASE ~ MoveVersion(s)
    <3>1. /\ pc' = [pc EXCEPT ![s] = "idle"]
          /\ rowLock' = [rowLock EXCEPT ![s] = rowLock[s]]
          /\ UNCHANGED <<now, lockRow, grants>>
          /\ rowLock[s] \in Columns
      BY <1>5, <2>2 DEF Acquire, LockInv, TypeOK
    <3> QED
      BY <3>1, OneServerMoves
  <2> QED
    BY <2>1, <2>2
<1>6. ASSUME NEW s \in Servers, AcquireAnswerLost(s) PROVE LockInv'
  <2>1. /\ pc[s] = "acquire" /\ MoveVersion(s)
        /\ pc' = [pc EXCEPT ![s] = "idle"] /\ UNCHANGED <<now, rowLock>>
    BY <1>6 DEF AcquireAnswerLost
  <2> QED
    BY <2>1, MoveVersionKeeps
<1>7. ASSUME NEW s \in Servers, Finish(s) \/ Abort(s) PROVE LockInv'
  <2>1. /\ pc' = [pc EXCEPT ![s] = "idle"]
        /\ rowLock' = [rowLock EXCEPT ![s] = rowLock[s]]
        /\ UNCHANGED <<now, lockRow, grants>>
        /\ rowLock[s] \in Columns
    BY <1>7 DEF Finish, Abort, LockInv, TypeOK
  <2> QED
    BY <2>1, OneServerMoves
<1>8. CASE UNCHANGED vars
  BY <1>8 DEF vars, LockInv, TypeOK, RowRecordsGrants, GrantsInThePast, CopiesOfTheRow,
     CheckedBeforeAcquire, RunnersWereGranted, GrantsSpaced, TooRecent, Clock
<1> QED
  BY <1>1, <1>2, <1>3, <1>4, <1>5, <1>6, <1>7, <1>8 DEF Next

\* The inductive invariant holds in every reachable state.
THEOREM LockInvariant == Spec => []LockInv
<1> QED
  BY LockInvInit, LockInvStep, PTL DEF Spec

\* Two grants in a row are an interval apart, less the disagreement of the
\* clocks: LockAndExecute runs fn at most once per interval.
THEOREM OncePerInterval == Spec => []GrantsSpaced
<1>1. LockInv => GrantsSpaced
  BY DEF LockInv
<1> QED
  BY <1>1, LockInvariant, PTL

\* Servers that run fn at the same time hold different versions of the row.
THEOREM HoldersDiffer == Spec => []OneHolderPerVersion
<1>1. LockInv => OneHolderPerVersion
  BY DEF LockInv, RunnersWereGranted, OneHolderPerVersion
<1> QED
  BY <1>1, LockInvariant, PTL
=============================================================================
