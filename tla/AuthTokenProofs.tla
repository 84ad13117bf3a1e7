--------------------------- MODULE AuthTokenProofs ---------------------------
(* Proofs about AuthToken for any number of requests, tokens and settings. *)
EXTENDS AuthToken, TLAPS

RequestRecords ==
  [pc : Pcs, kind : {"page", "logout"}, token : Nat,
   sent : Nat, model : Rows, setCookie : Nat \cup {Keep}]

\* The numbers of the settings, and the records a session begins with.
LEMMA Settings ==
  /\ RotationInterval \in Nat /\ UrgentRotateTime \in Nat /\ RotateGuard \in Nat
  /\ MaxInactive \in Nat /\ MaxLifetime \in Nat /\ MaxDuration \in Nat
  /\ LastTime \in Nat /\ MaxTokens \in Nat
  BY TokenAssumption

LEMMA EmptyRecords ==
  /\ NoRow \in Rows /\ NoRow.exists = FALSE /\ NoRow.auth = 0 /\ NoRow.prev = 0
  /\ NoRequest \in RequestRecords /\ NoRequest.pc = "idle"
  /\ NoRequest.token = 0 /\ NoRequest.setCookie = Keep
  BY DEF NoRow, NoRequest, Rows, RequestRecords, Pcs, NoToken, Keep

\* Only r moves, to a legal record.
LEMMA OneRequestMoves ==
  ASSUME TypeOK, NEW r \in Requests, NEW e \in RequestRecords,
         req' = [req EXCEPT ![r] = e]
  PROVE  /\ req' \in [Requests -> RequestRecords]
         /\ req'[r] = e
         /\ \A q \in Requests \ {r} : req'[q] = req[q]
  BY DEF TypeOK, RequestRecords

-----------------------------------------------------------------------------
(* What each step makes of its request and of the row, field by field.     *)

\* The other requests are not touched.
OthersKept(r) == \A q \in Requests \ {r} : req'[q] = req[q]

\* The types of the parts of the state, as the lemmas below use them.
LEMMA TypesOfParts ==
  ASSUME TypeOK, NEW r \in Requests
  PROVE  /\ req \in [Requests -> RequestRecords] /\ req[r] \in RequestRecords
         /\ req[r].model \in Rows /\ row \in Rows
         /\ now \in Nat /\ issued \in Nat /\ cookie \in Nat
  BY DEF TypeOK, RequestRecords

\* A step that only moves r on.
LEMMA Moves ==
  ASSUME TypeOK, NEW r \in Requests, NEW pc \in Pcs, req' = [req EXCEPT ![r].pc = pc]
  PROVE  /\ req' \in [Requests -> RequestRecords] /\ OthersKept(r)
         /\ req'[r].pc = pc /\ req'[r].setCookie = req[r].setCookie
         /\ req'[r].kind = req[r].kind /\ req'[r].token = req[r].token
         /\ req'[r].sent = req[r].sent /\ req'[r].model = req[r].model
<1>1. req \in [Requests -> RequestRecords] /\ req[r] \in RequestRecords
  BY TypesOfParts
<1> DEFINE e == [req[r] EXCEPT !.pc = pc]
<1>2. /\ e \in RequestRecords /\ e.pc = pc /\ e.setCookie = req[r].setCookie
      /\ e.kind = req[r].kind /\ e.token = req[r].token
      /\ e.sent = req[r].sent /\ e.model = req[r].model
  BY <1>1 DEF RequestRecords
<1>3. req' = [req EXCEPT ![r] = e]
  OBVIOUS
<1> HIDE DEF e
<1> QED
  BY <1>1, <1>2, <1>3, OneRequestMoves DEF OthersKept

\* A step that also has the cookie deleted.
LEMMA MovesAndDeletesCookie ==
  ASSUME TypeOK, NEW r \in Requests, NEW pc \in Pcs,
         req' = [req EXCEPT ![r].pc = pc, ![r].setCookie = NoToken]
  PROVE  /\ req' \in [Requests -> RequestRecords] /\ OthersKept(r)
         /\ req'[r].pc = pc /\ req'[r].setCookie = 0
         /\ req'[r].kind = req[r].kind /\ req'[r].token = req[r].token
         /\ req'[r].sent = req[r].sent /\ req'[r].model = req[r].model
<1>1. req \in [Requests -> RequestRecords] /\ req[r] \in RequestRecords
  BY TypesOfParts
<1> DEFINE e == [req[r] EXCEPT !.pc = pc, !.setCookie = NoToken]
<1>2. /\ e \in RequestRecords /\ e.pc = pc /\ e.setCookie = 0
      /\ e.kind = req[r].kind /\ e.token = req[r].token
      /\ e.sent = req[r].sent /\ e.model = req[r].model
  BY <1>1 DEF RequestRecords, NoToken
<1>3. req' = [req EXCEPT ![r] = e]
  BY <1>1 DEF RequestRecords
<1> HIDE DEF e
<1> QED
  BY <1>1, <1>2, <1>3, OneRequestMoves DEF OthersKept

\* A step that moves r on with another copy of the row.
LEMMA MovesWithModel ==
  ASSUME TypeOK, NEW r \in Requests, NEW pc \in Pcs, NEW model \in Rows,
         req' = [req EXCEPT ![r].pc = pc, ![r].model = model]
  PROVE  /\ req' \in [Requests -> RequestRecords] /\ OthersKept(r)
         /\ req'[r].pc = pc /\ req'[r].model = model
         /\ req'[r].kind = req[r].kind /\ req'[r].token = req[r].token
         /\ req'[r].sent = req[r].sent /\ req'[r].setCookie = req[r].setCookie
<1>1. req \in [Requests -> RequestRecords] /\ req[r] \in RequestRecords
  BY TypesOfParts
<1> DEFINE e == [req[r] EXCEPT !.pc = pc, !.model = model]
<1>2. /\ e \in RequestRecords /\ e.pc = pc /\ e.model = model
      /\ e.kind = req[r].kind /\ e.token = req[r].token
      /\ e.sent = req[r].sent /\ e.setCookie = req[r].setCookie
  BY <1>1 DEF RequestRecords
<1>3. req' = [req EXCEPT ![r] = e]
  BY <1>1 DEF RequestRecords
<1> HIDE DEF e
<1> QED
  BY <1>1, <1>2, <1>3, OneRequestMoves DEF OthersKept

\* A step that begins a request or ends it.
LEMMA Replaced ==
  ASSUME TypeOK, NEW r \in Requests, NEW e \in RequestRecords, req' = [req EXCEPT ![r] = e]
  PROVE  /\ req' \in [Requests -> RequestRecords] /\ OthersKept(r) /\ req'[r] = e
  BY OneRequestMoves DEF OthersKept

\* LookupToken: the row is copied, or the request is rejected.
LEMMA LookupEffect ==
  ASSUME TypeOK, NEW r \in Requests, Lookup(r)
  PROVE  /\ req' \in [Requests -> RequestRecords] /\ OthersKept(r)
         /\ req'[r].token = req[r].token /\ req'[r].sent = req[r].sent
         /\ UNCHANGED <<now, row, cookie, before, issued, active>>
         /\ req[r].pc = "lookup"
         /\ \/ /\ req'[r].pc = "respond" /\ req'[r].setCookie = NoToken
               /\ req'[r].model = req[r].model
            \/ /\ row.exists /\ req[r].token \in {row.auth, row.prev}
               /\ req'[r].model = row /\ req'[r].setCookie = req[r].setCookie
               /\ req'[r].pc \in {"unsee", "see", "work"}
               /\ req'[r].pc = "unsee" <=> PrevOfSeen(req[r].token, row)
               /\ req'[r].pc = "see" <=> FirstSeen(req[r].token, row)
<1>1. /\ req \in [Requests -> RequestRecords] /\ req[r] \in RequestRecords
      /\ row \in Rows /\ NoToken \in Nat
      /\ req[r].pc = "lookup"
      /\ UNCHANGED <<now, row, cookie, before, issued, active>>
  BY TypesOfParts DEF NoToken, Lookup
<1>2. CASE Reject(r)
  <2>1. req' = [req EXCEPT ![r].pc = "respond", ![r].setCookie = NoToken] /\ "respond" \in Pcs
    BY <1>2 DEF Reject, Pcs
  <2>2. /\ req' \in [Requests -> RequestRecords] /\ OthersKept(r)
        /\ req'[r].pc = "respond" /\ req'[r].setCookie = NoToken
        /\ req'[r].token = req[r].token /\ req'[r].sent = req[r].sent
        /\ req'[r].model = req[r].model
    BY <2>1, MovesAndDeletesCookie DEF NoToken
  <2> QED
    BY <1>1, <2>2
<1>3. CASE ~ Reject(r)
  <2> DEFINE pc == IF PrevOfSeen(req[r].token, row) THEN "unsee"
                   ELSE IF FirstSeen(req[r].token, row) THEN "see" ELSE "work"
  <2>1. /\ req' = [req EXCEPT ![r].pc = pc, ![r].model = row]
        /\ Matches(req[r].token)
    <3>1. /\ req' = [req EXCEPT ![r].model = row, ![r].pc = pc]
          /\ Matches(req[r].token)
      BY <1>3 DEF Lookup
    <3> HIDE DEF pc
    <3>2. [req EXCEPT ![r].model = row, ![r].pc = pc]
            = [req EXCEPT ![r].pc = pc, ![r].model = row]
      BY <1>1 DEF RequestRecords
    <3> QED
      BY <3>1, <3>2
  <2>2. /\ pc \in Pcs /\ pc \in {"unsee", "see", "work"}
        /\ pc = "unsee" <=> PrevOfSeen(req[r].token, row)
        /\ pc = "see" <=> FirstSeen(req[r].token, row)
    BY DEF Pcs, PrevOfSeen, FirstSeen
  <2> HIDE DEF pc
  <2>3. /\ req' \in [Requests -> RequestRecords] /\ OthersKept(r)
        /\ req'[r].pc = pc /\ req'[r].model = row
        /\ req'[r].token = req[r].token /\ req'[r].sent = req[r].sent
        /\ req'[r].setCookie = req[r].setCookie
    <3> DEFINE e == [req[r] EXCEPT !.pc = pc, !.model = row]
    <3>1. /\ e \in RequestRecords /\ e.pc = pc /\ e.model = row
          /\ e.token = req[r].token /\ e.sent = req[r].sent
          /\ e.setCookie = req[r].setCookie
      BY <1>1, <2>2 DEF RequestRecords
    <3>2. req' = [req EXCEPT ![r] = e]
      BY <1>1, <2>1 DEF RequestRecords
    <3> HIDE DEF e
    <3> QED
      BY <3>1, <3>2, Replaced
  <2> QED
    BY <1>1, <2>1, <2>2, <2>3 DEF Matches
<1> QED
  BY <1>2, <1>3

\* The first UPDATE of LookupToken.
LEMMA MarkUnseenEffect ==
  ASSUME TypeOK, NEW r \in Requests, MarkUnseen(r)
  PROVE  /\ req' \in [Requests -> RequestRecords] /\ OthersKept(r)
         /\ req'[r].token = req[r].token /\ req'[r].sent = req[r].sent
         /\ req'[r].setCookie = req[r].setCookie /\ req'[r].model = req[r].model
         /\ req[r].pc = "unsee" /\ req'[r].pc = "work"
         /\ UNCHANGED <<now, cookie, before, issued, active>>
         /\ row' \in Rows
         /\ \/ /\ row' = row
               /\ row.exists /\ row.prev = req[r].model.prev
                    => row.rotatedAt >= now - UrgentRotateTime
            \/ /\ row.exists /\ row.prev = req[r].model.prev
               /\ row.rotatedAt < now - UrgentRotateTime
               /\ row'.seen = FALSE /\ row'.exists = req[r].model.exists
               /\ row'.auth = req[r].model.auth /\ row'.prev = req[r].model.prev
               /\ row'.rotatedAt = req[r].model.rotatedAt
<1>1. /\ req[r].model \in Rows /\ row \in Rows /\ now \in Nat /\ req[r].pc = "unsee"
      /\ UNCHANGED <<now, cookie, before, issued, active>>
      /\ row.rotatedAt \in Nat
  BY TypesOfParts DEF MarkUnseen, Rows
<1>2. req' = [req EXCEPT ![r].pc = "work"] /\ "work" \in Pcs
  BY DEF MarkUnseen, Move, Pcs
<1>3. /\ req' \in [Requests -> RequestRecords] /\ OthersKept(r)
      /\ req'[r].token = req[r].token /\ req'[r].sent = req[r].sent
      /\ req'[r].setCookie = req[r].setCookie /\ req'[r].model = req[r].model
      /\ req'[r].pc = "work"
  BY <1>2, Moves
<1>4. CASE row.exists /\ row.prev = req[r].model.prev /\ row.rotatedAt < now - UrgentRotateTime
  <2>1. row' = [req[r].model EXCEPT !.seen = FALSE]
    BY <1>4 DEF MarkUnseen
  <2>2. /\ row' \in Rows /\ row'.seen = FALSE /\ row'.exists = req[r].model.exists
        /\ row'.auth = req[r].model.auth /\ row'.prev = req[r].model.prev
        /\ row'.rotatedAt = req[r].model.rotatedAt
    BY <1>1, <2>1 DEF Rows
  <2> QED
    BY <1>1, <1>3, <1>4, <2>2
<1>5. CASE ~ (row.exists /\ row.prev = req[r].model.prev
              /\ row.rotatedAt < now - UrgentRotateTime)
  <2>1. row' = row
    BY <1>5 DEF MarkUnseen
  <2> QED
    BY <1>1, <1>3, <1>5, <2>1, Settings
<1> QED
  BY <1>4, <1>5

\* The second one.
LEMMA MarkSeenEffect ==
  ASSUME TypeOK, NEW r \in Requests, MarkSeen(r)
  PROVE  /\ req' \in [Requests -> RequestRecords] /\ OthersKept(r)
         /\ req'[r].token = req[r].token /\ req'[r].sent = req[r].sent
         /\ req'[r].setCookie = req[r].setCookie
         /\ req'[r].model.auth = req[r].model.auth
         /\ req'[r].model.prev = req[r].model.prev
         /\ req'[r].model.rotatedAt = req[r].model.rotatedAt
         /\ req'[r].model.exists = req[r].model.exists
         /\ req[r].pc = "see" /\ req'[r].pc = "work"
         /\ UNCHANGED <<now, cookie, before, issued, active>>
         /\ row' \in Rows
         /\ \/ row' = row /\ ~ (row.exists /\ row.auth = req[r].model.auth)
            \/ /\ row.exists /\ row.auth = req[r].model.auth
               /\ row'.seen = TRUE /\ row'.exists = req[r].model.exists
               /\ row'.auth = req[r].model.auth /\ row'.prev = req[r].model.prev
               /\ row'.rotatedAt = req[r].model.rotatedAt
<1>1. /\ req[r].model \in Rows /\ row \in Rows /\ now \in Nat /\ req[r].pc = "see"
      /\ UNCHANGED <<now, cookie, before, issued, active>> /\ "work" \in Pcs
      /\ req[r].setCookie \in Nat \cup {Keep}
  BY TypesOfParts DEF MarkSeen, Pcs, RequestRecords
<1> DEFINE model == [req[r].model EXCEPT !.seen = TRUE, !.seenAt = now]
<1>2. /\ model \in Rows /\ model.seen = TRUE /\ model.exists = req[r].model.exists
      /\ model.auth = req[r].model.auth /\ model.prev = req[r].model.prev
      /\ model.rotatedAt = req[r].model.rotatedAt
  BY <1>1 DEF Rows
<1>3. IF row.exists /\ row.auth = model.auth
        THEN row' = model /\ req' = [req EXCEPT ![r].pc = "work", ![r].model = model]
        ELSE row' = row /\ req' = [req EXCEPT ![r].pc = "work"]
  BY DEF MarkSeen, Move
<1> HIDE DEF model
<1>4. CASE row.exists /\ row.auth = model.auth
  <2>1. /\ req' \in [Requests -> RequestRecords] /\ OthersKept(r)
        /\ req'[r].pc = "work" /\ req'[r].model = model
        /\ req'[r].token = req[r].token /\ req'[r].sent = req[r].sent
        /\ req'[r].setCookie = req[r].setCookie
    BY <1>1, <1>2, <1>3, <1>4, MovesWithModel
  <2> QED
    BY <1>1, <1>2, <1>3, <1>4, <2>1
<1>5. CASE ~ (row.exists /\ row.auth = model.auth)
  <2>1. /\ req' \in [Requests -> RequestRecords] /\ OthersKept(r)
        /\ req'[r].pc = "work" /\ req'[r].model = req[r].model
        /\ req'[r].token = req[r].token /\ req'[r].sent = req[r].sent
        /\ req'[r].setCookie = req[r].setCookie
    BY <1>1, <1>3, <1>5, Moves
  <2> QED
    BY <1>1, <1>2, <1>3, <1>5, <2>1
<1> QED
  BY <1>4, <1>5

\* The rotation at the end of a request.
LEMMA RotateEffect ==
  ASSUME TypeOK, NEW r \in Requests, Rotate(r)
  PROVE  /\ req' \in [Requests -> RequestRecords] /\ OthersKept(r)
         /\ req'[r].token = req[r].token /\ req'[r].sent = req[r].sent
         /\ req'[r].model = req[r].model
         /\ req[r].pc = "rotate" /\ req'[r].pc = "respond"
         /\ UNCHANGED <<now, cookie, before, active>>
         /\ row' \in Rows /\ issued' \in Nat
         /\ \/ /\ row' = row /\ issued' = issued
               /\ ~ (NeedsRotation(req[r].model) /\ MayRotate)
               /\ req'[r].setCookie = req[r].setCookie
            \/ /\ NeedsRotation(req[r].model) /\ MayRotate
               /\ issued' = issued + 1 /\ req'[r].setCookie = issued + 1
               /\ row'.exists = row.exists /\ row'.seen = FALSE
               /\ row'.auth = issued + 1
               /\ row'.prev = IF row.seen THEN row.auth ELSE row.prev
               /\ row'.rotatedAt = now
<1>1. /\ row \in Rows /\ now \in Nat /\ issued \in Nat /\ req[r].pc = "rotate"
      /\ UNCHANGED <<now, cookie, before, active>> /\ "respond" \in Pcs
      /\ req[r].setCookie \in Nat \cup {Keep} /\ issued + 1 \in Nat
  BY TypesOfParts DEF Rotate, Pcs, RequestRecords
<1>0. req \in [Requests -> RequestRecords] /\ req[r] \in RequestRecords
  BY TypesOfParts
<1>2. CASE NeedsRotation(req[r].model) /\ MayRotate
  <2>1. /\ row' = Rotated /\ issued' = issued + 1
        /\ req' = [req EXCEPT ![r].pc = "respond", ![r].setCookie = issued + 1]
    BY <1>2 DEF Rotate
  <2>2. /\ row' \in Rows /\ row'.exists = row.exists /\ row'.seen = FALSE
        /\ row'.auth = issued + 1
        /\ row'.prev = IF row.seen THEN row.auth ELSE row.prev
        /\ row'.rotatedAt = now
    <3>1. PICK prev \in Nat, auth \in Nat :
            /\ prev = (IF row.seen THEN row.auth ELSE row.prev) /\ auth = issued + 1
      BY <1>1 DEF Rows
    <3>2. row' = [row EXCEPT !.prev = prev, !.auth = auth, !.seen = FALSE, !.seenAt = 0,
                             !.rotatedAt = now]
      BY <2>1, <3>1 DEF Rotated
    <3>3. /\ row' \in Rows /\ row'.exists = row.exists /\ row'.seen = FALSE
          /\ row'.auth = auth /\ row'.prev = prev /\ row'.rotatedAt = now
      BY <1>1, <3>2 DEF Rows
    <3> QED
      BY <3>1, <3>3
  <2>3. /\ req' \in [Requests -> RequestRecords] /\ OthersKept(r)
        /\ req'[r].pc = "respond" /\ req'[r].setCookie = issued + 1
        /\ req'[r].token = req[r].token /\ req'[r].sent = req[r].sent
        /\ req'[r].model = req[r].model
    <3>1. PICK set \in Nat : set = issued + 1
      BY <1>1
    <3>2. req' = [req EXCEPT ![r].pc = "respond", ![r].setCookie = set]
      BY <2>1, <3>1
    <3> DEFINE e == [req[r] EXCEPT !.pc = "respond", !.setCookie = set]
    <3>3. /\ e \in RequestRecords /\ e.pc = "respond" /\ e.setCookie = set
          /\ e.token = req[r].token /\ e.sent = req[r].sent /\ e.model = req[r].model
      BY <1>0, <3>1, <1>1 DEF RequestRecords
    <3>4. req' = [req EXCEPT ![r] = e]
      BY <1>0, <3>2 DEF RequestRecords
    <3> HIDE DEF e
    <3> QED
      BY <3>1, <3>3, <3>4, Replaced
  <2> QED
    BY <1>1, <1>2, <2>1, <2>2, <2>3
<1>3. CASE ~ (NeedsRotation(req[r].model) /\ MayRotate)
  <2>1. row' = row /\ issued' = issued /\ req' = [req EXCEPT ![r].pc = "respond"]
    BY <1>3 DEF Rotate, Move
  <2>2. /\ req' \in [Requests -> RequestRecords] /\ OthersKept(r)
        /\ req'[r].pc = "respond" /\ req'[r].setCookie = req[r].setCookie
        /\ req'[r].token = req[r].token /\ req'[r].sent = req[r].sent
        /\ req'[r].model = req[r].model
    BY <1>1, <2>1, Moves
  <2> QED
    BY <1>1, <1>3, <2>1, <2>2
<1> QED
  BY <1>2, <1>3

-----------------------------------------------------------------------------
(* A session that is gone stays gone: whoever writes a row found one.      *)

\* No step but a login makes a row where there is none.
LEMMA NoRowFromNothing ==
  ASSUME TypeOK, [Next]_vars, issued > 0, ~ row.exists
  PROVE  ~ row'.exists
<1>1. CASE UNCHANGED vars
  BY <1>1 DEF vars
<1>2. CASE Tick \/ Restore \/ Cleanup \/ RevokeAll
  BY <1>2 DEF Tick, Restore, Cleanup, RevokeAll
<1>3. ASSUME NEW r \in Requests,
             Send(r) \/ Lookup(r) \/ LookupFails(r) \/ UserNotFound(r) \/ Work(r)
               \/ LogoutFails(r) \/ RotateFails(r) \/ Respond(r) \/ Cancel(r)
      PROVE  ~ row'.exists
  BY <1>3 DEF Send, Lookup, LookupFails, UserNotFound, Work, LogoutFails, RotateFails,
     Respond, Cancel
<1>4. ASSUME NEW r \in Requests, Login(r)
      PROVE  ~ row'.exists
  BY <1>4 DEF Login
<1>5. ASSUME NEW r \in Requests, MarkUnseen(r)
      PROVE  ~ row'.exists
  BY <1>5 DEF MarkUnseen
<1>6. ASSUME NEW r \in Requests, MarkSeen(r)
      PROVE  ~ row'.exists
  BY <1>6 DEF MarkSeen
<1>7. ASSUME NEW r \in Requests, Logout(r)
      PROVE  ~ row'.exists
  BY <1>7 DEF Logout, DeleteMatches
<1>8. ASSUME NEW r \in Requests, Rotate(r)
      PROVE  ~ row'.exists
  BY <1>8 DEF Rotate, MayRotate
<1> QED
  BY <1>1, <1>2, <1>3, <1>4, <1>5, <1>6, <1>7, <1>8 DEF Next

-----------------------------------------------------------------------------
(* What every state satisfies whatever the settings are: requests are not  *)
(* older than MaxDuration, tokens have numbers, and a request that has     *)
(* looked its token up has a copy of a row with that token.                *)

Active(r) == req[r].pc # "idle"

Looked(r) == req[r].pc \in {"unsee", "see", "work", "rotate"}

\* What is true of each request.
Sound(r) ==
  /\ Active(r) => req[r].sent <= now /\ now <= req[r].sent + MaxDuration
  /\ ~ Active(r) => req[r].token = 0 /\ req[r].setCookie = Keep
  /\ req[r].token <= issued /\ req[r].setCookie <= issued
  /\ req[r].setCookie > 0 => req[r].pc = "respond"
  /\ Looked(r) => /\ req[r].model.auth \in 1..issued
                  /\ req[r].model.prev \in 1..issued
                  /\ req[r].token \in {req[r].model.auth, req[r].model.prev}
  /\ req[r].pc = "see" => FirstSeen(req[r].token, req[r].model)
  /\ req[r].pc = "unsee" => PrevOfSeen(req[r].token, req[r].model)

\* What is true of the tokens in the table and in the browser.
Numbered ==
  /\ active <= now
  /\ cookie <= issued /\ before <= issued
  /\ row.auth <= issued /\ row.prev <= issued
  /\ row.exists => row.auth >= 1 /\ row.prev >= 1

\* Nothing happens before the login.
LoginFirst ==
  issued = 0 => /\ ~ row.exists /\ cookie = 0 /\ before = 0
                /\ \A r \in Requests : ~ Active(r)

BaseInv == TypeOK /\ Numbered /\ LoginFirst /\ \A r \in Requests : Sound(r)

\* The fields of a request and of the row are numbers.
LEMMA Numbers ==
  ASSUME TypeOK, NEW r \in Requests
  PROVE  /\ now \in Nat /\ issued \in Nat /\ cookie \in Nat /\ before \in Nat /\ active \in Nat
         /\ req[r].token \in Nat /\ req[r].sent \in Nat /\ req[r].setCookie \in Int
         /\ req[r].setCookie >= -1 /\ req[r].pc \in Pcs
         /\ req[r].model.auth \in Nat /\ req[r].model.prev \in Nat
         /\ req[r].model.rotatedAt \in Nat /\ req[r].model.seen \in BOOLEAN
         /\ row.auth \in Nat /\ row.prev \in Nat /\ row.rotatedAt \in Nat
         /\ row.seen \in BOOLEAN /\ row.exists \in BOOLEAN
<1>1. req[r] \in RequestRecords /\ row \in Rows
  BY TypesOfParts
<1>2. req[r].model \in Rows
  BY <1>1 DEF RequestRecords
<1> QED
  BY <1>1, <1>2 DEF TypeOK, RequestRecords, Rows, Keep

\* The requests that do not move stay sound.
LEMMA OthersStaySound ==
  ASSUME BaseInv, NEW r \in Requests, OthersKept(r), now' = now,
         issued' \in Nat, issued' >= issued
  PROVE  \A q \in Requests \ {r} : Sound(q)'
<1> SUFFICES ASSUME NEW q \in Requests \ {r}
             PROVE  Sound(q)'
  OBVIOUS
<1>1. req'[q] = req[q]
  BY DEF OthersKept
<1>2. Sound(q) /\ TypeOK
  BY DEF BaseInv
<1>3. /\ issued \in Nat /\ req[q].token \in Nat /\ req[q].setCookie \in Int
      /\ req[q].model.auth \in Nat /\ req[q].model.prev \in Nat
  BY <1>2, Numbers
<1> QED
  BY <1>1, <1>2, <1>3 DEF Sound, Active, Looked, FirstSeen, PrevOfSeen

\* The steps of a request that leave the browser and the numbering alone.
LEMMA QuietSteps ==
  ASSUME BaseInv, NEW r \in Requests, OthersKept(r),
         req' \in [Requests -> RequestRecords], row' \in Rows,
         UNCHANGED <<now, cookie, before, issued, active>>, issued > 0,
         row'.auth <= issued, row'.prev <= issued,
         row'.exists => row'.auth >= 1 /\ row'.prev >= 1,
         Sound(r)'
  PROVE  BaseInv'
<1>1. issued \in Nat /\ TypeOK /\ Numbered
  BY DEF BaseInv, TypeOK
<1>2. TypeOK'
  BY <1>1 DEF TypeOK, RequestRecords
<1>3. Numbered' /\ LoginFirst'
  BY <1>1 DEF Numbered, LoginFirst
<1>4. \A q \in Requests \ {r} : Sound(q)'
  BY <1>1, OthersStaySound
<1> QED
  BY <1>2, <1>3, <1>4 DEF BaseInv

\* A request is under way only after the login.
LEMMA AfterLogin ==
  ASSUME BaseInv, NEW r \in Requests, Active(r)
  PROVE  issued > 0 /\ issued \in Nat
  BY DEF BaseInv, LoginFirst, TypeOK

\* The end of a request, without any effect on the browser.
LEMMA EndIsSound ==
  ASSUME BaseInv, NEW r \in Requests, req' = [req EXCEPT ![r] = NoRequest],
         UNCHANGED <<now, row, cookie, before, issued, active>>, Active(r)
  PROVE  BaseInv'
<1>1. TypeOK /\ Numbered /\ issued > 0 /\ issued \in Nat
  BY AfterLogin DEF BaseInv
<1>2. /\ req' \in [Requests -> RequestRecords] /\ OthersKept(r) /\ req'[r] = NoRequest
      /\ row \in Rows
  BY <1>1, EmptyRecords, Replaced, TypesOfParts
<1>3. Sound(r)'
  BY <1>1, <1>2, EmptyRecords DEF Sound, Active, Looked, Keep
<1> QED
  BY <1>1, <1>2, <1>3, QuietSteps DEF Numbered

\* Send.
LEMMA SendIsSound ==
  ASSUME BaseInv, NEW r \in Requests, Send(r)
  PROVE  /\ BaseInv' /\ OthersKept(r) /\ req'[r].pc = "lookup"
         /\ req'[r].token = cookie /\ req'[r].setCookie = Keep /\ req'[r].sent = now
<1>1. /\ TypeOK /\ Numbered /\ issued > 0 /\ issued \in Nat /\ now \in Nat /\ cookie \in Nat
      /\ MaxDuration \in Nat /\ UNCHANGED <<now, row, cookie, before, issued, active>>
  BY Settings DEF BaseInv, LoginFirst, TypeOK, Send, NoToken
<1>2. PICK kind \in Kinds :
        req' = [req EXCEPT ![r] = [NoRequest EXCEPT !.pc = "lookup", !.kind = kind,
                                                    !.token = cookie, !.sent = now]]
  BY DEF Send
<1> DEFINE e == [NoRequest EXCEPT !.pc = "lookup", !.kind = kind, !.token = cookie, !.sent = now]
<1>3. /\ e \in RequestRecords /\ e.pc = "lookup" /\ e.token = cookie /\ e.sent = now
      /\ e.setCookie = Keep
  BY <1>1, EmptyRecords, TokenAssumption DEF RequestRecords, Pcs
<1>4. req' = [req EXCEPT ![r] = e]
  BY <1>2
<1> HIDE DEF e
<1>5. /\ req' \in [Requests -> RequestRecords] /\ OthersKept(r) /\ req'[r] = e /\ row \in Rows
  BY <1>1, <1>3, <1>4, Replaced, TypesOfParts
<1>6. Sound(r)'
  BY <1>1, <1>3, <1>5 DEF Sound, Active, Looked, Keep, Numbered
<1> QED
  BY <1>1, <1>3, <1>5, <1>6, QuietSteps DEF Numbered

\* Lookup.
LEMMA LookupIsSound ==
  ASSUME BaseInv, NEW r \in Requests, Lookup(r)
  PROVE  BaseInv'
<1>1. /\ TypeOK /\ Numbered /\ Sound(r)
  BY DEF BaseInv
<1>2. Active(r)
  BY DEF Active, Lookup
<1>3. issued > 0 /\ issued \in Nat
  BY <1>2, AfterLogin
<1>4. Sound(r)'
  BY <1>1, <1>2, <1>3, LookupEffect, Numbers
     DEF Sound, Active, Looked, Keep, Numbered, PrevOfSeen, FirstSeen, NoToken
<1>5. req' \in [Requests -> RequestRecords] /\ OthersKept(r) /\ row \in Rows
  BY <1>1, LookupEffect, TypesOfParts
<1> QED
  BY <1>1, <1>3, <1>4, <1>5, LookupEffect, QuietSteps DEF Numbered

\* MarkUnseen.
LEMMA MarkUnseenIsSound ==
  ASSUME BaseInv, NEW r \in Requests, MarkUnseen(r)
  PROVE  BaseInv'
<1>1. /\ TypeOK /\ Numbered /\ Sound(r)
  BY DEF BaseInv
<1>2. Active(r)
  BY DEF Active, MarkUnseen
<1>3. issued > 0 /\ issued \in Nat
  BY <1>2, AfterLogin
<1>4. Sound(r)'
  BY <1>1, <1>2, <1>3, MarkUnseenEffect, Numbers
     DEF Sound, Active, Looked, Keep, Numbered
<1>5. row'.auth <= issued /\ row'.prev <= issued
      /\ (row'.exists => row'.auth >= 1 /\ row'.prev >= 1)
  <2>1. /\ req[r].model.auth <= issued /\ req[r].model.auth >= 1
        /\ req[r].model.prev <= issued /\ req[r].model.prev >= 1
    <3>1. Looked(r)
      BY <1>1, MarkUnseenEffect DEF Looked
    <3>2. req[r].model.auth \in 1..issued /\ req[r].model.prev \in 1..issued
      BY <1>1, <3>1 DEF Sound
    <3> QED
      BY <1>3, <3>2
  <2>2. CASE row' = row
    BY <1>1, <2>2 DEF Numbered
  <2>3. CASE row' # row
    BY <1>1, <2>1, <2>3, MarkUnseenEffect
  <2> QED
    BY <2>2, <2>3
<1> QED
  BY <1>1, <1>3, <1>4, <1>5, MarkUnseenEffect, QuietSteps

\* MarkSeen.
LEMMA MarkSeenIsSound ==
  ASSUME BaseInv, NEW r \in Requests, MarkSeen(r)
  PROVE  BaseInv'
<1>1. /\ TypeOK /\ Numbered /\ Sound(r)
  BY DEF BaseInv
<1>2. Active(r)
  BY DEF Active, MarkSeen
<1>3. issued > 0 /\ issued \in Nat
  BY <1>2, AfterLogin
<1>4. Sound(r)'
  BY <1>1, <1>2, <1>3, MarkSeenEffect, Numbers
     DEF Sound, Active, Looked, Keep, Numbered
<1>5. row'.auth <= issued /\ row'.prev <= issued
      /\ (row'.exists => row'.auth >= 1 /\ row'.prev >= 1)
  <2>1. /\ req[r].model.auth <= issued /\ req[r].model.auth >= 1
        /\ req[r].model.prev <= issued /\ req[r].model.prev >= 1
    <3>1. Looked(r)
      BY <1>1, MarkSeenEffect DEF Looked
    <3>2. req[r].model.auth \in 1..issued /\ req[r].model.prev \in 1..issued
      BY <1>1, <3>1 DEF Sound
    <3> QED
      BY <1>3, <3>2
  <2>2. CASE row' = row
    BY <1>1, <2>2 DEF Numbered
  <2>3. CASE row' # row
    BY <1>1, <2>1, <2>3, MarkSeenEffect
  <2> QED
    BY <2>2, <2>3
<1> QED
  BY <1>1, <1>3, <1>4, <1>5, MarkSeenEffect, QuietSteps

\* The request goes on without the row: Work, the errors that cost the cookie, and the
\* one of a rotation.
LEMMA MovesOnIsSound ==
  ASSUME BaseInv, NEW r \in Requests,
         LookupFails(r) \/ Work(r) \/ LogoutFails(r) \/ RotateFails(r)
  PROVE  /\ BaseInv' /\ OthersKept(r) /\ UNCHANGED <<now, row, cookie, before, issued, active>>
         /\ req'[r].token = req[r].token /\ req'[r].sent = req[r].sent
         /\ req'[r].model = req[r].model /\ req[r].pc # "respond"
         /\ \/ /\ req[r].pc = "work" /\ req'[r].pc = "rotate"
               /\ req'[r].setCookie \in {req[r].setCookie, 0}
            \/ req'[r].pc = "respond" /\ req'[r].setCookie = 0
            \/ req'[r].pc = "unrotated" /\ req'[r].setCookie = req[r].setCookie
<1>1. /\ TypeOK /\ Numbered /\ Sound(r) /\ row \in Rows
      /\ "rotate" \in Pcs /\ "respond" \in Pcs /\ "unrotated" \in Pcs
      /\ UNCHANGED <<now, row, cookie, before, issued, active>>
  BY TypesOfParts DEF BaseInv, LookupFails, Work, LogoutFails, RotateFails, Pcs
<1>2. Active(r) /\ req[r].pc \in {"lookup", "unsee", "see", "work", "rotate"}
  BY DEF Active, LookupFails, Work, LogoutFails, RotateFails
<1>3. issued > 0 /\ issued \in Nat
  BY <1>2, AfterLogin
<1>4. /\ req' \in [Requests -> RequestRecords] /\ OthersKept(r)
      /\ req'[r].token = req[r].token /\ req'[r].sent = req[r].sent
      /\ req'[r].model = req[r].model
      /\ \/ /\ req[r].pc = "work" /\ req'[r].pc = "rotate"
            /\ req'[r].setCookie \in {req[r].setCookie, 0}
         \/ req'[r].pc = "respond" /\ req'[r].setCookie = 0
         \/ req'[r].pc = "unrotated" /\ req'[r].setCookie = req[r].setCookie
  <2>1. CASE LookupFails(r)
    <3>1. req' = [req EXCEPT ![r].pc = "respond", ![r].setCookie = NoToken]
      BY <2>1 DEF LookupFails, Reject
    <3> QED
      BY <1>1, <3>1, MovesAndDeletesCookie
  <2>2. CASE Work(r)
    <3>1. req' = [req EXCEPT ![r].pc = "rotate"] /\ req[r].pc = "work"
      BY <2>2 DEF Work, Move
    <3> QED
      BY <1>1, <3>1, Moves
  <2>3. CASE LogoutFails(r)
    <3>1. /\ req' = [req EXCEPT ![r].pc = "rotate", ![r].setCookie = NoToken]
          /\ req[r].pc = "work"
      BY <2>3 DEF LogoutFails
    <3> QED
      BY <1>1, <3>1, MovesAndDeletesCookie
  <2>4. CASE RotateFails(r)
    <3>1. req' = [req EXCEPT ![r].pc = "unrotated"]
      BY <2>4 DEF RotateFails, Move
    <3> QED
      BY <1>1, <3>1, Moves
  <2> QED
    BY <2>1, <2>2, <2>3, <2>4
<1>5. Sound(r)'
  BY <1>1, <1>2, <1>3, <1>4, Numbers DEF Sound, Active, Looked, Keep
<1>6. BaseInv'
  BY <1>1, <1>3, <1>4, <1>5, QuietSteps DEF Numbered
<1> QED
  BY <1>1, <1>2, <1>4, <1>6

\* Logout.
LEMMA LogoutIsSound ==
  ASSUME BaseInv, NEW r \in Requests, Logout(r)
  PROVE  /\ BaseInv' /\ OthersKept(r) /\ UNCHANGED <<now, cookie, before, issued, active>>
         /\ req'[r].token = req[r].token /\ req'[r].sent = req[r].sent
         /\ req'[r].model = req[r].model /\ req[r].pc = "work" /\ req'[r].pc = "rotate"
         /\ req'[r].setCookie = 0 /\ (row' = row \/ ~ row'.exists)
<1>1. /\ TypeOK /\ Numbered /\ Sound(r) /\ row \in Rows /\ "rotate" \in Pcs
      /\ UNCHANGED <<now, cookie, before, issued, active>>
      /\ req[r].pc = "work" /\ row' \in {row, NoRow}
  BY TypesOfParts DEF BaseInv, Logout, Pcs
<1>2. Active(r)
  BY <1>1 DEF Active
<1>3. issued > 0 /\ issued \in Nat
  BY <1>2, AfterLogin
<1>4. /\ req' \in [Requests -> RequestRecords] /\ OthersKept(r)
      /\ req'[r].token = req[r].token /\ req'[r].sent = req[r].sent
      /\ req'[r].model = req[r].model /\ req'[r].pc = "rotate" /\ req'[r].setCookie = 0
  <2>1. req' = [req EXCEPT ![r].pc = "rotate", ![r].setCookie = NoToken]
    BY DEF Logout
  <2> QED
    BY <1>1, <2>1, MovesAndDeletesCookie
<1>5. Sound(r)'
  BY <1>1, <1>2, <1>3, <1>4, Numbers DEF Sound, Active, Looked, Keep
<1>6. /\ row' \in Rows /\ row'.auth <= issued /\ row'.prev <= issued
      /\ row'.exists => row'.auth >= 1 /\ row'.prev >= 1
  BY <1>1, <1>3, EmptyRecords DEF Numbered
<1>7. BaseInv'
  BY <1>1, <1>3, <1>4, <1>5, <1>6, QuietSteps
<1> QED
  BY <1>1, <1>4, <1>7, EmptyRecords

\* Rotate.
LEMMA RotateIsSound ==
  ASSUME BaseInv, NEW r \in Requests, Rotate(r)
  PROVE  BaseInv'
<1>1. /\ TypeOK /\ Numbered /\ Sound(r)
  BY DEF BaseInv
<1>2. Active(r)
  BY DEF Active, Rotate
<1>3. issued > 0 /\ issued \in Nat
  BY <1>2, AfterLogin
<1>10. /\ req' \in [Requests -> RequestRecords] /\ OthersKept(r)
       /\ req'[r].token = req[r].token /\ req'[r].sent = req[r].sent
       /\ req'[r].pc = "respond" /\ UNCHANGED <<now, cookie, before, active>>
       /\ row' \in Rows /\ req[r].pc = "rotate"
  BY <1>1, RotateEffect
<1>12. req[r].setCookie <= 0 /\ req[r].setCookie \in Int
  BY <1>1, <1>10, Numbers DEF Sound
<1>11. \/ issued' = issued /\ row' = row /\ req'[r].setCookie = req[r].setCookie
       \/ /\ issued' = issued + 1 /\ req'[r].setCookie = issued + 1
          /\ row'.auth = issued + 1 /\ row'.prev \in {row.auth, row.prev}
          /\ row'.exists = row.exists
  BY <1>1, RotateEffect
<1>4. issued' \in Nat /\ issued' >= issued /\ issued' > 0
  BY <1>3, <1>11
<1>5. Sound(r)'
  <2>1. req[r].token \in Nat /\ req[r].token <= issued
    BY <1>1, Numbers DEF Sound
  <2>2. req'[r].token <= issued' /\ req'[r].setCookie <= issued'
    BY <1>3, <1>4, <1>10, <1>11, <1>12, <2>1
  <2> QED
    BY <1>1, <1>2, <1>10, <2>2 DEF Sound, Active, Looked, Keep
<1>6. \A q \in Requests \ {r} : Sound(q)'
  BY <1>1, <1>4, RotateEffect, OthersStaySound
<1>7. TypeOK'
  BY <1>1, RotateEffect DEF TypeOK, RequestRecords
<1>8. Numbered'
  <2>1. /\ row.auth \in Nat /\ row.prev \in Nat /\ cookie \in Nat /\ before \in Nat
    BY <1>1, Numbers
  <2> QED
    BY <1>1, <1>3, <1>10, <1>11, <2>1 DEF Numbered
<1> QED
  BY <1>4, <1>5, <1>6, <1>7, <1>8 DEF BaseInv, LoginFirst

\* What a response does to the browser.
LEMMA RespondEffect ==
  ASSUME TypeOK, NEW r \in Requests, Respond(r)
  PROVE  /\ req' \in [Requests -> RequestRecords] /\ OthersKept(r) /\ req'[r] = NoRequest
         /\ req[r].pc \in {"respond", "unrotated"} /\ UNCHANGED <<now, row, issued>>
         /\ cookie' = IF req[r].setCookie = Keep THEN cookie ELSE req[r].setCookie
         /\ before' \in {before, cookie}
         /\ active' = IF req[r].setCookie = 0 \/ req[r].pc = "unrotated" THEN active ELSE now
<1>1. req' = [req EXCEPT ![r] = NoRequest]
  BY DEF Respond
<1>2. req' \in [Requests -> RequestRecords] /\ OthersKept(r) /\ req'[r] = NoRequest
  BY <1>1, EmptyRecords, Replaced
<1> QED
  BY <1>2 DEF Respond, NoToken

\* Respond.
LEMMA RespondIsSound ==
  ASSUME BaseInv, NEW r \in Requests, Respond(r)
  PROVE  BaseInv'
<1>1. /\ TypeOK /\ Numbered /\ Sound(r)
  BY DEF BaseInv
<1>2. Active(r)
  BY DEF Active, Respond
<1>3. issued > 0 /\ issued \in Nat
  BY <1>2, AfterLogin
<1>4. Sound(r)'
  BY <1>1, <1>3, RespondEffect, EmptyRecords DEF Sound, Active, Looked, Keep
<1>5. \A q \in Requests \ {r} : Sound(q)'
  BY <1>1, <1>3, RespondEffect, OthersStaySound
<1>6. cookie' \in Nat /\ before' \in Nat /\ active' \in Nat
  BY <1>1, RespondEffect, Numbers DEF Keep
<1>7. TypeOK'
  BY <1>1, <1>6, RespondEffect DEF TypeOK, RequestRecords
<1>8. Numbered'
  BY <1>1, <1>3, RespondEffect, Numbers DEF Numbered, Sound, Keep
<1> QED
  BY <1>3, <1>4, <1>5, <1>7, <1>8, RespondEffect DEF BaseInv, LoginFirst

\* What a login makes.
LEMMA LoginEffect ==
  ASSUME BaseInv, NEW r \in Requests, Login(r)
  PROVE  /\ BaseInv' /\ OthersKept(r) /\ \A q \in Requests : ~ Active(q)
         /\ req'[r].pc = "respond" /\ req'[r].setCookie = 1 /\ req'[r].token = 0
         /\ req'[r].sent = now /\ now' = now /\ cookie' = 0 /\ active' = active
         /\ row'.auth = 1 /\ row'.prev = 1 /\ ~ row'.seen /\ row'.rotatedAt = now
         /\ issued = 0
<1>1. /\ TypeOK /\ Numbered /\ issued = 0 /\ issued' = 1 /\ now \in Nat /\ MaxDuration \in Nat
      /\ UNCHANGED <<now, cookie, before, active>>
      /\ cookie = 0 /\ before = 0 /\ \A q \in Requests : ~ Active(q)
  BY Settings DEF BaseInv, Login, LoginFirst, TypeOK
<1>2. /\ row' \in Rows /\ row'.auth = 1 /\ row'.prev = 1 /\ ~ row'.seen /\ row'.rotatedAt = now
  BY <1>1 DEF Login, Rows
<1> DEFINE e == [NoRequest EXCEPT !.pc = "respond", !.sent = now, !.setCookie = 1]
<1>3. /\ e \in RequestRecords /\ e.pc = "respond" /\ e.token = 0 /\ e.sent = now
      /\ e.setCookie = 1
  BY <1>1, EmptyRecords DEF RequestRecords, Pcs
<1>4. req' = [req EXCEPT ![r] = e]
  BY DEF Login
<1> HIDE DEF e
<1>5. /\ req' \in [Requests -> RequestRecords] /\ OthersKept(r) /\ req'[r] = e
  BY <1>1, <1>3, <1>4, Replaced
<1>6. Sound(r)'
  BY <1>1, <1>3, <1>5 DEF Sound, Active, Looked, Keep
<1>7. \A q \in Requests \ {r} : Sound(q)'
  BY <1>1, <1>5, OthersStaySound
<1>8. TypeOK'
  BY <1>1, <1>2, <1>5 DEF TypeOK, RequestRecords
<1>9. Numbered' /\ LoginFirst'
  BY <1>1, <1>2 DEF Numbered, LoginFirst
<1> QED
  BY <1>1, <1>2, <1>3, <1>5, <1>6, <1>7, <1>8, <1>9 DEF BaseInv

\* The steps of no request.
LEMMA TickIsSound ==
  ASSUME BaseInv, Tick \/ Restore \/ Cleanup \/ RevokeAll
  PROVE  BaseInv'
<1>1. TypeOK /\ Numbered /\ LoginFirst /\ \A r \in Requests : Sound(r)
  BY DEF BaseInv
<1>2. now \in Nat /\ issued \in Nat /\ active \in Nat /\ MaxDuration \in Nat
  BY <1>1, Settings DEF TypeOK
<1>3. CASE Tick
  <2>1. /\ now' = now + 1 /\ UNCHANGED <<row, cookie, before, req, issued, active>>
        /\ \A r \in Requests : req[r].pc # "idle" => now < req[r].sent + MaxDuration
    BY <1>3 DEF Tick
  <2>2. TypeOK' /\ Numbered' /\ LoginFirst'
    BY <1>1, <1>2, <2>1 DEF TypeOK, Numbered, LoginFirst, Active
  <2>3. ASSUME NEW r \in Requests
        PROVE  Sound(r)'
    <3>1. Sound(r) /\ req[r].sent \in Nat
      BY <1>1, Numbers
    <3>2. Active(r)' => req'[r].sent <= now' /\ now' <= req'[r].sent + MaxDuration
      BY <1>2, <2>1, <3>1 DEF Sound, Active
    <3> QED
      BY <2>1, <3>1, <3>2 DEF Sound, Active, Looked, FirstSeen, PrevOfSeen
  <2> QED
    BY <2>2, <2>3 DEF BaseInv
<1>4. CASE Restore
  <2>1. /\ cookie' = before /\ before' = 0 /\ UNCHANGED <<now, row, req, issued, active>>
        /\ cookie # 0
    BY <1>4 DEF Restore, NoToken
  <2>2. TypeOK' /\ Numbered' /\ LoginFirst'
    BY <1>1, <1>2, <2>1 DEF TypeOK, Numbered, LoginFirst, Active
  <2>3. \A r \in Requests : Sound(r)'
    BY <1>1, <2>1 DEF Sound, Active, Looked, FirstSeen, PrevOfSeen
  <2> QED
    BY <2>2, <2>3 DEF BaseInv
<1>5. CASE Cleanup \/ RevokeAll
  <2>1. row' = NoRow /\ UNCHANGED <<now, cookie, before, req, issued, active>>
    BY <1>5 DEF Cleanup, RevokeAll
  <2>2. TypeOK' /\ Numbered' /\ LoginFirst'
    BY <1>1, <1>2, <2>1, EmptyRecords DEF TypeOK, Numbered, LoginFirst, Active
  <2>3. \A r \in Requests : Sound(r)'
    BY <1>1, <2>1 DEF Sound, Active, Looked, FirstSeen, PrevOfSeen
  <2> QED
    BY <2>2, <2>3 DEF BaseInv
<1> QED
  BY <1>3, <1>4, <1>5

\* Initially.
LEMMA BaseInvInit == Init => BaseInv
<1> SUFFICES ASSUME Init
             PROVE  BaseInv
  OBVIOUS
<1>1. \A r \in Requests : req[r] = NoRequest
  BY DEF Init
<1>2. TypeOK
  BY EmptyRecords DEF Init, TypeOK, RequestRecords, NoToken
<1>3. Numbered /\ LoginFirst
  BY <1>1, EmptyRecords DEF Init, Numbered, LoginFirst, NoToken, Active
<1>4. \A r \in Requests : Sound(r)
  <2> SUFFICES ASSUME NEW r \in Requests
               PROVE  Sound(r)
    OBVIOUS
  <2>1. /\ req[r].pc = "idle" /\ req[r].token = 0 /\ req[r].setCookie = -1 /\ issued = 0
    BY <1>1, EmptyRecords DEF Init, Keep
  <2> QED
    BY <2>1 DEF Sound, Active, Looked, Keep
<1> QED
  BY <1>2, <1>3, <1>4 DEF BaseInv

\* Always.
LEMMA BaseInvNext == BaseInv /\ [Next]_vars => BaseInv'
<1> SUFFICES ASSUME BaseInv, [Next]_vars
             PROVE  BaseInv'
  OBVIOUS
<1>1. CASE UNCHANGED vars
  BY <1>1 DEF vars, BaseInv, TypeOK, Numbered, LoginFirst, Sound, Active, Looked,
              FirstSeen, PrevOfSeen
<1>2. CASE Tick \/ Restore \/ Cleanup \/ RevokeAll
  BY <1>2, TickIsSound
<1>3. ASSUME NEW r \in Requests, UserNotFound(r) \/ Cancel(r)
      PROVE  BaseInv'
  BY <1>3, EndIsSound DEF UserNotFound, Cancel, Active
<1>4. ASSUME NEW r \in Requests,
             LookupFails(r) \/ Work(r) \/ LogoutFails(r) \/ RotateFails(r)
      PROVE  BaseInv'
  BY <1>4, MovesOnIsSound
<1>5. ASSUME NEW r \in Requests,
             Login(r) \/ Send(r) \/ Lookup(r) \/ MarkUnseen(r) \/ MarkSeen(r)
               \/ Logout(r) \/ Rotate(r) \/ Respond(r)
      PROVE  BaseInv'
  BY <1>5, LoginEffect, SendIsSound, LookupIsSound, MarkUnseenIsSound, MarkSeenIsSound,
     LogoutIsSound, RotateIsSound, RespondIsSound
<1> QED
  BY <1>1, <1>2, <1>3, <1>4, <1>5 DEF Next

\* The types hold in every state.
THEOREM TypeCorrect == Spec => []TypeOK
<1>1. BaseInv => TypeOK
  BY DEF BaseInv
<1> QED
  BY <1>1, BaseInvInit, BaseInvNext, PTL DEF Spec

(***************************************************************************)
(* SessionsEndForGood: once the user logged in, a step that begins without *)
(* a row ends without one.  The steps that write all columns of a row do   *)
(* it by an UPDATE, which finds none.                                      *)
(***************************************************************************)
THEOREM EndedSessionsStayEnded == Spec => SessionsEndForGood
<1>1. BaseInv /\ [Next]_vars => [issued > 0 /\ ~ row.exists => ~ row'.exists]_vars
  BY NoRowFromNothing DEF BaseInv
<1> QED
  BY <1>1, BaseInvInit, BaseInvNext, PTL DEF Spec, SessionsEndForGood

-----------------------------------------------------------------------------
(* The cookie and the row.  The proofs need what the program's settings    *)
(* give: an unseen token is kept for 30 seconds, and rotated after a       *)
(* minute (UrgentRotateTime), a seen one after two at least (setting.go);  *)
(* and a response arrives within the 30 seconds.  With one minute between  *)
(* rotations the browser can be locked out: a browser that came back with  *)
(* the token before has it unseen and rotated while it still counts.       *)

Timing ==
  /\ MaxDuration <= RotateGuard
  /\ 2 * RotateGuard <= UrgentRotateTime
  /\ UrgentRotateTime + MaxDuration <= RotationInterval

\* A request's copy is the row, but for what the UPDATEs of LookupToken change,
\* or the row was rotated since the request was sent.
CopyOf(r) ==
  Looked(r) => \/ /\ req[r].model.auth = row.auth /\ req[r].model.prev = row.prev
                  /\ req[r].model.rotatedAt = row.rotatedAt
               \/ req[r].model.auth # row.auth /\ row.rotatedAt >= req[r].sent

\* A token on its way to the browser is the new one, which nobody knows yet.
OnTheWay ==
  \A r \in Requests : req[r].setCookie > 0 =>
    /\ req[r].setCookie = row.auth /\ req[r].sent <= row.rotatedAt /\ ~ row.seen
    /\ cookie # row.auth
    /\ \A q \in Requests : req[q].token # row.auth
    /\ \A q \in Requests \ {r} : req[q].setCookie # row.auth

\* The browser has the previous token: the new one is not used, and if it was, the
\* requests read that, and say so unless the rotation is recent.
ReadsThatItWasSeen(r) ==
  Looked(r) =>
    /\ req[r].pc # "see" /\ req[r].token = row.prev /\ req[r].model.auth = row.auth
    /\ req[r].model.seen
    /\ req[r].pc # "unsee" => row.rotatedAt + UrgentRotateTime >= req[r].sent

WentBack ==
  cookie = row.prev /\ row.prev # row.auth =>
    \A r \in Requests : /\ req[r].token # row.auth
                        /\ row.seen => ReadsThatItWasSeen(r)

\* The browser has the new token: requests with the previous one were sent before it
\* came, and those with the new one are having it seen.
FromBefore(r) ==
  Active(r) =>
    /\ req[r].token = row.prev => req[r].sent <= row.rotatedAt + MaxDuration
    /\ ~ row.seen /\ req[r].pc \in {"work", "rotate"} /\ req[r].model.auth = row.auth
         => req[r].token # row.auth

HasNew ==
  cookie = row.auth /\ row.prev # row.auth => \A r \in Requests : FromBefore(r)

\* A page that is answered was sent before the row's rotation was due, or its rotation
\* failed.
Renewed(r) ==
  req[r].pc = "respond" /\ req[r].setCookie # 0 => req[r].sent <= row.rotatedAt + Latency

RowInv ==
  /\ cookie # 0 => cookie \in {row.auth, row.prev}
  /\ \A r \in Requests : CopyOf(r)
  /\ OnTheWay
  /\ WentBack
  /\ HasNew
  /\ \A r \in Requests : Renewed(r)
  /\ active <= row.rotatedAt + Latency + MaxDuration

SessionInv == BaseInv /\ (row.exists => RowInv)

\* The longer of the two intervals, in numbers.
LEMMA LatencyBounds ==
  ASSUME Timing
  PROVE  /\ Latency \in Nat /\ RotationInterval \in Nat /\ UrgentRotateTime \in Nat
         /\ RotateGuard \in Nat /\ MaxDuration \in Nat
         /\ RotationInterval <= Latency /\ UrgentRotateTime <= Latency
         /\ RotateGuard <= Latency /\ 2 * MaxDuration <= UrgentRotateTime
         /\ MaxDuration <= RotateGuard /\ UrgentRotateTime + MaxDuration <= RotationInterval
         /\ MaxInactive \in Nat
  BY Settings DEF Timing, Latency

\* What the invariant says of one request, in numbers.
LEMMA BaseFacts ==
  ASSUME BaseInv, NEW r \in Requests
  PROVE  /\ TypeOK /\ Sound(r)
         /\ now \in Nat /\ issued \in Nat /\ cookie \in Nat /\ active \in Nat /\ active <= now
         /\ cookie <= issued /\ row.auth <= issued /\ row.prev <= issued
         /\ row.exists => row.auth >= 1 /\ row.prev >= 1
         /\ req[r].token \in Nat /\ req[r].sent \in Nat /\ req[r].setCookie \in Int
         /\ req[r].setCookie >= -1 /\ req[r].token <= issued /\ req[r].setCookie <= issued
         /\ req[r].model.auth \in Nat /\ req[r].model.prev \in Nat
         /\ req[r].model.rotatedAt \in Nat /\ req[r].model.seen \in BOOLEAN
         /\ row.auth \in Nat /\ row.prev \in Nat /\ row.rotatedAt \in Nat
         /\ row.seen \in BOOLEAN /\ row.exists \in BOOLEAN
<1>1. TypeOK /\ Sound(r) /\ Numbered
  BY DEF BaseInv
<1> QED
  BY <1>1, Numbers DEF Sound, Numbered

\* A step of one request that leaves the cookie and the row's tokens alone.
LEMMA RowInvOneMoves ==
  ASSUME BaseInv, BaseInv', RowInv, row.exists, NEW r \in Requests, OthersKept(r),
         UNCHANGED <<now, row, cookie, issued, active>>,
         req'[r].setCookie \in {-1, 0},
         req'[r].token = row.auth => req[r].token = row.auth \/ cookie = row.auth,
         CopyOf(r)',
         cookie = row.prev /\ row.prev # row.auth /\ row.seen => ReadsThatItWasSeen(r)',
         cookie = row.auth /\ row.prev # row.auth => FromBefore(r)',
         Renewed(r)'
  PROVE  RowInv'
<1>1. \A q \in Requests : q # r => req'[q] = req[q]
  BY DEF OthersKept
<1>2. \A q \in Requests : CopyOf(q)'
  BY <1>1 DEF RowInv, CopyOf, Looked
<1>3. OnTheWay'
  <2> SUFFICES ASSUME NEW q \in Requests, req'[q].setCookie > 0
               PROVE  /\ req'[q].setCookie = row.auth /\ req'[q].sent <= row.rotatedAt
                      /\ ~ row.seen /\ cookie # row.auth
                      /\ \A p \in Requests : req'[p].token # row.auth
                      /\ \A p \in Requests \ {q} : req'[p].setCookie # row.auth
    BY DEF OnTheWay
  <2>1. q # r
    OBVIOUS
  <2>2. /\ req[q].setCookie = row.auth /\ req[q].sent <= row.rotatedAt
        /\ ~ row.seen /\ cookie # row.auth
        /\ \A p \in Requests : req[p].token # row.auth
        /\ \A p \in Requests \ {q} : req[p].setCookie # row.auth
    BY <1>1, <2>1 DEF RowInv, OnTheWay
  <2>3. \A p \in Requests : req'[p].token # row.auth
    BY <1>1, <2>2
  <2>4. row.auth \in Nat /\ row.auth >= 1
    BY BaseFacts
  <2>5. \A p \in Requests \ {q} : req'[p].setCookie # row.auth
    BY <1>1, <2>2, <2>4
  <2> QED
    BY <1>1, <2>1, <2>2, <2>3, <2>5
<1>4. WentBack'
  <2> SUFFICES ASSUME cookie = row.prev, row.prev # row.auth, NEW q \in Requests
               PROVE  req'[q].token # row.auth /\ (row.seen => ReadsThatItWasSeen(q)')
    BY DEF WentBack
  <2>1. req[q].token # row.auth /\ (row.seen => ReadsThatItWasSeen(q))
    BY DEF RowInv, WentBack
  <2>2. CASE q = r
    BY <2>1, <2>2
  <2>3. CASE q # r
    BY <1>1, <2>1, <2>3 DEF ReadsThatItWasSeen, Looked
  <2> QED
    BY <2>2, <2>3
<1>5. HasNew'
  <2> SUFFICES ASSUME cookie = row.auth, row.prev # row.auth, NEW q \in Requests
               PROVE  FromBefore(q)'
    BY DEF HasNew
  <2>1. FromBefore(q)
    BY DEF RowInv, HasNew
  <2>2. CASE q = r
    BY <2>1, <2>2
  <2>3. CASE q # r
    BY <1>1, <2>1, <2>3 DEF FromBefore, Active
  <2> QED
    BY <2>2, <2>3
<1>6. \A q \in Requests : Renewed(q)'
  BY <1>1 DEF RowInv, Renewed
<1> QED
  BY <1>2, <1>3, <1>4, <1>5, <1>6 DEF RowInv

\* The end of a request.
LEMMA EndKeeps ==
  ASSUME BaseInv, BaseInv', RowInv, row.exists, NEW r \in Requests, OthersKept(r),
         req'[r] = NoRequest, UNCHANGED <<now, row, cookie, issued, active>>
  PROVE  RowInv'
<1>1. /\ req'[r].pc = "idle" /\ req'[r].token = 0 /\ req'[r].setCookie = -1
  BY EmptyRecords DEF Keep
<1>2. row.auth >= 1
  BY BaseFacts
<1> QED
  BY <1>1, <1>2, RowInvOneMoves
     DEF CopyOf, ReadsThatItWasSeen, FromBefore, Renewed, Looked, Active

\* Send: nothing was read yet.
LEMMA SendKeeps ==
  ASSUME BaseInv, BaseInv', RowInv, row.exists, NEW r \in Requests, Send(r)
  PROVE  RowInv'
<1>1. /\ OthersKept(r) /\ req'[r].pc = "lookup" /\ req'[r].token = cookie
      /\ req'[r].setCookie = -1 /\ UNCHANGED <<now, row, cookie, issued, active>>
  BY SendIsSound DEF Send, Keep
<1>2. CopyOf(r)' /\ ReadsThatItWasSeen(r)' /\ Renewed(r)'
  BY <1>1 DEF CopyOf, ReadsThatItWasSeen, Renewed, Looked
<1>3. cookie = row.auth /\ row.prev # row.auth => FromBefore(r)'
  BY <1>1 DEF FromBefore
<1> QED
  BY <1>1, <1>2, <1>3, RowInvOneMoves

\* Lookup: the copy is the row.
LEMMA LookupKeeps ==
  ASSUME BaseInv, BaseInv', RowInv, row.exists, NEW r \in Requests, Lookup(r)
  PROVE  RowInv'
<1>1. TypeOK /\ Sound(r)
  BY DEF BaseInv
<1>2. /\ OthersKept(r) /\ req'[r].token = req[r].token /\ req'[r].sent = req[r].sent
      /\ UNCHANGED <<now, row, cookie, issued, active>> /\ req[r].pc = "lookup"
  BY <1>1, LookupEffect
<1>3. CASE req'[r].pc = "respond" /\ req'[r].setCookie = 0
  <2>1. CopyOf(r)' /\ ReadsThatItWasSeen(r)' /\ Renewed(r)'
    BY <1>3 DEF CopyOf, ReadsThatItWasSeen, Renewed, Looked
  <2>2. cookie = row.auth /\ row.prev # row.auth => FromBefore(r)'
    BY <1>2, <1>3 DEF RowInv, HasNew, FromBefore, Active
  <2> QED
    BY <1>2, <1>3, <2>1, <2>2, RowInvOneMoves
<1>4. CASE /\ req'[r].model = row /\ req'[r].setCookie = req[r].setCookie
           /\ req[r].token \in {row.auth, row.prev}
           /\ req'[r].pc \in {"unsee", "see", "work"}
           /\ req'[r].pc = "unsee" <=> PrevOfSeen(req[r].token, row)
           /\ req'[r].pc = "see" <=> FirstSeen(req[r].token, row)
  <2>1. CopyOf(r)' /\ Renewed(r)'
    BY <1>2, <1>4 DEF CopyOf, Renewed
  <2>2. req'[r].setCookie \in {-1, 0}
    BY <1>1, <1>2, <1>4, BaseFacts DEF Sound
  <2>3. cookie = row.prev /\ row.prev # row.auth /\ row.seen => ReadsThatItWasSeen(r)'
    BY <1>2, <1>4 DEF RowInv, WentBack, ReadsThatItWasSeen, PrevOfSeen, FirstSeen
  <2>4. cookie = row.auth /\ row.prev # row.auth => FromBefore(r)'
    BY <1>2, <1>4 DEF RowInv, HasNew, FromBefore, Active, PrevOfSeen, FirstSeen
  <2> QED
    BY <1>2, <2>1, <2>2, <2>3, <2>4, RowInvOneMoves
<1> QED
  BY <1>1, <1>3, <1>4, LookupEffect DEF NoToken

\* Work, the errors that cost the cookie, and the one of a rotation.
LEMMA MovingOnKeeps ==
  ASSUME BaseInv, BaseInv', RowInv, row.exists, NEW r \in Requests, OthersKept(r),
         UNCHANGED <<now, row, cookie, issued, active>>,
         req'[r].token = req[r].token, req'[r].sent = req[r].sent,
         req'[r].model = req[r].model, req[r].pc # "respond", Active(r),
         \/ /\ req[r].pc = "work" /\ req'[r].pc = "rotate"
            /\ req'[r].setCookie \in {req[r].setCookie, 0}
         \/ req'[r].pc = "respond" /\ req'[r].setCookie = 0
         \/ req'[r].pc = "unrotated" /\ req'[r].setCookie = req[r].setCookie
  PROVE  RowInv'
<1>1. Sound(r) /\ req[r].setCookie \in Int /\ req[r].setCookie >= -1
  BY BaseFacts
<1>2. req'[r].setCookie \in {-1, 0}
  BY <1>1 DEF Sound
<1>3. CopyOf(r)' /\ Renewed(r)'
  BY DEF RowInv, CopyOf, Renewed, Looked
<1>4. cookie = row.prev /\ row.prev # row.auth /\ row.seen => ReadsThatItWasSeen(r)'
  BY DEF RowInv, WentBack, ReadsThatItWasSeen, Looked
<1>5. cookie = row.auth /\ row.prev # row.auth => FromBefore(r)'
  BY DEF RowInv, HasNew, FromBefore, Active
<1> QED
  BY <1>2, <1>3, <1>4, <1>5, RowInvOneMoves

\* MarkUnseen: what it writes back is what it found, for the row was not rotated since;
\* and it writes only for a browser that has the previous token.
LEMMA MarkUnseenKeeps ==
  ASSUME Timing, BaseInv, BaseInv', RowInv, row.exists, NEW r \in Requests, MarkUnseen(r)
  PROVE  RowInv'
<1>1. /\ TypeOK /\ Sound(r) /\ CopyOf(r) /\ Active(r) /\ Looked(r)
  BY DEF BaseInv, RowInv, MarkUnseen, Active, Looked
<1>2. /\ req[r].token # req[r].model.auth /\ req[r].token = req[r].model.prev
      /\ req[r].setCookie \in {-1, 0} /\ req[r].pc = "unsee"
      /\ req[r].sent <= now /\ now <= req[r].sent + MaxDuration
  BY <1>1, BaseFacts DEF Sound, PrevOfSeen, MarkUnseen
<1>3. /\ OthersKept(r) /\ req'[r].token = req[r].token /\ req'[r].sent = req[r].sent
      /\ req'[r].setCookie = req[r].setCookie /\ req'[r].model = req[r].model
      /\ req'[r].pc = "work" /\ UNCHANGED <<now, cookie, issued, active>>
  BY <1>1, MarkUnseenEffect
<1>4. /\ now \in Nat /\ req[r].sent \in Nat /\ row.rotatedAt \in Nat
      /\ MaxDuration \in Nat /\ UrgentRotateTime \in Nat /\ 2 * MaxDuration <= UrgentRotateTime
  BY BaseFacts, LatencyBounds
<1>5. CASE /\ row' = row
           /\ row.prev = req[r].model.prev => row.rotatedAt >= now - UrgentRotateTime
  <2>1. CopyOf(r)' /\ Renewed(r)'
    BY <1>1, <1>3, <1>5 DEF CopyOf, Renewed, Looked
  <2>2. cookie = row.prev /\ row.prev # row.auth /\ row.seen => ReadsThatItWasSeen(r)'
    <3> SUFFICES ASSUME cookie = row.prev, row.prev # row.auth, row.seen
                 PROVE  ReadsThatItWasSeen(r)'
      OBVIOUS
    <3>1. req[r].token = row.prev /\ req[r].model.auth = row.auth /\ req[r].model.seen
      BY <1>1 DEF RowInv, WentBack, ReadsThatItWasSeen
    <3>2. row.rotatedAt + UrgentRotateTime >= req[r].sent
      BY <1>2, <1>4, <1>5, <3>1
    <3> QED
      BY <1>3, <1>5, <3>1, <3>2 DEF ReadsThatItWasSeen
  <2>3. cookie = row.auth /\ row.prev # row.auth => FromBefore(r)'
    BY <1>1, <1>2, <1>3, <1>5 DEF RowInv, HasNew, FromBefore, Active
  <2> QED
    BY <1>2, <1>3, <1>5, <2>1, <2>2, <2>3, RowInvOneMoves
<1>6. CASE /\ row.prev = req[r].model.prev
           /\ row.rotatedAt < now - UrgentRotateTime
           /\ row'.seen = FALSE
           /\ row'.auth = req[r].model.auth /\ row'.prev = req[r].model.prev
           /\ row'.rotatedAt = req[r].model.rotatedAt
  <2>1. row.rotatedAt + MaxDuration < req[r].sent
    BY <1>2, <1>4, <1>6
  <2>2. row'.auth = row.auth /\ row'.prev = row.prev /\ row'.rotatedAt = row.rotatedAt
        /\ req[r].token = row.prev /\ row.prev # row.auth
    BY <1>1, <1>2, <1>4, <1>6, <2>1 DEF CopyOf
  <2>3. cookie # row.auth
    BY <1>1, <1>4, <2>1, <2>2 DEF RowInv, HasNew, FromBefore
  <2>4. \A q \in Requests : q # r => req'[q] = req[q]
    BY <1>3 DEF OthersKept
  <2>5. \A q \in Requests : /\ req'[q].token = req[q].token /\ req'[q].sent = req[q].sent
                            /\ req'[q].setCookie = req[q].setCookie
    BY <1>3, <2>4
  <2>6. \A q \in Requests : CopyOf(q)' /\ Renewed(q)'
    BY <1>1, <1>3, <2>2, <2>4 DEF RowInv, CopyOf, Renewed, Looked
  <2>7. OnTheWay'
    BY <1>3, <1>6, <2>2, <2>5 DEF RowInv, OnTheWay
  <2>8. WentBack'
    BY <1>3, <1>6, <2>2, <2>5 DEF RowInv, WentBack
  <2>9. HasNew'
    BY <1>3, <2>2, <2>3 DEF HasNew
  <2> QED
    BY <1>3, <2>2, <2>6, <2>7, <2>8, <2>9 DEF RowInv
<1> QED
  BY <1>1, <1>5, <1>6, MarkUnseenEffect

\* MarkSeen: the new token arrived, none is on its way.
LEMMA MarkSeenKeeps ==
  ASSUME Timing, BaseInv, BaseInv', RowInv, row.exists, NEW r \in Requests, MarkSeen(r)
  PROVE  RowInv'
<1>1. /\ TypeOK /\ Sound(r) /\ CopyOf(r) /\ Active(r) /\ Looked(r)
  BY DEF BaseInv, RowInv, MarkSeen, Active, Looked
<1>2. /\ req[r].token = req[r].model.auth /\ req[r].setCookie \in {-1, 0}
      /\ req[r].pc = "see"
  BY <1>1, BaseFacts DEF Sound, FirstSeen, MarkSeen
<1>3. /\ OthersKept(r) /\ req'[r].token = req[r].token /\ req'[r].sent = req[r].sent
      /\ req'[r].setCookie = req[r].setCookie
      /\ req'[r].model.auth = req[r].model.auth /\ req'[r].model.prev = req[r].model.prev
      /\ req'[r].model.rotatedAt = req[r].model.rotatedAt
      /\ req'[r].pc = "work" /\ UNCHANGED <<now, cookie, issued, active>>
  BY <1>1, MarkSeenEffect
<1>4. CASE row' = row /\ row.auth # req[r].model.auth
  <2>1. CopyOf(r)' /\ Renewed(r)'
    BY <1>1, <1>3, <1>4 DEF CopyOf, Renewed, Looked
  <2>2. ~ (cookie = row.prev /\ row.prev # row.auth /\ row.seen)
    BY <1>1, <1>2 DEF RowInv, WentBack, ReadsThatItWasSeen
  <2>3. cookie = row.auth /\ row.prev # row.auth => FromBefore(r)'
    BY <1>1, <1>2, <1>3, <1>4 DEF RowInv, HasNew, FromBefore, Active
  <2> QED
    BY <1>2, <1>3, <1>4, <2>1, <2>2, <2>3, RowInvOneMoves
<1>5. CASE /\ row.auth = req[r].model.auth /\ row'.seen = TRUE
           /\ row'.auth = req[r].model.auth /\ row'.prev = req[r].model.prev
           /\ row'.rotatedAt = req[r].model.rotatedAt
  <2>1. row'.auth = row.auth /\ row'.prev = row.prev /\ row'.rotatedAt = row.rotatedAt
        /\ req[r].token = row.auth
    BY <1>1, <1>2, <1>5 DEF CopyOf
  <2>2. ~ (cookie = row.prev /\ row.prev # row.auth)
    BY <2>1 DEF RowInv, WentBack
  <2>4. \A q \in Requests : q # r => req'[q] = req[q]
    BY <1>3 DEF OthersKept
  <2>5. \A q \in Requests : /\ req'[q].token = req[q].token /\ req'[q].sent = req[q].sent
                            /\ req'[q].setCookie = req[q].setCookie
    BY <1>3, <2>4
  <2>6. \A q \in Requests : CopyOf(q)' /\ Renewed(q)'
    BY <1>1, <1>3, <2>1, <2>4 DEF RowInv, CopyOf, Renewed, Looked
  <2>7. OnTheWay'
    BY <2>1, <2>5 DEF RowInv, OnTheWay
  <2>8. WentBack'
    BY <1>3, <2>1, <2>2 DEF WentBack
  <2>9. HasNew'
    <3>1. \A q \in Requests : Active(q)' <=> Active(q)
      BY <1>1, <1>3, <2>4 DEF Active
    <3> QED
      BY <1>3, <1>5, <2>1, <2>5, <3>1 DEF RowInv, HasNew, FromBefore
  <2> QED
    BY <1>3, <2>1, <2>6, <2>7, <2>8, <2>9 DEF RowInv
<1> QED
  BY <1>1, <1>4, <1>5, MarkSeenEffect

\* A request that rotates nothing was sent before the next rotation was due.
LEMMA NoRotationKeeps ==
  ASSUME Timing, BaseInv, BaseInv', RowInv, row.exists, NEW r \in Requests,
         OthersKept(r), UNCHANGED <<now, row, cookie, issued, active>>,
         req'[r].token = req[r].token, req'[r].sent = req[r].sent,
         req[r].pc = "rotate", req'[r].pc = "respond",
         req'[r].setCookie = req[r].setCookie,
         ~ (NeedsRotation(req[r].model) /\ MayRotate)
  PROVE  RowInv'
<1>1. /\ TypeOK /\ Sound(r) /\ CopyOf(r) /\ Active(r) /\ Looked(r)
  BY DEF BaseInv, RowInv, Active, Looked
<1>2. /\ req[r].setCookie \in {-1, 0} /\ req[r].sent <= now
      /\ now \in Nat /\ req[r].sent \in Nat /\ row.rotatedAt \in Nat
  BY <1>1, BaseFacts DEF Sound
<1>3. req[r].sent <= row.rotatedAt + Latency
  <2>1. CASE ~ MayRotate
    BY <1>2, <2>1, LatencyBounds DEF MayRotate
  <2>2. CASE ~ NeedsRotation(req[r].model)
    <3>1. req[r].model.rotatedAt \in Nat /\ now <= req[r].model.rotatedAt + Latency
      BY <1>2, <2>2, LatencyBounds, BaseFacts DEF NeedsRotation
    <3> QED
      BY <1>1, <1>2, <3>1, LatencyBounds DEF CopyOf
  <2> QED
    BY <2>1, <2>2
<1>4. CopyOf(r)' /\ ReadsThatItWasSeen(r)' /\ Renewed(r)'
  BY <1>3 DEF CopyOf, ReadsThatItWasSeen, Renewed, Looked
<1>5. cookie = row.auth /\ row.prev # row.auth => FromBefore(r)'
  BY <1>1 DEF RowInv, HasNew, FromBefore, Active
<1> QED
  BY <1>2, <1>4, <1>5, RowInvOneMoves

\* When a token is rotated no other is on its way.
LEMMA NoneOnTheWay ==
  ASSUME Timing, BaseInv, RowInv, row.exists, MayRotate, NEW r \in Requests
  PROVE  req[r].setCookie <= 0
<1> SUFFICES ASSUME req[r].setCookie > 0
             PROVE  FALSE
  BY BaseFacts
<1>1. /\ Sound(r) /\ req[r].sent <= row.rotatedAt /\ ~ row.seen
  BY DEF BaseInv, RowInv, OnTheWay
<1>2. Active(r)
  BY <1>1 DEF Sound, Active
<1>3. now <= req[r].sent + MaxDuration /\ row.rotatedAt < now - RotateGuard
  BY <1>1, <1>2 DEF Sound, MayRotate
<1> QED
  BY <1>1, <1>3, BaseFacts, LatencyBounds

\* When a token is rotated the browser's cookie is the one that becomes the previous one.
LEMMA CookieBecomesPrev ==
  ASSUME Timing, BaseInv, RowInv, row.exists, NEW r \in Requests, req[r].pc = "rotate",
         NeedsRotation(req[r].model), MayRotate, cookie # 0
  PROVE  cookie = IF row.seen THEN row.auth ELSE row.prev
<1>1. /\ Sound(r) /\ CopyOf(r) /\ Active(r) /\ Looked(r)
  BY DEF BaseInv, RowInv, Active, Looked
<1>2. /\ req[r].sent <= now /\ now <= req[r].sent + MaxDuration
      /\ now \in Nat /\ req[r].sent \in Nat /\ row.rotatedAt \in Nat
      /\ req[r].model.rotatedAt \in Nat
  BY <1>1, BaseFacts DEF Sound
<1>3. CASE row.seen
  <2> SUFFICES ASSUME cookie # row.auth
               PROVE  FALSE
    BY <1>3
  <2>1. cookie = row.prev /\ row.prev # row.auth
    BY DEF RowInv
  <2>2. /\ req[r].model.auth = row.auth /\ req[r].token = row.prev /\ req[r].model.seen
        /\ row.rotatedAt + UrgentRotateTime >= req[r].sent
    BY <1>1, <1>3, <2>1 DEF RowInv, WentBack, ReadsThatItWasSeen
  <2>3. req[r].model.rotatedAt = row.rotatedAt
    BY <1>1, <2>2 DEF CopyOf
  <2>4. req[r].model.rotatedAt < now - RotationInterval
    BY <2>2 DEF NeedsRotation
  <2> QED
    BY <1>2, <2>2, <2>3, <2>4, LatencyBounds
<1>4. CASE ~ row.seen
  <2> SUFFICES ASSUME cookie # row.prev
               PROVE  FALSE
    BY <1>4
  <2>1. cookie = row.auth /\ row.prev # row.auth
    BY DEF RowInv
  <2>2. FromBefore(r)
    BY <2>1 DEF RowInv, HasNew
  <2>3. row.rotatedAt < req[r].sent
    BY <1>2, <1>4, LatencyBounds DEF MayRotate
  <2>4. /\ req[r].model.auth = row.auth /\ req[r].model.prev = row.prev
        /\ req[r].model.rotatedAt = row.rotatedAt
    BY <1>1, <1>2, <2>3 DEF CopyOf
  <2>5. req[r].token = row.prev
    BY <1>1, <1>4, <2>2, <2>4 DEF FromBefore, Sound
  <2>6. req[r].sent <= row.rotatedAt + MaxDuration
    BY <1>1, <2>2, <2>5 DEF FromBefore
  <2>7. row.rotatedAt < now - UrgentRotateTime
    BY <1>2, <2>4, LatencyBounds DEF NeedsRotation
  <2> QED
    BY <1>2, <2>6, <2>7, LatencyBounds
<1> QED
  BY <1>3, <1>4

\* Rotate: the browser keeps a token the row knows, and nobody has the new one.
LEMMA RotateKeeps ==
  ASSUME Timing, BaseInv, BaseInv', RowInv, row.exists, NEW r \in Requests, Rotate(r)
  PROVE  RowInv'
<1>1. /\ TypeOK /\ Sound(r) /\ req[r].sent <= now /\ req[r].pc = "rotate"
  BY DEF BaseInv, Sound, Active, Rotate
<1>2. /\ OthersKept(r) /\ req'[r].token = req[r].token /\ req'[r].sent = req[r].sent
      /\ req'[r].pc = "respond" /\ UNCHANGED <<now, cookie, active>>
  BY <1>1, RotateEffect
<1>3. CASE /\ row' = row /\ issued' = issued
           /\ ~ (NeedsRotation(req[r].model) /\ MayRotate)
           /\ req'[r].setCookie = req[r].setCookie
  BY <1>1, <1>2, <1>3, NoRotationKeeps
<1>4. CASE /\ NeedsRotation(req[r].model) /\ MayRotate
           /\ issued' = issued + 1 /\ req'[r].setCookie = issued + 1
           /\ row'.seen = FALSE /\ row'.auth = issued + 1
           /\ row'.prev = IF row.seen THEN row.auth ELSE row.prev
           /\ row'.rotatedAt = now
  <2>1. \A q \in Requests : q # r => req'[q] = req[q]
    BY <1>2 DEF OthersKept
  <2>2. \A q \in Requests : q # r => req'[q].setCookie <= 0
    BY <1>4, <2>1, NoneOnTheWay
  <2>3. /\ issued \in Nat /\ now \in Nat /\ cookie \in Nat /\ cookie <= issued
        /\ active \in Nat /\ active <= now
    BY BaseFacts
  <2>4. \A q \in Requests : req'[q].token \in Nat /\ req'[q].token <= issued
    BY <1>2, <2>1, BaseFacts
  <2>5. cookie # 0 => cookie = row'.prev
    BY <1>1, <1>4, CookieBecomesPrev
  <2>6. ASSUME NEW q \in Requests
        PROVE  CopyOf(q)'
    <3>1. CASE q = r
      BY <1>2, <3>1 DEF CopyOf, Looked
    <3>2. CASE q # r
      <4>1. req'[q] = req[q] /\ Sound(q)
        BY <2>1, <3>2 DEF BaseInv
      <4>2. Looked(q) => req[q].model.auth # row'.auth /\ req[q].sent <= now
        BY <1>4, <2>3, <4>1, BaseFacts DEF Sound, Looked, Active
      <4> QED
        BY <1>2, <1>4, <2>3, <4>1, <4>2, BaseFacts DEF CopyOf, Looked
    <3> QED
      BY <3>1, <3>2
  <2>7. OnTheWay'
    <3> SUFFICES ASSUME NEW q \in Requests, req'[q].setCookie > 0
                 PROVE  /\ req'[q].setCookie = row'.auth /\ req'[q].sent <= row'.rotatedAt
                        /\ ~ row'.seen /\ cookie' # row'.auth
                        /\ \A p \in Requests : req'[p].token # row'.auth
                        /\ \A p \in Requests \ {q} : req'[p].setCookie # row'.auth
      BY DEF OnTheWay
    <3>1. q = r
      <4> SUFFICES ASSUME q # r
                   PROVE  FALSE
        OBVIOUS
      <4>1. req'[q].setCookie <= 0 /\ req'[q].setCookie = req[q].setCookie
        BY <2>1, <2>2
      <4> QED
        BY <4>1, BaseFacts
    <3>2. \A p \in Requests : p # r => req'[p].setCookie # row'.auth
      <4>1. \A p \in Requests : p # r => req'[p].setCookie \in Int
        BY <2>1, BaseFacts
      <4> QED
        BY <1>4, <2>2, <2>3, <4>1
    <3>3. \A p \in Requests : req'[p].token # row'.auth
      BY <1>4, <2>3, <2>4
    <3> QED
      BY <1>1, <1>2, <1>4, <2>3, <3>1, <3>2, <3>3
  <2>8. WentBack'
    BY <1>4, <2>3, <2>4 DEF WentBack
  <2>9. HasNew'
    BY <1>2, <1>4, <2>3 DEF HasNew
  <2>10. ASSUME NEW q \in Requests
         PROVE  Renewed(q)'
    <3>1. CASE q = r
      BY <1>1, <1>2, <1>4, <2>3, <3>1, BaseFacts, LatencyBounds DEF Renewed, Latency
    <3>2. CASE q # r
      <4>1. req'[q] = req[q] /\ Sound(q)
        BY <2>1, <3>2 DEF BaseInv
      <4>2. req[q].pc = "respond" => req[q].sent <= now /\ req[q].sent \in Nat
        BY <4>1, BaseFacts DEF Sound, Active
      <4> QED
        BY <1>4, <2>3, <4>1, <4>2, LatencyBounds DEF Renewed, Latency
    <3> QED
      BY <3>1, <3>2
  <2>11. active' <= row'.rotatedAt + Latency + MaxDuration
    BY <1>2, <1>4, <2>3, LatencyBounds
  <2>12. cookie' # 0 => cookie' \in {row'.auth, row'.prev}
    BY <1>2, <2>5
  <2>13. Latency' = Latency
    BY DEF Latency
  <2> QED
    BY <2>6, <2>7, <2>8, <2>9, <2>10, <2>11, <2>12, <2>13 DEF RowInv
<1> QED
  BY <1>1, <1>3, <1>4, RotateEffect

\* Respond: the new token arrives, or the cookie is deleted, or it stays.
LEMMA RespondKeeps ==
  ASSUME Timing, BaseInv, BaseInv', RowInv, row.exists, NEW r \in Requests, Respond(r)
  PROVE  RowInv'
<1>1. /\ TypeOK /\ Sound(r) /\ req[r].pc \in {"respond", "unrotated"}
      /\ req[r].sent <= now /\ now <= req[r].sent + MaxDuration
      /\ now \in Nat /\ req[r].sent \in Nat /\ row.rotatedAt \in Nat /\ active \in Nat
  BY BaseFacts DEF BaseInv, Sound, Active, Respond
<1>2. /\ OthersKept(r) /\ req'[r] = NoRequest /\ UNCHANGED <<now, row, issued>>
      /\ cookie' = IF req[r].setCookie = -1 THEN cookie ELSE req[r].setCookie
      /\ active' = IF req[r].setCookie = 0 \/ req[r].pc = "unrotated" THEN active ELSE now
  BY <1>1, RespondEffect DEF Keep
<1>3. /\ req'[r].pc = "idle" /\ req'[r].token = 0 /\ req'[r].setCookie = -1
      /\ row.auth >= 1 /\ row.prev >= 1 /\ row.auth \in Nat
  BY <1>2, EmptyRecords, BaseFacts DEF Keep
<1>4. \A q \in Requests : q # r => req'[q] = req[q]
  BY <1>2 DEF OthersKept
<1>5. active' <= row'.rotatedAt + Latency + MaxDuration
  <2>1. CASE req[r].setCookie = 0 \/ req[r].pc = "unrotated"
    BY <1>2, <2>1 DEF RowInv
  <2>2. CASE req[r].setCookie # 0 /\ req[r].pc = "respond"
    <3>1. req[r].sent <= row.rotatedAt + Latency
      BY <1>1, <2>2 DEF RowInv, Renewed
    <3> QED
      BY <1>1, <1>2, <2>2, <3>1, LatencyBounds
  <2> QED
    BY <1>1, <2>1, <2>2
<1>6. \A q \in Requests : CopyOf(q)' /\ Renewed(q)'
  BY <1>2, <1>3, <1>4 DEF RowInv, CopyOf, Renewed, Looked
<1>7. CASE req[r].setCookie = -1
  <2>1. OnTheWay'
    BY <1>2, <1>3, <1>4, <1>7 DEF RowInv, OnTheWay
  <2>2. WentBack'
    BY <1>2, <1>3, <1>4, <1>7 DEF RowInv, WentBack, ReadsThatItWasSeen, Looked
  <2>3. HasNew'
    BY <1>2, <1>3, <1>4, <1>7 DEF RowInv, HasNew, FromBefore, Active
  <2> QED
    BY <1>2, <1>5, <1>6, <1>7, <2>1, <2>2, <2>3 DEF RowInv
<1>8. CASE req[r].setCookie = 0
  <2>1. cookie' = 0
    BY <1>2, <1>8
  <2>2. OnTheWay'
    BY <1>2, <1>3, <1>4, <2>1 DEF RowInv, OnTheWay
  <2>3. WentBack' /\ HasNew'
    BY <1>2, <1>3, <2>1 DEF WentBack, HasNew
  <2> QED
    BY <1>5, <1>6, <2>1, <2>2, <2>3 DEF RowInv
<1>9. CASE req[r].setCookie > 0
  <2>1. /\ req[r].setCookie = row.auth /\ req[r].sent <= row.rotatedAt /\ ~ row.seen
        /\ \A q \in Requests : req[q].token # row.auth
        /\ \A q \in Requests \ {r} : req[q].setCookie # row.auth
    BY <1>9 DEF RowInv, OnTheWay
  <2>2. cookie' = row.auth
    BY <1>2, <1>9, <2>1
  <2>3. \A q \in Requests : ~ (req'[q].setCookie > 0)
    <3> SUFFICES ASSUME NEW q \in Requests, req'[q].setCookie > 0
                 PROVE  FALSE
      OBVIOUS
    <3>1. q # r
      BY <1>3
    <3>2. req[q].setCookie > 0 /\ req[q].setCookie # row.auth
      BY <1>4, <2>1, <3>1
    <3> QED
      BY <3>2 DEF RowInv, OnTheWay
  <2>4. OnTheWay' /\ WentBack'
    BY <1>2, <2>2, <2>3 DEF OnTheWay, WentBack
  <2>5. ASSUME NEW q \in Requests
        PROVE  FromBefore(q)'
    <3>1. CASE q = r
      BY <1>3, <3>1 DEF FromBefore, Active
    <3>2. CASE q # r
      <4>1. req'[q] = req[q] /\ Sound(q) /\ req[q].sent \in Nat
        BY <1>4, <3>2, BaseFacts DEF BaseInv
      <4>2. Active(q) => req[q].sent <= row.rotatedAt + MaxDuration
        BY <1>1, <2>1, <4>1, LatencyBounds DEF Sound
      <4> QED
        BY <1>2, <2>1, <4>1, <4>2 DEF FromBefore, Active
    <3> QED
      BY <3>1, <3>2
  <2> QED
    BY <1>2, <1>5, <1>6, <2>2, <2>4, <2>5 DEF RowInv, HasNew
<1> QED
  BY <1>7, <1>8, <1>9, BaseFacts

\* Login: the first token is on its way, and is the previous one as well.
LEMMA LoginBegins ==
  ASSUME Timing, BaseInv, NEW r \in Requests, Login(r)
  PROVE  RowInv'
<1>1. /\ OthersKept(r) /\ \A q \in Requests : ~ Active(q)
      /\ req'[r].pc = "respond" /\ req'[r].setCookie = 1 /\ req'[r].token = 0
      /\ req'[r].sent = now /\ cookie' = 0 /\ active' = active
      /\ row'.auth = 1 /\ row'.prev = 1 /\ ~ row'.seen /\ row'.rotatedAt = now
  BY LoginEffect
<1>2. /\ now \in Nat /\ active \in Nat /\ active <= now
  BY BaseFacts
<1>3. \A q \in Requests \ {r} :
        req'[q].pc = "idle" /\ req'[q].token = 0 /\ req'[q].setCookie = -1
  BY <1>1 DEF BaseInv, Sound, OthersKept, Active, Keep
<1>4. \A q \in Requests : CopyOf(q)'
  BY <1>1, <1>3 DEF CopyOf, Looked
<1>5. OnTheWay' /\ WentBack' /\ HasNew'
  BY <1>1, <1>2, <1>3 DEF OnTheWay, WentBack, HasNew
<1>6. \A q \in Requests : Renewed(q)'
  BY <1>1, <1>2, <1>3, LatencyBounds DEF Renewed, Latency
<1>7. active' <= row'.rotatedAt + Latency + MaxDuration
  BY <1>1, <1>2, LatencyBounds
<1> QED
  BY <1>1, <1>4, <1>5, <1>6, <1>7 DEF RowInv, Latency

\* Restore: nothing is under way.
LEMMA RestoreKeeps ==
  ASSUME BaseInv, RowInv, row.exists, Restore
  PROVE  RowInv'
<1>1. /\ \A q \in Requests : ~ Active(q)
      /\ cookie' \in {row.auth, row.prev} /\ UNCHANGED <<now, row, req, issued, active>>
  BY DEF Restore, Active, Matches
<1>2. \A q \in Requests : req[q].pc = "idle" /\ req[q].token = 0 /\ req[q].setCookie = -1
  BY <1>1 DEF BaseInv, Sound, Active, Keep
<1>3. row.auth >= 1 /\ row.auth \in Nat
  BY DEF BaseInv, Numbered, TypeOK, Rows
<1>4. \A q \in Requests : CopyOf(q)' /\ Renewed(q)'
  BY <1>1, <1>2 DEF CopyOf, Renewed, Looked
<1>5. OnTheWay'
  BY <1>1, <1>2 DEF OnTheWay
<1>6. WentBack' /\ HasNew'
  BY <1>1, <1>2, <1>3 DEF WentBack, HasNew, ReadsThatItWasSeen, FromBefore, Looked, Active
<1> QED
  BY <1>1, <1>4, <1>5, <1>6 DEF RowInv

\* The invariant is kept by every step.
LEMMA SessionInvNext ==
  ASSUME Timing, SessionInv, [Next]_vars
  PROVE  SessionInv'
<1>1. BaseInv /\ BaseInv'
  BY BaseInvNext DEF SessionInv
<1> SUFFICES ASSUME row'.exists
             PROVE  RowInv'
  BY <1>1 DEF SessionInv
<1>2. ASSUME NEW r \in Requests, Login(r)
      PROVE  RowInv'
  BY <1>1, <1>2, LoginBegins
<1>3. CASE ~ \E r \in Requests : Login(r)
  <2>1. row.exists
    <3> SUFFICES ASSUME ~ row.exists
                 PROVE  FALSE
      OBVIOUS
    <3>1. issued = 0
      BY <1>1, NoRowFromNothing DEF BaseInv, TypeOK
    <3>2. cookie = 0 /\ before = 0 /\ \A r \in Requests : req[r].pc = "idle"
      BY <1>1, <3>1 DEF BaseInv, LoginFirst, Active
    <3>3. row' = row
      BY <1>3, <3>2 DEF Next, vars, Tick, Restore, Cleanup, RevokeAll, Send, Lookup,
         LookupFails, MarkUnseen, MarkSeen, UserNotFound, Work, Logout, LogoutFails,
         Rotate, RotateFails, Respond, Cancel, NoToken
    <3> QED
      BY <3>3
  <2>2. RowInv
    BY <2>1 DEF SessionInv
  <2>3. CASE UNCHANGED vars
    BY <2>2, <2>3 DEF vars, RowInv, CopyOf, OnTheWay, WentBack, ReadsThatItWasSeen,
       HasNew, FromBefore, Renewed, Active, Looked, Latency
  <2>4. CASE Tick
    BY <2>2, <2>4 DEF Tick, RowInv, CopyOf, OnTheWay, WentBack, ReadsThatItWasSeen,
       HasNew, FromBefore, Renewed, Active, Looked, Latency
  <2>5. CASE Restore
    BY <1>1, <2>1, <2>2, <2>5, RestoreKeeps
  <2>6. CASE Cleanup \/ RevokeAll
    BY <2>6, EmptyRecords DEF Cleanup, RevokeAll
  <2>7. ASSUME NEW r \in Requests, UserNotFound(r) \/ Cancel(r)
        PROVE  RowInv'
    <3>1. /\ req' = [req EXCEPT ![r] = NoRequest] /\ TypeOK
          /\ UNCHANGED <<now, row, cookie, issued, active>>
      BY <1>1, <2>7 DEF UserNotFound, Cancel, BaseInv
    <3>2. OthersKept(r) /\ req'[r] = NoRequest
      BY <3>1, EmptyRecords, Replaced
    <3> QED
      BY <1>1, <2>1, <2>2, <3>1, <3>2, EndKeeps
  <2>8. ASSUME NEW r \in Requests,
               LookupFails(r) \/ Work(r) \/ LogoutFails(r) \/ RotateFails(r)
        PROVE  RowInv'
    <3>1. Active(r)
      BY <2>8 DEF LookupFails, Work, LogoutFails, RotateFails, Active
    <3> QED
      BY <1>1, <2>1, <2>2, <2>8, <3>1, MovesOnIsSound, MovingOnKeeps
  <2>9. ASSUME NEW r \in Requests, Logout(r)
        PROVE  RowInv'
    <3>1. Active(r)
      BY <2>9 DEF Logout, Active
    <3>2. row' = row
      BY <1>1, <2>9, LogoutIsSound
    <3> QED
      BY <1>1, <2>1, <2>2, <2>9, <3>1, <3>2, LogoutIsSound, MovingOnKeeps
  <2>10. ASSUME NEW r \in Requests,
                Send(r) \/ Lookup(r) \/ MarkUnseen(r) \/ MarkSeen(r) \/ Rotate(r) \/ Respond(r)
         PROVE  RowInv'
    BY <1>1, <2>1, <2>2, <2>10, SendKeeps, LookupKeeps, MarkUnseenKeeps, MarkSeenKeeps,
       RotateKeeps, RespondKeeps
  <2> QED
    BY <1>3, <2>3, <2>4, <2>5, <2>6, <2>7, <2>8, <2>9, <2>10 DEF Next
<1> QED
  BY <1>2, <1>3

\* The invariant holds in every state, under the settings of the program.
LEMMA SessionInvAlways == Timing => (Spec => []SessionInv)
<1> SUFFICES ASSUME Timing
             PROVE  Spec => []SessionInv
  OBVIOUS
<1>1. Init => SessionInv
  BY BaseInvInit, EmptyRecords DEF Init, SessionInv
<1>2. SessionInv /\ [Next]_vars => SessionInv'
  BY SessionInvNext
<1> QED
  BY <1>1, <1>2, PTL DEF Spec

(***************************************************************************)
(* StaysLoggedIn: while the session is in the table, the token in the      *)
(* browser's cookie is one of the row's two, whatever requests look it up  *)
(* and rotate it at the same time and in whatever order they answer.       *)
(***************************************************************************)
THEOREM BrowsersStayLoggedIn == Timing => (Spec => []StaysLoggedIn)
<1> SUFFICES ASSUME Timing
             PROVE  Spec => []StaysLoggedIn
  OBVIOUS
<1>1. SessionInv => StaysLoggedIn
  BY DEF SessionInv, RowInv, StaysLoggedIn, Matches, NoToken
<1> QED
  BY <1>1, SessionInvAlways, PTL

(***************************************************************************)
(* ActiveIsRemembered: a session that is over for inactivity was inactive, *)
(* but for the time between two rotations, that of one answer, and pages   *)
(* whose rotation was due and failed.                                      *)
(***************************************************************************)
THEOREM ActivityIsRemembered == Timing => (Spec => []ActiveIsRemembered)
<1> SUFFICES ASSUME Timing
             PROVE  Spec => []ActiveIsRemembered
  OBVIOUS
<1>1. ASSUME SessionInv
      PROVE  ActiveIsRemembered
  <2>1. /\ now \in Nat /\ active \in Nat /\ row.rotatedAt \in Nat
        /\ row.exists => active <= row.rotatedAt + Latency + MaxDuration
    BY <1>1 DEF SessionInv, RowInv, BaseInv, TypeOK, Rows
  <2> QED
    BY <2>1, LatencyBounds DEF ActiveIsRemembered
<1> QED
  BY <1>1, SessionInvAlways, PTL
=============================================================================
