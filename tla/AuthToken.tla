------------------------------ MODULE AuthToken ------------------------------
(***************************************************************************)
(* The session of a browser (pkg/services/auth): the row of table          *)
(* user_auth_token, the session cookie, and the requests in between, which *)
(* run at the same time on one server or on several.  A request looks its  *)
(* token up, does its work, and may rotate the token just before the       *)
(* response is written; the browser keeps whatever cookie arrives last.    *)
(*                                                                         *)
(* One session of one browser is modelled: sessions have a row each and    *)
(* share nothing.  The table holds hashes of the tokens; hashing being     *)
(* injective, a hash is called here by the token it belongs to.            *)
(***************************************************************************)
EXTENDS Integers

CONSTANTS
  Requests,          \* the requests that may be under way at the same time
  Kinds,             \* what they are: "page", "logout"
  Faults,            \* "cancel": the browser goes away; "lookup", "delete", "rotate":
                     \* a statement of LookupToken, RevokeToken, TryRotateToken fails
  Restores,          \* the browser restarts with the cookie it had before
  RotationInterval,  \* TokenRotationIntervalMinutes
  UrgentRotateTime,  \* the minute after which an unseen token is rotated
  RotateGuard,       \* the 30 seconds during which an unseen token is kept
  MaxInactive,       \* LoginMaxInactiveLifetime
  MaxLifetime,       \* LoginMaxLifetime
  MaxDuration,       \* a response arrives at most so long after its request
  LastTime,          \* bound: time stops here
  MaxTokens          \* bound: so many tokens are made

ASSUME TokenAssumption ==
  /\ Kinds \subseteq {"page", "logout"}
  /\ Faults \subseteq {"cancel", "lookup", "delete", "rotate"}
  /\ Restores \in BOOLEAN
  /\ {RotationInterval, UrgentRotateTime, RotateGuard, MaxInactive, MaxLifetime,
      MaxDuration, LastTime, MaxTokens} \subseteq Nat

VARIABLES
  now,      \* the time
  row,      \* the row of the session, and whether it exists
  cookie,   \* the token in the browser's cookie, NoToken when there is none
  before,   \* the cookie before the present one
  req,      \* req[r]: the request r
  issued,   \* how many tokens were made: they are numbered
  active    \* history: when a page was last answered whose rotation did not fail

vars == <<now, row, cookie, before, req, issued, active>>

NoToken == 0

NoRow == [exists |-> FALSE, auth |-> NoToken, prev |-> NoToken, seen |-> FALSE,
          seenAt |-> 0, rotatedAt |-> 0, createdAt |-> 0]

\* "keep" stands for a response that does not set the cookie.
Keep == -1

NoRequest == [pc |-> "idle", kind |-> "page", token |-> NoToken, sent |-> 0,
              model |-> NoRow, setCookie |-> Keep]

Init ==
  /\ now = 1
  /\ row = NoRow
  /\ cookie = NoToken
  /\ before = NoToken
  /\ req = [r \in Requests |-> NoRequest]
  /\ issued = 0
  /\ active = 0

-----------------------------------------------------------------------------
\* CreateToken, in the request by which the user logs in.
Login(r) ==
  /\ issued = 0
  /\ req[r].pc = "idle"
  /\ row' = [exists |-> TRUE, auth |-> 1, prev |-> 1, seen |-> FALSE,
             seenAt |-> 0, rotatedAt |-> now, createdAt |-> now]
  /\ issued' = 1
  /\ req' = [req EXCEPT ![r] = [NoRequest EXCEPT !.pc = "respond", !.sent = now,
                                                 !.setCookie = 1]]
  /\ UNCHANGED <<now, cookie, before, active>>

\* The browser sends a request, with its cookie.
Send(r) ==
  /\ req[r].pc = "idle"
  /\ cookie # NoToken
  /\ \E kind \in Kinds :
       req' = [req EXCEPT ![r] = [NoRequest EXCEPT !.pc = "lookup", !.kind = kind,
                                                   !.token = cookie, !.sent = now]]
  /\ UNCHANGED <<now, row, cookie, before, issued, active>>

Move(r, pc) == req' = [req EXCEPT ![r].pc = pc]

\* The error of LookupToken: the request is not signed in, the cookie is deleted.
Reject(r) == req' = [req EXCEPT ![r].pc = "respond", ![r].setCookie = NoToken]

Expired(model) ==
  \/ model.createdAt <= now - MaxLifetime
  \/ model.rotatedAt <= now - MaxInactive

Matches(token) == row.exists /\ token \in {row.auth, row.prev}

\* The previous token is presented although the new one has been.
PrevOfSeen(token, model) ==
  token # model.auth /\ token = model.prev /\ model.seen

FirstSeen(token, model) == token = model.auth /\ ~ model.seen

\* The SELECT of LookupToken, and what is to be written after it.
Lookup(r) ==
  LET token == req[r].token IN
  /\ req[r].pc = "lookup"
  /\ IF Matches(token) /\ ~ Expired(row)
       THEN req' = [req EXCEPT ![r].model = row,
                               ![r].pc = IF PrevOfSeen(token, row) THEN "unsee"
                                         ELSE IF FirstSeen(token, row) THEN "see"
                                         ELSE "work"]
       ELSE Reject(r)
  /\ UNCHANGED <<now, row, cookie, before, issued, active>>

\* A statement of LookupToken fails: taken for a wrong token.
LookupFails(r) ==
  /\ "lookup" \in Faults
  /\ req[r].pc \in {"lookup", "unsee", "see"}
  /\ Reject(r)
  /\ UNCHANGED <<now, row, cookie, before, issued, active>>

\* The first UPDATE of LookupToken writes all columns of the row that was read:
\* the browser seems to have missed the new token, which is unseen again.
MarkUnseen(r) ==
  LET model == req[r].model IN
  /\ req[r].pc = "unsee"
  /\ IF row.exists /\ row.prev = model.prev /\ row.rotatedAt < now - UrgentRotateTime
       THEN row' = [model EXCEPT !.seen = FALSE]
       ELSE UNCHANGED row
  /\ Move(r, "work")
  /\ UNCHANGED <<now, cookie, before, issued, active>>

\* A variant of Save instead of the UPDATE: the row is inserted when it is gone.
MarkSeenSaved(r) ==
  LET model == [req[r].model EXCEPT !.seen = TRUE, !.seenAt = now] IN
  /\ req[r].pc = "see"
  /\ IF row.exists => row.auth = model.auth
       THEN /\ row' = model
            /\ req' = [req EXCEPT ![r].pc = "work", ![r].model = model]
       ELSE /\ UNCHANGED row
            /\ Move(r, "work")
  /\ UNCHANGED <<now, cookie, before, issued, active>>

\* The second UPDATE, in the same way: the browser has the new token.
MarkSeen(r) ==
  LET model == [req[r].model EXCEPT !.seen = TRUE, !.seenAt = now] IN
  /\ req[r].pc = "see"
  /\ IF row.exists /\ row.auth = model.auth
       THEN /\ row' = model
            /\ req' = [req EXCEPT ![r].pc = "work", ![r].model = model]
       ELSE /\ UNCHANGED row
            /\ Move(r, "work")
  /\ UNCHANGED <<now, cookie, before, issued, active>>

\* The token is good but GetSignedInUserQuery fails: the response changes nothing in
\* the browser, and comes without a rotation.
UserNotFound(r) ==
  /\ "lookup" \in Faults
  /\ req[r].pc = "work"
  /\ req' = [req EXCEPT ![r] = NoRequest]
  /\ UNCHANGED <<now, row, cookie, before, issued, active>>

\* The handler of a page.
Work(r) ==
  /\ req[r].pc = "work"
  /\ req[r].kind = "page"
  /\ Move(r, "rotate")
  /\ UNCHANGED <<now, row, cookie, before, issued, active>>

\* Delete(model) of the ORM: a condition for every column of the model that is
\* not zero; Booleans are left out.
DeleteMatches(model) ==
  /\ row.exists
  /\ row.auth = model.auth
  /\ row.prev = model.prev
  /\ model.seenAt # 0 => row.seenAt = model.seenAt
  /\ row.rotatedAt = model.rotatedAt
  /\ row.createdAt = model.createdAt

\* Logout: RevokeToken, a token that was not found being no error, and the cookie
\* is deleted.
Logout(r) ==
  /\ req[r].pc = "work"
  /\ req[r].kind = "logout"
  /\ row' = IF DeleteMatches(req[r].model) THEN NoRow ELSE row
  /\ req' = [req EXCEPT ![r].pc = "rotate", ![r].setCookie = NoToken]
  /\ UNCHANGED <<now, cookie, before, issued, active>>

\* Another error of RevokeToken is logged; the cookie is deleted all the same.
LogoutFails(r) ==
  /\ "delete" \in Faults
  /\ req[r].pc = "work"
  /\ req[r].kind = "logout"
  /\ req' = [req EXCEPT ![r].pc = "rotate", ![r].setCookie = NoToken]
  /\ UNCHANGED <<now, row, cookie, before, issued, active>>

\* TryRotateToken, first half: by the row as this request read it.
NeedsRotation(model) ==
  model.rotatedAt < now - (IF model.seen THEN RotationInterval ELSE UrgentRotateTime)

\* The WHERE of its UPDATE.
MayRotate == row.exists /\ (row.seen \/ row.rotatedAt < now - RotateGuard)

\* Variants: the previous token goes, seen or not; the time is not set.
RotatedAlways == [row EXCEPT !.prev = row.auth, !.auth = issued + 1, !.seen = FALSE,
                             !.seenAt = 0, !.rotatedAt = now]
RotatedUntimed == [row EXCEPT !.prev = IF row.seen THEN row.auth ELSE @,
                              !.auth = issued + 1, !.seen = FALSE, !.seenAt = 0]

\* The UPDATE: the token that was seen last stays valid.
Rotated == [row EXCEPT !.prev = IF row.seen THEN row.auth ELSE @,
                       !.auth = issued + 1, !.seen = FALSE, !.seenAt = 0,
                       !.rotatedAt = now]

\* rotateEndOfRequestFunc, before the headers of the response are written.
Rotate(r) ==
  /\ req[r].pc = "rotate"
  /\ IF NeedsRotation(req[r].model) /\ MayRotate
       THEN /\ issued < MaxTokens
            /\ row' = Rotated
            /\ issued' = issued + 1
            /\ req' = [req EXCEPT ![r].pc = "respond", ![r].setCookie = issued + 1]
       ELSE /\ Move(r, "respond")
            /\ UNCHANGED <<row, issued>>
  /\ UNCHANGED <<now, cookie, before, active>>

\* The error of TryRotateToken is logged; the response goes out as it is.
RotateFails(r) ==
  /\ "rotate" \in Faults
  /\ req[r].pc = "rotate"
  /\ NeedsRotation(req[r].model)
  /\ Move(r, "unrotated")
  /\ UNCHANGED <<now, row, cookie, before, issued, active>>

\* The response arrives.
Respond(r) ==
  LET set == req[r].setCookie IN
  /\ req[r].pc \in {"respond", "unrotated"}
  /\ cookie' = IF set = Keep THEN cookie ELSE set
  /\ before' = IF cookie' = cookie THEN before ELSE cookie
  /\ active' = IF set = NoToken \/ req[r].pc = "unrotated" THEN active ELSE now
  /\ req' = [req EXCEPT ![r] = NoRequest]
  /\ UNCHANGED <<now, row, issued>>

\* The browser cancels a request, whose response it does not wait for; a request
\* that is cancelled before the rotation does not rotate.
Cancel(r) ==
  /\ "cancel" \in Faults
  /\ req[r].pc \in {"rotate", "respond", "unrotated"}
  /\ req' = [req EXCEPT ![r] = NoRequest]
  /\ UNCHANGED <<now, row, cookie, before, issued, active>>

\* The browser is closed and comes back with the cookie it had before.  (With one
\* that the table no longer knows the user has to log in again.)
Restore ==
  /\ Restores
  /\ \A r \in Requests : req[r].pc = "idle"
  /\ cookie # NoToken
  /\ Matches(before)
  /\ cookie' = before
  /\ before' = NoToken
  /\ UNCHANGED <<now, row, req, issued, active>>

\* deleteExpiredTokens.
Cleanup ==
  /\ row.exists
  /\ Expired(row)
  /\ row' = NoRow
  /\ UNCHANGED <<now, cookie, before, req, issued, active>>

\* RevokeAllUserTokens, BatchRevokeAllUserTokens, by an administrator.
RevokeAll ==
  /\ row.exists
  /\ row' = NoRow
  /\ UNCHANGED <<now, cookie, before, req, issued, active>>

Tick ==
  /\ now < LastTime
  /\ \A r \in Requests : req[r].pc # "idle" => now < req[r].sent + MaxDuration
  /\ now' = now + 1
  /\ UNCHANGED <<row, cookie, before, req, issued, active>>

Next ==
  \/ Tick
  \/ Restore
  \/ Cleanup
  \/ RevokeAll
  \/ \E r \in Requests :
       \/ Login(r) \/ Send(r)
       \/ Lookup(r) \/ LookupFails(r) \/ MarkUnseen(r) \/ MarkSeen(r)
       \/ UserNotFound(r) \/ Work(r) \/ Logout(r) \/ LogoutFails(r)
       \/ Rotate(r) \/ RotateFails(r)
       \/ Respond(r) \/ Cancel(r)

Spec == Init /\ [][Next]_vars

-----------------------------------------------------------------------------
Rows == [exists : BOOLEAN, auth : Nat, prev : Nat, seen : BOOLEAN,
         seenAt : Nat, rotatedAt : Nat, createdAt : Nat]

Pcs == {"idle", "lookup", "unsee", "see", "work", "rotate", "respond", "unrotated"}

\* The columns of user_auth_token keep their types: a row has two tokens at all times.
TypeOK ==
  /\ now \in Nat
  /\ row \in Rows
  /\ cookie \in Nat
  /\ before \in Nat
  /\ req \in [Requests -> [pc : Pcs, kind : {"page", "logout"}, token : Nat,
                           sent : Nat, model : Rows, setCookie : Nat \cup {Keep}]]
  /\ issued \in Nat
  /\ active \in Nat

(***************************************************************************)
(* The browser is not locked out: as long as the session is in the table,  *)
(* the token in the cookie is one that the table knows, whatever requests  *)
(* rotate it and whatever responses are still on their way.                *)
(***************************************************************************)
StaysLoggedIn == row.exists /\ cookie # NoToken => Matches(cookie)

(***************************************************************************)
(* A session that ended for inactivity was inactive: a page that is        *)
(* answered renews it, but for the time between two rotations and for the  *)
(* time the answer took, whatever other requests write at the same time.   *)
(* (Not so one whose rotation was due and failed: TryRotateToken's error   *)
(* is logged, the next request tries again.)                               *)
(***************************************************************************)
Latency ==
  IF RotationInterval > UrgentRotateTime THEN RotationInterval ELSE UrgentRotateTime

ActiveIsRemembered ==
  row.exists /\ row.rotatedAt <= now - MaxInactive
    => now - active >= MaxInactive - Latency - MaxDuration

(***************************************************************************)
(* A session that was revoked, or removed when it expired, does not come   *)
(* back: a request that read its row before writes all of its columns, but *)
(* never a row that is gone.                                               *)
(***************************************************************************)
SessionsEndForGood == [][issued > 0 /\ ~ row.exists => ~ row'.exists]_vars
=============================================================================
