------------------------------- MODULE Sessions -------------------------------
(***************************************************************************)
(* AuthService.login, refresh and logout, the login rate limit guard and   *)
(* UsersService.patchPassword, for one customer (nothing is shared between *)
(* customers but the rate limit of an IP, which is a choice here).         *)
(*                                                                         *)
(* Every request makes at most one refresh token and at most one password, *)
(* so both go by the name of their request.  bcrypt.compare looks at the   *)
(* row that was read, so it is part of the read.  A statement that revokes *)
(* many rows works on the rows its snapshot saw: its start and the commit  *)
(* of its transaction are two steps, and what is committed in between it   *)
(* neither sees nor revokes.                                               *)
(***************************************************************************)
EXTENDS ApiTypes

Tokens == Requests \cup {Earlier}

VARIABLES
  password,    \* customers.password_hash
  failed,      \* customers.failed_login_attempts
  lockUntil,   \* customers.lock_until: NULL, in the future, in the past
  stored,      \* the rows of refresh_tokens
  revoked,     \* those with a revoked_at
  replacedBy,  \* their replaced_by_id
  expired,     \* those whose expires_at has passed
  audit,       \* requests with a row in audit_logs
  op, pc,      \* operation and phase of each request
  held,        \* token in the cookie of a request
  snap,        \* tokens that a revoking statement saw
  resp         \* the answer, as soon as it is known

\* What the properties need to know of the past; no step depends on it.
VARIABLES
  root,        \* the login that opened the session of a token
  window,      \* revoking statements under way when a token, or one before it, was made
  knows,       \* the password a login was let in with
  crossed,     \* password changes committed since a login was let in
  early        \* logins past the lock check when the lock was set

customerVars == <<password, failed, lockUntil>>
tokenVars == <<stored, revoked, replacedBy, expired, root, window>>
loginVars == <<knows, crossed, early>>
vars == <<customerVars, tokenVars, loginVars, audit, op, pc, held, snap, resp>>

Phases == {"idle", "find", "wrong", "reset", "revokeOld", "create", "rotate", "revoke",
           "change", "changing", "audit", "answered"}

TypeOK ==
  /\ password \in Tokens /\ failed \in Nat /\ lockUntil \in {"none", "future", "past"}
  /\ stored \subseteq Tokens /\ revoked \subseteq stored /\ expired \subseteq stored
  /\ replacedBy \in [Tokens -> Tokens \cup {None}]
  /\ audit \subseteq Requests
  /\ op \in [Requests -> {"none", "login", "refresh", "logout", "change"}]
  /\ pc \in [Requests -> Phases]
  /\ held \in [Requests -> Tokens \cup {None}]
  /\ snap \in [Requests -> SUBSET Tokens]
  /\ resp \in [Requests -> {"none", "ok", "refused", "error"}]
  /\ root \in [Tokens -> Tokens]
  /\ window \in [Tokens -> SUBSET Requests]
  /\ knows \in [Tokens -> Tokens]
  /\ crossed \in [Tokens -> SUBSET Requests]
  /\ early \subseteq Requests

Init ==
  /\ password = Earlier /\ failed = 0 /\ lockUntil = "none"
  /\ stored = {Earlier} /\ revoked = {} /\ expired = {}
  /\ replacedBy = [t \in Tokens |-> None]
  /\ audit = {}
  /\ op = [r \in Requests |-> "none"]
  /\ pc = [r \in Requests |-> "idle"]
  /\ held = [r \in Requests |-> None]
  /\ snap = [r \in Requests |-> {}]
  /\ resp = [r \in Requests |-> "none"]
  /\ root = [t \in Tokens |-> t]
  /\ window = [t \in Tokens |-> {}]
  /\ knows = [t \in Tokens |-> Earlier]
  /\ crossed = [t \in Tokens |-> {}]
  /\ early = {}

-----------------------------------------------------------------------------
Active == stored \ revoked
Live == Active \ expired

\* Requests whose revoking statement has started and whose transaction is still open.
Revoking == {r \in Requests : pc[r] \in {"create", "changing"}}
PastLockCheck == {r \in Requests : pc[r] \in {"wrong", "reset", "revokeOld", "create"}}
LetIn == {r \in Requests : pc[r] \in {"reset", "revokeOld", "create"}}

\* A password change holds the row of the customer until it commits.
CustomerRowFree == \A r \in Requests : pc[r] # "changing"

Goto(r, phase) == pc' = [pc EXCEPT ![r] = phase]
Answer(r, answer) == Goto(r, "answered") /\ resp' = [resp EXCEPT ![r] = answer]
Arrive(r, operation) == pc[r] = "idle" /\ op' = [op EXCEPT ![r] = operation]
\* The work is done and the answer known; the audit row comes first.
Conclude(r, answer) == Goto(r, "audit") /\ resp' = [resp EXCEPT ![r] = answer]

-----------------------------------------------------------------------------
(* login *)

\* canActivate: the limit per minute of the IP or the email is reached, or not; without Redis
\* the lock of the customer decides, and without the database nothing does.
LoginGuard(r) ==
  /\ Arrive(r, "login")
  /\ \/ Answer(r, "refused")
     \/ Goto(r, "find") /\ UNCHANGED resp
  /\ UNCHANGED <<customerVars, tokenVars, loginVars, audit, held, snap>>

\* findUnique, the lock check and bcrypt.compare.
LoginFind(r) ==
  /\ pc[r] = "find"
  /\ \/ lockUntil = "future" /\ Answer(r, "refused") /\ UNCHANGED knows
     \/ lockUntil # "future" /\ Goto(r, "wrong") /\ UNCHANGED <<knows, resp>>
     \/ /\ lockUntil # "future" /\ Goto(r, "reset")
        /\ knows' = [knows EXCEPT ![r] = password] /\ UNCHANGED resp
  /\ UNCHANGED <<customerVars, tokenVars, crossed, early, audit, op, held, snap>>

\* Seeded fault: only the attempt that reaches the threshold locks.
LocksAt_Exactly(n) == n = Threshold
LocksAt(n) == n >= Threshold

\* The UPDATE of a wrong password: count it, and lock, or take a lock away.
CountFailure(r) ==
  /\ pc[r] = "wrong" /\ CustomerRowFree
  /\ failed' = failed + 1
  /\ lockUntil' = IF LocksAt(failed + 1) THEN "future" ELSE "none"
  /\ early' = IF LocksAt(failed + 1) THEN PastLockCheck ELSE early
  /\ Conclude(r, "refused")
  /\ UNCHANGED <<password, tokenVars, knows, crossed, audit, op, held, snap>>

\* The right password clears the counter and the lock.
ClearFailures(r) ==
  /\ pc[r] = "reset" /\ CustomerRowFree
  /\ failed' = 0 /\ lockUntil' = "none"
  /\ Goto(r, "revokeOld")
  /\ UNCHANGED <<password, tokenVars, loginVars, audit, op, held, snap, resp>>

\* updateMany inside the transaction starts: these are the rows it will revoke.
RevokeOld(r) ==
  /\ pc[r] = "revokeOld"
  /\ snap' = [snap EXCEPT ![r] = Active]
  /\ Goto(r, "create")
  /\ UNCHANGED <<customerVars, tokenVars, loginVars, audit, op, held, resp>>

\* Seeded fault: a login leaves the other sessions alone.
OpenSession_KeepOthers(r) ==
  /\ pc[r] = "create"
  /\ stored' = stored \cup {r}
  /\ root' = [root EXCEPT ![r] = r]
  /\ window' = [window EXCEPT ![r] = Revoking \ {r}]
  /\ Conclude(r, "ok")
  /\ UNCHANGED <<customerVars, revoked, replacedBy, expired, loginVars, audit, op, held, snap>>

\* create, and the commit: the rows seen are revoked, if nobody else did it, and the new one is in.
OpenSession(r) ==
  /\ pc[r] = "create"
  /\ stored' = stored \cup {r}
  /\ revoked' = revoked \cup snap[r]
  /\ root' = [root EXCEPT ![r] = r]
  /\ window' = [window EXCEPT ![r] = Revoking \ {r}]
  /\ Conclude(r, "ok")
  /\ UNCHANGED <<customerVars, replacedBy, expired, loginVars, audit, op, held, snap>>

-----------------------------------------------------------------------------
(* refresh *)

\* findUnique by hash, whatever the state of the token; a stranger's token is refused.
RefreshFind(r) ==
  /\ Arrive(r, "refresh")
  /\ \/ Answer(r, "refused") /\ UNCHANGED held
     \/ \E t \in stored :
          Goto(r, "rotate") /\ held' = [held EXCEPT ![r] = t] /\ UNCHANGED resp
  /\ UNCHANGED <<customerVars, tokenVars, loginVars, audit, snap>>

\* Seeded faults: a condition of the guarded update is forgotten.
Rotatable_Revoked(t) == replacedBy[t] = None /\ t \notin expired
Rotatable_Always(t) == t \in stored

\* The WHERE of the guarded update.
Rotatable(t) == t \notin revoked /\ replacedBy[t] = None /\ t \notin expired

\* The transaction: create the successor, replace the token that was presented; when the update
\* hits no row, throw, which takes the successor back.
Rotate(r) ==
  /\ pc[r] = "rotate" /\ Rotatable(held[r])
  /\ stored' = stored \cup {r}
  /\ revoked' = revoked \cup {held[r]}
  /\ replacedBy' = [replacedBy EXCEPT ![held[r]] = r]
  /\ root' = [root EXCEPT ![r] = root[held[r]]]
  /\ window' = [window EXCEPT ![r] = window[held[r]] \cup Revoking]
  /\ Conclude(r, "ok")
  /\ UNCHANGED <<customerVars, expired, loginVars, audit, op, held, snap>>

ReuseDetected(r) ==
  /\ pc[r] = "rotate" /\ ~Rotatable(held[r])
  /\ Answer(r, "refused")
  /\ UNCHANGED <<customerVars, tokenVars, loginVars, audit, op, held, snap>>

-----------------------------------------------------------------------------
(* logout *)

\* findUnique; without a token, or with one that is revoked already, there is nothing to do.
LogoutFind(r) ==
  /\ Arrive(r, "logout")
  /\ \/ Answer(r, "ok") /\ UNCHANGED held
     \/ \E t \in stored :
          /\ held' = [held EXCEPT ![r] = t]
          /\ IF t \in revoked THEN Answer(r, "ok")
                              ELSE Goto(r, "revoke") /\ UNCHANGED resp
  /\ UNCHANGED <<customerVars, tokenVars, loginVars, audit, snap>>

\* The update by id, whatever has happened to the row since.
Revoke(r) ==
  /\ pc[r] = "revoke"
  /\ revoked' = revoked \cup {held[r]}
  /\ Conclude(r, "ok")
  /\ UNCHANGED <<customerVars, stored, replacedBy, expired, root, window, loginVars, audit,
                 op, held, snap>>

-----------------------------------------------------------------------------
(* patchPassword *)

\* findUnique and bcrypt.compare of the old password; a new one equal to it is refused as well.
ChangeFind(r) ==
  /\ Arrive(r, "change")
  /\ \/ Answer(r, "refused")
     \/ Goto(r, "change") /\ UNCHANGED resp
  /\ UNCHANGED <<customerVars, tokenVars, loginVars, audit, held, snap>>

\* customer.update, which waits for the row, and the start of updateMany.
SetPassword(r) ==
  /\ pc[r] = "change" /\ CustomerRowFree
  /\ snap' = [snap EXCEPT ![r] = Active]
  /\ Goto(r, "changing")
  /\ UNCHANGED <<customerVars, tokenVars, loginVars, audit, op, held, resp>>

\* Seeded fault: the sessions stay.
CommitPassword_KeepSessions(r) ==
  /\ pc[r] = "changing"
  /\ password' = r
  /\ crossed' = [q \in Tokens |-> IF q \in LetIn THEN crossed[q] \cup {r} ELSE crossed[q]]
  /\ Conclude(r, "ok")
  /\ UNCHANGED <<failed, lockUntil, tokenVars, knows, early, audit, op, held, snap>>

\* Both updates are committed.
CommitPassword(r) ==
  /\ pc[r] = "changing"
  /\ password' = r
  /\ revoked' = revoked \cup snap[r]
  /\ crossed' = [q \in Tokens |-> IF q \in LetIn THEN crossed[q] \cup {r} ELSE crossed[q]]
  /\ Conclude(r, "ok")
  /\ UNCHANGED <<failed, lockUntil, stored, replacedBy, expired, root, window, knows, early,
                 audit, op, held, snap>>

-----------------------------------------------------------------------------
(* The end of a request, errors, and time. *)

\* AuditService.record writes its row, and the request is answered.
RecordAudit(r) ==
  /\ pc[r] = "audit"
  /\ audit' = audit \cup {r}
  /\ Goto(r, "answered")
  /\ UNCHANGED <<customerVars, tokenVars, loginVars, op, held, snap, resp>>

\* A statement fails, the process dies, or the row of the audit cannot be written: an open
\* transaction is rolled back, what was committed stays, and the client gets an error at best.
RequestFails(r) ==
  /\ pc[r] \notin {"idle", "answered"}
  /\ Answer(r, "error")
  /\ UNCHANGED <<customerVars, tokenVars, loginVars, audit, op, held, snap>>

LockRunsOut ==
  /\ lockUntil = "future" /\ lockUntil' = "past"
  /\ UNCHANGED <<password, failed, tokenVars, loginVars, audit, op, pc, held, snap, resp>>

\* expires_at is only looked at while the token is not revoked.
TokenExpires(t) ==
  /\ t \in Live
  /\ expired' = expired \cup {t}
  /\ UNCHANGED <<customerVars, stored, revoked, replacedBy, root, window, loginVars, audit,
                 op, pc, held, snap, resp>>

Login(r) ==
  LoginGuard(r) \/ LoginFind(r) \/ CountFailure(r) \/ ClearFailures(r) \/ RevokeOld(r)
    \/ OpenSession(r)
Refresh(r) == RefreshFind(r) \/ Rotate(r) \/ ReuseDetected(r)
Logout(r) == LogoutFind(r) \/ Revoke(r)
PatchPassword(r) == ChangeFind(r) \/ SetPassword(r) \/ CommitPassword(r)

Step(r) ==
  Login(r) \/ Refresh(r) \/ Logout(r) \/ PatchPassword(r) \/ RecordAudit(r) \/ RequestFails(r)
Time == LockRunsOut \/ \E t \in Tokens : TokenExpires(t)

Next == (\E r \in Requests : Step(r)) \/ Time

Spec == Init /\ [][Next]_vars

-----------------------------------------------------------------------------
(* Properties. *)

\* Two sessions of a customer are alive side by side only if one was opened or renewed while the
\* login that opened the other was revoking what it saw (login revokes all others,
\* auth.service.ts:267): no refresh, logout or error leaves a second one behind.
TwoSessionsOverlapped ==
  \A t, u \in Live : t # u =>
    /\ root[t] # root[u]
    /\ root[t] \in window[u] \/ root[u] \in window[t]

\* A session opened with a password that has been changed since lives on only if its login, or a
\* refresh of it, overlapped the change (users.service.ts:101): patchPassword ends all others.
OldSessionsOverlapped ==
  \A t \in Live : knows[root[t]] # password =>
    \E c \in window[t] \cup crossed[root[t]] : op[c] = "change"

\* The tokens of a session form a chain: of two refreshes with one token at most one gets a
\* successor (auth.service.ts:391), so one token at most has not been replaced.
ChainNeverForks ==
  \A t, u \in stored :
    root[t] = root[u] /\ replacedBy[t] = None /\ replacedBy[u] = None => t = u

\* A revoked token stays revoked, and neither gets a successor nor loses the one it has: a logout
\* or a new login is final for the tokens it ended, whatever requests still hold them.
RevokedForGood ==
  [][\A t \in revoked : t \in revoked' /\ replacedBy'[t] = replacedBy[t]]_vars

\* A lock that has not run out is lifted only by a login that had passed the lock check before the
\* lock was set (the stale lockUntil of auth.service.ts:176): neither by a login that began under
\* it nor by the wrong attempts that come in late.
LockLiftedOnlyByEarlier ==
  [][lockUntil = "future" /\ lockUntil' = "none" =>
       \E r \in early : pc[r] = "reset" /\ pc'[r] = "revokeOld"]_vars
-----------------------------------------------------------------------------
(* The inductive invariant behind them. *)

\* What holds of a request by its phase.
PhaseInv ==
  \A r \in Requests :
    /\ pc[r] = "idle" => op[r] = "none"
    /\ pc[r] \in {"change", "changing"} => op[r] = "change"
    /\ pc[r] \in {"rotate", "revoke"} => held[r] \in stored
    /\ r \in stored => pc[r] \in {"audit", "answered"}
    /\ snap[r] \subseteq stored

\* A session begins with the token of its login; a token is replaced only together with its end.
ChainInv ==
  /\ ChainNeverForks
  /\ \A t \in stored : root[t] \in stored
  /\ \A t \in Tokens : replacedBy[t] # None => t \in revoked

\* What a revoking statement has not seen was made while it was under way.
WindowInv ==
  \A r \in Revoking, t \in Live : t \in snap[r] \/ r \in window[t]

\* A login that was let in with a password of the past has met its change.
PasswordInv ==
  \A r \in LetIn : knows[r] # password => \E c \in crossed[r] : op[c] = "change"

\* Under a lock the counter is at the threshold, and only logins from before it are let in.
LockInv ==
  lockUntil = "future" => failed >= Threshold /\ PastLockCheck \subseteq early

IInv ==
  /\ TypeOK /\ PhaseInv /\ ChainInv /\ WindowInv /\ PasswordInv /\ LockInv
  /\ TwoSessionsOverlapped /\ OldSessionsOverlapped
=============================================================================
