------------------------------ MODULE CustomerApi ------------------------------
(***************************************************************************)
(* The process that serves /auth, /users and /accounts: AuthService,       *)
(* UsersService and AccountsService side by side.  Each request goes to    *)
(* one of them; they share the database but no rows that one of them       *)
(* reads and another one writes, so each keeps the variables it has alone. *)
(***************************************************************************)
EXTENDS ApiTypes

VARIABLES
  password, failed, lockUntil, stored, revoked, replacedBy, expired, authAudit,
  op, authPc, held, snap, authResp, root, window, knows, crossed, early,
  email, name, outbox, profileAudit, profilePc, profileResp, asked, read,
  wanted, overtaken, stale,
  status, currency, lastAudit, accountPc, accountResp, did, slip

authVars ==
  <<password, failed, lockUntil, stored, revoked, replacedBy, expired, authAudit,
    op, authPc, held, snap, authResp, root, window, knows, crossed, early>>
profileVars ==
  <<email, name, outbox, profileAudit, profilePc, profileResp, asked, read,
    wanted, overtaken, stale>>
accountVars == <<status, currency, lastAudit, accountPc, accountResp, did, slip>>

vars == <<authVars, profileVars, accountVars>>

Auth == INSTANCE Sessions WITH audit <- authAudit, pc <- authPc, resp <- authResp
Users == INSTANCE Profiles WITH audit <- profileAudit, pc <- profilePc, resp <- profileResp
Banking == INSTANCE Accounts WITH pc <- accountPc, resp <- accountResp

Init == Auth!Init /\ Users!Init /\ Banking!Init

\* A request belongs to one service.
AuthRequest(r) ==
  /\ profilePc[r] = "idle" /\ accountPc[r] = "idle"
  /\ Auth!Step(r)
  /\ UNCHANGED <<profileVars, accountVars>>

ProfileRequest(r) ==
  /\ authPc[r] = "idle" /\ accountPc[r] = "idle"
  /\ Users!Step(r)
  /\ UNCHANGED <<authVars, accountVars>>

AccountRequest(r) ==
  /\ authPc[r] = "idle" /\ profilePc[r] = "idle"
  /\ Banking!Step(r)
  /\ UNCHANGED <<authVars, profileVars>>

TimePasses == Auth!Time /\ UNCHANGED <<profileVars, accountVars>>

Next ==
  \/ \E r \in Requests : AuthRequest(r) \/ ProfileRequest(r) \/ AccountRequest(r)
  \/ TimePasses

Spec == Init /\ [][Next]_vars

-----------------------------------------------------------------------------
(* What the services promise, each about its own rows; the statements are in their modules. *)

TwoSessionsOverlapped == Auth!TwoSessionsOverlapped
OldSessionsOverlapped == Auth!OldSessionsOverlapped
ChainNeverForks == Auth!ChainNeverForks
RevokedForGood == Auth!RevokedForGood
LockLiftedOnlyByEarlier == Auth!LockLiftedOnlyByEarlier
OneCustomerPerEmail == Users!OneCustomerPerEmail
ProfileAsAsked == Users!ProfileAsAsked
OneOpenPerCurrency == Banking!OneOpenPerCurrency
LastAuditTells == Banking!LastAuditTells
=============================================================================
