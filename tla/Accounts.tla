------------------------------- MODULE Accounts -------------------------------
(***************************************************************************)
(* AccountsService for one customer: createAccount, freezeAccount,         *)
(* unfreezeAccount, closeAccount.  The status updates are one guarded      *)
(* statement each; the audit row is a statement of its own, after it.      *)
(*                                                                         *)
(* An account goes by the name of the request that created it.  Whether a  *)
(* balance is zero is up to the transactions service, and a choice here.   *)
(***************************************************************************)
EXTENDS ApiTypes

Ids == Requests \cup {Earlier}

VARIABLES
  status,      \* status column; "ABSENT" before the account is created
  currency,    \* currency column
  lastAudit,   \* the newest audit row about an account, as the status it reports
  pc, resp,    \* phase and answer of each request
  did,         \* the account a request has changed, and the status it gave it
  slip         \* accounts whose audit rows overlapped or failed (no step depends on it)

vars == <<status, currency, lastAudit, pc, resp, did, slip>>

Status == {"ABSENT", "ACTIVE", "FROZEN", "CLOSED"}

TypeOK ==
  /\ status \in [Ids -> Status]
  /\ currency \in [Ids -> Currencies]
  /\ lastAudit \in [Ids -> Status]
  /\ pc \in [Requests -> {"idle", "insert", "audit", "answered"}]
  /\ resp \in [Requests -> {"none", "ok", "refused", "error"}]
  /\ did \in [Requests -> [account: Ids, status: Status]]
  /\ slip \subseteq Ids

Init ==
  /\ status = [a \in Ids |-> IF a = Earlier THEN "ACTIVE" ELSE "ABSENT"]
  /\ \E cur \in Currencies : currency = [a \in Ids |-> cur]
  /\ lastAudit = status
  /\ pc = [r \in Requests |-> "idle"]
  /\ resp = [r \in Requests |-> "none"]
  /\ did = [r \in Requests |-> [account |-> Earlier, status |-> "ABSENT"]]
  /\ slip = {}

-----------------------------------------------------------------------------
Goto(r, phase) == pc' = [pc EXCEPT ![r] = phase]
Answer(r, answer) == Goto(r, "answered") /\ resp' = [resp EXCEPT ![r] = answer]

Open(a) == status[a] \notin {"ABSENT", "CLOSED"}
HasOpen(cur) == \E a \in Ids : Open(a) /\ currency[a] = cur

\* Requests that have changed account a and not yet written their audit row.
Unaudited(a) == {r \in Requests : pc[r] = "audit" /\ did[r].account = a}

\* r has given account a the status to: its audit row comes next.
Changed(r, a, to) ==
  /\ did' = [did EXCEPT ![r] = [account |-> a, status |-> to]]
  /\ slip' = IF Unaudited(a) = {} THEN slip \ {a} ELSE slip \cup {a}
  /\ Goto(r, "audit") /\ UNCHANGED resp

\* createAccount: findFirst for an account that is not closed.
CreateFind(r) ==
  /\ pc[r] = "idle"
  /\ \E cur \in Currencies :
       /\ currency' = [currency EXCEPT ![r] = cur]
       /\ IF HasOpen(cur) THEN Answer(r, "refused") ELSE Goto(r, "insert") /\ UNCHANGED resp
  /\ UNCHANGED <<status, lastAudit, did, slip>>

\* Seeded fault: the index leaves out the currency, or is missing.
IndexAllows_Missing(cur) == cur \in Currencies

\* The partial unique index over customer and currency of accounts that are not CLOSED.
IndexAllows(cur) == ~HasOpen(cur)

\* The insert, or its unique conflict.
Create(r) ==
  /\ pc[r] = "insert"
  /\ IF IndexAllows(currency[r])
     THEN status' = [status EXCEPT ![r] = "ACTIVE"] /\ Changed(r, r, "ACTIVE")
     ELSE Answer(r, "refused") /\ UNCHANGED <<status, did, slip>>
  /\ UNCHANGED <<currency, lastAudit>>

\* Seeded fault: the count of the update is not looked at.
UpdateStatus_NoCount(r, from, to) ==
  /\ pc[r] = "idle"
  /\ \E a \in Ids :
       /\ status' = [status EXCEPT ![a] = IF @ \in from THEN to ELSE @]
       /\ Changed(r, a, to)
  /\ UNCHANGED <<currency, lastAudit>>

\* A guarded update hits the row if its status is one of from; otherwise a look at the row
\* finds a reason to refuse.
UpdateStatus(r, from, to) ==
  /\ pc[r] = "idle"
  /\ \E a \in Ids :
       IF status[a] \in from
       THEN status' = [status EXCEPT ![a] = to] /\ Changed(r, a, to)
       ELSE Answer(r, "refused") /\ UNCHANGED <<status, did, slip>>
  /\ UNCHANGED <<currency, lastAudit>>

Freeze(r) == UpdateStatus(r, {"ACTIVE"}, "FROZEN")

Unfreeze(r) == UpdateStatus(r, {"FROZEN"}, "ACTIVE")

\* closeAccount: only an account with a zero balance.
Close(r) ==
  \/ UpdateStatus(r, {"ACTIVE", "FROZEN"}, "CLOSED")
  \/ pc[r] = "idle" /\ Answer(r, "refused") /\ UNCHANGED <<status, currency, lastAudit, did, slip>>

\* auditLog.create; the row that is read back is only for the answer.
RecordAudit(r) ==
  /\ pc[r] = "audit"
  /\ lastAudit' = [lastAudit EXCEPT ![did[r].account] = did[r].status]
  /\ Answer(r, "ok")
  /\ UNCHANGED <<status, currency, did, slip>>

\* A statement fails or the process dies; a change without its audit row is answered with an
\* error at best.
RequestFails(r) ==
  /\ pc[r] \notin {"idle", "answered"}
  /\ Answer(r, "error")
  /\ slip' = IF pc[r] = "audit" THEN slip \cup {did[r].account} ELSE slip
  /\ UNCHANGED <<status, currency, lastAudit, did>>

Step(r) ==
  CreateFind(r) \/ Create(r) \/ Freeze(r) \/ Unfreeze(r) \/ Close(r) \/ RecordAudit(r)
    \/ RequestFails(r)

Next == \E r \in Requests : Step(r)

Spec == Init /\ [][Next]_vars

-----------------------------------------------------------------------------
\* A customer has at most one account in a currency that is not closed, whatever requests pass the
\* look-up at once and whatever is closed in between (accounts.service.ts:50).
OneOpenPerCurrency ==
  \A a, b \in Ids : a # b /\ Open(a) /\ Open(b) => currency[a] # currency[b]

\* The newest audit row of an account tells its status, once nobody is about to write one, unless
\* the rows of two changes overlapped or one could not be written (accounts.service.ts:150).
LastAuditTells ==
  \A a \in Ids \ slip : Unaudited(a) = {} => lastAudit[a] = status[a]
=============================================================================
