----------------------------- MODULE Transactions -----------------------------
(***************************************************************************)
(* TransactionsService.createDeposit / createWithdraw / createTransfer     *)
(* running concurrently over PostgreSQL (READ COMMITTED), together with    *)
(* the status updates of AccountsService on the same account rows.         *)
(*                                                                         *)
(* Database state that is committed and the private work of an open        *)
(* database transaction are kept apart: `pending' is the transaction row   *)
(* inserted but not yet committed, `pendingEvent' the outbox row, and      *)
(* holding the lock of an account row means its new balance is written but *)
(* not yet committed.  A statement of a database transaction is one action *)
(* whenever another request can see or wait for its effect.                *)
(***************************************************************************)
EXTENDS BankTypes, FiniteSetsExt

CONSTANTS
  OpeningBalance,  \* balances left by earlier, finished requests
  Requests,        \* handler invocations; a client retry is another request
  MaxAttempts      \* transferRetryAttempts

ASSUME OpeningAssumption == OpeningBalance \in [Accounts -> Nat]
ASSUME RequestsAssumption == None \notin Requests
ASSUME AttemptsAssumption == MaxAttempts \in Nat \ {0}

VARIABLES
  balance,       \* committed balance of each account row
  status,        \* committed status of each account row
  row,           \* status of the transaction row committed by each request
  event,         \* type of the outbox event committed by each request
  req,           \* the command each request carries
  pc,            \* where each handler is
  attempt,       \* attempt counter of the transfer retry loop
  pending,       \* uncommitted transaction row of each request
  pendingEvent,  \* uncommitted outbox row of each request
  locks,         \* the request whose open transaction has written each account row
  resp           \* what the handler answers (or is about to answer)

committed == <<balance, row, event>>
private == <<pending, pendingEvent, locks>>
vars == <<committed, private, status, req, pc, attempt, resp>>

AccountStatus == {"ACTIVE", "FROZEN", "CLOSED"}
RowStatus == {"NONE", "PENDING", "COMPLETED", "REJECTED"}
EventType == {"NONE", "TRANSACTION_COMPLETED", "TRANSACTION_FAILED"}
Response == {"none", "ok", "rejected", "refused", "error"}

\* Phases with an open database transaction, and all phases.
InTx == {"readFrom", "readTo", "insert", "reject", "update", "event", "commit"}
Phase == InTx \cup {"idle", "lookup", "fraud", "release", "fallback", "answered", "crashed"}

TypeOK ==
  /\ balance \in [Accounts -> Int]
  /\ status \in [Accounts -> AccountStatus]
  /\ row \in [Requests -> RowStatus]
  /\ event \in [Requests -> EventType]
  /\ req \in [Requests -> Commands \cup {None}]
  /\ pc \in [Requests -> Phase]
  /\ attempt \in [Requests -> 0 .. MaxAttempts - 1]
  /\ pending \in [Requests -> RowStatus]
  /\ pendingEvent \in [Requests -> EventType]
  /\ locks \in [Accounts -> Requests \cup {None}]
  /\ resp \in [Requests -> Response]

Init ==
  /\ balance = OpeningBalance
  /\ status = [a \in Accounts |-> "ACTIVE"]
  /\ row = [r \in Requests |-> "NONE"]
  /\ event = [r \in Requests |-> "NONE"]
  /\ req = [r \in Requests |-> None]
  /\ pc = [r \in Requests |-> "idle"]
  /\ attempt = [r \in Requests |-> 0]
  /\ pending = [r \in Requests |-> "NONE"]
  /\ pendingEvent = [r \in Requests |-> "NONE"]
  /\ locks = [a \in Accounts |-> None]
  /\ resp = [r \in Requests |-> "none"]

-----------------------------------------------------------------------------
(* What a request can see of the others. *)

\* Committed rows with the key of r and the given status (findExisting, the unique index).
RowsFor(r, s) == {t \in Requests : row[t] = s /\ Key(req[t]) = Key(req[r])}
\* Seeded fault: the unique index is missing.
KeyTaken_NoIndex(r) == FALSE

KeyTaken(r) == \E t \in Requests : row[t] # "NONE" /\ Key(req[t]) = Key(req[r])
\* Seeded fault: uncommitted keys are not seen.
KeyHolders_NoWait(r) == {}

\* Another open transaction has inserted the same key: the unique index makes r wait for it.
KeyHolders(r) == {t \in Requests \ {r} : pending[t] # "NONE" /\ Key(req[t]) = Key(req[r])}
\* Seeded fault: the source account is always written first.
IsNext_SourceFirst(r, a) ==
  /\ a \in Touched(req[r]) /\ locks[a] # r
  /\ a # req[r].from => \A b \in Touched(req[r]) : b = req[r].from => locks[b] = r

\* The first account row, in id order, that r has still to write.
IsNext(r, a) ==
  /\ a \in Touched(req[r]) /\ locks[a] # r
  /\ \A b \in Touched(req[r]) : locks[b] # r => a <= b

EventOf(s) == IF s = "COMPLETED" THEN "TRANSACTION_COMPLETED"
              ELSE IF s = "REJECTED" THEN "TRANSACTION_FAILED" ELSE "NONE"

-----------------------------------------------------------------------------
(* Building blocks of the actions. *)

Goto(r, p) == pc' = [pc EXCEPT ![r] = p]
Reply(r, x) == resp' = [resp EXCEPT ![r] = x]
\* Seeded fault: an ended transaction keeps its row locks.
Unlock_Leak(r) == UNCHANGED locks

Unlock(r) == locks' = [a \in Accounts |-> IF locks[a] = r THEN None ELSE locks[a]]

\* The open transaction of r ends: its uncommitted rows and its locks are gone.
CloseTx(r) ==
  /\ pending' = [pending EXCEPT ![r] = "NONE"]
  /\ pendingEvent' = [pendingEvent EXCEPT ![r] = "NONE"]
  /\ Unlock(r)

\* The transaction callback throws: roll back, keep what will be answered, go to the catch block.
Throw(r, x) ==
  /\ CloseTx(r) /\ Goto(r, "release") /\ Reply(r, x)
  /\ UNCHANGED <<committed, status, req, attempt>>

-----------------------------------------------------------------------------
(* Before the database transaction. *)

Submit(r) ==
  /\ pc[r] = "idle"
  /\ \E c \in Commands : req' = [req EXCEPT ![r] = c]
  /\ Goto(r, "lookup")
  /\ UNCHANGED <<committed, private, status, attempt, resp>>

\* findExisting and resolveExistingOrThrow: a finished row of this key is answered again.
FindExisting(r) ==
  /\ pc[r] = "lookup"
  /\ \/ /\ RowsFor(r, "COMPLETED") # {}
        /\ Goto(r, "answered") /\ Reply(r, "ok")
     \/ /\ RowsFor(r, "REJECTED") # {}
        /\ Goto(r, "answered") /\ Reply(r, "rejected")
     \/ /\ RowsFor(r, "COMPLETED") = {} /\ RowsFor(r, "REJECTED") = {}
        /\ Goto(r, IF req[r].type = "DEPOSIT" THEN "readTo" ELSE "fraud")
        /\ UNCHANGED resp
  /\ UNCHANGED <<committed, private, status, req, attempt>>

\* The fraud rules decide; of their conditions only the same-account rule is about this state.
FraudApprove(r) ==
  /\ pc[r] = "fraud" /\ req[r].from # req[r].to
  /\ Goto(r, "readFrom")
  /\ UNCHANGED <<committed, private, status, req, attempt, resp>>

FraudReject(r) ==
  /\ pc[r] = "fraud"
  /\ Goto(r, "reject")
  /\ UNCHANGED <<committed, private, status, req, attempt, resp>>

-----------------------------------------------------------------------------
(* Statements of the database transaction. *)
\* Seeded faults: the owner, or the status, is not checked.
Acceptable_AnyOwner(r, a) == status[a] = "ACTIVE"
Acceptable_AnyStatus(r, a) == a = OwnedAccount(req[r]) => OwnerOf[a] = req[r].user

\* Read an account row without locking it; the owner matters for the account of the actor only.
Acceptable(r, a) ==
  /\ status[a] = "ACTIVE"
  /\ a = OwnedAccount(req[r]) => OwnerOf[a] = req[r].user

ReadAccount(r, phase, a, next) ==
  /\ pc[r] = phase
  /\ \/ /\ Acceptable(r, a)
        /\ Goto(r, next)
        /\ UNCHANGED <<committed, private, status, req, attempt, resp>>
     \/ /\ ~Acceptable(r, a)
        /\ Throw(r, "refused")

ReadFrom(r) ==
  ReadAccount(r, "readFrom", req[r].from,
              IF req[r].type = "TRANSFER" THEN "readTo" ELSE "insert")

ReadTo(r) == ReadAccount(r, "readTo", req[r].to, "insert")

\* The insert waits for an open transaction with the same key; a committed row is P2002.
Insert(r, phase, rowStatus, next) ==
  /\ pc[r] = phase /\ KeyHolders(r) = {}
  /\ \/ /\ ~KeyTaken(r)
        /\ pending' = [pending EXCEPT ![r] = rowStatus]
        /\ Goto(r, next)
     \/ /\ KeyTaken(r)
        /\ Goto(r, "fallback")
        /\ UNCHANGED pending
  /\ UNCHANGED <<committed, pendingEvent, locks, status, req, attempt, resp>>

CreatePending(r) == Insert(r, "insert", "PENDING", "update")
CreateRejected(r) == Insert(r, "reject", "REJECTED", "event")

\* incrementBalance: no condition on the row, only its lock.
Credit(r, a) ==
  /\ pc[r] = "update" /\ IsNext(r, a) /\ a # req[r].from
  /\ locks[a] = None
  /\ locks' = [locks EXCEPT ![a] = r]
  /\ UNCHANGED <<committed, pending, pendingEvent, status, req, pc, attempt, resp>>
\* Seeded fault: the debit has no balance condition.
Debit_Unchecked(r, a) ==
  /\ pc[r] = "update" /\ IsNext(r, a) /\ a = req[r].from
  /\ locks[a] = None
  /\ locks' = [locks EXCEPT ![a] = r]
  /\ UNCHANGED <<committed, pending, pendingEvent, status, req, pc, attempt, resp>>

\* decrementBalance: UPDATE ... WHERE balance >= amount, evaluated once the row lock is free.
Debit(r, a) ==
  /\ pc[r] = "update" /\ IsNext(r, a) /\ a = req[r].from
  /\ locks[a] = None
  /\ balance[a] >= req[r].amount
  /\ locks' = [locks EXCEPT ![a] = r]
  /\ UNCHANGED <<committed, pending, pendingEvent, status, req, pc, attempt, resp>>

\* No row matches: the update returns count 0 at once, without waiting for a lock.
DebitRefused(r, a) ==
  /\ pc[r] = "update" /\ IsNext(r, a) /\ a = req[r].from
  /\ balance[a] < req[r].amount
  /\ Throw(r, "refused")
\* Seeded faults: the loop ends after its first account, or the event is not written.
MarkCompleted_FirstAccountOnly(r) ==
  /\ pc[r] = "update"
  /\ \E a \in Touched(req[r]) : locks[a] = r
  /\ pending' = [pending EXCEPT ![r] = "COMPLETED"]
  /\ Goto(r, "event")
  /\ UNCHANGED <<committed, pendingEvent, locks, status, req, attempt, resp>>
MarkCompleted_NoEvent(r) ==
  /\ pc[r] = "update"
  /\ \A a \in Touched(req[r]) : locks[a] = r
  /\ pending' = [pending EXCEPT ![r] = "COMPLETED"]
  /\ Goto(r, "commit")
  /\ UNCHANGED <<committed, pendingEvent, locks, status, req, attempt, resp>>

MarkCompleted(r) ==
  /\ pc[r] = "update"
  /\ \A a \in Touched(req[r]) : locks[a] = r
  /\ pending' = [pending EXCEPT ![r] = "COMPLETED"]
  /\ Goto(r, "event")
  /\ UNCHANGED <<committed, pendingEvent, locks, status, req, attempt, resp>>

\* createCompletedEvent / createFailedFraudEvent: the outbox row, in the same transaction.
CreateEvent(r) ==
  /\ pc[r] = "event"
  /\ pendingEvent' = [pendingEvent EXCEPT ![r] = EventOf(pending[r])]
  /\ Goto(r, "commit")
  /\ UNCHANGED <<committed, pending, locks, status, req, attempt, resp>>

\* The uncommitted versions become the committed ones, all at once.
Publish(r) ==
  /\ balance' = [a \in Accounts |->
                   IF locks[a] = r THEN balance[a] + Delta(req[r], a) ELSE balance[a]]
  /\ row' = [row EXCEPT ![r] = pending[r]]
  /\ event' = [event EXCEPT ![r] = pendingEvent[r]]
  /\ CloseTx(r)

\* A posted command is answered; a fraud rejection throws inside the try block.
Commit(r) ==
  /\ pc[r] = "commit"
  /\ Publish(r)
  /\ IF pending[r] = "COMPLETED" THEN Goto(r, "answered") /\ Reply(r, "ok")
                                 ELSE Goto(r, "release") /\ Reply(r, "rejected")
  /\ UNCHANGED <<status, req, attempt>>

-----------------------------------------------------------------------------
(* Failures. *)

\* The commit took effect but its acknowledgement is lost: the code sees an error.
CommitAckLost(r) ==
  /\ pc[r] = "commit"
  /\ Publish(r)
  /\ Goto(r, "release") /\ Reply(r, "error")
  /\ UNCHANGED <<status, req, attempt>>

\* A statement fails (connection, timeout of the interactive transaction, full pool).
DbError(r) ==
  /\ pc[r] \in InTx
  /\ Throw(r, "error")
\* Seeded fault: the attempts are not bounded.
CanRetry_Unbounded(r) ==
  req[r].type = "TRANSFER" /\ pc[r] # "reject" /\ pending[r] # "REJECTED"

\* P2034, deadlock or serialization failure: only the transfer loop tries again.
CanRetry(r) ==
  /\ req[r].type = "TRANSFER"
  /\ pc[r] # "reject" /\ pending[r] # "REJECTED"
  /\ attempt[r] < MaxAttempts - 1

RetryConflict(r) ==
  /\ pc[r] \in InTx /\ CanRetry(r)
  /\ CloseTx(r)
  /\ attempt' = [attempt EXCEPT ![r] = @ + 1]
  /\ Goto(r, "readFrom")
  /\ UNCHANGED <<committed, status, req, resp>>

\* findExisting fails outside the transaction: nothing was done, the error is answered.
LookupError(r) ==
  /\ pc[r] \in {"lookup", "fallback"}
  /\ Goto(r, "answered") /\ Reply(r, "error")
  /\ UNCHANGED <<committed, private, status, req, attempt>>

\* The process dies: PostgreSQL rolls back, the client gets no answer.
Crash(r) ==
  /\ pc[r] \notin {"idle", "answered", "crashed"}
  /\ CloseTx(r) /\ Goto(r, "crashed") /\ Reply(r, "none")
  /\ UNCHANGED <<committed, status, req, attempt>>

-----------------------------------------------------------------------------
(* The catch block. *)

\* Not P2002: give the daily reservation back (Redis, not part of this state) and rethrow.
ReleaseReservation(r) ==
  /\ pc[r] = "release"
  /\ Goto(r, "answered")
  /\ UNCHANGED <<committed, private, status, req, attempt, resp>>
\* Seeded fault: any existing row is answered as a success.
P2002Fallback_AlwaysOk(r) ==
  /\ pc[r] = "fallback"
  /\ Goto(r, "answered") /\ Reply(r, "ok")
  /\ UNCHANGED <<committed, private, status, req, attempt>>

\* resolveP2002Fallback: answer what the committed row of this key says.
P2002Fallback(r) ==
  /\ pc[r] = "fallback"
  /\ Goto(r, "answered")
  /\ Reply(r, CASE RowsFor(r, "COMPLETED") # {} -> "ok"
                [] RowsFor(r, "REJECTED") # {} -> "rejected"
                [] RowsFor(r, "PENDING") # {} -> "refused"
                [] OTHER -> "error")
  /\ UNCHANGED <<committed, private, status, req, attempt>>

-----------------------------------------------------------------------------
(* The UPDATE statements of AccountsService on the same rows. *)

ChangeStatus(a, from, to) ==
  /\ status[a] \in from
  /\ locks[a] = None
  /\ status' = [status EXCEPT ![a] = to]
  /\ UNCHANGED <<committed, private, req, pc, attempt, resp>>

Freeze(a) == ChangeStatus(a, {"ACTIVE"}, "FROZEN")
Unfreeze(a) == ChangeStatus(a, {"FROZEN"}, "ACTIVE")
Close(a) == balance[a] = 0 /\ ChangeStatus(a, {"ACTIVE", "FROZEN"}, "CLOSED")

-----------------------------------------------------------------------------
(* What the handler of r does by itself, as long as nothing fails. *)
Advance(r) ==
  \/ FindExisting(r) \/ FraudApprove(r) \/ FraudReject(r)
  \/ ReadFrom(r) \/ ReadTo(r) \/ CreatePending(r) \/ CreateRejected(r)
  \/ \E a \in Accounts : Credit(r, a) \/ Debit(r, a) \/ DebitRefused(r, a)
  \/ MarkCompleted(r) \/ CreateEvent(r) \/ Commit(r)
  \/ ReleaseReservation(r) \/ P2002Fallback(r)

Fail(r) ==
  CommitAckLost(r) \/ DbError(r) \/ RetryConflict(r) \/ LookupError(r) \/ Crash(r)

Next ==
  \/ \E r \in Requests : Submit(r) \/ Advance(r) \/ Fail(r)
  \/ \E a \in Accounts : Freeze(a) \/ Unfreeze(a) \/ Close(a)

Spec == Init /\ [][Next]_vars

\* A handler that can take its next step is run by the event loop; row and key locks are
\* granted once free.  Nothing is assumed of failures, of clients or of status changes.
Fairness == \A r \in Requests : WF_vars(Advance(r))
FairSpec == Spec /\ Fairness

-----------------------------------------------------------------------------
(* Safety. *)

\* No committed balance is negative: concurrent debits of one account cannot both pass the
\* `balance >= amount' condition of decrementBalance on money that is there only once.
NoOverdraft == \A a \in Accounts : balance[a] >= 0

\* A (customer, type, reference) has at most one committed transaction row, however many
\* requests, retries and crashed handlers carried it (the unique index and P2002).
OneRowPerKey ==
  \A r, t \in Requests :
    /\ row[r] # "NONE" /\ row[t] # "NONE"
    /\ Key(req[r]) = Key(req[t])
    => r = t

\* Every balance is the opening balance plus what the COMPLETED rows say: no attempt that was
\* rolled back, retried, refused or crashed half-way (credit written, debit refused) leaves
\* money behind, and no row is COMPLETED without its money having moved.
BalanceExplained ==
  LET posted == {r \in Requests : row[r] = "COMPLETED"}
  IN \A a \in Accounts :
       balance[a] = OpeningBalance[a]
                      + SumFunctionOnSet([r \in posted |-> Delta(req[r], a)], posted)

\* Outbox: a committed row has its event and nothing else has one; a PENDING row is never
\* committed, which is what makes resolveExistingOrThrow's fall-through safe.
OutboxAtomic ==
  \A r \in Requests : row[r] # "PENDING" /\ event[r] = EventOf(row[r])

\* An answer agrees with the committed rows: success and fraud rejection are answered only
\* for a key that was posted or rejected, by whichever request, and a refused request
\* (inactive account, wrong owner, balance) has left no row.
AnswerTruthful ==
  \A r \in Requests : pc[r] = "answered" =>
    /\ resp[r] = "ok" => RowsFor(r, "COMPLETED") # {}
    /\ resp[r] = "rejected" => RowsFor(r, "REJECTED") # {}
    /\ resp[r] = "refused" => row[r] = "NONE"

\* r waits for t: for the outcome of its insert of the same key, or for an account row.
WaitsFor(r, t) ==
  \/ pc[r] \in {"insert", "reject"} /\ t \in KeyHolders(r)
  \/ /\ pc[r] = "update"
     /\ \E a \in Accounts :
          /\ IsNext(r, a) /\ locks[a] = t
          /\ a = req[r].from => balance[a] >= req[r].amount

\* Locks taken in account-id order, after the key: no set of open transactions waits in a
\* circle (the comment at transactions.service.ts:514).
NoDeadlock ==
  \A S \in (SUBSET Requests) \ {{}} : \E r \in S : \A t \in S : ~WaitsFor(r, t)

\* A closed account holds no money, as closeAccount demands ("Account balance must be zero to
\* close account") and ensureActiveOrThrow is there to preserve.
ClosedAccountIsEmpty == \A a \in Accounts : status[a] = "CLOSED" => balance[a] = 0

(* The service implements the book of Ledger. *)
entries == {[cmd |-> req[r], status |-> row[r]] : r \in {t \in Requests : row[t] # "NONE"}}
Book == INSTANCE Ledger WITH balance <- balance, entries <- entries
\* Every behaviour of the handlers is, seen from the committed state, a behaviour of the book:
\* each commit enters one fresh command, in full, authorised and covered, or refuses it.
ImplementsLedger == Book!LedgerSpec

-----------------------------------------------------------------------------
(* The inductive invariant behind the safety properties. *)

\* What holds of a handler by its phase: which rows it has open, what it has checked.
PendingFits(r) ==
  /\ pc[r] = "update" => pending[r] = "PENDING"
  /\ pc[r] \in {"event", "commit"} => pending[r] \in {"COMPLETED", "REJECTED"}
  /\ pc[r] \notin {"update", "event", "commit"} => pending[r] = "NONE"
  /\ pendingEvent[r] = IF pc[r] = "commit" THEN EventOf(pending[r]) ELSE "NONE"
  /\ pending[r] = "COMPLETED" => \A a \in Touched(req[r]) : locks[a] = r

\* A handler that may still post has passed the checks that belong to its phase.
Checked(r) ==
  /\ pc[r] # "idle" => req[r] \in Commands
  /\ pc[r] \in {"fraud", "readFrom"} => req[r].type # "DEPOSIT"
  /\ pc[r] = "readTo" => req[r].type # "WITHDRAW"
  /\ pc[r] = "readFrom" => req[r].from # req[r].to
  /\ pc[r] = "insert" \/ (pc[r] = "readTo" /\ req[r].type = "TRANSFER")
       \/ pending[r] \in {"PENDING", "COMPLETED"}
     => Authorized(req[r]) /\ req[r].from # req[r].to

\* Rows are committed last, with their event, and answers come after.
Finished(r) ==
  /\ pc[r] \notin {"release", "answered", "crashed"} => row[r] = "NONE" /\ resp[r] = "none"
  /\ row[r] # "PENDING" /\ event[r] = EventOf(row[r])
  /\ resp[r] = "ok" => RowsFor(r, "COMPLETED") # {}
  /\ resp[r] = "rejected" => RowsFor(r, "REJECTED") # {}
  /\ resp[r] = "refused" => row[r] = "NONE"

\* An account row written by an open transaction covers its debit until that transaction ends.
Holds(r, a) ==
  /\ pending[r] \in {"PENDING", "COMPLETED"}
  /\ a \in Touched(req[r])
  /\ a = req[r].from => balance[a] >= req[r].amount

Claims(r) == row[r] # "NONE" \/ pending[r] # "NONE"

Handlers == \A r \in Requests : PendingFits(r) /\ Checked(r) /\ Finished(r)
Holders == \A a \in Accounts : locks[a] # None => Holds(locks[a], a)

\* A key belongs to one request at a time, whether its row is committed or not yet.
Unique ==
  \A r, t \in Requests : Claims(r) /\ Claims(t) /\ Key(req[r]) = Key(req[t]) => r = t

\* Whoever holds an account row has written all those before it that it touches.
LocksAscend ==
  \A a \in Accounts : locks[a] # None =>
    \A b \in Touched(req[locks[a]]) : b < a => locks[b] = locks[a]

\* Every handler has done what its phase says, and no two of them own the same key or the
\* same money.
IInv == TypeOK /\ NoOverdraft /\ Handlers /\ Holders /\ Unique

-----------------------------------------------------------------------------
(* Liveness. *)

\* Every submitted request is answered unless its process dies: no lock wait, retry loop or
\* error path leaves a handler hanging.
EveryRequestAnswered ==
  \A r \in Requests : pc[r] = "lookup" ~> pc[r] \in {"answered", "crashed"}

\* A request that arrives after an account was closed never moves money on it: the status
\* check may be stale against a close that comes later, never against an earlier one.
ClosedStaysUntouched ==
  \A r \in Requests, a \in Accounts :
    [](/\ status[a] = "CLOSED" /\ pc[r] \in {"lookup", "fraud"}
       /\ a \in Touched(req[r]) /\ row[r] = "NONE"
       => [](row[r] # "COMPLETED"))
=============================================================================
