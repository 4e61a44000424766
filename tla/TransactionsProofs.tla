-------------------------- MODULE TransactionsProofs --------------------------
(***************************************************************************)
(* Proofs about Transactions: type correctness, the inductive invariant    *)
(* and the safety properties that follow from it, and that the handlers    *)
(* implement the book of Ledger.                                           *)
(***************************************************************************)
EXTENDS Transactions, SumTheorems, FiniteSetTheorems, WellFoundedInduction, TLAPS

-----------------------------------------------------------------------------
(* Type correctness. *)

LEMMA CommandShape ==
  ASSUME NEW c \in Commands
  PROVE  /\ c \in Command /\ WellFormed(c)
         /\ c.amount \in Nat /\ c.amount > 0
         /\ Touched(c) \subseteq Accounts
         /\ c.type # "DEPOSIT" => c.from \in Accounts
         /\ c.type # "WITHDRAW" => c.to \in Accounts
  BY CommandsAssumption DEF Command, WellFormed, Touched

LEMMA DeltaType ==
  ASSUME NEW c \in Commands, NEW a \in Accounts
  PROVE  Delta(c, a) \in Int
  BY CommandShape DEF Delta

LEMMA InitType == Init => TypeOK
  BY OpeningAssumption, AttemptsAssumption
  DEF Init, TypeOK, AccountStatus, RowStatus, EventType, Response, Phase, InTx

LEMMA CloseTxType ==
  ASSUME TypeOK, NEW r \in Requests, CloseTx(r)
  PROVE  /\ pending' \in [Requests -> RowStatus]
         /\ pendingEvent' \in [Requests -> EventType]
         /\ locks' \in [Accounts -> Requests \cup {None}]
  BY DEF TypeOK, CloseTx, Unlock, RowStatus, EventType

LEMMA ThrowType ==
  ASSUME TypeOK, NEW r \in Requests, NEW x \in Response, Throw(r, x)
  PROVE  TypeOK'
  BY CloseTxType DEF TypeOK, Throw, Goto, Reply, Phase, committed

LEMMA ReadAccountType ==
  ASSUME TypeOK, NEW r \in Requests, NEW p, NEW a, NEW next \in Phase,
         ReadAccount(r, p, a, next)
  PROVE  TypeOK'
  BY ThrowType DEF TypeOK, ReadAccount, Goto, Response, committed, private

LEMMA InsertType ==
  ASSUME TypeOK, NEW r \in Requests, NEW p, NEW s \in RowStatus, NEW next \in Phase,
         Insert(r, p, s, next)
  PROVE  TypeOK'
  BY DEF TypeOK, Insert, Goto, Phase, committed

LEMMA PublishType ==
  ASSUME TypeOK, NEW r \in Requests, pc[r] # "idle" => req[r] \in Commands,
         pc[r] = "commit", Publish(r)
  PROVE  /\ balance' \in [Accounts -> Int]
         /\ row' \in [Requests -> RowStatus]
         /\ event' \in [Requests -> EventType]
  BY DeltaType DEF TypeOK, Publish

\* No handler that carries no command is past the idle phase.
Carried == \A r \in Requests : pc[r] # "idle" => req[r] \in Commands

LEMMA TypeStep == TypeOK /\ Carried /\ [Next]_vars => TypeOK'
<1> SUFFICES ASSUME TypeOK, Carried, [Next]_vars PROVE TypeOK'
  OBVIOUS
<1> USE DEF TypeOK, Goto, Reply, committed, private, Phase, InTx, Response
<1>1. ASSUME NEW r \in Requests, Submit(r) PROVE TypeOK'
  BY <1>1 DEF Submit
<1>2. ASSUME NEW r \in Requests, FindExisting(r) PROVE TypeOK'
  BY <1>2 DEF FindExisting
<1>3. ASSUME NEW r \in Requests, FraudApprove(r) \/ FraudReject(r) PROVE TypeOK'
  BY <1>3 DEF FraudApprove, FraudReject
<1>4. ASSUME NEW r \in Requests, ReadFrom(r) \/ ReadTo(r) PROVE TypeOK'
  BY <1>4, ReadAccountType DEF ReadFrom, ReadTo
<1>5. ASSUME NEW r \in Requests, CreatePending(r) \/ CreateRejected(r) PROVE TypeOK'
  BY <1>5, InsertType DEF CreatePending, CreateRejected, RowStatus
<1>6. ASSUME NEW r \in Requests, NEW a \in Accounts, Credit(r, a) \/ Debit(r, a) PROVE TypeOK'
  BY <1>6 DEF Credit, Debit
<1>7. ASSUME NEW r \in Requests, NEW a \in Accounts, DebitRefused(r, a) PROVE TypeOK'
  BY <1>7, ThrowType DEF DebitRefused
<1>8. ASSUME NEW r \in Requests, MarkCompleted(r) \/ CreateEvent(r) PROVE TypeOK'
  BY <1>8 DEF MarkCompleted, CreateEvent, EventOf, RowStatus, EventType
<1>9. ASSUME NEW r \in Requests, Commit(r) \/ CommitAckLost(r) PROVE TypeOK'
  <2>1. CloseTx(r) /\ pc[r] = "commit" /\ Publish(r)
    BY <1>9 DEF Commit, CommitAckLost, Publish
  <2> QED
    BY <1>9, <2>1, CloseTxType, PublishType DEF Commit, CommitAckLost, Carried
<1>10. ASSUME NEW r \in Requests, DbError(r) PROVE TypeOK'
  BY <1>10, ThrowType DEF DbError
<1>11. ASSUME NEW r \in Requests, RetryConflict(r) PROVE TypeOK'
  BY <1>11, CloseTxType, AttemptsAssumption DEF RetryConflict, CanRetry
<1>12. ASSUME NEW r \in Requests, LookupError(r) \/ ReleaseReservation(r) \/ P2002Fallback(r)
       PROVE TypeOK'
  BY <1>12 DEF LookupError, ReleaseReservation, P2002Fallback
<1>13. ASSUME NEW r \in Requests, Crash(r) PROVE TypeOK'
  BY <1>13, CloseTxType DEF Crash
<1>14. ASSUME NEW a \in Accounts, Freeze(a) \/ Unfreeze(a) \/ Close(a) PROVE TypeOK'
  BY <1>14 DEF Freeze, Unfreeze, Close, ChangeStatus, AccountStatus
<1>15. CASE UNCHANGED vars
  BY <1>15 DEF vars
<1> QED
  BY <1>1, <1>2, <1>3, <1>4, <1>5, <1>6, <1>7, <1>8, <1>9, <1>10, <1>11, <1>12, <1>13,
     <1>14, <1>15 DEF Next, Advance, Fail
-----------------------------------------------------------------------------
(* The inductive invariant. *)

LEMMA InitIInv == Init => IInv
<1> SUFFICES ASSUME Init PROVE IInv
  OBVIOUS
<1>1. TypeOK
  BY InitType
<1>2. NoOverdraft
  BY OpeningAssumption DEF Init, NoOverdraft
<1>3. Handlers
  BY DEF Init, Handlers, PendingFits, Checked, Finished, EventOf
<1>4. Holders /\ Unique
  BY DEF Init, Holders, Unique, Claims
<1> QED
  BY <1>1, <1>2, <1>3, <1>4 DEF IInv

\* Rows stay as they are once committed, so what has been answered stays true.
LEMMA RowsStay ==
  ASSUME NEW r \in Requests, NEW s \in RowStatus, s # "NONE", TypeOK,
         req'[r] = req[r],
         \A t \in Requests : row[t] # "NONE" => row'[t] = row[t] /\ req'[t] = req[t],
         RowsFor(r, s) # {}
  PROVE  RowsFor(r, s)' # {}
<1>1. PICK t \in Requests : row[t] = s /\ Key(req[t]) = Key(req[r])
  BY DEF RowsFor
<1>2. row'[t] = s /\ Key(req'[t]) = Key(req'[r])
  BY <1>1 DEF Key
<1> QED
  BY <1>2 DEF RowsFor, Key

\* An action of r that touches no row and no lock, and moves r between phases without a
\* transaction of its own.
LEMMA MoveStep ==
  ASSUME IInv, TypeOK', NEW r \in Requests,
         UNCHANGED <<committed, private, req>>,
         \A t \in Requests \ {r} : pc'[t] = pc[t] /\ resp'[t] = resp[t],
         pending[r] = "NONE",
         pc'[r] \notin {"update", "event", "commit"}, pc[r] # "commit",
         Checked(r)', Finished(r)'
  PROVE  IInv'
<1>1. NoOverdraft' /\ Unique'
  BY DEF IInv, NoOverdraft, Unique, Claims, Key, committed, private
<1>2. Holders'
  BY DEF IInv, Holders, Holds, Touched, committed, private
<1>3. ASSUME NEW t \in Requests, t # r PROVE PendingFits(t)' /\ Checked(t)' /\ Finished(t)'
  BY <1>3 DEF IInv, Handlers, PendingFits, Checked, Finished, RowsFor, Key, Touched, Authorized,
     OwnedAccount, EventOf, committed, private
<1>4. PendingFits(r)'
  BY DEF IInv, Handlers, PendingFits, EventOf, committed, private
<1>5. Handlers'
  BY <1>3, <1>4 DEF Handlers
<1> QED
  BY <1>1, <1>2, <1>5 DEF IInv

\* The transaction of r is rolled back (or was never opened): r keeps nothing.
LEMMA AbortStep ==
  ASSUME IInv, TypeOK', NEW r \in Requests,
         UNCHANGED <<committed, req>>, CloseTx(r),
         \A t \in Requests \ {r} : pc'[t] = pc[t] /\ resp'[t] = resp[t],
         pc'[r] \notin {"update", "event", "commit"},
         Checked(r)', Finished(r)'
  PROVE  IInv'
<1>1. \A a \in Accounts : locks'[a] # None => locks'[a] = locks[a] /\ locks[a] # r
  BY DEF IInv, TypeOK, CloseTx, Unlock
<1>2. \A a \in Accounts : locks[a] # None /\ locks[a] # r => locks'[a] = locks[a]
  BY DEF IInv, TypeOK, CloseTx, Unlock
<1>3. /\ pending'[r] = "NONE" /\ pendingEvent'[r] = "NONE"
      /\ \A t \in Requests \ {r} : pending'[t] = pending[t] /\ pendingEvent'[t] = pendingEvent[t]
  BY DEF IInv, TypeOK, CloseTx
<1>4. NoOverdraft' /\ Unique'
  BY <1>3 DEF IInv, NoOverdraft, Unique, Claims, Key, committed
<1>5. Holders'
  BY <1>1, <1>3 DEF IInv, TypeOK, Holders, Holds, Touched, committed
<1>6. ASSUME NEW t \in Requests, t # r PROVE PendingFits(t)' /\ Checked(t)' /\ Finished(t)'
  <2>1. \A a \in Accounts : locks[a] = t => locks'[a] = t
    BY <1>2, <1>6, RequestsAssumption
  <2>2. PendingFits(t)'
    <3>1. PendingFits(t) /\ (pending[t] # "NONE" => req[t] \in Commands)
      BY DEF IInv, Handlers, PendingFits, Checked
    <3>2. pending[t] = "COMPLETED" => \A a \in Touched(req[t]) : locks'[a] = t
      BY <2>1, <3>1, CommandShape DEF PendingFits
    <3> QED
      BY <1>3, <1>6, <3>1, <3>2 DEF PendingFits, Touched, EventOf
  <2> QED
    BY <1>3, <1>6, <2>2 DEF IInv, Handlers, Checked, Finished, RowsFor, Key, Authorized,
       OwnedAccount, EventOf, committed
<1>7. PendingFits(r)'
  BY <1>3 DEF PendingFits, EventOf
<1> QED
  BY <1>4, <1>5, <1>6, <1>7 DEF IInv, Handlers

LEMMA SubmitStep ==
  ASSUME IInv, TypeOK', NEW r \in Requests, Submit(r)
  PROVE  IInv'
<1> USE DEF Submit, Goto, committed, private
<1>1. PICK c \in Commands : req' = [req EXCEPT ![r] = c]
  OBVIOUS
<1>2. row[r] = "NONE" /\ pending[r] = "NONE" /\ resp[r] = "none"
  BY DEF IInv, Handlers, PendingFits, Finished
<1>3. NoOverdraft'
  BY DEF IInv, NoOverdraft
<1>4. \A t \in Requests \ {r} : req'[t] = req[t] /\ pc'[t] = pc[t]
  BY <1>1 DEF IInv, TypeOK
<1>5. req'[r] \in Commands /\ pc'[r] = "lookup"
  BY <1>1 DEF IInv, TypeOK
<1>6. Unique'
  BY <1>2, <1>4 DEF IInv, Unique, Claims, Key
<1>7. Holders'
  <2> SUFFICES ASSUME NEW a \in Accounts, locks[a] # None PROVE Holds(locks[a], a)'
    BY DEF Holders
  <2>1. Holds(locks[a], a) /\ locks[a] \in Requests
    BY DEF IInv, TypeOK, Holders
  <2>2. locks[a] # r
    BY <2>1, <1>2 DEF Holds
  <2> QED
    BY <2>1, <2>2, <1>4 DEF Holds, Touched
<1>8. ASSUME NEW t \in Requests, t # r PROVE PendingFits(t)' /\ Checked(t)' /\ Finished(t)'
  <2>1. PendingFits(t) /\ Checked(t) /\ Finished(t)
    BY DEF IInv, Handlers
  <2>2. PendingFits(t)' /\ Checked(t)'
    BY <2>1, <1>4, <1>8 DEF PendingFits, Checked, Authorized, OwnedAccount, Touched, EventOf
  <2>3. \A s \in {"COMPLETED", "REJECTED"} : RowsFor(t, s) # {} => RowsFor(t, s)' # {}
    BY <1>2, <1>4, <1>8 DEF RowsFor, Key
  <2>4. Finished(t)'
    BY <2>1, <2>3, <1>4, <1>8 DEF Finished
  <2> QED
    BY <2>2, <2>4
<1>9. PendingFits(r)' /\ Checked(r)' /\ Finished(r)'
  BY <1>2, <1>5 DEF IInv, Handlers, PendingFits, Checked, Finished, EventOf
<1> QED
  BY <1>3, <1>6, <1>7, <1>8, <1>9 DEF IInv, Handlers

\* FindExisting, the fraud decision and the catch block move r, and answer what rows say.
LEMMA OutsideTxStep ==
  ASSUME IInv, TypeOK', NEW r \in Requests,
         \/ FindExisting(r) \/ FraudApprove(r) \/ FraudReject(r)
         \/ ReleaseReservation(r) \/ P2002Fallback(r) \/ LookupError(r)
  PROVE  IInv'
<1> USE DEF FindExisting, FraudApprove, FraudReject, ReleaseReservation, P2002Fallback,
            LookupError, Goto, Reply
<1>1. PendingFits(r) /\ Checked(r) /\ Finished(r) /\ TypeOK
  BY DEF IInv, Handlers
<1>2. pending[r] = "NONE" /\ pc[r] \in {"lookup", "fraud", "release", "fallback"}
  BY <1>1 DEF PendingFits
<1>3. \A t \in Requests \ {r} : pc'[t] = pc[t] /\ resp'[t] = resp[t]
  BY <1>1 DEF TypeOK
<1>4. UNCHANGED <<committed, private, req>>
  OBVIOUS
<1>5. pc'[r] \in {"readTo", "fraud", "readFrom", "reject", "answered"}
  BY <1>1 DEF TypeOK
<1>6. Checked(r)'
  BY <1>1, <1>2, <1>4 DEF Checked, TypeOK, Authorized, OwnedAccount, Touched, committed, private
<1>7. Finished(r)'
  <2>1. \A s \in RowStatus : RowsFor(r, s)' = RowsFor(r, s)
    BY <1>4 DEF RowsFor, committed
  <2> QED
    BY <1>1, <1>2, <1>4, <1>5, <2>1 DEF Finished, TypeOK, RowStatus, committed
<1> QED
  BY <1>2, <1>3, <1>4, <1>5, <1>6, <1>7, MoveStep

\* A rolled-back transaction that is answered with an error.
LEMMA ThrowStep ==
  ASSUME IInv, TypeOK', NEW r \in Requests, NEW x \in {"refused", "error"}, Throw(r, x),
         pc[r] \in InTx
  PROVE  IInv'
<1>1. TypeOK /\ Checked(r) /\ Finished(r)
  BY DEF IInv, Handlers
<1>2. /\ UNCHANGED <<committed, req>> /\ CloseTx(r)
      /\ \A t \in Requests \ {r} : pc'[t] = pc[t] /\ resp'[t] = resp[t]
      /\ pc'[r] = "release" /\ resp'[r] = x
  BY <1>1 DEF Throw, Goto, Reply, TypeOK
<1>3. pending'[r] = "NONE"
  BY <1>1, <1>2 DEF CloseTx, TypeOK
<1>4. Checked(r)'
  BY <1>1, <1>2, <1>3 DEF Checked, InTx
<1>5. Finished(r)'
  BY <1>1, <1>2 DEF Finished, InTx, RowsFor, EventOf, committed
<1> QED
  BY <1>2, <1>4, <1>5, AbortStep

\* Reading an account row: on to the next statement, or refused.
LEMMA ReadStep ==
  ASSUME IInv, TypeOK', NEW r \in Requests, ReadFrom(r) \/ ReadTo(r)
  PROVE  IInv'
<1>1. PendingFits(r) /\ Checked(r) /\ Finished(r) /\ TypeOK
  BY DEF IInv, Handlers
<1>2. pc[r] \in {"readFrom", "readTo"} /\ pending[r] = "NONE" /\ req[r] \in Commands
  BY <1>1 DEF ReadFrom, ReadTo, ReadAccount, PendingFits, Checked
<1>3. CASE Throw(r, "refused")
  BY <1>2, <1>3, ThrowStep DEF InTx
<1>4. CASE ~Throw(r, "refused")
  <2>1. /\ UNCHANGED <<committed, private, status, req, attempt, resp>>
        /\ \A t \in Requests \ {r} : pc'[t] = pc[t] /\ resp'[t] = resp[t]
        /\ pc'[r] \in {"readTo", "insert"}
    BY <1>1, <1>4 DEF ReadFrom, ReadTo, ReadAccount, Goto, TypeOK
  <2>2. ASSUME ReadFrom(r) PROVE Checked(r)'
    <3>1. /\ pc[r] = "readFrom" /\ Acceptable(r, req[r].from)
          /\ pc'[r] = IF req[r].type = "TRANSFER" THEN "readTo" ELSE "insert"
      BY <1>1, <1>4, <2>2 DEF ReadFrom, ReadAccount, Goto, TypeOK
    <3>2. req[r].from \in Accounts /\ req[r].from # req[r].to
      BY <1>1, <1>2, <3>1, CommandShape DEF Checked
    <3>3. Authorized(req[r])
      BY <3>1, <3>2, AccountsAssumption DEF Acceptable, Authorized, OwnedAccount
    <3> QED
      BY <1>1, <1>2, <2>1, <3>1, <3>2, <3>3 DEF Checked, Authorized, OwnedAccount,
         committed, private
  <2>3. ASSUME ReadTo(r) PROVE Checked(r)'
    <3>1. pc[r] = "readTo" /\ Acceptable(r, req[r].to) /\ pc'[r] = "insert"
      BY <1>1, <1>4, <2>3 DEF ReadTo, ReadAccount, Goto, TypeOK
    <3>2. req[r].type # "WITHDRAW" /\ req[r].type \in {"DEPOSIT", "WITHDRAW", "TRANSFER"}
      BY <1>1, <1>2, <3>1, CommandShape DEF Checked, Command
    <3>3. Authorized(req[r]) /\ req[r].from # req[r].to
      <4>1. CASE req[r].type = "TRANSFER"
        BY <1>1, <3>1, <4>1 DEF Checked
      <4>2. CASE req[r].type = "DEPOSIT"
        <5>1. req[r].from = None /\ req[r].to \in Accounts
          BY <1>2, <4>2, CommandShape DEF WellFormed
        <5> QED
          BY <3>1, <5>1, AccountsAssumption DEF Acceptable, Authorized, OwnedAccount
      <4> QED
        BY <3>2, <4>1, <4>2
    <3> QED
      BY <1>1, <1>2, <2>1, <3>1, <3>3 DEF Checked, Authorized, OwnedAccount,
         committed, private
  <2>4. Checked(r)'
    BY <2>2, <2>3
  <2>5. Finished(r)'
    BY <1>1, <1>2, <2>1 DEF Finished, RowsFor, EventOf, committed
  <2> QED
    BY <1>2, <2>1, <2>4, <2>5, MoveStep
<1> QED
  BY <1>3, <1>4

\* Inserting the transaction row: nobody else owns the key, or r leaves for the fallback.
LEMMA InsertStep ==
  ASSUME IInv, TypeOK', NEW r \in Requests, CreatePending(r) \/ CreateRejected(r)
  PROVE  IInv'
<1>1. PendingFits(r) /\ Checked(r) /\ Finished(r) /\ TypeOK
  BY DEF IInv, Handlers
<1>2. /\ pc[r] \in {"insert", "reject"} /\ pending[r] = "NONE" /\ req[r] \in Commands
      /\ KeyHolders(r) = {}
      /\ UNCHANGED <<committed, pendingEvent, locks, req, resp>>
      /\ \A t \in Requests \ {r} : pc'[t] = pc[t]
  BY <1>1 DEF CreatePending, CreateRejected, Insert, Goto, TypeOK, PendingFits, Checked
<1>3. CASE KeyTaken(r)
  <2>1. UNCHANGED pending /\ pc'[r] = "fallback"
    BY <1>1, <1>3 DEF CreatePending, CreateRejected, Insert, Goto, TypeOK
  <2>2. Checked(r)' /\ Finished(r)'
    BY <1>1, <1>2, <2>1 DEF Checked, Finished, RowsFor, EventOf, committed
  <2> QED
    BY <1>2, <2>1, <2>2, MoveStep DEF private
<1>4. CASE ~KeyTaken(r)
  <2>1. /\ \/ pc[r] = "insert" /\ pending'[r] = "PENDING" /\ pc'[r] = "update"
           \/ pc[r] = "reject" /\ pending'[r] = "REJECTED" /\ pc'[r] = "event"
        /\ \A t \in Requests \ {r} : pending'[t] = pending[t]
    BY <1>1, <1>4 DEF CreatePending, CreateRejected, Insert, Goto, TypeOK
  <2>2. \A t \in Requests \ {r} : Claims(t) => Key(req[t]) # Key(req[r])
    BY <1>2, <1>4 DEF KeyTaken, KeyHolders, Claims
  <2>3. NoOverdraft' /\ Unique'
    BY <1>2, <2>1, <2>2 DEF IInv, NoOverdraft, Unique, Claims, Key, committed
  <2>4. Holders'
    <3> SUFFICES ASSUME NEW a \in Accounts, locks[a] # None PROVE Holds(locks[a], a)'
      BY <1>2 DEF Holders
    <3>1. Holds(locks[a], a) /\ locks[a] \in Requests /\ locks[a] # r
      BY <1>1, <1>2 DEF IInv, TypeOK, Holders, Holds
    <3> QED
      BY <1>2, <2>1, <3>1 DEF Holds, Touched, committed
  <2>5. ASSUME NEW t \in Requests, t # r PROVE PendingFits(t)' /\ Checked(t)' /\ Finished(t)'
    BY <1>2, <2>1, <2>5 DEF IInv, Handlers, PendingFits, Checked, Finished, RowsFor, Key,
       Touched, Authorized, OwnedAccount, EventOf, committed
  <2>6. PendingFits(r)'
    BY <1>1, <1>2, <2>1 DEF PendingFits
  <2>7. Checked(r)' /\ Finished(r)'
    BY <1>1, <1>2, <2>1 DEF Checked, Finished, RowsFor, EventOf, Authorized, OwnedAccount,
       committed
  <2> QED
    BY <2>3, <2>4, <2>5, <2>6, <2>7 DEF IInv, Handlers
<1> QED
  BY <1>3, <1>4

\* Writing an account row: the lock was free, and a debit is covered.
LEMMA LockStep ==
  ASSUME IInv, TypeOK', NEW r \in Requests, NEW a \in Accounts,
         Credit(r, a) \/ Debit(r, a)
  PROVE  IInv'
<1>1. PendingFits(r) /\ Checked(r) /\ TypeOK
  BY DEF IInv, Handlers
<1>2. /\ pc[r] = "update" /\ pending[r] = "PENDING" /\ req[r] \in Commands
      /\ a \in Touched(req[r]) /\ locks[a] = None
      /\ a = req[r].from => balance[a] >= req[r].amount
      /\ UNCHANGED <<committed, pending, pendingEvent, req, pc, resp>>
      /\ locks' = [locks EXCEPT ![a] = r]
  BY <1>1 DEF Credit, Debit, IsNext, PendingFits, Checked
<1>3. locks'[a] = r /\ \A b \in Accounts \ {a} : locks'[b] = locks[b]
  BY <1>1, <1>2 DEF TypeOK
<1>4. NoOverdraft' /\ Unique'
  BY <1>2 DEF IInv, NoOverdraft, Unique, Claims, Key, committed
<1>5. Holders'
  <2> SUFFICES ASSUME NEW b \in Accounts, (locks[b] # None)' PROVE Holds(locks[b], b)'
    BY DEF Holders
  <2>1. CASE b = a
    BY <1>2, <1>3, <2>1 DEF Holds, Touched, committed
  <2>2. CASE b # a
    <3>1. locks'[b] = locks[b] /\ Holds(locks[b], b)
      BY <1>3, <2>2 DEF IInv, Holders
    <3> QED
      BY <1>2, <3>1 DEF Holds, Touched, committed
  <2> QED
    BY <2>1, <2>2
<1>6. ASSUME NEW t \in Requests PROVE PendingFits(t)' /\ Checked(t)' /\ Finished(t)'
  <2>1. PendingFits(t) /\ Checked(t) /\ Finished(t)
    BY DEF IInv, Handlers
  <2>2. Checked(t)' /\ Finished(t)'
    BY <1>2, <2>1 DEF Checked, Finished, RowsFor, Key, Authorized, OwnedAccount, Touched,
       EventOf, committed
  <2>3. pending[t] # "NONE" => Touched(req[t]) \subseteq Accounts
    BY <2>1, CommandShape DEF PendingFits, Checked
  <2>4. PendingFits(t)'
    BY <1>2, <1>3, <2>1, <2>3, RequestsAssumption DEF PendingFits, Touched, EventOf
  <2> QED
    BY <2>2, <2>4
<1> QED
  BY <1>4, <1>5, <1>6 DEF IInv, Handlers

\* The last statements of the transaction: the row is completed, then the event is written.
LEMMA FinishStep ==
  ASSUME IInv, TypeOK', NEW r \in Requests, MarkCompleted(r) \/ CreateEvent(r)
  PROVE  IInv'
<1>1. PendingFits(r) /\ Checked(r) /\ Finished(r) /\ TypeOK
  BY DEF IInv, Handlers
<1>2. /\ UNCHANGED <<committed, locks, req, resp>>
      /\ pc[r] \in {"update", "event"} /\ pc'[r] \in {"event", "commit"}
      /\ pending[r] \in {"PENDING", "COMPLETED", "REJECTED"}
      /\ pending'[r] \in {"COMPLETED", "REJECTED"}
      /\ pending[r] \in {"PENDING", "COMPLETED"} <=> pending'[r] = "COMPLETED"
      /\ pendingEvent'[r] = IF pc'[r] = "commit" THEN EventOf(pending'[r]) ELSE "NONE"
      /\ pending'[r] = "COMPLETED" => \A a \in Touched(req[r]) : locks[a] = r
      /\ \A t \in Requests \ {r} :
           pc'[t] = pc[t] /\ pending'[t] = pending[t] /\ pendingEvent'[t] = pendingEvent[t]
  BY <1>1 DEF MarkCompleted, CreateEvent, Goto, TypeOK, PendingFits
<1>3. NoOverdraft' /\ Unique'
  BY <1>2 DEF IInv, NoOverdraft, Unique, Claims, Key, committed
<1>4. Holders'
  <2> SUFFICES ASSUME NEW a \in Accounts, locks[a] # None PROVE Holds(locks[a], a)'
    BY <1>2 DEF Holders
  <2>1. Holds(locks[a], a) /\ locks[a] \in Requests
    BY <1>1 DEF IInv, TypeOK, Holders
  <2> QED
    BY <1>2, <2>1 DEF Holds, Touched, committed
<1>5. ASSUME NEW t \in Requests, t # r PROVE PendingFits(t)' /\ Checked(t)' /\ Finished(t)'
  BY <1>2, <1>5 DEF IInv, Handlers, PendingFits, Checked, Finished, RowsFor, Key, Touched,
     Authorized, OwnedAccount, EventOf, committed
<1>6. PendingFits(r)'
  BY <1>2 DEF PendingFits, Touched, EventOf
<1>7. Checked(r)' /\ Finished(r)'
  BY <1>1, <1>2 DEF Checked, Finished, RowsFor, EventOf, Authorized, OwnedAccount, committed
<1> QED
  BY <1>3, <1>4, <1>5, <1>6, <1>7 DEF IInv, Handlers

\* Commit: the row and its event appear, and the locked balances move within their cover.
LEMMA PublishStep ==
  ASSUME IInv, TypeOK', NEW r \in Requests, Commit(r) \/ CommitAckLost(r)
  PROVE  IInv'
<1>1. PendingFits(r) /\ Checked(r) /\ Finished(r) /\ TypeOK
  BY DEF IInv, Handlers
<1>2. /\ pc[r] = "commit" /\ pending[r] \in {"COMPLETED", "REJECTED"}
      /\ pendingEvent[r] = EventOf(pending[r])
      /\ row[r] = "NONE" /\ req[r] \in Commands
  BY <1>1 DEF Commit, CommitAckLost, PendingFits, Checked, Finished
<1>3. /\ Publish(r) /\ CloseTx(r) /\ UNCHANGED req
      /\ row'[r] = pending[r] /\ event'[r] = EventOf(pending[r])
      /\ pending'[r] = "NONE" /\ pendingEvent'[r] = "NONE"
      /\ \A t \in Requests \ {r} :
           /\ row'[t] = row[t] /\ event'[t] = event[t]
           /\ pending'[t] = pending[t] /\ pendingEvent'[t] = pendingEvent[t]
           /\ pc'[t] = pc[t] /\ resp'[t] = resp[t]
      /\ pc'[r] \in {"answered", "release"}
      /\ \/ resp'[r] = "error" \/ (resp'[r] = "ok" /\ pending[r] = "COMPLETED")
         \/ (resp'[r] = "rejected" /\ pending[r] = "REJECTED")
  BY <1>1, <1>2 DEF Commit, CommitAckLost, Publish, CloseTx, Goto, Reply, TypeOK
<1>4. \A a \in Accounts :
        /\ locks[a] = r => locks'[a] = None
        /\ locks[a] # r => locks'[a] = locks[a] /\ balance'[a] = balance[a]
  BY <1>1, <1>3 DEF TypeOK, Publish, CloseTx, Unlock
<1>5. NoOverdraft'
  <2> SUFFICES ASSUME NEW a \in Accounts, locks[a] = r PROVE balance'[a] >= 0
    BY <1>4 DEF IInv, NoOverdraft
  <2>1. balance'[a] = balance[a] + Delta(req[r], a)
    BY <1>1, <1>3 DEF TypeOK, Publish
  <2>2. Holds(r, a) /\ balance[a] >= 0 /\ balance[a] \in Int
    BY <1>1, RequestsAssumption DEF IInv, Holders, NoOverdraft, TypeOK
  <2> QED
    BY <1>2, <2>1, <2>2, CommandShape DEF Holds, Delta
<1>6. Unique'
  BY <1>2, <1>3 DEF IInv, Unique, Claims, Key
<1>7. Holders'
  <2> SUFFICES ASSUME NEW a \in Accounts, (locks[a] # None)' PROVE Holds(locks[a], a)'
    BY DEF Holders
  <2>1. locks[a] # r /\ locks'[a] = locks[a] /\ balance'[a] = balance[a]
    BY <1>4
  <2>2. Holds(locks[a], a) /\ locks[a] \in Requests
    BY <1>1, <2>1 DEF IInv, Holders, TypeOK
  <2> QED
    BY <1>3, <2>1, <2>2 DEF Holds, Touched
<1>8. ASSUME NEW t \in Requests, t # r PROVE PendingFits(t)' /\ Checked(t)' /\ Finished(t)'
  <2>1. PendingFits(t) /\ Checked(t) /\ Finished(t)
    BY DEF IInv, Handlers
  <2>2. pending[t] # "NONE" => Touched(req[t]) \subseteq Accounts
    BY <2>1, CommandShape DEF PendingFits, Checked
  <2>3. PendingFits(t)'
    BY <1>3, <1>4, <1>8, <2>1, <2>2, RequestsAssumption DEF PendingFits, Touched, EventOf
  <2>4. \A s \in {"COMPLETED", "REJECTED"} : RowsFor(t, s) # {} => RowsFor(t, s)' # {}
    BY <1>2, <1>3 DEF RowsFor, Key
  <2>5. Checked(t)' /\ Finished(t)'
    BY <1>3, <1>8, <2>1, <2>4 DEF Checked, Finished, Authorized, OwnedAccount, EventOf
  <2> QED
    BY <2>3, <2>5
<1>9. PendingFits(r)' /\ Checked(r)'
  BY <1>2, <1>3 DEF PendingFits, Checked
<1>10. Finished(r)'
  <2>1. \A s \in {"COMPLETED", "REJECTED"} : row'[r] = s => r \in RowsFor(r, s)'
    BY DEF RowsFor
  <2> QED
    BY <1>2, <1>3, <2>1 DEF Finished, EventOf
<1> QED
  BY <1>5, <1>6, <1>7, <1>8, <1>9, <1>10 DEF IInv, Handlers

\* A conflict that is tried again, a crash, a refused debit, a failed statement.
LEMMA FailStep ==
  ASSUME IInv, TypeOK', NEW r \in Requests,
         \/ RetryConflict(r) \/ Crash(r) \/ DbError(r)
         \/ \E a \in Accounts : DebitRefused(r, a)
  PROVE  IInv'
<1>1. PendingFits(r) /\ Checked(r) /\ Finished(r) /\ TypeOK
  BY DEF IInv, Handlers
<1>2. CASE RetryConflict(r)
  <2>1. /\ UNCHANGED <<committed, req, resp>> /\ CloseTx(r) /\ pc'[r] = "readFrom"
        /\ \A t \in Requests \ {r} : pc'[t] = pc[t] /\ resp'[t] = resp[t]
        /\ req[r].type = "TRANSFER" /\ pc[r] \in InTx \ {"reject"}
        /\ pending[r] # "REJECTED" /\ pending'[r] = "NONE"
    BY <1>1, <1>2 DEF RetryConflict, CanRetry, CloseTx, Goto, TypeOK
  <2>2. req[r] \in Commands /\ req[r].from # req[r].to
    BY <1>1, <2>1 DEF Checked, PendingFits, InTx
  <2>3. Checked(r)' /\ Finished(r)'
    BY <1>1, <2>1, <2>2 DEF Checked, Finished, InTx, RowsFor, EventOf, committed
  <2> QED
    BY <2>1, <2>3, AbortStep
<1>3. CASE Crash(r)
  <2>1. /\ UNCHANGED <<committed, req>> /\ CloseTx(r) /\ pc'[r] = "crashed"
        /\ \A t \in Requests \ {r} : pc'[t] = pc[t] /\ resp'[t] = resp[t]
        /\ resp'[r] = "none" /\ pc[r] # "idle" /\ pending'[r] = "NONE"
    BY <1>1, <1>3 DEF Crash, CloseTx, Goto, Reply, TypeOK
  <2>2. Checked(r)' /\ Finished(r)'
    BY <1>1, <2>1 DEF Checked, Finished, EventOf, committed
  <2> QED
    BY <2>1, <2>2, AbortStep
<1>4. CASE DbError(r)
  BY <1>4, ThrowStep DEF DbError
<1>5. CASE \E a \in Accounts : DebitRefused(r, a)
  BY <1>5, ThrowStep DEF DebitRefused, InTx
<1> QED
  BY <1>2, <1>3, <1>4, <1>5

\* The updates of AccountsService, and stuttering, leave everything IInv speaks of alone.
LEMMA StatusStep ==
  ASSUME IInv, TypeOK',
         \/ UNCHANGED vars
         \/ \E a \in Accounts : Freeze(a) \/ Unfreeze(a) \/ Close(a)
  PROVE  IInv'
<1>1. UNCHANGED <<committed, private, req, pc, attempt, resp>>
  BY DEF Freeze, Unfreeze, Close, ChangeStatus, vars
<1> QED
  BY <1>1 DEF IInv, NoOverdraft, Handlers, PendingFits, Checked, Finished, Holders, Holds,
     Unique, Claims, RowsFor, Key, Touched, Authorized, OwnedAccount, EventOf, committed, private

LEMMA NextIInv == IInv /\ [Next]_vars => IInv'
<1> SUFFICES ASSUME IInv, [Next]_vars PROVE IInv'
  OBVIOUS
<1>1. Carried
  BY DEF IInv, Handlers, Checked, Carried
<1>2. TypeOK'
  BY <1>1, TypeStep DEF IInv
<1>3. ASSUME NEW r \in Requests, Submit(r) \/ Advance(r) \/ Fail(r) PROVE IInv'
  BY <1>2, <1>3, SubmitStep, OutsideTxStep, ReadStep, InsertStep, LockStep, FinishStep,
     PublishStep, FailStep DEF Advance, Fail
<1>4. CASE \/ UNCHANGED vars
           \/ \E a \in Accounts : Freeze(a) \/ Unfreeze(a) \/ Close(a)
  BY <1>2, <1>4, StatusStep
<1> QED
  BY <1>3, <1>4 DEF Next

-----------------------------------------------------------------------------
(* The theorems. *)

\* In every reachable state the handlers fit their phases and no two own the same key or
\* account row: the invariant that all the safety properties below follow from.
THEOREM Invariance == Spec => []IInv
  BY InitIInv, NextIInv, PTL DEF Spec

\* Every variable keeps its type; in particular the retry loop stays within its attempts.
THEOREM TypeCorrect == Spec => []TypeOK
<1>1. IInv => TypeOK
  BY DEF IInv
<1> QED
  BY <1>1, Invariance, PTL

\* No interleaving of deposits, withdrawals, transfers, retries and crashes overdraws an
\* account (decrementBalance checks and writes under the row lock).
THEOREM NeverOverdrawn == Spec => []NoOverdraft
<1>1. IInv => NoOverdraft
  BY DEF IInv
<1> QED
  BY <1>1, Invariance, PTL

\* However often a reference is sent, one row at most is committed for it.
THEOREM RowOncePerKey == Spec => []OneRowPerKey
<1>1. IInv => OneRowPerKey
  BY DEF IInv, Unique, Claims, OneRowPerKey
<1> QED
  BY <1>1, Invariance, PTL

\* A committed row has its event and no event exists without its row.
THEOREM EventWithRow == Spec => []OutboxAtomic
<1>1. IInv => OutboxAtomic
  BY DEF IInv, Handlers, Finished, OutboxAtomic
<1> QED
  BY <1>1, Invariance, PTL

\* What a handler answers is what the committed rows say.
THEOREM AnswersTrue == Spec => []AnswerTruthful
<1>1. IInv => AnswerTruthful
  BY DEF IInv, Handlers, Finished, AnswerTruthful
<1> QED
  BY <1>1, Invariance, PTL

-----------------------------------------------------------------------------
(* The handlers implement the book. *)

LEMMA EntriesStay ==
  ASSUME UNCHANGED <<balance, row>>,
         \A t \in Requests : row[t] # "NONE" => req'[t] = req[t]
  PROVE  UNCHANGED Book!ledgerVars
<1>1. entries' = entries
  BY DEF entries
<1> QED
  BY <1>1 DEF Book!ledgerVars

\* A commit is one entry of the book: fresh, and if posted covered, authorised and in full.
LEMMA PublishEnters ==
  ASSUME IInv, NEW r \in Requests, Commit(r) \/ CommitAckLost(r)
  PROVE  Book!LedgerNext
<1>1. PendingFits(r) /\ Checked(r) /\ Finished(r) /\ TypeOK
  BY DEF IInv, Handlers
<1>2. /\ pc[r] = "commit" /\ pending[r] \in {"COMPLETED", "REJECTED"}
      /\ row[r] = "NONE" /\ req[r] \in Commands /\ UNCHANGED req /\ Publish(r)
      /\ row' = [row EXCEPT ![r] = pending[r]]
  BY <1>1 DEF Commit, CommitAckLost, PendingFits, Checked, Finished, Publish
<1> DEFINE new == [cmd |-> req[r], status |-> pending[r]]
<1>3. entries' = entries \cup {new}
  <2>1. ASSUME NEW e \in entries PROVE e \in entries'
    <3>1. PICK t \in Requests : row[t] # "NONE" /\ e = [cmd |-> req[t], status |-> row[t]]
      BY DEF entries
    <3>2. t # r
      BY <1>2, <3>1
    <3> QED
      BY <1>1, <1>2, <3>1, <3>2 DEF entries, TypeOK
  <2>2. new \in entries'
    BY <1>1, <1>2 DEF entries, TypeOK
  <2>3. ASSUME NEW e \in entries' PROVE e \in entries \cup {new}
    <3>1. PICK t \in Requests : row'[t] # "NONE" /\ e = [cmd |-> req'[t], status |-> row'[t]]
      BY DEF entries
    <3> QED
      BY <1>1, <1>2, <3>1 DEF entries, TypeOK
  <2> QED
    BY <2>1, <2>2, <2>3
<1>4. Book!Fresh(req[r])
  <2> SUFFICES ASSUME NEW e \in entries PROVE Key(e.cmd) # Key(req[r])
    BY DEF Book!Fresh, Book!Key, Key
  <2>1. PICK t \in Requests : row[t] # "NONE" /\ e = [cmd |-> req[t], status |-> row[t]]
    BY DEF entries
  <2>2. t # r /\ Claims(t) /\ Claims(r)
    BY <1>2, <2>1 DEF Claims
  <2> QED
    BY <2>1, <2>2 DEF IInv, Unique
<1>5. CASE pending[r] = "REJECTED"
  <2>1. balance' = balance
    <3>1. \A a \in Accounts : locks[a] # r
      BY <1>5, RequestsAssumption DEF IInv, Holders, Holds
    <3> QED
      BY <1>1, <1>2, <3>1 DEF Publish, TypeOK
  <2>2. Book!Refuse(req[r])
    BY <1>3, <1>4, <1>5, <2>1 DEF Book!Refuse
  <2> QED
    BY <1>2, <2>2 DEF Book!LedgerNext
<1>6. CASE pending[r] = "COMPLETED"
  <2>1. \A a \in Touched(req[r]) : locks[a] = r
    BY <1>1, <1>6 DEF PendingFits
  <2>2. balance' = [a \in Accounts |-> balance[a] + Delta(req[r], a)]
    <3>1. \A a \in Accounts : locks[a] # r => balance[a] + Delta(req[r], a) = balance[a]
      <4> SUFFICES ASSUME NEW a \in Accounts, locks[a] # r
                   PROVE  balance[a] + Delta(req[r], a) = balance[a]
        OBVIOUS
      <4>1. a # req[r].from /\ a # req[r].to
        BY <2>1, AccountsAssumption DEF Touched
      <4>2. Delta(req[r], a) = 0 /\ balance[a] \in Int
        BY <1>1, <4>1 DEF Delta, TypeOK
      <4> QED
        BY <4>2
    <3> QED
      BY <1>2, <3>1 DEF Publish
  <2>3. Book!Covered(req[r])
    <3> SUFFICES ASSUME req[r].from # None PROVE balance[req[r].from] >= req[r].amount
      BY DEF Book!Covered
    <3>1. req[r].from \in Accounts /\ locks[req[r].from] = r
      BY <1>2, <2>1, CommandShape DEF Touched
    <3> QED
      BY <3>1, RequestsAssumption DEF IInv, Holders, Holds
  <2>4. Book!Authorized(req[r]) /\ req[r].from # req[r].to
    BY <1>1, <1>6 DEF Checked, Authorized, OwnedAccount, Book!Authorized, Book!OwnedAccount
  <2>5. Book!Post(req[r])
    BY <1>3, <1>4, <1>6, <2>2, <2>3, <2>4 DEF Book!Post, Book!Delta, Delta
  <2> QED
    BY <1>2, <2>5 DEF Book!LedgerNext
<1> QED
  BY <1>2, <1>5, <1>6

LEMMA BookStep == IInv /\ [Next]_vars => [Book!LedgerNext]_Book!ledgerVars
<1> SUFFICES ASSUME IInv, [Next]_vars PROVE [Book!LedgerNext]_Book!ledgerVars
  OBVIOUS
<1>1. ASSUME NEW r \in Requests, Commit(r) \/ CommitAckLost(r) PROVE Book!LedgerNext
  BY <1>1, PublishEnters
<1>2. ASSUME NEW r \in Requests, Submit(r) PROVE UNCHANGED Book!ledgerVars
  <2>1. row[r] = "NONE" /\ UNCHANGED committed
    BY <1>2 DEF Submit, IInv, Handlers, Finished
  <2>2. \A t \in Requests : row[t] # "NONE" => req'[t] = req[t]
    BY <1>2, <2>1 DEF Submit, IInv, TypeOK
  <2> QED
    BY <2>1, <2>2, EntriesStay DEF committed
<1>3. ASSUME NEW r \in Requests, Advance(r) \/ Fail(r), ~(Commit(r) \/ CommitAckLost(r))
      PROVE  UNCHANGED Book!ledgerVars
  <2>1. UNCHANGED <<committed, req>>
    BY <1>3 DEF Advance, Fail, FindExisting, FraudApprove, FraudReject, ReadFrom, ReadTo,
       ReadAccount, CreatePending, CreateRejected, Insert, Credit, Debit, DebitRefused,
       MarkCompleted, CreateEvent, ReleaseReservation, P2002Fallback, DbError, RetryConflict,
       LookupError, Crash, Throw
  <2> QED
    BY <2>1, EntriesStay DEF committed
<1>4. CASE \/ UNCHANGED vars
           \/ \E a \in Accounts : Freeze(a) \/ Unfreeze(a) \/ Close(a)
  <2>1. UNCHANGED <<committed, req>>
    BY <1>4 DEF Freeze, Unfreeze, Close, ChangeStatus, vars
  <2> QED
    BY <2>1, EntriesStay DEF committed
<1> QED
  BY <1>1, <1>2, <1>3, <1>4 DEF Next

LEMMA BookInit == Init => Book!LedgerInit
  BY DEF Init, Book!LedgerInit, entries

\* Whatever the interleaving, the committed state moves only as the book allows: one fresh
\* entry per step, posted in full from a covered account of the actor, or refused.
THEOREM ServiceImplementsLedger == Spec => ImplementsLedger
  BY BookInit, BookStep, Invariance, PTL DEF Spec, ImplementsLedger, Book!LedgerSpec

-----------------------------------------------------------------------------
(* Every balance is explained by the rows. *)

Posted == {r \in Requests : row[r] = "COMPLETED"}
Deltas(a) == [r \in Posted |-> Delta(req[r], a)]

\* At any time finitely many rows are posted, and they explain every balance.
Explained ==
  /\ IsFiniteSet(Posted)
  /\ \A a \in Accounts :
       balance[a] = OpeningBalance[a] + SumFunctionOnSet(Deltas(a), Posted)

LEMMA InitExplained == Init => Explained
<1> SUFFICES ASSUME Init PROVE Explained
  OBVIOUS
<1>1. Posted = {}
  BY DEF Init, Posted
<1>2. \A a \in Accounts : balance[a] = OpeningBalance[a] + 0
  BY OpeningAssumption DEF Init
<1> QED
  BY <1>1, <1>2, SumEmpty, FS_EmptySet DEF Explained

\* A step that commits nothing leaves the commands of the posted rows as they are.
LEMMA NothingPosted ==
  ASSUME Explained, UNCHANGED <<balance, row>>, \A r \in Posted : req'[r] = req[r]
  PROVE  Explained'
<1>1. Posted' = Posted
  BY DEF Posted
<1>2. ASSUME NEW a \in Accounts PROVE Deltas(a)' = Deltas(a)
  BY <1>1 DEF Deltas, Delta
<1> QED
  BY <1>1, <1>2 DEF Explained

\* A handler that commits has its row, and for a posted one the lock of every account that its
\* command touches, so all of the command's money moves; a fraud rejection holds no account.
LEMMA PublishMoves ==
  ASSUME IInv, NEW r \in Requests, pc[r] = "commit", Publish(r)
  PROVE  /\ row[r] = "NONE" /\ req[r] \in Commands
         /\ \/ /\ pending[r] = "COMPLETED"
               /\ \A a \in Accounts : balance'[a] = balance[a] + Delta(req[r], a)
            \/ pending[r] = "REJECTED" /\ UNCHANGED balance
<1>1. /\ row[r] = "NONE" /\ req[r] \in Commands /\ pending[r] \in {"COMPLETED", "REJECTED"}
      /\ pending[r] = "COMPLETED" => \A a \in Touched(req[r]) : locks[a] = r
  BY DEF IInv, Handlers, PendingFits, Checked, Finished
<1>2. /\ balance \in [Accounts -> Int]
      /\ balance' = [a \in Accounts |->
                       IF locks[a] = r THEN balance[a] + Delta(req[r], a) ELSE balance[a]]
  BY DEF IInv, TypeOK, Publish
<1>3. ASSUME pending[r] = "COMPLETED", NEW a \in Accounts
      PROVE  balance'[a] = balance[a] + Delta(req[r], a)
  <2>1. CASE locks[a] = r
    BY <1>2, <2>1
  <2>2. CASE locks[a] # r
    <3>1. a # req[r].from /\ a # req[r].to
      BY <1>1, <1>3, <2>2, AccountsAssumption DEF Touched
    <3>2. Delta(req[r], a) = 0
      BY <3>1 DEF Delta
    <3> QED
      BY <1>2, <2>2, <3>2
  <2> QED
    BY <2>1, <2>2
<1>4. ASSUME pending[r] = "REJECTED" PROVE UNCHANGED balance
  <2>1. \A a \in Accounts : locks[a] # r
    BY <1>4, RequestsAssumption DEF IInv, Holders, Holds
  <2> QED
    BY <1>2, <2>1
<1> QED
  BY <1>1, <1>3, <1>4

\* A posted row belongs to a handler that carried a command.
LEMMA PostedCarry ==
  ASSUME IInv, NEW t \in Posted
  PROVE  t \in Requests /\ req[t] \in Commands
<1>1. row[t] # "NONE" /\ t \in Requests
  BY DEF Posted
<1>2. pc[t] # "idle"
  BY <1>1 DEF IInv, Handlers, Finished
<1> QED
  BY <1>1, <1>2 DEF IInv, Handlers, Checked

LEMMA PublishExplained ==
  ASSUME IInv, Explained, NEW r \in Requests, pc[r] = "commit", Publish(r), UNCHANGED req
  PROVE  Explained'
<1>1. /\ row[r] = "NONE" /\ req[r] \in Commands
      /\ \/ /\ pending[r] = "COMPLETED"
            /\ \A a \in Accounts : balance'[a] = balance[a] + Delta(req[r], a)
         \/ pending[r] = "REJECTED" /\ UNCHANGED balance
  BY PublishMoves
<1>2. row' = [row EXCEPT ![r] = pending[r]] /\ row \in [Requests -> RowStatus]
  BY DEF IInv, TypeOK, Publish
<1>3. CASE pending[r] = "REJECTED"
  <2>1. Posted' = Posted /\ UNCHANGED balance
    BY <1>1, <1>2, <1>3 DEF Posted
  <2>2. ASSUME NEW a \in Accounts PROVE Deltas(a)' = Deltas(a)
    BY <2>1 DEF Deltas, Delta
  <2> QED
    BY <2>1, <2>2 DEF Explained
<1>4. CASE pending[r] = "COMPLETED"
  <2>1. Posted' = Posted \cup {r} /\ r \notin Posted /\ IsFiniteSet(Posted)
    BY <1>1, <1>2, <1>4 DEF Posted, Explained
  <2>2. IsFiniteSet(Posted')
    BY <2>1, FS_AddElement
  <2>3. ASSUME NEW a \in Accounts
        PROVE  balance'[a] = OpeningBalance[a] + SumFunctionOnSet(Deltas(a)', Posted')
    <3> DEFINE f == Deltas(a)
               g == Deltas(a)'
    <3>1. /\ \A t \in Posted : f[t] = g[t]
          /\ g[r] = Delta(req[r], a)
          /\ \A t \in Posted \cup {r} : g[t] = Delta(req[t], a)
      BY <2>1 DEF Deltas, Delta
    <3>2. ASSUME NEW t \in Posted \cup {r} PROVE g[t] \in Int
      <4>1. req[t] \in Commands
        BY <1>1, PostedCarry
      <4> QED
        BY <3>1, <4>1, DeltaType
    <3> HIDE DEF f, g
    <3>3. /\ SumFunctionOnSet(g, Posted \cup {r}) = SumFunctionOnSet(f, Posted) + g[r]
          /\ SumFunctionOnSet(f, Posted) \in Int /\ g[r] \in Int
      BY <2>1, <3>1, <3>2, SumExtend
    <3>4. /\ balance[a] = OpeningBalance[a] + SumFunctionOnSet(f, Posted)
          /\ balance'[a] = balance[a] + Delta(req[r], a)
          /\ OpeningBalance[a] \in Int
      BY <1>1, <1>4, OpeningAssumption DEF f, Explained
    <3>5. balance'[a] = OpeningBalance[a] + SumFunctionOnSet(g, Posted \cup {r})
      BY <3>1, <3>3, <3>4
    <3> QED
      BY <2>1, <3>5 DEF g
  <2> QED
    BY <2>2, <2>3 DEF Explained
<1> QED
  BY <1>1, <1>3, <1>4

\* What a command adds to the money in the bank: a transfer nothing.
Net(c) ==
  IF c.type = "DEPOSIT" THEN c.amount ELSE IF c.type = "WITHDRAW" THEN 0 - c.amount ELSE 0

Nets == [r \in Posted |-> Net(req[r])]

\* All accounts together hold what they opened with, plus the deposits, less the withdrawals.
MoneyConserved ==
  SumFunctionOnSet(balance, Accounts)
    = SumFunctionOnSet(OpeningBalance, Accounts) + SumFunctionOnSet(Nets, Posted)

LEMMA NetType == ASSUME NEW c \in Commands PROVE Net(c) \in Int
  BY CommandShape DEF Net

\* What a command adds to the accounts is what it adds to the bank.
LEMMA DeltasOfCommand ==
  ASSUME NEW c \in Commands, c.from # c.to
  PROVE  SumFunctionOnSet([a \in Accounts |-> Delta(c, a)], Accounts) = Net(c)
<1> DEFINE f == [a \in Accounts |-> Delta(c, a)]
<1>1. /\ c.amount \in Int /\ c.type \in {"DEPOSIT", "WITHDRAW", "TRANSFER"}
      /\ c.type # "DEPOSIT" => c.from \in Accounts
      /\ c.type # "WITHDRAW" => c.to \in Accounts
      /\ c.type = "DEPOSIT" => c.from = None
      /\ c.type = "WITHDRAW" => c.to = None
  BY CommandShape DEF Command, WellFormed
<1>2. /\ \A a \in Accounts : f[a] \in Int
      /\ \A a \in Accounts \ {c.from, c.to} : f[a] = 0
      /\ c.from \in Accounts => f[c.from] = 0 - c.amount
      /\ c.to \in Accounts => f[c.to] = c.amount
  BY DeltaType DEF Delta
<1> HIDE DEF f
<1>3. ASSUME NEW S \in SUBSET Accounts
      PROVE  /\ IsFiniteSet(S) /\ \A a \in S : f[a] \in Int
             /\ \A a \in S : SumFunctionOnSet(f, S) = f[a] + SumFunctionOnSet(f, S \ {a})
             /\ (\A a \in S : f[a] = 0) => SumFunctionOnSet(f, S) = 0
  <2>1. IsFiniteSet(S) /\ \A a \in S : f[a] \in Int
    BY <1>2, FiniteAssumption, FS_Subset
  <2> QED
    BY <2>1, SumRemove, SumZero
<1>4. CASE c.type = "DEPOSIT"
  <2>1. c.to \in Accounts /\ SumFunctionOnSet(f, Accounts \ {c.to}) = 0
    BY <1>1, <1>2, <1>3, <1>4, AccountsAssumption
  <2> QED
    BY <1>1, <1>2, <1>3, <1>4, <2>1 DEF Net, f
<1>5. CASE c.type = "WITHDRAW"
  <2>1. c.from \in Accounts /\ SumFunctionOnSet(f, Accounts \ {c.from}) = 0
    BY <1>1, <1>2, <1>3, <1>5, AccountsAssumption
  <2> QED
    BY <1>1, <1>2, <1>3, <1>5, <2>1 DEF Net, f
<1>6. CASE c.type = "TRANSFER"
  <2> DEFINE rest == Accounts \ {c.from}
  <2>1. c.from \in Accounts /\ c.to \in rest /\ rest \in SUBSET Accounts
    BY <1>1, <1>6
  <2>2. rest \ {c.to} = Accounts \ {c.from, c.to}
    OBVIOUS
  <2>3. SumFunctionOnSet(f, rest \ {c.to}) = 0
    BY <1>2, <1>3, <2>2
  <2>4. SumFunctionOnSet(f, rest) = f[c.to] + 0
    BY <1>3, <2>1, <2>3
  <2>5. SumFunctionOnSet(f, Accounts) = f[c.from] + (f[c.to] + 0)
    BY <1>3, <2>1, <2>4
  <2> QED
    BY <1>1, <1>2, <1>6, <2>1, <2>5 DEF Net, f
<1> QED
  BY <1>1, <1>4, <1>5, <1>6

LEMMA InitConserved == Init => MoneyConserved
<1> SUFFICES ASSUME Init PROVE MoneyConserved
  OBVIOUS
<1>1. Posted = {} /\ balance = OpeningBalance
  BY DEF Init, Posted
<1>2. SumFunctionOnSet(OpeningBalance, Accounts) \in Int
  BY SumInt, FiniteAssumption, OpeningAssumption
<1> QED
  BY <1>1, <1>2, SumEmpty DEF MoneyConserved

LEMMA PublishConserves ==
  ASSUME IInv, Explained, MoneyConserved, NEW r \in Requests, pc[r] = "commit", Publish(r),
         UNCHANGED req
  PROVE  MoneyConserved'
<1>1. /\ row[r] = "NONE" /\ req[r] \in Commands
      /\ \/ /\ pending[r] = "COMPLETED"
            /\ \A a \in Accounts : balance'[a] = balance[a] + Delta(req[r], a)
         \/ pending[r] = "REJECTED" /\ UNCHANGED balance
  BY PublishMoves
<1>2. row' = [row EXCEPT ![r] = pending[r]] /\ row \in [Requests -> RowStatus]
  BY DEF IInv, TypeOK, Publish
<1>3. CASE pending[r] = "REJECTED"
  <2>1. Posted' = Posted /\ UNCHANGED balance
    BY <1>1, <1>2, <1>3 DEF Posted
  <2>2. Nets' = Nets
    BY <2>1 DEF Nets, Net
  <2> QED
    BY <2>1, <2>2 DEF MoneyConserved
<1>4. CASE pending[r] = "COMPLETED"
  <2>1. Posted' = Posted \cup {r} /\ r \notin Posted /\ IsFiniteSet(Posted)
    BY <1>1, <1>2, <1>4 DEF Posted, Explained
  <2> DEFINE f == Nets
             g == Nets'
             d == [a \in Accounts |-> Delta(req[r], a)]
  <2>2. /\ \A t \in Posted : f[t] = g[t]
        /\ g[r] = Net(req[r])
        /\ \A t \in Posted \cup {r} : g[t] = Net(req[t])
    BY <2>1 DEF Nets, Net
  <2>3. \A t \in Posted \cup {r} : g[t] \in Int
    <3>1. \A t \in Posted \cup {r} : req[t] \in Commands
      BY <1>1, PostedCarry
    <3> QED
      BY <2>2, <3>1, NetType
  <2>4. /\ SumFunctionOnSet(g, Posted \cup {r}) = SumFunctionOnSet(f, Posted) + Net(req[r])
        /\ SumFunctionOnSet(f, Posted) \in Int /\ Net(req[r]) \in Int
    <3> HIDE DEF f, g
    <3> QED
      BY <2>1, <2>2, <2>3, SumExtend
  <2>5. req[r].from # req[r].to
    BY <1>4 DEF IInv, Handlers, Checked
  <2>6. SumFunctionOnSet(d, Accounts) = Net(req[r])
    BY <1>1, <2>5, DeltasOfCommand
  <2>7. SumFunctionOnSet(balance', Accounts)
          = SumFunctionOnSet(balance, Accounts) + SumFunctionOnSet(d, Accounts)
    <3>1. \A a \in Accounts :
            balance[a] \in Int /\ d[a] \in Int /\ balance'[a] = balance[a] + d[a]
      BY <1>1, <1>4, DeltaType DEF IInv, TypeOK
    <3> HIDE DEF d
    <3> QED
      BY <3>1, SumPlus, FiniteAssumption
  <2>8. /\ SumFunctionOnSet(balance, Accounts)
             = SumFunctionOnSet(OpeningBalance, Accounts) + SumFunctionOnSet(f, Posted)
        /\ SumFunctionOnSet(OpeningBalance, Accounts) \in Int
    BY SumInt, FiniteAssumption, OpeningAssumption DEF MoneyConserved
  <2> HIDE DEF f, g, d
  <2>9. SumFunctionOnSet(balance', Accounts)
          = SumFunctionOnSet(OpeningBalance, Accounts) + SumFunctionOnSet(g, Posted')
    BY <2>1, <2>4, <2>6, <2>7, <2>8
  <2> QED
    BY <2>9 DEF MoneyConserved, g
<1> QED
  BY <1>1, <1>3, <1>4

\* Only a commit changes a balance, a row, or the command of a row.
LEMMA StepPublishes ==
  ASSUME IInv, [Next]_vars
  PROVE  \/ UNCHANGED <<balance, row>> /\ \A r \in Posted : req'[r] = req[r]
         \/ \E r \in Requests : pc[r] = "commit" /\ Publish(r) /\ UNCHANGED req
<1>1. ASSUME NEW r \in Requests, Submit(r)
      PROVE  UNCHANGED <<balance, row>> /\ \A t \in Posted : req'[t] = req[t]
  <2>1. row[r] = "NONE" /\ \A t \in Requests \ {r} : req'[t] = req[t]
    BY <1>1 DEF Submit, IInv, TypeOK, Handlers, Finished
  <2> QED
    BY <1>1, <2>1 DEF Submit, committed, Posted
<1>2. ASSUME NEW r \in Requests, Commit(r) \/ CommitAckLost(r)
      PROVE  pc[r] = "commit" /\ Publish(r) /\ UNCHANGED req
  BY <1>2 DEF Commit, CommitAckLost
<1>3. ASSUME NEW r \in Requests, Advance(r) \/ Fail(r), ~Commit(r), ~CommitAckLost(r)
      PROVE  UNCHANGED <<balance, row, req>>
  BY <1>3 DEF Advance, Fail, FindExisting, FraudApprove, FraudReject, ReadFrom, ReadTo,
     ReadAccount, CreatePending, CreateRejected, Insert, Credit, Debit, DebitRefused,
     MarkCompleted, CreateEvent, ReleaseReservation, P2002Fallback, DbError, RetryConflict,
     LookupError, Crash, Throw, committed
<1>4. CASE \/ UNCHANGED vars
           \/ \E a \in Accounts : Freeze(a) \/ Unfreeze(a) \/ Close(a)
  <2>1. UNCHANGED <<balance, row, req>>
    BY <1>4 DEF Freeze, Unfreeze, Close, ChangeStatus, vars, committed
  <2> QED
    BY <2>1
<1> QED
  BY <1>1, <1>2, <1>3, <1>4 DEF Next

LEMMA ExplainedStep == IInv /\ Explained /\ [Next]_vars => Explained'
  BY StepPublishes, NothingPosted, PublishExplained

LEMMA ConservedStep == IInv /\ Explained /\ MoneyConserved /\ [Next]_vars => MoneyConserved'
<1> SUFFICES ASSUME IInv, Explained, MoneyConserved, [Next]_vars PROVE MoneyConserved'
  OBVIOUS
<1>1. CASE UNCHANGED <<balance, row>> /\ \A r \in Posted : req'[r] = req[r]
  <2>1. Posted' = Posted
    BY <1>1 DEF Posted
  <2>2. Nets' = Nets
    BY <1>1, <2>1 DEF Nets, Net
  <2> QED
    BY <1>1, <2>1, <2>2 DEF MoneyConserved
<1> QED
  BY <1>1, StepPublishes, PublishConserves

LEMMA ExplainedInvariance == Spec => []Explained
  BY InitExplained, ExplainedStep, Invariance, PTL DEF Spec

\* The money is all there: for any commands, any number of requests, and any interleaving of
\* their statements, conflicts, retries, lost acknowledgements and crashes, a balance is the
\* opening balance plus what the COMPLETED rows say.
THEOREM BalancesExplained == Spec => []BalanceExplained
<1>1. Explained => BalanceExplained
  BY DEF Explained, BalanceExplained, Posted, Deltas
<1> QED
  BY <1>1, ExplainedInvariance, PTL

\* Transfers create and destroy no money: whatever fails half-way, the accounts together hold
\* what they opened with, plus the posted deposits, less the posted withdrawals.
THEOREM MoneyIsConserved == Spec => []MoneyConserved
  BY InitConserved, ConservedStep, ExplainedInvariance, Invariance, PTL DEF Spec

-----------------------------------------------------------------------------
(* No circular wait. *)

\* A finite set of numbers has a largest element.
LEMMA HasLargest ==
  ASSUME NEW S, S \subseteq Nat, IsFiniteSet(S), NEW W, W \subseteq S, W # {}
  PROVE  \E a \in W : \A b \in W : b <= a
<1> DEFINE Above(a) == {x \in S : x > a}
           Ranks == {Cardinality(Above(a)) : a \in W}
<1>1. \A a : IsFiniteSet(Above(a)) /\ Cardinality(Above(a)) \in Nat
  BY FS_Subset, FS_CardinalityType
<1>2. Ranks \subseteq Nat /\ Ranks # {}
  BY <1>1
<1>3. PICK n \in Ranks : \A m \in Ranks : ~ (<<m, n>> \in OpToRel(<, Nat))
  BY <1>2, WFMin, NatLessThanWellFounded
<1>4. PICK a \in W : n = Cardinality(Above(a))
  OBVIOUS
<1>5. ASSUME NEW b \in W, b > a PROVE FALSE
  <2>1. a \in Nat /\ b \in Nat /\ b \in S
    OBVIOUS
  <2>2. \A x \in S : x \in Nat /\ (x > b => x > a)
    BY <1>5, <2>1
  <2>3. b > a /\ ~(b > b)
    BY <1>5, <2>1
  <2>4. Above(b) \in SUBSET Above(a) /\ b \in Above(a) /\ b \notin Above(b)
    BY <2>1, <2>2, <2>3
  <2>5. Cardinality(Above(b)) <= Cardinality(Above(a)) /\ Cardinality(Above(b)) # Cardinality(Above(a))
    <3> HIDE DEF Above
    <3>1. /\ Cardinality(Above(b)) <= Cardinality(Above(a))
          /\ Cardinality(Above(a)) = Cardinality(Above(b)) => Above(a) = Above(b)
      BY <1>1, <2>4, FS_Subset
    <3> QED
      BY <2>4, <3>1
  <2>6. Cardinality(Above(b)) < Cardinality(Above(a))
    BY <1>1, <2>5
  <2>7. <<Cardinality(Above(b)), n>> \in OpToRel(<, Nat)
    BY <1>1, <1>4, <2>6 DEF OpToRel
  <2> QED
    BY <1>3, <2>7
<1>6. \A b \in W : a \in Nat /\ b \in Nat
  OBVIOUS
<1> QED
  BY <1>5, <1>6

\* Only a posting holds account rows.
LEMMA HolderPosts ==
  ASSUME IInv, NEW a \in Accounts, locks[a] # None
  PROVE  /\ locks[a] \in Requests /\ pending[locks[a]] # "NONE"
         /\ pc[locks[a]] \in {"update", "event", "commit"}
         /\ a \in Touched(req[locks[a]])
<1>1. locks[a] \in Requests /\ Holds(locks[a], a)
  BY DEF IInv, TypeOK, Holders
<1>2. PendingFits(locks[a])
  BY <1>1 DEF IInv, Handlers
<1> QED
  BY <1>1, <1>2 DEF Holds, PendingFits

\* Locks are taken in account-id order and given back all at once.
LEMMA AscendStep == IInv /\ LocksAscend /\ [Next]_vars => LocksAscend'
<1> SUFFICES ASSUME IInv, LocksAscend, [Next]_vars PROVE LocksAscend'
  OBVIOUS
<1>0. TypeOK
  BY DEF IInv
<1>1. ASSUME NEW r \in Requests, Unlock(r), UNCHANGED req PROVE LocksAscend'
  <2> SUFFICES ASSUME NEW a \in Accounts, locks'[a] # None,
                      NEW b \in Touched(req[locks'[a]]), b < a
               PROVE  locks'[b] = locks'[a]
    BY <1>1 DEF LocksAscend
  <2>1. locks[a] # r /\ locks'[a] = locks[a] /\ locks[a] # None
    BY <1>1 DEF Unlock
  <2>2. locks[b] = locks[a]
    BY <2>1 DEF LocksAscend
  <2>3. req[locks[a]] \in Commands
    <3>1. locks[a] \in Requests /\ pc[locks[a]] # "idle"
      BY <2>1, HolderPosts
    <3> QED
      BY <3>1 DEF IInv, Handlers, Checked
  <2>4. b \in Accounts
    BY <2>1, <2>3, CommandShape
  <2> QED
    BY <1>1, <2>1, <2>2, <2>4 DEF Unlock
<1>2. ASSUME NEW r \in Requests, NEW a \in Accounts, Credit(r, a) \/ Debit(r, a) PROVE LocksAscend'
  <2>1. IsNext(r, a) /\ locks[a] = None /\ UNCHANGED req /\ locks' = [locks EXCEPT ![a] = r]
    BY <1>2 DEF Credit, Debit
  <2>2. locks'[a] = r /\ \A b : b # a => locks'[b] = locks[b]
    BY <1>0, <2>1 DEF TypeOK
  <2> SUFFICES ASSUME NEW c \in Accounts, locks'[c] # None,
                      NEW b \in Touched(req[locks'[c]]), b < c
               PROVE  locks'[b] = locks'[c]
    BY <2>1 DEF LocksAscend
  <2>3. a \in Nat /\ c \in Nat
    BY AccountsAssumption
  <2>4. CASE c = a
    <3>1. req[r] \in Commands
      BY <1>2 DEF IInv, Handlers, Checked, Credit, Debit
    <3>4. Touched(req[r]) \subseteq Nat
      BY <3>1, CommandShape, AccountsAssumption
    <3>5. b \in Touched(req[r]) /\ b < a
      BY <2>2, <2>4
    <3>2. b \in Nat /\ b # a
      BY <2>3, <3>4, <3>5
    <3>3. locks[b] = r
      BY <2>1, <2>2, <2>3, <2>4, <3>2 DEF IsNext
    <3> QED
      BY <2>2, <2>4, <3>2, <3>3
  <2>5. CASE c # a
    <3>1. locks'[c] = locks[c] /\ locks[c] # None
      BY <2>2, <2>5
    <3>2. locks[b] = locks[c]
      BY <3>1 DEF LocksAscend
    <3>3. b # a
      BY <2>1, <3>1, <3>2
    <3> QED
      BY <2>2, <3>1, <3>2, <3>3
  <2> QED
    BY <2>4, <2>5
<1>3. ASSUME NEW r \in Requests, Submit(r) PROVE LocksAscend'
  <2>1. \A a \in Accounts : locks[a] # None => locks[a] # r
    BY <1>3, HolderPosts DEF Submit
  <2>2. UNCHANGED locks /\ \A t \in Requests \ {r} : req'[t] = req[t]
    BY <1>0, <1>3 DEF TypeOK, Submit, private
  <2>3. \A a \in Accounts : locks[a] # None => locks[a] \in Requests
    BY <1>0 DEF TypeOK
  <2> QED
    BY <2>1, <2>2, <2>3 DEF LocksAscend
<1>4. CASE UNCHANGED <<locks, req>>
  BY <1>4 DEF LocksAscend
<1>5. ASSUME NEW r \in Requests, Advance(r) PROVE LocksAscend'
  <2>1. \/ UNCHANGED <<locks, req>> \/ (Unlock(r) /\ UNCHANGED req)
        \/ \E a \in Accounts : Credit(r, a) \/ Debit(r, a)
    BY <1>5 DEF Advance, FindExisting, FraudApprove, FraudReject, ReadFrom, ReadTo, ReadAccount, CreatePending,
       CreateRejected, Insert, DebitRefused, MarkCompleted, CreateEvent, Commit, ReleaseReservation,
       P2002Fallback, Throw, Publish, CloseTx, private
  <2> QED
    BY <1>1, <1>2, <1>4, <2>1
<1>6. ASSUME NEW r \in Requests, Fail(r) PROVE LocksAscend'
  <2>1. UNCHANGED <<locks, req>> \/ (Unlock(r) /\ UNCHANGED req)
    BY <1>6 DEF Fail, CommitAckLost, DbError, RetryConflict, LookupError, Crash, Throw, Publish, CloseTx, private
  <2> QED
    BY <1>1, <1>4, <2>1
<1>7. ASSUME NEW a \in Accounts, Freeze(a) \/ Unfreeze(a) \/ Close(a) PROVE LocksAscend'
  BY <1>4, <1>7 DEF Freeze, Unfreeze, Close, ChangeStatus, private
<1> QED
  BY <1>3, <1>4, <1>5, <1>6, <1>7 DEF Next, vars, private

\* Of the requests that wait for each other, the one that waits for the last account waits for
\* a request that waits for none of them.
LEMMA NobodyWaitsInCircle == IInv /\ LocksAscend => NoDeadlock
<1> SUFFICES ASSUME IInv, LocksAscend, NEW S \in (SUBSET Requests) \ {{}},
                    \A r \in S : \E t \in S : WaitsFor(r, t)
             PROVE  FALSE
  BY DEF NoDeadlock
<1> DEFINE Waits(r, t, a) == pc[r] = "update" /\ IsNext(r, a) /\ locks[a] = t
           W == {a \in Accounts : \E r, t \in S : Waits(r, t, a)}
<1>1. \A t \in S : pc[t] \in {"update", "event", "commit"} => \E u \in S, a \in Accounts : Waits(t, u, a)
  BY DEF WaitsFor
<1>2. W # {}
  <2>1. PICK r \in S : TRUE
    OBVIOUS
  <2>2. PICK t \in S : WaitsFor(r, t)
    BY <2>1
  <2>3. CASE pc[r] = "update"
    BY <1>1, <2>3
  <2>4. CASE pc[r] # "update"
    <3>1. pending[t] # "NONE" /\ PendingFits(t)
      BY <2>2, <2>4 DEF WaitsFor, KeyHolders, IInv, Handlers
    <3>2. pc[t] \in {"update", "event", "commit"}
      BY <3>1 DEF PendingFits
    <3> QED
      BY <1>1, <3>2
  <2> QED
    BY <2>3, <2>4
<1>3. PICK a \in W : \A b \in W : b <= a
  <2>1. W \subseteq Accounts /\ Accounts \subseteq Nat /\ IsFiniteSet(Accounts)
    BY AccountsAssumption, FiniteAssumption
  <2> HIDE DEF W
  <2> QED
    BY <1>2, <2>1, HasLargest
<1>4. PICK r \in S, t \in S : Waits(r, t, a)
  OBVIOUS
<1>5. locks[a] = t /\ t # None /\ a \in Accounts
  BY <1>4, RequestsAssumption
<1>6. pc[t] \in {"update", "event", "commit"} /\ a \in Touched(req[t])
  BY <1>5, HolderPosts
<1>7. PICK u \in S, b \in Accounts : Waits(t, u, b)
  BY <1>1, <1>6
<1>8. b \in Touched(req[t]) /\ locks[b] # t
  BY <1>7 DEF IsNext
<1>9. ~(b < a) /\ b # a
  BY <1>5, <1>8 DEF LocksAscend
<1>10. b <= a
  BY <1>3, <1>7
<1>11. a \in Nat /\ b \in Nat
  BY <1>5, AccountsAssumption
<1> QED
  BY <1>9, <1>10, <1>11

\* Whatever transfers run against each other, and however many: as long as the accounts are
\* finitely many, no open transactions wait in a circle.
THEOREM NeverDeadlocked == Spec => []NoDeadlock
<1>1. Init => LocksAscend
  BY DEF Init, LocksAscend
<1>2. Spec => []LocksAscend
  BY <1>1, AscendStep, Invariance, PTL DEF Spec
<1> QED
  BY <1>2, Invariance, NobodyWaitsInCircle, PTL

-----------------------------------------------------------------------------
(* A closed account stays as it is. *)

\* Request r, which touches the closed account a, has still to read its status, or has failed.
Barred(r, a) ==
  /\ status[a] = "CLOSED" /\ a \in Touched(req[r])
  /\ row[r] # "COMPLETED" /\ pending[r] \notin {"PENDING", "COMPLETED"}
  /\ pc[r] \notin {"idle", "insert", "update"}
  /\ pc[r] = "readTo" => a = req[r].to

\* A request bars itself when it meets the closed account.
LEMMA BarredAdvance ==
  ASSUME IInv, NEW r \in Requests, NEW a \in Accounts, Barred(r, a), Advance(r)
  PROVE  Barred(r, a)'
<1>1. /\ TypeOK /\ PendingFits(r) /\ req[r] \in Commands
      /\ req[r].from # None <=> req[r].type # "DEPOSIT"
      /\ req[r].to # None <=> req[r].type # "WITHDRAW"
  BY CommandShape DEF IInv, Handlers, Checked, Barred, WellFormed
<1> USE DEF Barred, TypeOK, Goto, Reply, committed, private
<1>2. UNCHANGED <<status, req>>
  BY DEF Advance, FindExisting, FraudApprove, FraudReject, ReadFrom, ReadTo, ReadAccount, CreatePending,
     CreateRejected, Insert, Credit, Debit, DebitRefused, MarkCompleted, CreateEvent, Commit, ReleaseReservation,
     P2002Fallback, Throw
<1>3. CASE FindExisting(r)
  BY <1>1, <1>2, <1>3 DEF FindExisting, Touched
<1>4. CASE FraudApprove(r) \/ FraudReject(r) \/ ReleaseReservation(r) \/ P2002Fallback(r)
  BY <1>1, <1>2, <1>4 DEF FraudApprove, FraudReject, ReleaseReservation, P2002Fallback
<1>5. CASE ReadFrom(r) \/ ReadTo(r)
  <2>1. CASE Throw(r, "refused")
    BY <1>1, <1>2, <2>1 DEF Throw, CloseTx
  <2>2. CASE ReadFrom(r) /\ ~Throw(r, "refused")
    <3>1. /\ pc[r] = "readFrom" /\ status[req[r].from] = "ACTIVE" /\ UNCHANGED <<committed, private>>
          /\ pc' = [pc EXCEPT ![r] = IF req[r].type = "TRANSFER" THEN "readTo" ELSE "insert"]
      BY <2>2 DEF ReadFrom, ReadAccount, Acceptable
    <3>2. a = req[r].to /\ req[r].to # None
      BY <3>1 DEF Touched
    <3>3. req[r].type = "TRANSFER"
      <4>1. req[r].type \in {"DEPOSIT", "WITHDRAW", "TRANSFER"} /\ req[r].type # "DEPOSIT"
        BY <1>1, <3>1, CommandShape DEF IInv, Handlers, Checked, Command
      <4> QED
        BY <1>1, <3>2, <4>1
    <3> QED
      BY <1>1, <1>2, <3>1, <3>2, <3>3
  <2>3. CASE ReadTo(r) /\ ~Throw(r, "refused")
    BY <1>1, <1>2, <2>3 DEF ReadTo, ReadAccount, Acceptable
  <2> QED
    BY <1>5, <2>1, <2>2, <2>3
<1>6. CASE CreatePending(r) \/ CreateRejected(r)
  BY <1>1, <1>2, <1>6 DEF CreatePending, CreateRejected, Insert
<1>7. CASE CreateEvent(r)
  BY <1>1, <1>2, <1>7 DEF CreateEvent
<1>8. CASE Commit(r)
  BY <1>1, <1>2, <1>8 DEF Commit, Publish, CloseTx, PendingFits
<1> QED
  BY <1>3, <1>4, <1>5, <1>6, <1>7, <1>8 DEF Advance, Credit, Debit, DebitRefused, MarkCompleted

LEMMA BarredFail ==
  ASSUME IInv, NEW r \in Requests, NEW a \in Accounts, Barred(r, a), Fail(r)
  PROVE  Barred(r, a)'
<1>1. TypeOK /\ PendingFits(r)
  BY DEF IInv, Handlers
<1>2. CASE CommitAckLost(r)
  BY <1>1, <1>2 DEF Barred, TypeOK, CommitAckLost, Publish, CloseTx, PendingFits, Goto
<1>3. CASE DbError(r) \/ RetryConflict(r) \/ LookupError(r) \/ Crash(r)
  BY <1>1, <1>3 DEF Barred, TypeOK, DbError, RetryConflict, LookupError, Crash, Throw, CloseTx, Goto, committed, private
<1> QED
  BY <1>2, <1>3 DEF Fail

\* What the others do leaves r and a closed account alone.
LEMMA BarredOthers ==
  ASSUME IInv, NEW r \in Requests, NEW a \in Accounts, Barred(r, a),
         \/ \E t \in Requests \ {r} : Submit(t) \/ Advance(t) \/ Fail(t)
         \/ \E b \in Accounts : Freeze(b) \/ Unfreeze(b) \/ Close(b)
         \/ UNCHANGED vars
  PROVE  Barred(r, a)'
<1>1. TypeOK
  BY DEF IInv
<1>2. ASSUME NEW t \in Requests \ {r}, Submit(t) \/ Advance(t) \/ Fail(t) PROVE Barred(r, a)'
  <2>1. /\ UNCHANGED status /\ pc'[r] = pc[r] /\ req'[r] = req[r]
    BY <1>1, <1>2 DEF TypeOK, Submit, Advance, Fail, FindExisting, FraudApprove, FraudReject, ReadFrom, ReadTo,
       ReadAccount, CreatePending, CreateRejected, Insert, Credit, Debit, DebitRefused, MarkCompleted,
       CreateEvent, Commit, ReleaseReservation, P2002Fallback, CommitAckLost, DbError, RetryConflict,
       LookupError, Crash, Throw, Goto
  <2>2. row'[r] = row[r] /\ pending'[r] = pending[r]
    BY <1>1, <1>2 DEF TypeOK, Submit, Advance, Fail, FindExisting, FraudApprove, FraudReject, ReadFrom, ReadTo,
       ReadAccount, CreatePending, CreateRejected, Insert, Credit, Debit, DebitRefused, MarkCompleted,
       CreateEvent, Commit, ReleaseReservation, P2002Fallback, CommitAckLost, DbError, RetryConflict,
       LookupError, Crash, Throw, Publish, CloseTx, committed, private
  <2> QED
    BY <2>1, <2>2 DEF Barred
<1>3. ASSUME NEW b \in Accounts, Freeze(b) \/ Unfreeze(b) \/ Close(b) PROVE Barred(r, a)'
  <2>1. status'[a] = "CLOSED" /\ UNCHANGED <<row, pending, req, pc>>
    BY <1>1, <1>3 DEF TypeOK, Barred, Freeze, Unfreeze, Close, ChangeStatus, committed, private
  <2> QED
    BY <2>1 DEF Barred
<1>4. CASE UNCHANGED vars
  BY <1>4 DEF vars, committed, private, Barred
<1> QED
  BY <1>2, <1>3, <1>4

LEMMA BarredStep ==
  ASSUME NEW r \in Requests, NEW a \in Accounts
  PROVE  IInv /\ Barred(r, a) /\ [Next]_vars => Barred(r, a)'
<1>1. Barred(r, a) => ~Submit(r)
  BY DEF Barred, Submit
<1> QED
  BY <1>1, BarredAdvance, BarredFail, BarredOthers DEF Next

\* A request that comes after a close never moves money on the account, whatever else happens.
THEOREM ClosedIsFinal == Spec => ClosedStaysUntouched
<1>1. ASSUME NEW r \in Requests, NEW a \in Accounts
      PROVE  Spec => [](/\ status[a] = "CLOSED" /\ pc[r] \in {"lookup", "fraud"}
                        /\ a \in Touched(req[r]) /\ row[r] = "NONE"
                        => [](row[r] # "COMPLETED"))
  <2>1. IInv /\ status[a] = "CLOSED" /\ pc[r] \in {"lookup", "fraud"} /\ a \in Touched(req[r]) /\ row[r] = "NONE"
          => Barred(r, a)
    BY DEF IInv, Handlers, PendingFits, Barred
  <2>2. IInv /\ Barred(r, a) /\ [Next]_vars => Barred(r, a)'
    BY BarredStep
  <2>3. Barred(r, a) => row[r] # "COMPLETED"
    BY DEF Barred
  <2> QED
    BY <2>1, <2>2, <2>3, Invariance, PTL DEF Spec
<1> QED
  BY <1>1 DEF ClosedStaysUntouched
=============================================================================
