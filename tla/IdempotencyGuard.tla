--------------------------- MODULE IdempotencyGuard ---------------------------
(***************************************************************************)
(* TransactionsIdempotencyGuard and the part of TransactionsController     *)
(* that ends what the guard began: the in-flight key of a request, the     *)
(* transfer lock of its user, and their release, over one Redis.           *)
(*                                                                         *)
(* One user; keys are (operation, reference) pairs.  Every Redis command   *)
(* is one step.  The service behind the guard is taken at its promise to   *)
(* keep one row per key (module Ledger).                                   *)
(***************************************************************************)
EXTENDS Integers, FiniteSets

CONSTANTS
  Requests,   \* HTTP requests of the user
  Keys,       \* transactions:idempotency:<user>:<operation>:<reference>
  Transfers,  \* the keys whose operation is `transfer'
  MaxFaults,  \* bound on Redis errors, lost acknowledgements, crashes and overrun TTLs
  None

ASSUME KeysAssumption == Transfers \subseteq Keys
ASSUME NoneAssumption == None \notin Requests /\ None \notin Keys
ASSUME FaultsAssumption == MaxFaults \in Nat

VARIABLES
  key,      \* value of each idempotency key
  lock,     \* whose token the user's transfer lock holds
  row,      \* what the service has committed under each key
  cmd,      \* the key each request carries
  valid,    \* whether its body passes the ValidationPipe
  pc,       \* where each request is
  via,      \* how it passed the guard: own claim, key already done, fail-open
  lateKey,  \* requests whose in-flight key expired under them
  lateLock, \* requests whose transfer lock expired under them
  faults

redis == <<key, lock>>
late == <<lateKey, lateLock>>
input == <<cmd, valid>>
vars == <<redis, row, input, pc, via, late, faults>>

Phase == {"new", "setKey", "setLock", "yield", "getState", "validate", "handler",
          "markDone", "clearDone", "deleteKey", "unlock", "out"}

TypeOK ==
  /\ key \in [Keys -> {"absent", "inflight", "done"}]
  /\ lock \in Requests \cup {None}
  /\ row \in [Keys -> {"none", "completed", "rejected"}]
  /\ cmd \in [Requests -> Keys \cup {None}]
  /\ valid \in [Requests -> BOOLEAN]
  /\ pc \in [Requests -> Phase]
  /\ via \in [Requests -> {"none", "claim", "done", "open"}]
  /\ lateKey \subseteq Requests /\ lateLock \subseteq Requests
  /\ faults \in 0 .. MaxFaults

Init ==
  /\ key = [k \in Keys |-> "absent"]
  /\ lock = None
  /\ row = [k \in Keys |-> "none"]
  /\ cmd = [r \in Requests |-> None]
  /\ valid = [r \in Requests |-> TRUE]
  /\ pc = [r \in Requests |-> "new"]
  /\ via = [r \in Requests |-> "none"]
  /\ lateKey = {} /\ lateLock = {}
  /\ faults = 0

-----------------------------------------------------------------------------
Goto(r, p) == pc' = [pc EXCEPT ![r] = p]
Pass(r, how) == via' = [via EXCEPT ![r] = how]
Fault == faults < MaxFaults /\ faults' = faults + 1
SetKey(k, v) == key' = [key EXCEPT ![k] = v]

IsTransfer(r) == cmd[r] \in Transfers
Active(r) == pc[r] \notin {"new", "out"}

\* The request carries idempotencyKey, or transferUserLockKey and its token.
HasKey(r) == via[r] \in {"claim", "done"}
HasLock(r) == via[r] = "claim" /\ IsTransfer(r)
  /\ pc[r] \in {"validate", "handler", "markDone", "clearDone", "deleteKey", "unlock"}

-----------------------------------------------------------------------------
(* canActivate. *)

Arrive(r) ==
  /\ pc[r] = "new"
  /\ \E k \in Keys, v \in BOOLEAN :
       cmd' = [cmd EXCEPT ![r] = k] /\ valid' = [valid EXCEPT ![r] = v]
  /\ Goto(r, "setKey")
  /\ UNCHANGED <<redis, row, via, late, faults>>

\* Seeded fault: the key is set without NX.
Claim_NoNX(r) ==
  /\ pc[r] = "setKey"
  /\ SetKey(cmd[r], "inflight") /\ Pass(r, "claim")
  /\ Goto(r, IF IsTransfer(r) THEN "setLock" ELSE "validate")
  /\ UNCHANGED <<lock, row, input, late, faults>>

\* SET key 'in-flight' EX ttl NX.
Claim(r) ==
  /\ pc[r] = "setKey"
  /\ IF key[cmd[r]] = "absent"
     THEN /\ SetKey(cmd[r], "inflight") /\ Pass(r, "claim")
          /\ Goto(r, IF IsTransfer(r) THEN "setLock" ELSE "validate")
     ELSE /\ Goto(r, "getState")
          /\ UNCHANGED <<key, via>>
  /\ UNCHANGED <<lock, row, input, late, faults>>

\* SET user-lock token EX ttl NX, for transfers.
LockUser(r) ==
  /\ pc[r] = "setLock"
  /\ IF lock = None THEN lock' = r /\ Goto(r, "validate")
                    ELSE UNCHANGED lock /\ Goto(r, "yield")
  /\ UNCHANGED <<key, row, input, via, late, faults>>

\* The lock is taken: DEL key, then 409 `Another transfer is already in progress'.
Yield(r) ==
  /\ pc[r] = "yield"
  /\ SetKey(cmd[r], "absent") /\ Pass(r, "none")
  /\ Goto(r, "out")
  /\ UNCHANGED <<lock, row, input, late, faults>>

\* GET key: `done' lets the request through to the row, anything else is 409.
GetState(r) ==
  /\ pc[r] = "getState"
  /\ IF key[cmd[r]] = "done"
     THEN Pass(r, "done") /\ Goto(r, "validate")
     ELSE Goto(r, "out") /\ UNCHANGED via
  /\ UNCHANGED <<redis, row, input, late, faults>>

\* Redis is not ready, or one of the commands above fails, before or after it took effect:
\* fail-open, without a key on the request.
FailOpen(r) ==
  /\ pc[r] \in {"setKey", "setLock", "yield", "getState"} /\ Fault
  /\ \/ UNCHANGED redis
     \/ /\ pc[r] = "setKey" /\ key[cmd[r]] = "absent"
        /\ SetKey(cmd[r], "inflight") /\ UNCHANGED lock
     \/ /\ pc[r] = "setLock" /\ lock = None
        /\ lock' = r /\ UNCHANGED key
     \/ /\ pc[r] = "yield"
        /\ SetKey(cmd[r], "absent") /\ UNCHANGED lock
  /\ Pass(r, "open") /\ Goto(r, "validate")
  /\ UNCHANGED <<row, input, late>>

\* The ValidationPipe runs after the guards: an invalid body never reaches the controller.
Validate(r) ==
  /\ pc[r] = "validate"
  /\ IF valid[r] THEN Goto(r, "handler")
                 ELSE Goto(r, "out")
  /\ UNCHANGED <<redis, row, input, via, late, faults>>

-----------------------------------------------------------------------------
(* The controller. *)

AfterService(r, success) ==
  Goto(r, IF ~HasKey(r) THEN IF HasLock(r) THEN "unlock" ELSE "out"
          ELSE IF success THEN "markDone" ELSE "deleteKey")
AfterKey(r) == Goto(r, IF HasLock(r) THEN "unlock" ELSE "out")

\* The service posts the command, or answers from the row that is there.
ServiceOk(r) ==
  /\ pc[r] = "handler" /\ row[cmd[r]] \in {"none", "completed"}
  /\ row' = [row EXCEPT ![cmd[r]] = "completed"]
  /\ AfterService(r, TRUE)
  /\ UNCHANGED <<redis, input, via, late, faults>>

\* The service throws: nothing committed, a fraud rejection committed, or a commit whose
\* acknowledgement was lost.
ServiceFails(r) ==
  /\ pc[r] = "handler"
  /\ \/ UNCHANGED <<row, faults>>
     \/ /\ row[cmd[r]] = "none"
        /\ row' = [row EXCEPT ![cmd[r]] = "rejected"] /\ UNCHANGED faults
     \/ /\ row[cmd[r]] = "none" /\ Fault
        /\ row' = [row EXCEPT ![cmd[r]] = "completed"]
  /\ AfterService(r, FALSE)
  /\ UNCHANGED <<redis, input, via, late>>

\* Seeded fault: the controller writes another literal than the guard compares with.
MarkDone_OtherLiteral(r) ==
  /\ pc[r] = "markDone"
  /\ SetKey(cmd[r], "completed") /\ AfterKey(r)
  /\ UNCHANGED <<lock, row, input, via, late, faults>>

\* markIdempotencyKeyDone; when the SET fails, the key is deleted instead.
MarkDone(r) ==
  /\ pc[r] = "markDone"
  /\ \/ SetKey(cmd[r], "done") /\ AfterKey(r) /\ UNCHANGED faults
     \/ Fault /\ UNCHANGED key /\ Goto(r, "clearDone")
  /\ UNCHANGED <<lock, row, input, via, late>>

\* Seeded fault: a failed request leaves `done' behind.
DeleteKey_MarksDone(r) ==
  /\ pc[r] \in {"clearDone", "deleteKey"}
  /\ SetKey(cmd[r], "done") /\ AfterKey(r)
  /\ UNCHANGED <<lock, row, input, via, late, faults>>

\* DEL key, whoever has set it; an error of the DEL is only logged. The test for a
\* ConflictException in front of it has no action: the service throws one for a committed PENDING
\* row only, and OutboxAtomic of Transactions shows that there is none.
DeleteKey(r) ==
  /\ pc[r] \in {"clearDone", "deleteKey"}
  /\ \/ SetKey(cmd[r], "absent") /\ UNCHANGED faults
     \/ Fault /\ UNCHANGED key
  /\ AfterKey(r)
  /\ UNCHANGED <<lock, row, input, via, late>>

\* Seeded fault: the lock is deleted without comparing the token.
ReleaseUserLock_Del(r) ==
  /\ pc[r] = "unlock"
  /\ lock' = None /\ Goto(r, "out")
  /\ UNCHANGED <<key, row, input, via, late, faults>>

\* RELEASE_USER_LOCK_LUA, in the finally block: only with this request's token.
ReleaseUserLock(r) ==
  /\ pc[r] = "unlock"
  /\ \/ lock' = (IF lock = r THEN None ELSE lock) /\ UNCHANGED faults
     \/ Fault /\ UNCHANGED lock
  /\ Goto(r, "out")
  /\ UNCHANGED <<key, row, input, via, late>>

Crash(r) ==
  /\ Active(r) /\ Fault
  /\ Goto(r, "out")
  /\ UNCHANGED <<redis, row, input, via, late>>

-----------------------------------------------------------------------------
(* TTLs; that one runs out under a request still at work counts as a fault. *)

Claimants(k) == {r \in Requests : Active(r) /\ via[r] = "claim" /\ cmd[r] = k} \ lateKey

\* Seeded fault: the key has no TTL.
KeyExpires_Never(k) == FALSE /\ UNCHANGED vars

KeyExpires(k) ==
  /\ key[k] # "absent" /\ SetKey(k, "absent")
  /\ IF Claimants(k) = {} THEN UNCHANGED faults ELSE Fault
  /\ lateKey' = lateKey \cup Claimants(k)
  /\ UNCHANGED <<lock, row, input, pc, via, lateLock>>

LockExpires ==
  /\ lock # None /\ lock' = None
  /\ IF HasLock(lock) THEN Fault /\ lateLock' = lateLock \cup {lock}
                      ELSE UNCHANGED <<faults, lateLock>>
  /\ UNCHANGED <<key, row, input, pc, via, lateKey>>

-----------------------------------------------------------------------------
Advance(r) ==
  \/ Claim(r) \/ LockUser(r) \/ Yield(r) \/ GetState(r) \/ FailOpen(r) \/ Validate(r)
  \/ ServiceOk(r) \/ ServiceFails(r) \/ MarkDone(r) \/ DeleteKey(r) \/ ReleaseUserLock(r)

Next ==
  \/ \E r \in Requests : Arrive(r) \/ Advance(r) \/ Crash(r)
  \/ \E k \in Keys : KeyExpires(k)
  \/ LockExpires

Spec == Init /\ [][Next]_vars

\* A request under way is served, and Redis expires keys.
Fairness ==
  /\ \A r \in Requests : WF_vars(Advance(r))
  /\ \A k \in Keys : WF_vars(KeyExpires(k))
  /\ WF_vars(LockExpires)
FairSpec == Spec /\ Fairness

-----------------------------------------------------------------------------
\* Requests that claimed k and have not yet come to its DEL or `done'.
Working(k) ==
  {r \in Requests : /\ via[r] = "claim" /\ cmd[r] = k
                    /\ pc[r] \in {"setLock", "yield", "validate", "handler", "markDone", "deleteKey"}}

\* As long as no in-flight key expires under its request, at most one claimed request works
\* on a key that has no row yet: the plain DEL of a failed request cannot let in a second one
\* before the first is through.
OneWorkerPerKey ==
  lateKey = {} => \A k \in Keys : row[k] = "none" => Cardinality(Working(k)) <= 1

\* A transfer that passed the guard has the lock of its user until it releases it or the TTL
\* takes it: no other request, however late, releases it (the token compared in
\* RELEASE_USER_LOCK_LUA).
LockStaysMine == \A r \in Requests \ lateLock : HasLock(r) => lock = r

\* `done' is written only for a key whose row is COMPLETED, so the request that is let
\* through is answered from the row; a rejected or failed command never leaves `done'.
DoneMeansCompleted == \A k \in Keys : key[k] = "done" => row[k] = "completed"

\* A crash, an invalid body or a Redis error never blocks a key or the user for good.
NothingHeldForever == []<>(lock = None) /\ \A k \in Keys : []<>(key[k] # "inflight")

\* `Another transfer is already in progress' is found only while one is.
BusyMeansTransferring ==
  [][\A r \in Requests :
       pc[r] = "setLock" /\ pc'[r] = "yield"
         => \E q \in Requests \ {r} : Active(q) /\ IsTransfer(q)]_vars
=============================================================================
