------------------------ MODULE IdempotencyGuardProofs ------------------------
(***************************************************************************)
(* Proofs about IdempotencyGuard: the lock stays with its owner, `done'    *)
(* means COMPLETED, and one claimed request works on a key at a time.      *)
(***************************************************************************)
EXTENDS IdempotencyGuard, FiniteSetTheorems, TLAPS

\* A request that has arrived carries a key.
Carried == \A r \in Requests : pc[r] # "new" => cmd[r] \in Keys

\* What the place of a request says about how it came there.
Through ==
  \A r \in Requests :
    /\ pc[r] \in {"new", "setKey"} => via[r] = "none"
    /\ pc[r] \in {"setLock", "yield"} => via[r] = "claim"
    /\ pc[r] = "deleteKey" => via[r] \in {"claim", "done"}
    /\ pc[r] \in {"markDone", "clearDone"} \/ via[r] = "done" => row[cmd[r]] = "completed"

\* r is in Working(cmd[r]), and the key has no row.
Works(r) ==
  /\ via[r] = "claim" /\ row[cmd[r]] = "none"
  /\ pc[r] \in {"setLock", "yield", "validate", "handler", "markDone", "deleteKey"}

\* A request at work on a key without a row owns the in-flight key, and is alone.
Sole ==
  lateKey = {} =>
    \A r \in Requests : Works(r) =>
      /\ key[cmd[r]] = "inflight"
      /\ \A q \in Requests : Works(q) /\ cmd[q] = cmd[r] => q = r

IInv == TypeOK /\ Carried /\ Through /\ LockStaysMine /\ DoneMeansCompleted /\ Sole

LEMMA InitIInv == Init => IInv
<1> SUFFICES ASSUME Init PROVE IInv
  OBVIOUS
<1>1. TypeOK
  BY FaultsAssumption DEF Init, TypeOK, Phase
<1>2. Carried /\ Through /\ LockStaysMine /\ DoneMeansCompleted /\ Sole
  BY DEF Init, Carried, Through, LockStaysMine, HasLock, DoneMeansCompleted, Sole, Works
<1> QED
  BY <1>1, <1>2 DEF IInv

-----------------------------------------------------------------------------
(* Types. *)

LEMMA FaultType == TypeOK /\ (Fault \/ UNCHANGED faults) => faults' \in 0 .. MaxFaults
  BY FaultsAssumption DEF TypeOK, Fault

\* A step of r writes a row under its own key only, where there is none, or leaves it.
LEMMA RowStep ==
  ASSUME TypeOK, NEW r \in Requests, Arrive(r) \/ Advance(r) \/ Crash(r)
  PROVE  \/ UNCHANGED row
         \/ row[cmd[r]] = "none" /\ \E s \in {"completed", "rejected"} : row' = [row EXCEPT ![cmd[r]] = s]
<1>1. CASE ServiceOk(r)
  <2>1. CASE row[cmd[r]] = "none"
    BY <1>1, <2>1 DEF ServiceOk
  <2>2. CASE row[cmd[r]] = "completed"
    BY <1>1, <2>2 DEF ServiceOk, TypeOK
  <2> QED
    BY <1>1, <2>1, <2>2 DEF ServiceOk
<1>2. CASE ServiceFails(r)
  BY <1>2 DEF ServiceFails
<1>3. CASE ~ServiceOk(r) /\ ~ServiceFails(r)
  BY <1>3 DEF Arrive, Advance, Claim, LockUser, Yield, GetState, FailOpen, Validate, MarkDone,
     DeleteKey, ReleaseUserLock, Crash
<1> QED
  BY <1>1, <1>2, <1>3

LEMMA TypeStep == IInv /\ [Next]_vars => TypeOK' /\ Carried'
<1> SUFFICES ASSUME IInv, [Next]_vars PROVE TypeOK' /\ Carried'
  OBVIOUS
<1> USE DEF IInv
<1>1. ASSUME NEW r \in Requests, Arrive(r) PROVE TypeOK' /\ Carried'
  BY <1>1 DEF Arrive, Goto, TypeOK, Carried, Phase, redis, late
<1>2. ASSUME NEW r \in Requests, Advance(r) \/ Crash(r) PROVE TypeOK' /\ Carried'
  <2>1. cmd[r] \in Keys /\ UNCHANGED <<input, late>>
    BY <1>2 DEF Carried, Advance, Claim, LockUser, Yield, GetState, FailOpen, Validate, ServiceOk,
       ServiceFails, MarkDone, DeleteKey, ReleaseUserLock, Crash, Active, late
  <2>2. Fault \/ UNCHANGED faults
    BY <1>2 DEF Advance, Claim, LockUser, Yield, GetState, FailOpen, Validate, ServiceOk,
       ServiceFails, MarkDone, DeleteKey, ReleaseUserLock, Crash
  <2>3. key' \in [Keys -> {"absent", "inflight", "done"}]
    <3>1. UNCHANGED key \/ \E v \in {"absent", "inflight", "done"} : SetKey(cmd[r], v)
      BY <1>2 DEF Advance, Claim, LockUser, Yield, GetState, FailOpen, Validate, ServiceOk,
         ServiceFails, MarkDone, DeleteKey, ReleaseUserLock, Crash, redis
    <3> QED
      BY <2>1, <3>1 DEF TypeOK, SetKey
  <2>4. lock' \in Requests \cup {None}
    BY <1>2 DEF TypeOK, Advance, Claim, LockUser, Yield, GetState, FailOpen, Validate, ServiceOk,
       ServiceFails, MarkDone, DeleteKey, ReleaseUserLock, Crash, redis
  <2>5. row' \in [Keys -> {"none", "completed", "rejected"}]
    BY <1>2, <2>1, RowStep DEF TypeOK
  <2>6. via' \in [Requests -> {"none", "claim", "done", "open"}]
    BY <1>2 DEF TypeOK, Advance, Claim, LockUser, Yield, GetState, FailOpen, Validate, ServiceOk,
       ServiceFails, MarkDone, DeleteKey, ReleaseUserLock, Crash, Pass
  <2>7. \E p \in Phase : Goto(r, p) /\ p # "new"
    BY <1>2 DEF Advance, Claim, LockUser, Yield, GetState, FailOpen, Validate, ServiceOk, ServiceFails,
       MarkDone, DeleteKey, ReleaseUserLock, Crash, AfterService, AfterKey, Goto, Phase
  <2>8. pc' \in [Requests -> Phase] /\ Carried'
    BY <2>1, <2>7 DEF TypeOK, Carried, Goto, input
  <2> QED
    BY <2>1, <2>2, <2>3, <2>4, <2>5, <2>6, <2>8, FaultType DEF TypeOK, input, late
<1>3. ASSUME NEW k \in Keys, KeyExpires(k) PROVE TypeOK' /\ Carried'
  <2>1. Claimants(k) \subseteq Requests /\ (Fault \/ UNCHANGED faults)
    BY <1>3 DEF KeyExpires, Claimants
  <2> QED
    BY <1>3, <2>1, FaultType DEF KeyExpires, SetKey, TypeOK, Carried, input
<1>4. CASE LockExpires
  <2>1. Fault \/ UNCHANGED faults
    BY <1>4 DEF LockExpires
  <2> QED
    BY <1>4, <2>1, FaultType DEF LockExpires, TypeOK, Carried, input
<1>5. CASE UNCHANGED vars
  BY <1>5 DEF vars, redis, input, late, TypeOK, Carried
<1> QED
  BY <1>1, <1>2, <1>3, <1>4, <1>5 DEF Next

-----------------------------------------------------------------------------
(* The lock. *)

\* A request comes into the possession of the lock in LockUser only.
LEMMA LockGained ==
  ASSUME IInv, NEW q \in Requests, Arrive(q) \/ Advance(q) \/ Crash(q), NEW r \in Requests, HasLock(r)'
  PROVE  HasLock(r) \/ (r = q /\ LockUser(q) /\ lock = None)
<1>1. CASE r = q
  BY <1>1 DEF IInv, TypeOK, Through, HasLock, IsTransfer, Arrive, Advance, Claim, LockUser, Yield,
     GetState, FailOpen, Validate, ServiceOk, ServiceFails, MarkDone, DeleteKey, ReleaseUserLock,
     Crash, AfterService, AfterKey, HasKey, Goto, Pass, input
<1>2. CASE r # q
  <2>1. pc'[r] = pc[r] /\ via'[r] = via[r] /\ cmd'[r] = cmd[r]
    BY <1>2 DEF IInv, TypeOK, Arrive, Advance, Claim, LockUser, Yield, GetState, FailOpen, Validate,
       ServiceOk, ServiceFails, MarkDone, DeleteKey, ReleaseUserLock, Crash, AfterService, AfterKey,
       Goto, Pass, input
  <2> QED
    BY <2>1 DEF HasLock, IsTransfer
<1> QED
  BY <1>1, <1>2

LEMMA LockStep == IInv /\ [Next]_vars => LockStaysMine'
<1> SUFFICES ASSUME IInv, [Next]_vars, NEW r \in Requests, r \notin lateLock', HasLock(r)'
             PROVE  lock' = r
  BY DEF LockStaysMine
<1> USE NoneAssumption
<1>1. ASSUME NEW q \in Requests, Arrive(q) \/ Advance(q) \/ Crash(q) PROVE lock' = r
  <2>1. UNCHANGED lateLock
    BY <1>1 DEF Arrive, Advance, Claim, LockUser, Yield, GetState, FailOpen, Validate, ServiceOk,
       ServiceFails, MarkDone, DeleteKey, ReleaseUserLock, Crash, late
  <2>2. CASE HasLock(r)
    <3>1. lock = r
      BY <2>1, <2>2 DEF IInv, LockStaysMine
    <3>2. CASE ReleaseUserLock(q)
      BY <3>1, <3>2 DEF IInv, TypeOK, ReleaseUserLock, HasLock, Goto
    <3>3. CASE ~ReleaseUserLock(q)
      BY <1>1, <3>1, <3>3 DEF Arrive, Advance, Claim, LockUser, Yield, GetState, FailOpen, Validate,
         ServiceOk, ServiceFails, MarkDone, DeleteKey, Crash, redis
    <3> QED
      BY <3>2, <3>3
  <2>3. CASE r = q /\ LockUser(q) /\ lock = None
    BY <2>3 DEF LockUser
  <2> QED
    BY <1>1, <2>2, <2>3, LockGained
<1>2. ASSUME NEW k \in Keys, KeyExpires(k) PROVE lock' = r
  BY <1>2 DEF IInv, KeyExpires, LockStaysMine, HasLock, IsTransfer, input
<1>3. CASE LockExpires
  BY <1>3 DEF IInv, LockExpires, LockStaysMine, HasLock, IsTransfer, input
<1>4. CASE UNCHANGED vars
  BY <1>4 DEF IInv, vars, redis, late, LockStaysMine, HasLock, IsTransfer, input
<1> QED
  BY <1>1, <1>2, <1>3, <1>4 DEF Next

-----------------------------------------------------------------------------
(* The rows. *)

LEMMA ThroughStep == IInv /\ [Next]_vars /\ Carried' => Through' /\ DoneMeansCompleted'
<1> SUFFICES ASSUME IInv, [Next]_vars, Carried' PROVE Through' /\ DoneMeansCompleted'
  OBVIOUS
<1>1. ASSUME NEW q \in Requests, Arrive(q) \/ Advance(q) \/ Crash(q) PROVE Through' /\ DoneMeansCompleted'
  <2>1. \A k \in Keys : row[k] = "completed" => row'[k] = "completed"
    BY <1>1, RowStep DEF IInv, TypeOK
  <2>2. \A r \in Requests \ {q} : pc'[r] = pc[r] /\ via'[r] = via[r] /\ cmd'[r] = cmd[r]
    BY <1>1 DEF IInv, TypeOK, Arrive, Advance, Claim, LockUser, Yield, GetState, FailOpen, Validate,
       ServiceOk, ServiceFails, MarkDone, DeleteKey, ReleaseUserLock, Crash, AfterService, AfterKey,
       Goto, Pass, input
  <2>3. /\ pc'[q] \in {"new", "setKey"} => via'[q] = "none"
        /\ pc'[q] \in {"setLock", "yield"} => via'[q] = "claim"
        /\ pc'[q] = "deleteKey" => via'[q] \in {"claim", "done"}
    BY <1>1 DEF IInv, TypeOK, Through, HasKey, Arrive, Advance, Claim, LockUser, Yield, GetState,
       FailOpen, Validate, ServiceOk, ServiceFails, MarkDone, DeleteKey, ReleaseUserLock, Crash,
       AfterService, AfterKey, Goto, Pass, Active
  <2>4. pc'[q] \in {"markDone", "clearDone"} \/ via'[q] = "done" => row'[cmd'[q]] = "completed"
    <3>1. CASE Arrive(q)
      BY <3>1 DEF IInv, TypeOK, Through, Arrive, Goto
    <3>2. CASE Advance(q) \/ Crash(q)
      <4>1. cmd[q] \in Keys /\ cmd'[q] = cmd[q]
        BY <3>2 DEF IInv, Carried, Advance, Claim, LockUser, Yield, GetState, FailOpen, Validate,
           ServiceOk, ServiceFails, MarkDone, DeleteKey, ReleaseUserLock, Crash, Active, input
      <4>2. CASE ServiceOk(q)
        BY <4>1, <4>2 DEF IInv, TypeOK, ServiceOk
      <4>3. CASE GetState(q)
        BY <2>1, <4>1, <4>3 DEF IInv, TypeOK, Through, DoneMeansCompleted, GetState, Goto, Pass
      <4>4. CASE ~ServiceOk(q) /\ ~GetState(q)
        <5>1. pc'[q] \in {"markDone", "clearDone"} \/ via'[q] = "done"
                => pc[q] \in {"markDone", "clearDone"} \/ via[q] = "done"
          BY <3>2, <4>4 DEF IInv, TypeOK, Advance, Claim, LockUser, Yield, FailOpen, Validate,
             ServiceFails, MarkDone, DeleteKey, ReleaseUserLock, Crash, AfterService, AfterKey,
             Goto, Pass
        <5> QED
          BY <2>1, <4>1, <5>1 DEF IInv, Through
      <4> QED
        BY <4>2, <4>3, <4>4
    <3> QED
      BY <1>1, <3>1, <3>2
  <2>5. Through'
    <3>1. ASSUME NEW r \in Requests, r # q, pc'[r] \in {"markDone", "clearDone"} \/ via'[r] = "done"
          PROVE  row'[cmd'[r]] = "completed"
      <4>1. pc[r] # "new" /\ row[cmd[r]] = "completed"
        BY <2>2, <3>1 DEF IInv, Through
      <4> QED
        BY <2>1, <2>2, <3>1, <4>1 DEF IInv, Carried
    <3> QED
      BY <2>2, <2>3, <2>4, <3>1 DEF IInv, Through
  <2>6. DoneMeansCompleted'
    <3>1. \A k \in Keys : key'[k] = "done" => key[k] = "done" \/ (k = cmd[q] /\ MarkDone(q))
      BY <1>1 DEF IInv, TypeOK, Carried, Arrive, Advance, Claim, LockUser, Yield, GetState, FailOpen,
         Validate, ServiceOk, ServiceFails, MarkDone, DeleteKey, ReleaseUserLock, Crash, SetKey, redis
    <3>2. MarkDone(q) => row[cmd[q]] = "completed"
      BY DEF IInv, Through, MarkDone
    <3> QED
      BY <2>1, <3>1, <3>2 DEF IInv, DoneMeansCompleted
  <2> QED
    BY <2>5, <2>6
<1>2. ASSUME NEW k \in Keys, KeyExpires(k) PROVE Through' /\ DoneMeansCompleted'
  BY <1>2 DEF IInv, TypeOK, KeyExpires, SetKey, Through, DoneMeansCompleted, input
<1>3. CASE LockExpires
  BY <1>3 DEF IInv, LockExpires, Through, DoneMeansCompleted, input
<1>4. CASE UNCHANGED vars
  BY <1>4 DEF IInv, vars, redis, input, Through, DoneMeansCompleted
<1> QED
  BY <1>1, <1>2, <1>3, <1>4 DEF Next

-----------------------------------------------------------------------------
(* One worker per key. *)

\* A request begins to work in Claim, on a key that is absent; only a claimed request that
\* stops working clears a key that has no row.
LEMMA WorkStep ==
  ASSUME IInv, NEW q \in Requests, Arrive(q) \/ Advance(q) \/ Crash(q)
  PROVE  /\ \A r \in Requests : Works(r)' /\ ~Works(r) =>
                r = q /\ key[cmd[q]] = "absent" /\ key'[cmd[q]] = "inflight"
         /\ \A r \in Requests : Works(r)' => cmd'[r] = cmd[r]
         /\ \A k \in Keys : row[k] = "none" /\ key[k] = "inflight" /\ key'[k] # "inflight" =>
                Works(q) /\ ~Works(q)' /\ cmd[q] = k
<1>1. ASSUME NEW r \in Requests, Works(r)', r # q PROVE Works(r) /\ cmd'[r] = cmd[r]
  <2>1. pc'[r] = pc[r] /\ via'[r] = via[r] /\ cmd'[r] = cmd[r]
    BY <1>1 DEF IInv, TypeOK, Arrive, Advance, Claim, LockUser, Yield, GetState, FailOpen, Validate,
       ServiceOk, ServiceFails, MarkDone, DeleteKey, ReleaseUserLock, Crash, AfterService, AfterKey,
       Goto, Pass, input
  <2>2. cmd[r] \in Keys
    BY <1>1, <2>1 DEF IInv, Carried, Works
  <2>3. row'[cmd[r]] = "none" => row[cmd[r]] = "none"
    BY <2>2, RowStep DEF IInv, TypeOK
  <2> QED
    BY <1>1, <2>1, <2>3 DEF Works
<1>2. ASSUME Works(q)'
      PROVE  /\ cmd'[q] = cmd[q]
             /\ Works(q) \/ (key[cmd[q]] = "absent" /\ key'[cmd[q]] = "inflight")
  <2>1. ~Arrive(q)
    BY <1>2 DEF IInv, TypeOK, Arrive, Works, Goto
  <2>2. cmd[q] \in Keys /\ cmd'[q] = cmd[q]
    BY <2>1 DEF IInv, Carried, Advance, Claim, LockUser, Yield, GetState, FailOpen, Validate,
       ServiceOk, ServiceFails, MarkDone, DeleteKey, ReleaseUserLock, Crash, Active, input
  <2>3. row[cmd[q]] = "none"
    BY <1>2, <2>2, RowStep DEF IInv, TypeOK, Works
  <2>4. CASE Claim(q)
    BY <1>2, <2>2, <2>4 DEF IInv, TypeOK, Claim, Works, SetKey, Goto, Pass
  <2>5. CASE ~Claim(q)
    <3>1. via[q] = "claim" /\ pc[q] \in {"setLock", "yield", "validate", "handler", "markDone", "deleteKey"}
      BY <1>2, <2>1, <2>5 DEF IInv, TypeOK, Works, Advance, LockUser, Yield, GetState, FailOpen, Validate,
         ServiceOk, ServiceFails, MarkDone, DeleteKey, ReleaseUserLock, Crash, AfterService, AfterKey,
         Goto, Pass
    <3> QED
      BY <2>2, <2>3, <3>1 DEF Works
  <2> QED
    BY <2>2, <2>4, <2>5
<1>3. ASSUME NEW k \in Keys, row[k] = "none", key[k] = "inflight", key'[k] # "inflight"
      PROVE  Works(q) /\ ~Works(q)' /\ cmd[q] = k
  <2>1. cmd[q] = k /\ (MarkDone(q) \/ DeleteKey(q) \/ Yield(q) \/ (FailOpen(q) /\ pc[q] = "yield"))
    BY <1>3 DEF IInv, TypeOK, Arrive, Advance, Claim, LockUser, Yield, GetState, FailOpen, Validate,
       ServiceOk, ServiceFails, MarkDone, DeleteKey, ReleaseUserLock, Crash, SetKey, redis
  <2>2. pc[q] \in {"yield", "deleteKey"} /\ via[q] = "claim"
    BY <1>3, <2>1 DEF IInv, Through, MarkDone, DeleteKey, Yield, FailOpen
  <2>3. pc'[q] \in {"validate", "unlock", "out"} /\ (pc'[q] = "validate" => via'[q] = "open")
    BY <2>1, <2>2 DEF IInv, TypeOK, MarkDone, DeleteKey, Yield, FailOpen, AfterKey, Goto, Pass
  <2> QED
    BY <1>3, <2>1, <2>2, <2>3 DEF Works
<1> QED
  BY <1>1, <1>2, <1>3

LEMMA SoleStep == IInv /\ [Next]_vars => Sole'
<1> SUFFICES ASSUME IInv, [Next]_vars, lateKey' = {}, NEW r \in Requests, Works(r)'
             PROVE  /\ key'[cmd'[r]] = "inflight"
                    /\ \A p \in Requests : Works(p)' /\ cmd'[p] = cmd'[r] => p = r
  BY DEF Sole
<1>1. ASSUME NEW q \in Requests, Arrive(q) \/ Advance(q) \/ Crash(q)
      PROVE  /\ key'[cmd'[r]] = "inflight"
             /\ \A p \in Requests : Works(p)' /\ cmd'[p] = cmd'[r] => p = r
  <2>1. lateKey = {}
    BY <1>1 DEF Arrive, Advance, Claim, LockUser, Yield, GetState, FailOpen, Validate, ServiceOk,
       ServiceFails, MarkDone, DeleteKey, ReleaseUserLock, Crash, late
  <2>2. \A p \in Requests : Works(p) =>
          /\ cmd[p] \in Keys /\ row[cmd[p]] = "none" /\ key[cmd[p]] = "inflight"
          /\ \A o \in Requests : Works(o) /\ cmd[o] = cmd[p] => o = p
    BY <2>1 DEF IInv, Sole, Works, Carried
  <2>3. /\ cmd'[r] = cmd[r]
        /\ Works(r) \/ (r = q /\ key[cmd[q]] = "absent" /\ key'[cmd[q]] = "inflight")
    BY <1>1, WorkStep
  <2>4. key'[cmd[r]] = "inflight"
    BY <1>1, <2>2, <2>3, WorkStep
  <2>5. ASSUME NEW p \in Requests, Works(p)', cmd'[p] = cmd'[r] PROVE p = r
    <3>1. /\ cmd'[p] = cmd[p]
          /\ Works(p) \/ (p = q /\ key[cmd[q]] = "absent")
      BY <1>1, <2>5, WorkStep
    <3> QED
      BY <2>2, <2>3, <2>5, <3>1
  <2> QED
    BY <2>3, <2>4, <2>5
<1>2. ASSUME NEW k \in Keys, KeyExpires(k)
      PROVE  /\ key'[cmd'[r]] = "inflight"
             /\ \A p \in Requests : Works(p)' /\ cmd'[p] = cmd'[r] => p = r
  <2>1. lateKey = {} /\ Claimants(k) = {} /\ UNCHANGED <<row, cmd, pc, via>>
    BY <1>2 DEF KeyExpires, input
  <2>2. \A p \in Requests : Works(p)' => Works(p)
    BY <2>1 DEF Works
  <2>3. cmd[r] # k
    BY <2>1, <2>2 DEF Claimants, Works, Active
  <2> QED
    BY <1>2, <2>1, <2>2, <2>3 DEF IInv, TypeOK, Sole, KeyExpires, SetKey
<1>3. CASE LockExpires \/ UNCHANGED vars
  <2>1. UNCHANGED <<key, row, cmd, pc, via, lateKey>>
    BY <1>3 DEF LockExpires, vars, redis, late, input
  <2> QED
    BY <2>1 DEF IInv, Sole, Works
<1> QED
  BY <1>1, <1>2, <1>3 DEF Next

LEMMA SoleWorker == Sole => OneWorkerPerKey
<1> SUFFICES ASSUME Sole, lateKey = {}, NEW k \in Keys, row[k] = "none"
             PROVE  Cardinality(Working(k)) <= 1
  BY DEF OneWorkerPerKey
<1>1. \A r, q \in Working(k) : q = r
  BY DEF Sole, Working, Works
<1>2. CASE Working(k) = {}
  BY <1>2, FS_EmptySet
<1>3. CASE Working(k) # {}
  <2>1. PICK r : Working(k) = {r}
    BY <1>1, <1>3
  <2> QED
    <3>1. Cardinality({r}) = 1
      BY FS_Singleton
    <3> QED
      BY <2>1, <3>1
<1> QED
  BY <1>2, <1>3

-----------------------------------------------------------------------------
\* The inductive invariant of the guard and the release paths.
THEOREM Invariance == Spec => []IInv
<1>1. IInv /\ [Next]_vars => IInv'
  BY TypeStep, LockStep, ThroughStep, SoleStep DEF IInv
<1> QED
  BY <1>1, InitIInv, PTL DEF Spec

\* Type correctness.
THEOREM TypeCorrect == Spec => []TypeOK
<1>1. IInv => TypeOK
  BY DEF IInv
<1> QED
  BY <1>1, Invariance, PTL

\* However many requests there are: no other request releases a transfer's lock
\* (RELEASE_USER_LOCK_LUA compares the token), only its TTL does.
THEOREM LockIsOwners == Spec => []LockStaysMine
<1>1. IInv => LockStaysMine
  BY DEF IInv
<1> QED
  BY <1>1, Invariance, PTL

\* `done' is only found over a COMPLETED row, whatever fails.
THEOREM DoneIsCompleted == Spec => []DoneMeansCompleted
<1>1. IInv => DoneMeansCompleted
  BY DEF IInv
<1> QED
  BY <1>1, Invariance, PTL

\* Unless a key runs out under its request, one claimed request at a time works on a key
\* that has no row yet.
THEOREM WorkersAlone == Spec => []OneWorkerPerKey
<1>1. IInv => OneWorkerPerKey
  BY SoleWorker DEF IInv
<1> QED
  BY <1>1, Invariance, PTL
=============================================================================
