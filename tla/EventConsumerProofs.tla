-------------------------- MODULE EventConsumerProofs --------------------------
(***************************************************************************)
(* Proofs about EventConsumer: type correctness with the bound on retries, *)
(* no COMPLETED row without its effect, no second effect without a fault,  *)
(* no event gone without a trace.                                          *)
(***************************************************************************)
EXTENDS EventConsumer, FiniteSetTheorems, TLAPS

\* No copy is sent with more attempts than are allowed.
Bounded ==
  /\ \A q \in Queues : ready[q][MaxRetries + 1] = 0
  /\ \A h \in Handlers : /\ pc[h] = "idle" => outcome[h] = "none"
                         /\ outcome[h] = "retry" => attempts[h] + 1 <= MaxRetries

\* The effect comes before the row that says so.
Effective == CompletedHasEffect /\ \A h \in Handlers : pc[h] = "complete" => effects[QueueOf(h)] >= 1

\* h believes to have the claim of its queue.
Claiming(h) == pc[h] \in {"dispatch", "complete", "fail"}

\* Without faults: a claim belongs to exactly one handler at work, which has its copy, and the
\* row says what has taken effect.
Calm ==
  faults = 0 =>
    /\ \A h \in Handlers : pc[h] # "idle" => mine[h]
    /\ \A q \in Queues :
         /\ ~expired[q]
         /\ row[q] = "CLAIMED" => \E h \in Handlers : QueueOf(h) = q /\ Claiming(h)
         /\ row[q] \in {"ABSENT", "FAILED"} => effects[q] = 0
         /\ row[q] = "COMPLETED" => effects[q] = 1
    /\ \A h \in Handlers : Claiming(h) =>
         /\ row[QueueOf(h)] = "CLAIMED"
         /\ effects[QueueOf(h)] = (IF pc[h] = "complete" THEN 1 ELSE 0)
         /\ \A g \in Handlers : QueueOf(g) = QueueOf(h) /\ Claiming(g) => g = h

\* Somebody has still to decide about a copy for q.
Kept(q) ==
  \/ \E n \in Attempts : ready[q][n] > 0
  \/ \E h \in Handlers : QueueOf(h) = q /\ mine[h] /\ pc[h] \notin {"idle", "ack"}

Settled(q) == effects[q] >= 1 \/ q \in dead \/ (faults > 0 /\ row[q] # "ABSENT")

Trace == type # None => \A q \in Queues : Kept(q) \/ Settled(q)

IInv == TypeOK /\ Bounded /\ Effective /\ Calm /\ Trace

-----------------------------------------------------------------------------
LEMMA HandlerParts == \A h \in Handlers : ProcessOf(h) \in Processes /\ QueueOf(h) \in Queues
  BY HandlersAssumption DEF ProcessOf, QueueOf

LEMMA InitIInv == Init => IInv
<1> SUFFICES ASSUME Init PROVE IInv
  OBVIOUS
<1>1. 0 \in Nat /\ 0 \in 0 .. MaxRetries /\ 0 \in 0 .. MaxFaults /\ MaxRetries + 1 \in Attempts
  BY ConsumerBounds DEF Attempts
<1>2. TypeOK
  BY <1>1 DEF Init, TypeOK, Phase
<1>3. Bounded /\ Effective /\ Calm /\ Trace
  BY <1>1, HandlerParts DEF Init, Bounded, Effective, CompletedHasEffect, Calm, Claiming, Trace
<1> QED
  BY <1>2, <1>3 DEF IInv

-----------------------------------------------------------------------------
(* Copies in the queues. *)

LEMMA FanoutType ==
  ASSUME TypeOK, Bounded, NEW n \in 0 .. MaxRetries, Fanout(n)
  PROVE  /\ ready' \in [Queues -> [Attempts -> Nat]]
         /\ \A q \in Queues : ready'[q][MaxRetries + 1] = 0 /\ ready'[q][n] > 0
         /\ \A q \in Queues, m \in Attempts : ready'[q][m] >= ready[q][m]
<1>1. n \in Attempts /\ MaxRetries + 1 \in Attempts /\ n # MaxRetries + 1
  BY ConsumerBounds DEF Attempts
<1>2. \A q \in Queues : ready[q] \in [Attempts -> Nat] /\ ready[q][n] + 1 \in Nat
  BY <1>1 DEF TypeOK
<1>3. ready' \in [Queues -> [Attempts -> Nat]]
  BY <1>1, <1>2 DEF Fanout
<1>4. \A q \in Queues, m \in Attempts :
        ready'[q][m] = IF m = n THEN ready[q][m] + 1 ELSE ready[q][m]
  BY <1>1, <1>2 DEF Fanout
<1>5. \A q \in Queues, m \in Attempts : ready[q][m] \in Nat
  BY <1>2
<1>6. \A q \in Queues : ready'[q][n] = ready[q][n] + 1 /\ ready'[q][MaxRetries + 1] = 0
  BY <1>1, <1>4 DEF Bounded
<1>7. \A q \in Queues : ready'[q][n] > 0
  BY <1>1, <1>5, <1>6
<1>8. \A q \in Queues, m \in Attempts : ready'[q][m] >= ready[q][m]
  BY <1>4, <1>5
<1> QED
  BY <1>3, <1>6, <1>7, <1>8

\* A handler takes one copy from its own queue.
Takes(h, n) ==
  ready[QueueOf(h)][n] > 0 /\ ready' = [ready EXCEPT ![QueueOf(h)][n] = @ - 1]

LEMMA TakeType ==
  ASSUME TypeOK, Bounded, NEW h \in Handlers, NEW n \in Attempts, Takes(h, n)
  PROVE  /\ ready' \in [Queues -> [Attempts -> Nat]]
         /\ \A q \in Queues : ready'[q][MaxRetries + 1] = 0
         /\ \A q \in Queues : q # QueueOf(h) => ready'[q] = ready[q]
         /\ n \in 0 .. MaxRetries
<1>1. QueueOf(h) \in Queues /\ MaxRetries + 1 \in Attempts
  BY HandlerParts, ConsumerBounds DEF Attempts
<1>2. ready[QueueOf(h)] \in [Attempts -> Nat] /\ ready[QueueOf(h)][n] \in Nat
  BY <1>1 DEF TypeOK
<1>3. n # MaxRetries + 1 /\ n \in 0 .. MaxRetries
  BY <1>1, <1>2, ConsumerBounds DEF Takes, Bounded, Attempts
<1>4. ready[QueueOf(h)][n] - 1 \in Nat
  BY <1>2 DEF Takes
<1>5. ready' = [ready EXCEPT ![QueueOf(h)] = [ready[QueueOf(h)] EXCEPT ![n] = ready[QueueOf(h)][n] - 1]]
  BY DEF Takes
<1>6. [ready[QueueOf(h)] EXCEPT ![n] = ready[QueueOf(h)][n] - 1] \in [Attempts -> Nat]
  BY <1>2, <1>4
<1>7. ready' \in [Queues -> [Attempts -> Nat]]
  BY <1>1, <1>5, <1>6 DEF TypeOK
<1>8. \A q \in Queues : q # QueueOf(h) => ready'[q] = ready[q]
  BY <1>1, <1>5 DEF TypeOK
<1>9. ready'[QueueOf(h)] = [ready[QueueOf(h)] EXCEPT ![n] = ready[QueueOf(h)][n] - 1]
  BY <1>1, <1>5 DEF TypeOK
<1>10. ready'[QueueOf(h)][MaxRetries + 1] = ready[QueueOf(h)][MaxRetries + 1]
  BY <1>1, <1>2, <1>3, <1>9
<1> QED
  BY <1>1, <1>3, <1>7, <1>8, <1>10 DEF Bounded

\* Only copies in the hands of handlers are put back, never one with more attempts than allowed.
LEMMA UnackedCount ==
  ASSUME TypeOK, NEW p \in Processes, NEW q \in Queues, NEW n \in Attempts
  PROVE  /\ Cardinality(Unacked(p, q, n)) \in Nat
         /\ n = MaxRetries + 1 => Cardinality(Unacked(p, q, n)) = 0
         /\ \A h \in Unacked(p, q, n) : Cardinality(Unacked(p, q, n)) > 0
<1>1. Unacked(p, q, n) \in SUBSET Handlers
  BY DEF Unacked, HandlersOf
<1>2. IsFiniteSet(Unacked(p, q, n))
  BY <1>1, HandlersAssumption, FS_Subset
<1>3. Cardinality(Unacked(p, q, n)) \in Nat
  BY <1>2, FS_CardinalityType
<1>4. ASSUME n = MaxRetries + 1 PROVE Cardinality(Unacked(p, q, n)) = 0
  <2>1. \A h \in Handlers : attempts[h] # n
    BY <1>4, ConsumerBounds DEF TypeOK
  <2>2. Unacked(p, q, n) = {}
    BY <2>1 DEF Unacked, HandlersOf
  <2> QED
    BY <2>2, FS_EmptySet
<1>5. ASSUME NEW h \in Unacked(p, q, n) PROVE Cardinality(Unacked(p, q, n)) > 0
  <2>1. Cardinality(Unacked(p, q, n)) # 0
    BY <1>2, FS_EmptySet
  <2> QED
    BY <1>3, <2>1
<1> QED
  BY <1>3, <1>4, <1>5

LEMMA RequeueType ==
  ASSUME TypeOK, Bounded, NEW p \in Processes, Requeue(p)
  PROVE  /\ ready' \in [Queues -> [Attempts -> Nat]]
         /\ \A q \in Queues : ready'[q][MaxRetries + 1] = 0
         /\ \A q \in Queues, m \in Attempts : ready'[q][m] >= ready[q][m]
         /\ \A h \in Handlers : ProcessOf(h) = p /\ mine[h] => ready'[QueueOf(h)][attempts[h]] > 0
<1> DEFINE back(q, n) == Cardinality(Unacked(p, q, n))
<1>1. MaxRetries + 1 \in Attempts
  BY ConsumerBounds DEF Attempts
<1>2. \A q \in Queues, n \in Attempts : ready[q][n] \in Nat
  BY DEF TypeOK
<1>3. \A q \in Queues, n \in Attempts :
        back(q, n) \in Nat /\ (n = MaxRetries + 1 => back(q, n) = 0)
  BY UnackedCount
<1>4. ready' = [q \in Queues |-> [n \in Attempts |-> ready[q][n] + back(q, n)]]
  BY DEF Requeue
<1>5. ASSUME NEW h \in Handlers, ProcessOf(h) = p, mine[h]
      PROVE  /\ QueueOf(h) \in Queues /\ attempts[h] \in Attempts
             /\ back(QueueOf(h), attempts[h]) > 0
  <2>1. QueueOf(h) \in Queues /\ attempts[h] \in Attempts
    BY HandlerParts, ConsumerBounds DEF TypeOK, Attempts
  <2>2. h \in Unacked(p, QueueOf(h), attempts[h])
    BY <1>5 DEF Unacked, HandlersOf
  <2> QED
    BY <2>1, <2>2, UnackedCount
<1> HIDE DEF back
<1>6. \A q \in Queues, n \in Attempts : ready'[q][n] = ready[q][n] + back(q, n)
  BY <1>4
<1>7. ready' \in [Queues -> [Attempts -> Nat]]
  BY <1>2, <1>3, <1>4
<1>8. \A q \in Queues : ready'[q][MaxRetries + 1] = 0
  BY <1>1, <1>3, <1>6 DEF Bounded
<1>9. \A q \in Queues, m \in Attempts : ready'[q][m] >= ready[q][m]
  BY <1>2, <1>3, <1>6
<1>10. ASSUME NEW h \in Handlers, ProcessOf(h) = p, mine[h]
       PROVE  ready'[QueueOf(h)][attempts[h]] > 0
  BY <1>2, <1>3, <1>5, <1>6, <1>10
<1> QED
  BY <1>7, <1>8, <1>9, <1>10

-----------------------------------------------------------------------------
(* What a handler changes. *)

\* A step of h that its process survives.
Works(h) ==
  \/ Claim(h) \/ SkipDuplicate(h) \/ ClaimError(h) \/ Dispatch(h) \/ DispatchError(h)
  \/ Complete(h) \/ CompleteError(h) \/ MarkFailed(h)
  \/ Republish(h) \/ RepublishBlocked(h) \/ Ack(h) \/ Nack(h)

LEMMA CatchType ==
  ASSUME TypeOK, NEW h \in Handlers, NEW next \in Phase, NEW n \in 0 .. MaxRetries, NEW kind,
         Catch(h, next, n, kind)
  PROVE  /\ pc' = [pc EXCEPT ![h] = next]
         /\ \E o \in {"retry", "giveUp"} :
              outcome' = [outcome EXCEPT ![h] = o] /\ (o = "retry" => n + 1 <= MaxRetries)
  BY DEF Catch, Goto

\* Where h goes, with which copy and which outcome.
LEMMA HandlerStep ==
  ASSUME TypeOK, Bounded, NEW h \in Handlers, Works(h)
  PROVE  /\ \E next \in Phase : pc' = [pc EXCEPT ![h] = next]
         /\ \E n \in 0 .. MaxRetries : attempts' = [attempts EXCEPT ![h] = n]
         /\ \E o \in {"none", "retry", "giveUp"} :
              /\ outcome' = [outcome EXCEPT ![h] = o]
              /\ o = "retry" => attempts'[h] + 1 <= MaxRetries
              /\ pc'[h] = "idle" => o = "none"
         /\ \E b \in BOOLEAN : mine' = [mine EXCEPT ![h] = b]
<1>1. /\ pc = [pc EXCEPT ![h] = pc[h]] /\ attempts = [attempts EXCEPT ![h] = attempts[h]]
      /\ outcome = [outcome EXCEPT ![h] = outcome[h]] /\ mine = [mine EXCEPT ![h] = mine[h]]
      /\ pc[h] \in Phase /\ attempts[h] \in 0 .. MaxRetries
      /\ outcome[h] \in {"none", "retry", "giveUp"} /\ mine[h] \in BOOLEAN
      /\ outcome[h] = "retry" => attempts[h] + 1 <= MaxRetries
      /\ pc[h] = "idle" => outcome[h] = "none"
  BY DEF TypeOK, Bounded
<1>2. CASE Claim(h)
  <2>1. PICK n \in Attempts : Takes(h, n) /\ attempts' = [attempts EXCEPT ![h] = n]
    BY <1>2 DEF Claim, Deliver, Ready, Takes
  <2>2. n \in 0 .. MaxRetries
    BY <2>1, TakeType
  <2>3. pc[h] = "idle" /\ pc' = [pc EXCEPT ![h] = "dispatch"] /\ mine' = [mine EXCEPT ![h] = TRUE]
          /\ outcome' = outcome
    BY <1>2 DEF Claim, Deliver, Ready, Goto
  <2> QED
    BY <1>1, <2>1, <2>2, <2>3 DEF Phase
<1>3. CASE ClaimError(h)
  <2>1. PICK n \in Attempts : Takes(h, n) /\ attempts' = [attempts EXCEPT ![h] = n]
    BY <1>3 DEF ClaimError, Deliver, Ready, Takes
  <2>2. n \in 0 .. MaxRetries /\ attempts'[h] = n
    BY <2>1, TakeType DEF TypeOK
  <2>3. mine' = [mine EXCEPT ![h] = TRUE] /\ \E e : Catch(h, "settle", n, e)
    BY <1>3, <2>2 DEF ClaimError, Deliver, Ready
  <2>4. "settle" \in Phase
    BY DEF Phase
  <2>5. /\ pc' = [pc EXCEPT ![h] = "settle"]
        /\ \E o \in {"retry", "giveUp"} :
             outcome' = [outcome EXCEPT ![h] = o] /\ (o = "retry" => n + 1 <= MaxRetries)
    BY <2>2, <2>3, <2>4, CatchType
  <2> QED
    BY <1>1, <2>1, <2>2, <2>3, <2>4, <2>5 DEF TypeOK
<1>4. CASE DispatchError(h) \/ CompleteError(h) \/ (Complete(h) /\ row[QueueOf(h)] # "CLAIMED")
  <2>1. attempts' = attempts /\ mine' = mine /\ \E e : Catch(h, "fail", attempts[h], e)
    BY <1>4 DEF DispatchError, CompleteError, Complete
  <2>2. "fail" \in Phase
    BY DEF Phase
  <2>3. /\ pc' = [pc EXCEPT ![h] = "fail"]
        /\ \E o \in {"retry", "giveUp"} :
             outcome' = [outcome EXCEPT ![h] = o] /\ (o = "retry" => attempts[h] + 1 <= MaxRetries)
    BY <1>1, <2>1, <2>2, CatchType
  <2> QED
    BY <1>1, <2>1, <2>2, <2>3 DEF TypeOK
<1>5. CASE RepublishBlocked(h) \/ Ack(h) \/ Nack(h)
  <2>1. /\ pc' = [pc EXCEPT ![h] = "idle"] /\ attempts' = [attempts EXCEPT ![h] = 0]
        /\ outcome' = [outcome EXCEPT ![h] = "none"] /\ mine' = [mine EXCEPT ![h] = FALSE]
    BY <1>5 DEF RepublishBlocked, Ack, Nack, Finish, Goto
  <2>2. 0 \in 0 .. MaxRetries /\ "idle" \in Phase
    BY ConsumerBounds DEF Phase
  <2> QED
    BY <2>1, <2>2
<1>6. CASE SkipDuplicate(h)
  <2>1. UNCHANGED <<pc, attempts, outcome, mine>>
    BY <1>6 DEF SkipDuplicate, handlerVars
  <2> QED
    BY <1>1, <2>1
<1>7. CASE Dispatch(h) \/ MarkFailed(h) \/ Republish(h) \/ (Complete(h) /\ row[QueueOf(h)] = "CLAIMED")
  <2>1. UNCHANGED <<attempts, outcome, mine>>
    BY <1>7 DEF Dispatch, MarkFailed, Republish, Complete
  <2>2. \E next \in {"complete", "settle", "ack"} : pc' = [pc EXCEPT ![h] = next]
    BY <1>7 DEF Dispatch, MarkFailed, Republish, Complete, Goto
  <2> QED
    BY <1>1, <2>1, <2>2 DEF Phase, TypeOK
<1> QED
  BY <1>2, <1>3, <1>4, <1>5, <1>6, <1>7 DEF Works

LEMMA OtherHandlers ==
  ASSUME TypeOK, Bounded, NEW h \in Handlers, Works(h)
  PROVE  \A g \in Handlers \ {h} : /\ pc'[g] = pc[g] /\ attempts'[g] = attempts[g]
                                   /\ outcome'[g] = outcome[g] /\ mine'[g] = mine[g]
  BY HandlerStep DEF TypeOK

\* What h does to its row, and to what has taken effect or died.
LEMMA RowStep ==
  ASSUME TypeOK, NEW h \in Handlers, Works(h)
  PROVE  /\ \E s \in {"ABSENT", "CLAIMED", "COMPLETED", "FAILED"}, b \in BOOLEAN :
              /\ row' = [row EXCEPT ![QueueOf(h)] = s] /\ expired' = [expired EXCEPT ![QueueOf(h)] = b]
              /\ s = "ABSENT" => row[QueueOf(h)] = "ABSENT"
         /\ \E e \in 0 .. 2 :
              effects' = [effects EXCEPT ![QueueOf(h)] = e] /\ e >= effects[QueueOf(h)]
         /\ dead \subseteq dead' /\ dead' \subseteq dead \cup {QueueOf(h)}
         /\ type' = type /\ up' = up
         /\ Fault \/ faults' = faults
<1> DEFINE q == QueueOf(h)
<1>1. /\ q \in Queues /\ row = [row EXCEPT ![q] = row[q]] /\ expired = [expired EXCEPT ![q] = expired[q]]
      /\ effects = [effects EXCEPT ![q] = effects[q]]
      /\ row[q] \in {"ABSENT", "CLAIMED", "COMPLETED", "FAILED"} /\ expired[q] \in BOOLEAN
      /\ effects[q] \in 0 .. 2
  BY HandlerParts DEF TypeOK
<1> HIDE DEF q
<1>2. \/ UNCHANGED rowVars
      \/ \E s \in {"CLAIMED", "COMPLETED", "FAILED"} :
           row' = [row EXCEPT ![q] = s] /\ expired' = [expired EXCEPT ![q] = FALSE]
  BY DEF q, Works, Claim, SkipDuplicate, ClaimError, Dispatch, DispatchError, Complete, CompleteError,
     MarkFailed, Republish, RepublishBlocked, Ack, Nack, TakeClaim, CloseClaim
<1>3. UNCHANGED effects \/ effects' = [effects EXCEPT ![q] = IF @ = 0 THEN 1 ELSE 2]
  BY DEF q, Works, Claim, SkipDuplicate, ClaimError, Dispatch, DispatchError, Complete, CompleteError,
     MarkFailed, Republish, RepublishBlocked, Ack, Nack, AddEffect
<1>4. /\ dead \subseteq dead' /\ dead' \subseteq dead \cup {q} /\ type' = type /\ up' = up
      /\ Fault \/ faults' = faults
  BY DEF q, Works, Claim, SkipDuplicate, ClaimError, Dispatch, DispatchError, Complete, CompleteError,
     MarkFailed, Republish, RepublishBlocked, Ack, Nack
<1>5. \E s \in {"ABSENT", "CLAIMED", "COMPLETED", "FAILED"}, b \in BOOLEAN :
        /\ row' = [row EXCEPT ![q] = s] /\ expired' = [expired EXCEPT ![q] = b]
        /\ s = "ABSENT" => row[q] = "ABSENT"
  BY <1>1, <1>2 DEF rowVars
<1>6. \E e \in 0 .. 2 : effects' = [effects EXCEPT ![q] = e] /\ e >= effects[q]
  BY <1>1, <1>3
<1> QED
  BY <1>4, <1>5, <1>6 DEF q

\* What happens to the queues of copies: other queues never lose one.
LEMMA ReadyStep ==
  ASSUME TypeOK, Bounded, NEW h \in Handlers, Works(h)
  PROVE  /\ ready' \in [Queues -> [Attempts -> Nat]]
         /\ \A q \in Queues : ready'[q][MaxRetries + 1] = 0
         /\ \A q \in Queues : q # QueueOf(h) => \A n \in Attempts : ready'[q][n] >= ready[q][n]
<1>1. \A q \in Queues, n \in Attempts : ready[q][n] \in Nat
  BY DEF TypeOK
<1>2. CASE Claim(h) \/ SkipDuplicate(h) \/ ClaimError(h)
  <2>1. PICK n \in Attempts : Takes(h, n)
    BY <1>2 DEF Claim, SkipDuplicate, ClaimError, Deliver, Ready, Takes
  <2> QED
    BY <1>1, <2>1, TakeType
<1>3. CASE Republish(h) \/ RepublishBlocked(h)
  <2>1. attempts[h] + 1 \in 0 .. MaxRetries /\ Fanout(attempts[h] + 1)
    BY <1>3, ConsumerBounds DEF TypeOK, Bounded, Republish, RepublishBlocked
  <2> QED
    BY <2>1, FanoutType
<1>4. CASE ~(Claim(h) \/ SkipDuplicate(h) \/ ClaimError(h) \/ Republish(h) \/ RepublishBlocked(h))
  <2>1. ready' = ready
    BY <1>4 DEF Works, Dispatch, DispatchError, Complete, CompleteError, MarkFailed, Ack, Nack
  <2> QED
    BY <1>1, <2>1 DEF TypeOK, Bounded
<1> QED
  BY <1>2, <1>3, <1>4

\* The end of a process.
LEMMA RestartStep ==
  ASSUME TypeOK, Bounded, NEW p \in Processes, Restart(p)
  PROVE  /\ pc' \in [Handlers -> Phase] /\ attempts' \in [Handlers -> 0 .. MaxRetries]
         /\ outcome' \in [Handlers -> {"none", "retry", "giveUp"}] /\ mine' \in [Handlers -> BOOLEAN]
         /\ \A h \in Handlers :
              IF ProcessOf(h) = p
              THEN pc'[h] = "idle" /\ outcome'[h] = "none"
              ELSE pc'[h] = pc[h] /\ attempts'[h] = attempts[h] /\ outcome'[h] = outcome[h] /\ mine'[h] = mine[h]
         /\ up' \subseteq Processes
         /\ Requeue(p) /\ UNCHANGED <<type, rowVars, effects, dead>>
<1>1. 0 \in 0 .. MaxRetries /\ "idle" \in Phase
  BY ConsumerBounds DEF Phase
<1>2. /\ pc' = [h \in Handlers |-> IF ProcessOf(h) = p THEN "idle" ELSE pc[h]]
      /\ attempts' = [h \in Handlers |-> IF ProcessOf(h) = p THEN 0 ELSE attempts[h]]
      /\ outcome' = [h \in Handlers |-> IF ProcessOf(h) = p THEN "none" ELSE outcome[h]]
      /\ mine' = [h \in Handlers |-> IF ProcessOf(h) = p THEN FALSE ELSE mine[h]]
  BY DEF Restart
<1>3. up' \subseteq Processes /\ Requeue(p) /\ UNCHANGED <<type, rowVars, effects, dead>>
  BY DEF Restart, TypeOK
<1> QED
  BY <1>1, <1>2, <1>3 DEF TypeOK

\* The steps of Next, with the two ways a process ends together.
Ends(p) ==
  /\ Restart(p)
  /\ \/ Fault
     \/ faults' = faults /\ \E h \in Handlers : ProcessOf(h) = p /\ pc[h] = "settle" /\ ~mine[h]

LEMMA NextSplit ==
  [Next]_vars =>
    \/ PublishEvent
    \/ \E h \in Handlers : Works(h)
    \/ \E p \in Processes : ConnectionCloses(p) \/ Ends(p)
    \/ \E q \in Queues : ClaimExpires(q)
    \/ UNCHANGED vars
<1>1. ASSUME NEW h \in Handlers, RepublishThrows(h) PROVE ProcessOf(h) \in Processes /\ Ends(ProcessOf(h))
  BY <1>1, HandlerParts DEF RepublishThrows, Ends
<1>2. ASSUME NEW p \in Processes, Crash(p) PROVE Ends(p)
  BY <1>2 DEF Crash, Ends
<1> QED
  BY <1>1, <1>2 DEF Next, Advance, Works

LEMMA FaultType == TypeOK /\ (Fault \/ faults' = faults) => faults' \in 0 .. MaxFaults
  BY ConsumerBounds DEF TypeOK, Fault

LEMMA TypeStep == TypeOK /\ Bounded /\ [Next]_vars => TypeOK' /\ Bounded'
<1> SUFFICES ASSUME TypeOK, Bounded, [Next]_vars PROVE TypeOK' /\ Bounded'
  OBVIOUS
<1>1. CASE PublishEvent
  <2>1. 0 \in 0 .. MaxRetries /\ Fanout(0)
    BY <1>1, ConsumerBounds DEF PublishEvent
  <2>2. ready' \in [Queues -> [Attempts -> Nat]] /\ \A q \in Queues : ready'[q][MaxRetries + 1] = 0
    BY <2>1, FanoutType
  <2> QED
    BY <1>1, <2>2 DEF PublishEvent, TypeOK, Bounded, rowVars, handlerVars
<1>2. ASSUME NEW h \in Handlers, Works(h) PROVE TypeOK' /\ Bounded'
  <2>1. /\ pc' \in [Handlers -> Phase] /\ attempts' \in [Handlers -> 0 .. MaxRetries]
        /\ outcome' \in [Handlers -> {"none", "retry", "giveUp"}] /\ mine' \in [Handlers -> BOOLEAN]
    BY <1>2, HandlerStep DEF TypeOK
  <2>2. \A g \in Handlers : /\ pc'[g] = "idle" => outcome'[g] = "none"
                            /\ outcome'[g] = "retry" => attempts'[g] + 1 <= MaxRetries
    <3>1. /\ pc'[h] = "idle" => outcome'[h] = "none"
          /\ outcome'[h] = "retry" => attempts'[h] + 1 <= MaxRetries
      BY <1>2, HandlerStep DEF TypeOK
    <3> QED
      BY <1>2, <3>1, OtherHandlers DEF Bounded
  <2>3. ready' \in [Queues -> [Attempts -> Nat]] /\ \A q \in Queues : ready'[q][MaxRetries + 1] = 0
    BY <1>2, ReadyStep
  <2>4. /\ row' \in [Queues -> {"ABSENT", "CLAIMED", "COMPLETED", "FAILED"}]
        /\ expired' \in [Queues -> BOOLEAN] /\ effects' \in [Queues -> 0 .. 2]
        /\ dead' \subseteq Queues
    <3>1. PICK s \in {"ABSENT", "CLAIMED", "COMPLETED", "FAILED"}, b \in BOOLEAN :
            row' = [row EXCEPT ![QueueOf(h)] = s] /\ expired' = [expired EXCEPT ![QueueOf(h)] = b]
      BY <1>2, RowStep
    <3>2. PICK e \in 0 .. 2 : effects' = [effects EXCEPT ![QueueOf(h)] = e]
      BY <1>2, RowStep
    <3>3. dead' \subseteq dead \cup {QueueOf(h)} /\ QueueOf(h) \in Queues
      BY <1>2, RowStep, HandlerParts
    <3> QED
      BY <3>1, <3>2, <3>3 DEF TypeOK
  <2>5. type' = type /\ up' = up /\ faults' \in 0 .. MaxFaults
    BY <1>2, RowStep, FaultType
  <2>6. Bounded'
    BY <2>2, <2>3 DEF Bounded
  <2> QED
    BY <2>1, <2>3, <2>4, <2>5, <2>6 DEF TypeOK
<1>3. ASSUME NEW p \in Processes, ConnectionCloses(p) PROVE TypeOK' /\ Bounded'
  <2>1. Requeue(p) /\ UNCHANGED <<type, rowVars, pc, attempts, outcome, effects, dead>> /\ up' \subseteq Processes
    BY <1>3 DEF ConnectionCloses, TypeOK
  <2>2. ready' \in [Queues -> [Attempts -> Nat]] /\ \A q \in Queues : ready'[q][MaxRetries + 1] = 0
    BY <2>1, RequeueType
  <2>3. mine' \in [Handlers -> BOOLEAN]
    BY <1>3 DEF ConnectionCloses, TypeOK
  <2>4. Fault
    BY <1>3 DEF ConnectionCloses
  <2> QED
    BY <2>1, <2>2, <2>3, <2>4, FaultType DEF TypeOK, Bounded, rowVars
<1>4. ASSUME NEW p \in Processes, Ends(p) PROVE TypeOK' /\ Bounded'
  <2>1. Restart(p) /\ (Fault \/ faults' = faults)
    BY <1>4 DEF Ends
  <2>2. Requeue(p) /\ UNCHANGED <<type, rowVars, effects, dead>> /\ up' \subseteq Processes
    BY <2>1, RestartStep
  <2>3. ready' \in [Queues -> [Attempts -> Nat]] /\ \A q \in Queues : ready'[q][MaxRetries + 1] = 0
    BY <2>2, RequeueType
  <2>4. /\ pc' \in [Handlers -> Phase] /\ attempts' \in [Handlers -> 0 .. MaxRetries]
        /\ outcome' \in [Handlers -> {"none", "retry", "giveUp"}] /\ mine' \in [Handlers -> BOOLEAN]
    BY <2>1, RestartStep
  <2>5. \A h \in Handlers : /\ pc'[h] = "idle" => outcome'[h] = "none"
                            /\ outcome'[h] = "retry" => attempts'[h] + 1 <= MaxRetries
    BY <2>1, RestartStep DEF Bounded
  <2>6. Bounded'
    BY <2>3, <2>5 DEF Bounded
  <2>7. faults' \in 0 .. MaxFaults
    BY <2>1, FaultType
  <2> QED
    BY <2>2, <2>3, <2>4, <2>6, <2>7 DEF TypeOK, rowVars
<1>5. ASSUME NEW q \in Queues, ClaimExpires(q) PROVE TypeOK' /\ Bounded'
  <2>1. Fault \/ faults' = faults
    BY <1>5 DEF ClaimExpires
  <2> QED
    BY <1>5, <2>1, FaultType DEF ClaimExpires, TypeOK, Bounded, handlerVars
<1>6. CASE UNCHANGED vars
  BY <1>6 DEF vars, rowVars, handlerVars, TypeOK, Bounded
<1> QED
  BY <1>1, <1>2, <1>3, <1>4, <1>5, <1>6, NextSplit

-----------------------------------------------------------------------------
(* COMPLETED says that the event took effect. *)

LEMMA EffectsGrow ==
  ASSUME TypeOK, NEW h \in Handlers, Works(h)
  PROVE  /\ \A q \in Queues : effects'[q] >= effects[q] /\ effects[q] \in Nat /\ effects'[q] \in Nat
         /\ \A q \in Queues : q # QueueOf(h) => effects'[q] = effects[q] /\ row'[q] = row[q]
                                             /\ expired'[q] = expired[q]
         /\ \A q \in Queues : row'[q] = "ABSENT" => row[q] = "ABSENT"
<1>1. PICK e \in 0 .. 2 : effects' = [effects EXCEPT ![QueueOf(h)] = e] /\ e >= effects[QueueOf(h)]
  BY RowStep
<1>2. PICK s \in {"ABSENT", "CLAIMED", "COMPLETED", "FAILED"}, b \in BOOLEAN :
        /\ row' = [row EXCEPT ![QueueOf(h)] = s] /\ expired' = [expired EXCEPT ![QueueOf(h)] = b]
        /\ s = "ABSENT" => row[QueueOf(h)] = "ABSENT"
  BY RowStep
<1>3. QueueOf(h) \in Queues
  BY HandlerParts
<1> QED
  BY <1>1, <1>2, <1>3 DEF TypeOK

LEMMA EffectiveStep == TypeOK /\ Bounded /\ Effective /\ [Next]_vars => Effective'
<1> SUFFICES ASSUME TypeOK, Bounded, Effective, [Next]_vars PROVE Effective'
  OBVIOUS
<1>1. ASSUME NEW h \in Handlers, Works(h) PROVE Effective'
  <2>1. QueueOf(h) \in Queues
    BY HandlerParts
  <2>2. row'[QueueOf(h)] = "COMPLETED" => row[QueueOf(h)] = "COMPLETED" \/ pc[h] = "complete"
    BY <1>1, <2>1 DEF TypeOK, Works, Claim, SkipDuplicate, ClaimError, Dispatch, DispatchError,
       Complete, CompleteError, MarkFailed, Republish, RepublishBlocked, Ack, Nack, TakeClaim,
       CloseClaim, rowVars
  <2>3. ASSUME pc'[h] = "complete" PROVE effects'[QueueOf(h)] >= 1
    <3>1. CASE Dispatch(h)
      BY <2>1, <3>1 DEF TypeOK, Dispatch, AddEffect
    <3>2. CASE ~Dispatch(h)
      <4>1. pc[h] = "complete"
        BY <1>1, <2>3, <3>2 DEF TypeOK, Works, Claim, SkipDuplicate, ClaimError, DispatchError,
           Complete, CompleteError, MarkFailed, Republish, RepublishBlocked, Ack, Nack, Catch, Goto,
           Finish, handlerVars
      <4> QED
        BY <1>1, <2>1, <4>1, EffectsGrow DEF Effective
    <3> QED
      BY <3>1, <3>2
  <2>4. \A g \in Handlers : pc'[g] = "complete" => effects'[QueueOf(g)] >= 1
    BY <1>1, <2>3, OtherHandlers, EffectsGrow, HandlerParts DEF Effective
  <2>5. \A q \in Queues : row'[q] = "COMPLETED" => effects'[q] >= 1
    BY <1>1, <2>1, <2>2, EffectsGrow DEF Effective, CompletedHasEffect
  <2> QED
    BY <2>4, <2>5 DEF Effective, CompletedHasEffect
<1>2. ASSUME NEW p \in Processes, Ends(p) PROVE Effective'
  <2>1. UNCHANGED <<row, effects>> /\ \A h \in Handlers : pc'[h] = "complete" => pc[h] = "complete"
    BY <1>2, RestartStep DEF Ends, rowVars
  <2> QED
    BY <2>1 DEF Effective, CompletedHasEffect
<1>3. ASSUME NEW p \in Processes, ConnectionCloses(p) PROVE Effective'
  BY <1>3 DEF ConnectionCloses, Effective, CompletedHasEffect, rowVars
<1>4. ASSUME NEW q \in Queues, ClaimExpires(q) PROVE Effective'
  BY <1>4 DEF ClaimExpires, Effective, CompletedHasEffect, handlerVars
<1>5. CASE PublishEvent \/ UNCHANGED vars
  BY <1>5 DEF PublishEvent, vars, rowVars, handlerVars, Effective, CompletedHasEffect
<1> QED
  BY <1>1, <1>2, <1>3, <1>4, <1>5, NextSplit

-----------------------------------------------------------------------------
(* Without faults nothing takes effect twice. *)

LEMMA CalmNow == ASSUME TypeOK, faults' = 0, Fault \/ faults' = faults PROVE faults = 0 /\ ~Fault
  BY DEF TypeOK, Fault

\* Calm, queue by queue and handler by handler.
HasCopy(h) == pc[h] # "idle" => mine[h]
CalmAt(q) ==
  /\ ~expired[q]
  /\ row[q] = "CLAIMED" => \E g \in Handlers : QueueOf(g) = q /\ Claiming(g)
  /\ row[q] \in {"ABSENT", "FAILED"} => effects[q] = 0
  /\ row[q] = "COMPLETED" => effects[q] = 1
  /\ \A g \in Handlers : QueueOf(g) = q /\ Claiming(g) =>
       row[q] = "CLAIMED" /\ effects[q] = (IF pc[g] = "complete" THEN 1 ELSE 0)
  /\ \A f, g \in Handlers :
       QueueOf(f) = q /\ Claiming(f) /\ QueueOf(g) = q /\ Claiming(g) => f = g

LEMMA CalmParts ==
  faults = 0 => (Calm <=> (\A h \in Handlers : HasCopy(h)) /\ (\A q \in Queues : CalmAt(q)))
<1> SUFFICES ASSUME faults = 0
             PROVE  Calm <=> (\A h \in Handlers : HasCopy(h)) /\ (\A q \in Queues : CalmAt(q))
  OBVIOUS
<1>1. ASSUME Calm, NEW q \in Queues PROVE CalmAt(q)
  <2>1. \A g \in Handlers : QueueOf(g) = q /\ Claiming(g) =>
          row[q] = "CLAIMED" /\ effects[q] = (IF pc[g] = "complete" THEN 1 ELSE 0)
    BY <1>1 DEF Calm
  <2>2. \A f, g \in Handlers : QueueOf(f) = q /\ Claiming(f) /\ QueueOf(g) = q /\ Claiming(g) => f = g
    BY <1>1 DEF Calm
  <2> QED
    BY <1>1, <2>1, <2>2 DEF Calm, CalmAt
<1>2. ASSUME \A h \in Handlers : HasCopy(h), \A q \in Queues : CalmAt(q) PROVE Calm
  <2>1. \A h \in Handlers : CalmAt(QueueOf(h))
    BY <1>2, HandlerParts
  <2> QED
    BY <1>2, <2>1 DEF Calm, CalmAt, HasCopy
<1>3. Calm => \A h \in Handlers : HasCopy(h)
  BY DEF Calm, HasCopy
<1> QED
  BY <1>1, <1>2, <1>3

LEMMA CalmStep == TypeOK /\ Bounded /\ Calm /\ [Next]_vars => Calm'
<1> SUFFICES ASSUME TypeOK, Bounded, Calm, [Next]_vars, faults' = 0 PROVE Calm'
  BY DEF Calm
<1>1. ASSUME NEW h \in Handlers, Works(h) PROVE Calm'
  <2> DEFINE q == QueueOf(h)
  <2>1. faults = 0 /\ ~Fault
    BY <1>1, RowStep, CalmNow
  <2>2. q \in Queues /\ CalmAt(q) /\ HasCopy(h)
    BY <2>1, CalmParts, HandlerParts
  <2>3. CalmAt(q)' /\ HasCopy(h)'
    <3> HIDE DEF q
    <3> USE <1>1, <2>1, <2>2, OtherHandlers
    <3>1. CASE Claim(h)
      <4>1. row[q] \in {"ABSENT", "FAILED"} /\ pc[h] = "idle"
        BY <3>1 DEF Claim, Deliver, Ready, Claimable, CalmAt, HasCopy, q
      <4>2. row'[q] = "CLAIMED" /\ ~expired'[q] /\ effects'[q] = 0 /\ pc'[h] = "dispatch" /\ mine'[h]
        BY <3>1, <4>1 DEF TypeOK, Claim, Deliver, Ready, TakeClaim, Goto, CalmAt, HasCopy, q
      <4>3. \A g \in Handlers \ {h} : QueueOf(g) = q => ~Claiming(g)'
        BY <4>1 DEF CalmAt, HasCopy, Claiming
      <4> QED
        BY <4>2, <4>3 DEF CalmAt, HasCopy, Claiming, q
    <3>2. CASE SkipDuplicate(h)
      BY <3>2 DEF SkipDuplicate, rowVars, handlerVars, CalmAt, HasCopy, Claiming
    <3>3. CASE Dispatch(h)
      <4>1. pc[h] = "dispatch" /\ mine[h] /\ row[q] = "CLAIMED" /\ effects[q] = 0
        BY <3>3 DEF Dispatch, CalmAt, HasCopy, Claiming, q
      <4>2. row'[q] = "CLAIMED" /\ ~expired'[q] /\ effects'[q] = 1 /\ pc'[h] = "complete" /\ mine'[h]
        BY <3>3, <4>1 DEF TypeOK, Dispatch, AddEffect, Goto, CalmAt, HasCopy, rowVars, q
      <4>3. \A g \in Handlers \ {h} : QueueOf(g) = q => ~Claiming(g)'
        BY <4>1 DEF CalmAt, HasCopy, Claiming, q
      <4> QED
        BY <4>2, <4>3 DEF CalmAt, HasCopy, Claiming, q
    <3>4. CASE DispatchError(h)
      <4>1. pc[h] = "dispatch" /\ mine[h] /\ row[q] = "CLAIMED" /\ effects[q] = 0
        BY <3>4 DEF DispatchError, CalmAt, HasCopy, Claiming, q
      <4>2. row'[q] = "CLAIMED" /\ ~expired'[q] /\ effects'[q] = 0 /\ pc'[h] = "fail" /\ mine'[h]
        BY <3>4, <4>1 DEF TypeOK, DispatchError, Catch, Goto, CalmAt, HasCopy, rowVars, q
      <4>3. \A g \in Handlers \ {h} : QueueOf(g) = q => ~Claiming(g)'
        BY <4>1 DEF CalmAt, HasCopy, Claiming, q
      <4> QED
        BY <4>2, <4>3 DEF CalmAt, HasCopy, Claiming, q
    <3>5. CASE Complete(h)
      <4>1. pc[h] = "complete" /\ mine[h] /\ row[q] = "CLAIMED" /\ effects[q] = 1
        BY <3>5 DEF Complete, CalmAt, HasCopy, Claiming, q
      <4>2. row'[q] = "COMPLETED" /\ ~expired'[q] /\ effects'[q] = 1 /\ pc'[h] = "ack" /\ mine'[h]
        BY <3>5, <4>1 DEF TypeOK, Complete, CloseClaim, Goto, CalmAt, HasCopy, q
      <4>3. \A g \in Handlers \ {h} : QueueOf(g) = q => ~Claiming(g)'
        BY <4>1 DEF CalmAt, HasCopy, Claiming, q
      <4>4. \A g \in Handlers : QueueOf(g) = q => ~Claiming(g)'
        BY <4>2, <4>3 DEF Claiming
      <4> QED
        BY <4>2, <4>4 DEF CalmAt, HasCopy
    <3>6. CASE MarkFailed(h)
      <4>1. pc[h] = "fail" /\ mine[h] /\ row[q] = "CLAIMED" /\ effects[q] = 0
        BY <3>6 DEF MarkFailed, CalmAt, HasCopy, Claiming, q
      <4>2. row'[q] = "FAILED" /\ ~expired'[q] /\ effects'[q] = 0 /\ pc'[h] = "settle" /\ mine'[h]
        BY <3>6, <4>1 DEF TypeOK, MarkFailed, CloseClaim, Goto, CalmAt, HasCopy, q
      <4>3. \A g \in Handlers \ {h} : QueueOf(g) = q => ~Claiming(g)'
        BY <4>1 DEF CalmAt, HasCopy, Claiming, q
      <4>4. \A g \in Handlers : QueueOf(g) = q => ~Claiming(g)'
        BY <4>2, <4>3 DEF Claiming
      <4> QED
        BY <4>2, <4>4 DEF CalmAt, HasCopy
    <3>7. CASE Republish(h) \/ Ack(h) \/ Nack(h)
      <4>1. ~Claiming(h) /\ UNCHANGED <<rowVars, effects>>
        BY <3>7 DEF Republish, Ack, Nack, Claiming
      <4>2. ~Claiming(h)' /\ (pc'[h] # "idle" => mine'[h])
        BY <3>7 DEF TypeOK, Republish, Ack, Nack, Goto, Finish, Claiming
      <4> QED
        BY <4>1, <4>2 DEF CalmAt, HasCopy, Claiming, rowVars
    <3> QED
      BY <3>1, <3>2, <3>3, <3>4, <3>5, <3>6, <3>7 DEF Works, ClaimError, CompleteError, RepublishBlocked
  <2>4. \A o \in Queues \ {q} : row'[o] = row[o] /\ effects'[o] = effects[o] /\ expired'[o] = expired[o]
    BY <1>1, EffectsGrow
  <2>5. \A g \in Handlers \ {h} : pc'[g] = pc[g] /\ mine'[g] = mine[g]
    BY <1>1, OtherHandlers
  <2>6. ASSUME NEW o \in Queues, o # q PROVE CalmAt(o)'
    <3>1. CalmAt(o)
      BY <2>1, <2>6, CalmParts
    <3>2. \A f \in Handlers : QueueOf(f) = o => (Claiming(f)' <=> Claiming(f)) /\ pc'[f] = pc[f]
      BY <2>5, <2>6 DEF Claiming
    <3>3. row'[o] = row[o] /\ effects'[o] = effects[o] /\ expired'[o] = expired[o]
      BY <2>4, <2>6
    <3> QED
      BY <3>1, <3>2, <3>3 DEF CalmAt
  <2>7. \A g \in Handlers : HasCopy(g)'
    BY <2>1, <2>3, <2>5, CalmParts DEF HasCopy
  <2>8. \A o \in Queues : CalmAt(o)'
    BY <2>3, <2>6
  <2>9. \A g \in Handlers : CalmAt(QueueOf(g))'
    BY <2>8, HandlerParts
  <2> QED
    BY <2>7, <2>8, <2>9 DEF Calm, CalmAt, HasCopy
<1>2. ASSUME NEW p \in Processes, Ends(p) PROVE Calm'
  BY <1>2, CalmNow DEF Ends, Calm
<1>3. ASSUME NEW p \in Processes, ConnectionCloses(p) PROVE Calm'
  BY <1>3, CalmNow DEF ConnectionCloses
<1>4. ASSUME NEW q \in Queues, ClaimExpires(q) PROVE Calm'
  <2>1. Claimants(q) = {} /\ row[q] = "CLAIMED" /\ faults = 0
    BY <1>4, CalmNow DEF ClaimExpires
  <2> QED
    BY <2>1 DEF Calm, Claimants, Claiming
<1>5. CASE PublishEvent \/ UNCHANGED vars
  BY <1>5 DEF PublishEvent, vars, rowVars, handlerVars, Calm, Claiming
<1> QED
  BY <1>1, <1>2, <1>3, <1>4, <1>5, NextSplit

-----------------------------------------------------------------------------
(* No copy is dropped without a trace. *)

\* What h does with the copies for its own queue.
LEMMA OwnCopies ==
  ASSUME TypeOK, Bounded, Effective, Calm, NEW h \in Handlers, Works(h),
         Kept(QueueOf(h)), ~Settled(QueueOf(h))
  PROVE  Kept(QueueOf(h))' \/ Settled(QueueOf(h))'
<1> DEFINE q == QueueOf(h)
<1>1. q \in Queues
  BY HandlerParts
<1>2. effects[q] = 0 /\ q \notin dead /\ (faults = 0 \/ row[q] = "ABSENT")
  BY <1>1 DEF Settled, TypeOK
<1> HIDE DEF q
\* A handler that has its copy and goes on keeps it.
<1>3. ASSUME mine'[h], pc'[h] \notin {"idle", "ack"} PROVE Kept(q)'
  BY <1>3 DEF Kept, q
<1>4. ASSUME ready' = ready, pc'[h] \notin {"idle", "ack"}, mine'[h] = mine[h] PROVE Kept(q)'
  BY <1>4, OtherHandlers DEF Kept, q
<1>5. CASE Claim(h)
  <2>1. mine'[h] /\ pc'[h] = "dispatch"
    BY <1>5 DEF TypeOK, Claim, Deliver, Ready, Goto
  <2> QED
    BY <1>3, <2>1 DEF q
<1>6. CASE SkipDuplicate(h)
  <2>1. row[q] # "ABSENT" /\ ~Claimable(q)
    BY <1>6 DEF SkipDuplicate, Claimable, q
  <2>2. faults = 0 /\ row[q] # "COMPLETED"
    BY <1>1, <1>2, <2>1 DEF Effective, CompletedHasEffect
  <2>3. row[q] = "CLAIMED"
    BY <1>1, <2>1, <2>2 DEF TypeOK, Claimable
  <2>4. PICK g \in Handlers : QueueOf(g) = q /\ Claiming(g) /\ mine[g]
    BY <1>1, <2>2, <2>3 DEF Calm, Claiming
  <2>5. pc'[g] = pc[g] /\ mine'[g] = mine[g]
    BY <1>6 DEF SkipDuplicate, handlerVars
  <2> QED
    BY <2>4, <2>5 DEF Kept, Claiming, q
<1>7. CASE ClaimError(h)
  <2>1. mine'[h] /\ pc'[h] = "settle"
    BY <1>7 DEF TypeOK, ClaimError, Deliver, Ready, Catch, Goto
  <2> QED
    BY <1>3, <2>1 DEF q
<1>8. CASE Dispatch(h)
  <2>1. effects'[q] >= 1
    BY <1>1, <1>8 DEF TypeOK, Dispatch, AddEffect, q
  <2> QED
    BY <2>1 DEF Settled, q
<1>9. CASE DispatchError(h) \/ CompleteError(h) \/ MarkFailed(h)
  <2>1. ready' = ready /\ mine' = mine /\ pc'[h] \in {"fail", "settle"}
    BY <1>9 DEF TypeOK, DispatchError, CompleteError, MarkFailed, Catch, Goto
  <2> QED
    BY <1>4, <2>1 DEF q
<1>10. CASE Complete(h)
  <2>1. FALSE
    BY <1>1, <1>2, <1>10 DEF TypeOK, Effective, Complete, q
  <2> QED
    BY <2>1
<1>11. CASE Republish(h) \/ RepublishBlocked(h)
  <2>1. attempts[h] + 1 \in 0 .. MaxRetries /\ Fanout(attempts[h] + 1)
    BY <1>11, ConsumerBounds DEF TypeOK, Bounded, Republish, RepublishBlocked
  <2>2. attempts[h] + 1 \in Attempts /\ ready'[q][attempts[h] + 1] > 0
    BY <1>1, <2>1, FanoutType, ConsumerBounds DEF Attempts
  <2> QED
    BY <2>2 DEF Kept, q
<1>12. CASE Ack(h)
  <2>1. pc[h] = "ack" /\ ready' = ready
    BY <1>12 DEF Ack
  <2> QED
    BY <2>1, OtherHandlers DEF Kept, q
<1>13. CASE Nack(h)
  <2>1. CASE mine[h]
    BY <1>13, <2>1 DEF Nack, Settled, q
  <2>2. CASE ~mine[h]
    <3>1. ready' = ready
      BY <1>13 DEF Nack
    <3> QED
      BY <2>2, <3>1, OtherHandlers DEF Kept, q
  <2> QED
    BY <2>1, <2>2
<1> QED
  BY <1>5, <1>6, <1>7, <1>8, <1>9, <1>10, <1>11, <1>12, <1>13 DEF Works, q

LEMMA TraceStep ==
  TypeOK /\ Bounded /\ Effective /\ Calm /\ Trace /\ [Next]_vars => Trace'
<1> SUFFICES ASSUME TypeOK, Bounded, Effective, Calm, Trace, [Next]_vars,
                    type' # None, NEW q \in Queues
             PROVE  Kept(q)' \/ Settled(q)'
  BY DEF Trace
<1>1. ASSUME NEW h \in Handlers, Works(h) PROVE Kept(q)' \/ Settled(q)'
  <2>1. Kept(q) \/ Settled(q)
    BY <1>1, RowStep DEF Trace
  <2>2. CASE Settled(q)
    <3>1. effects'[q] >= effects[q] /\ effects[q] \in Nat /\ effects'[q] \in Nat
            /\ (row'[q] = "ABSENT" => row[q] = "ABSENT")
      BY <1>1, EffectsGrow
    <3>2. dead \subseteq dead' /\ (Fault \/ faults' = faults)
      BY <1>1, RowStep
    <3>3. faults > 0 => faults' > 0
      BY <3>2 DEF Fault, TypeOK
    <3> QED
      BY <2>2, <3>1, <3>2, <3>3 DEF Settled
  <2>3. CASE Kept(q) /\ ~Settled(q) /\ q = QueueOf(h)
    BY <1>1, <2>3, OwnCopies
  <2>4. CASE Kept(q) /\ q # QueueOf(h)
    <3>1. \A n \in Attempts : ready'[q][n] >= ready[q][n] /\ ready[q][n] \in Nat /\ ready'[q][n] \in Nat
      BY <1>1, <2>4, ReadyStep DEF TypeOK
    <3>2. \A g \in Handlers : QueueOf(g) = q => pc'[g] = pc[g] /\ mine'[g] = mine[g]
      BY <1>1, <2>4, OtherHandlers
    <3>3. CASE \E n \in Attempts : ready[q][n] > 0
      <4>1. PICK n \in Attempts : ready[q][n] > 0
        BY <3>3
      <4>2. ready'[q][n] > 0
        BY <3>1, <4>1
      <4> QED
        BY <4>2 DEF Kept
    <3> QED
      BY <2>4, <3>2, <3>3 DEF Kept
  <2> QED
    BY <2>1, <2>2, <2>3, <2>4
<1>2. ASSUME NEW p \in Processes, Requeue(p), UNCHANGED <<type, rowVars, effects, dead>>,
             faults' \in Nat, faults' >= faults,
             \A h \in Handlers : ProcessOf(h) # p => pc'[h] = pc[h] /\ mine'[h] = mine[h]
      PROVE  Kept(q)' \/ Settled(q)'
  <2>1. Kept(q) \/ Settled(q)
    BY <1>2 DEF Trace
  <2>2. CASE Settled(q)
    BY <1>2, <2>2 DEF Settled, rowVars, TypeOK
  <2>3. CASE Kept(q)
    <3>1. \A n \in Attempts : ready'[q][n] >= ready[q][n] /\ ready[q][n] \in Nat /\ ready'[q][n] \in Nat
      BY <1>2, RequeueType DEF TypeOK
    <3>2. CASE \E n \in Attempts : ready[q][n] > 0
      <4>1. PICK n \in Attempts : ready[q][n] > 0
        BY <3>2
      <4>2. ready'[q][n] > 0
        BY <3>1, <4>1
      <4> QED
        BY <4>2 DEF Kept
    <3>3. CASE \E h \in Handlers : QueueOf(h) = q /\ mine[h] /\ pc[h] \notin {"idle", "ack"}
      <4>1. PICK h \in Handlers : QueueOf(h) = q /\ mine[h] /\ pc[h] \notin {"idle", "ack"}
        BY <3>3
      <4>2. CASE ProcessOf(h) = p
        <5>1. attempts[h] \in Attempts
          BY ConsumerBounds DEF TypeOK, Attempts
        <5>2. ready'[q][attempts[h]] > 0
          BY <1>2, <4>1, <4>2, RequeueType
        <5> QED
          BY <5>1, <5>2 DEF Kept
      <4>3. CASE ProcessOf(h) # p
        BY <1>2, <4>1, <4>3 DEF Kept
      <4> QED
        BY <4>2, <4>3
    <3> QED
      BY <2>3, <3>2, <3>3 DEF Kept
  <2> QED
    BY <2>1, <2>2, <2>3
<1>3. (Fault \/ faults' = faults) => faults' \in Nat /\ faults' >= faults
  BY ConsumerBounds DEF TypeOK, Fault
<1>4. ASSUME NEW p \in Processes, ConnectionCloses(p) PROVE Kept(q)' \/ Settled(q)'
  <2>1. /\ Requeue(p) /\ UNCHANGED <<type, rowVars, effects, dead>> /\ Fault
        /\ \A h \in Handlers : ProcessOf(h) # p => pc'[h] = pc[h] /\ mine'[h] = mine[h]
    BY <1>4 DEF ConnectionCloses, TypeOK
  <2> QED
    BY <1>2, <1>3, <2>1
<1>5. ASSUME NEW p \in Processes, Ends(p) PROVE Kept(q)' \/ Settled(q)'
  <2>1. /\ Requeue(p) /\ UNCHANGED <<type, rowVars, effects, dead>> /\ (Fault \/ faults' = faults)
        /\ \A h \in Handlers : ProcessOf(h) # p => pc'[h] = pc[h] /\ mine'[h] = mine[h]
    BY <1>5, RestartStep DEF Ends
  <2> QED
    BY <1>2, <1>3, <2>1
<1>6. ASSUME NEW o \in Queues, ClaimExpires(o) PROVE Kept(q)' \/ Settled(q)'
  BY <1>3, <1>6 DEF ClaimExpires, handlerVars, TypeOK, Trace, Kept, Settled
<1>7. CASE PublishEvent
  <2>1. 0 \in 0 .. MaxRetries /\ 0 \in Attempts /\ Fanout(0)
    BY <1>7, ConsumerBounds DEF PublishEvent, Attempts
  <2>2. ready'[q][0] > 0
    BY <2>1, FanoutType
  <2> QED
    BY <2>1, <2>2 DEF Kept
<1>8. CASE UNCHANGED vars
  BY <1>8 DEF vars, rowVars, handlerVars, Trace, Kept, Settled
<1> QED
  BY <1>1, <1>4, <1>5, <1>6, <1>7, <1>8, NextSplit

-----------------------------------------------------------------------------
LEMMA CalmMeansOnce == TypeOK /\ Calm => EffectOnce
  BY DEF TypeOK, Calm, EffectOnce, Claiming

LEMMA TraceMeansTrace == TypeOK /\ Effective /\ Trace => DropsLeaveTrace
<1> SUFFICES ASSUME TypeOK, Effective, Trace, NEW q \in Queues, type # None, ~InFlight(q)
             PROVE  \/ effects[q] >= 1 \/ q \in dead
                    \/ faults > 0 /\ row[q] \in {"CLAIMED", "FAILED"}
  BY DEF DropsLeaveTrace
<1>1. ~Kept(q)
  BY DEF InFlight, Kept
<1>2. Settled(q)
  BY <1>1 DEF Trace
<1>3. row[q] = "COMPLETED" => effects[q] >= 1
  BY DEF Effective, CompletedHasEffect
<1> QED
  BY <1>2, <1>3 DEF Settled, TypeOK

\* The inductive invariant of the two consumers.
THEOREM Invariance == Spec => []IInv
<1>1. IInv /\ [Next]_vars => IInv'
  BY TypeStep, EffectiveStep, CalmStep, TraceStep DEF IInv
<1> QED
  BY <1>1, InitIInv, PTL DEF Spec

\* Type correctness: no handler ever has a copy with more attempts than are allowed.
THEOREM TypeCorrect == Spec => []TypeOK
<1>1. IInv => TypeOK
  BY DEF IInv
<1> QED
  BY <1>1, Invariance, PTL

\* For any number of processes, queues, retries and faults: a COMPLETED row has its effect.
THEOREM CompletedTookEffect == Spec => []CompletedHasEffect
<1>1. IInv => CompletedHasEffect
  BY DEF IInv, Effective
<1> QED
  BY <1>1, Invariance, PTL

\* Without faults no consumer handles an event twice, although every retry goes to all queues.
THEOREM EffectsOnce == Spec => []EffectOnce
<1>1. IInv => EffectOnce
  BY CalmMeansOnce DEF IInv
<1> QED
  BY <1>1, Invariance, PTL

\* No copy of an event is dropped without an effect, a dead letter or a row to find it by.
THEOREM NoSilentDrop == Spec => []DropsLeaveTrace
<1>1. IInv => DropsLeaveTrace
  BY TraceMeansTrace DEF IInv
<1> QED
  BY <1>1, Invariance, PTL
=============================================================================
