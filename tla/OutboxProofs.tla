----------------------------- MODULE OutboxProofs -----------------------------
(***************************************************************************)
(* Proofs about Outbox: type correctness, no event PROCESSED that was not  *)
(* published, no update of a worker that turns a row back, a budget for    *)
(* the copies of an event, and the refinement of Delivery.                 *)
(***************************************************************************)
EXTENDS Outbox, FiniteSetTheorems, TLAPS

\* A worker between two batches has nothing to confirm or to fail.
Rested == \A w \in Workers : Idle(w) => ~published[w] /\ ~failing[w]

\* The exchange has what a worker holds a confirm for.
Sent ==
  /\ NoLostEvent
  /\ \A w \in Workers : ~Idle(w) /\ published[w] => copies[Evt(w).id] >= 1

\* While a row carries the stamp of a claim, its retry count is the one the claim returned.
Fresh ==
  \A w \in Workers : \A i \in 1 .. Len(batch[w]) :
    claimedAt[batch[w][i].id] = batch[w][i].claimedAt
      => retryCount[batch[w][i].id] = batch[w][i].retryCount

IInv == TypeOK /\ Rested /\ Sent /\ Fresh

-----------------------------------------------------------------------------
LEMMA InitIInv == Init => IInv
<1> SUFFICES ASSUME Init PROVE IInv
  OBVIOUS
<1>1. 0 \in 0 .. MaxRetries + 1 /\ 0 \in 0 .. MaxFaults /\ <<>> \in Seq(Claimed)
  BY BoundsAssumption
<1>2. TypeOK
  BY <1>1 DEF Init, TypeOK, Status
<1>3. Rested /\ Sent /\ Fresh
  BY DEF Init, Rested, Idle, Sent, NoLostEvent, Fresh
<1> QED
  BY <1>2, <1>3 DEF IInv

\* The head of a batch is a claimed row, and the tail holds the other ones.
LEMMA HeadOfBatch ==
  ASSUME TypeOK, NEW w \in Workers, ~Idle(w)
  PROVE  /\ Evt(w) \in Claimed /\ Evt(w) = batch[w][1] /\ 1 \in 1 .. Len(batch[w])
         /\ Tail(batch[w]) \in Seq(Claimed)
         /\ Len(Tail(batch[w])) = Len(batch[w]) - 1
         /\ \A i \in 1 .. Len(Tail(batch[w])) :
              Tail(batch[w])[i] = batch[w][i + 1] /\ i + 1 \in 1 .. Len(batch[w])
<1>1. batch[w] \in Seq(Claimed) /\ batch[w] # <<>>
  BY DEF TypeOK, Idle
<1>2. Head(batch[w]) \in Claimed /\ Head(batch[w]) = batch[w][1] /\ 1 \in 1 .. Len(batch[w])
  BY <1>1
<1>3. /\ Tail(batch[w]) \in Seq(Claimed)
      /\ Len(Tail(batch[w])) = Len(batch[w]) - 1
      /\ \A i \in 1 .. Len(Tail(batch[w])) : Tail(batch[w])[i] = batch[w][i + 1]
  BY <1>1
<1>4. Len(batch[w]) \in Nat
  BY <1>1
<1> QED
  BY <1>2, <1>3, <1>4 DEF Evt

\* The rows taken by a claim, and the batch that comes of it.
Claims(w, now, s, taken) ==
  /\ batch' = [batch EXCEPT ![w] = s]
  /\ \A i \in 1 .. Len(s) : /\ s[i].id \in taken /\ s[i].claimedAt = now
                            /\ s[i].retryCount = retryCount[s[i].id]
  /\ \A e \in taken : \E i \in 1 .. Len(s) : s[i].id = e
  /\ \A i, j \in 1 .. Len(s) : s[i].id = s[j].id => i = j
  /\ status' = [e \in Events |-> IF e \in taken THEN "PUBLISHING" ELSE status[e]]
  /\ claimedAt' = [e \in Events |-> IF e \in taken THEN now ELSE claimedAt[e]]
  /\ expired' = [e \in Events |-> IF e \in taken THEN FALSE ELSE expired[e]]

LEMMA ClaimStep ==
  ASSUME TypeOK, NEW w \in Workers, Claim(w)
  PROVE  \E now \in Stamps \ StampsInUse, s \in Seq(Claimed), taken \in SUBSET Due :
           Claims(w, now, s, taken)
<1> DEFINE now == CHOOSE s \in Stamps \ StampsInUse : TRUE
<1>1. now \in Stamps \ StampsInUse
  BY DEF Claim
<1>2. PICK rows \in Batches :
        /\ status' = [e \in Events |-> IF e \in ToSet(rows) THEN "PUBLISHING" ELSE status[e]]
        /\ claimedAt' = [e \in Events |-> IF e \in ToSet(rows) THEN now ELSE claimedAt[e]]
        /\ expired' = [e \in Events |-> IF e \in ToSet(rows) THEN FALSE ELSE expired[e]]
        /\ batch' = [batch EXCEPT ![w] =
             [i \in DOMAIN rows |->
                [id |-> rows[i], retryCount |-> retryCount[rows[i]], claimedAt |-> now]]]
  BY DEF Claim
<1> HIDE DEF now
<1>3. PICK n \in 1 .. BatchSize : rows \in [1 .. n -> Due]
  BY DEF Batches
<1>12. \A i, j \in 1 .. n : rows[i] = rows[j] => i = j
  BY <1>3 DEF Batches, IsInjective
<1>4. Due \subseteq Events
  BY DEF Due
<1>5. /\ ToSet(rows) \in SUBSET Due /\ \A i \in 1 .. n : rows[i] \in ToSet(rows)
      /\ \A e \in ToSet(rows) : \E i \in 1 .. n : rows[i] = e
  BY <1>3 DEF ToSet
<1> DEFINE s == [i \in 1 .. n |->
                   [id |-> rows[i], retryCount |-> retryCount[rows[i]], claimedAt |-> now]]
<1>6. \A i \in 1 .. n : [id |-> rows[i], retryCount |-> retryCount[rows[i]], claimedAt |-> now] \in Claimed
  BY <1>1, <1>3, <1>4 DEF TypeOK, Claimed
<1>7. n \in Nat
  BY BoundsAssumption
<1>8. s \in Seq(Claimed) /\ Len(s) = n
  BY <1>6, <1>7
<1>9. \A i \in 1 .. n : s[i].id \in ToSet(rows) /\ s[i].claimedAt = now
                        /\ s[i].retryCount = retryCount[s[i].id]
  BY <1>5
<1>13. \A i \in 1 .. n : s[i].id = rows[i]
  OBVIOUS
<1>14. \A e \in ToSet(rows) : \E i \in 1 .. n : s[i].id = e
  BY <1>5, <1>13
<1>15. \A i, j \in 1 .. n : s[i].id = s[j].id => i = j
  BY <1>12, <1>13
<1>10. batch' = [batch EXCEPT ![w] = s]
  BY <1>2, <1>3
<1> HIDE DEF s
<1>11. Claims(w, now, s, ToSet(rows))
  BY <1>2, <1>8, <1>9, <1>10, <1>14, <1>15 DEF Claims
<1> QED
  BY <1>1, <1>5, <1>8, <1>11

-----------------------------------------------------------------------------
LEMMA FaultType ==
  TypeOK /\ (UNCHANGED faults \/ (faults < MaxFaults /\ faults' = faults + 1))
    => faults' \in 0 .. MaxFaults
  BY BoundsAssumption DEF TypeOK

LEMMA TypeStep == TypeOK /\ [Next]_vars => TypeOK'
<1> SUFFICES ASSUME TypeOK, [Next]_vars PROVE TypeOK'
  OBVIOUS
<1>1. ASSUME NEW w \in Workers, Claim(w) PROVE TypeOK'
  <2>1. PICK now \in Stamps \ StampsInUse, s \in Seq(Claimed), taken \in SUBSET Due :
          Claims(w, now, s, taken)
    BY <1>1, ClaimStep
  <2>2. UNCHANGED <<retryCount, retryAt, published, failing, copies, faults>>
    BY <1>1 DEF Claim
  <2> QED
    BY <2>1, <2>2 DEF TypeOK, Claims, Status
<1>2. ASSUME NEW w \in Workers, Publish(w) \/ PublishError(w) PROVE TypeOK'
  <2>1. Evt(w).id \in Events /\ UNCHANGED <<rowVars, batch>>
    BY <1>2, HeadOfBatch DEF Publish, PublishError, Publishing, Claimed
  <2>2. copies' \in [Events -> Nat]
    <3>1. copies[Evt(w).id] + 1 \in Nat
      BY <2>1 DEF TypeOK
    <3> QED
      BY <1>2, <3>1 DEF TypeOK, Publish, PublishError
  <2>3. published' \in [Workers -> BOOLEAN] /\ failing' \in [Workers -> BOOLEAN]
    BY <1>2 DEF TypeOK, Publish, PublishError
  <2>4. faults' \in 0 .. MaxFaults
    BY <1>2, FaultType DEF Publish, PublishError
  <2> QED
    BY <2>1, <2>2, <2>3, <2>4 DEF TypeOK, rowVars
<1>3. ASSUME NEW w \in Workers, Finalize(w) \/ FinalizeError(w) \/ MarkFailed(w) PROVE TypeOK'
  <2>1. ~Idle(w) /\ NextEvent(w) /\ UNCHANGED copies
    BY <1>3 DEF Finalize, FinalizeError, MarkFailed
  <2>2. Evt(w) \in Claimed /\ Tail(batch[w]) \in Seq(Claimed)
    BY <2>1, HeadOfBatch
  <2>3. /\ batch' \in [Workers -> Seq(Claimed)] /\ published' \in [Workers -> BOOLEAN]
        /\ failing' \in [Workers -> BOOLEAN]
    BY <2>1, <2>2 DEF TypeOK, NextEvent
  <2>4. faults' \in 0 .. MaxFaults
    BY <1>3, BoundsAssumption DEF TypeOK, Finalize, FinalizeError, MarkFailed, rowVars
  <2>5. /\ status' \in [Events -> Status] /\ retryAt' \in [Events -> {"none", "future", "past"}]
        /\ claimedAt' \in [Events -> Stamps \cup {NoStamp}] /\ expired' \in [Events -> BOOLEAN]
    BY <1>3, <2>2 DEF TypeOK, Finalize, FinalizeError, MarkFailed, rowVars, Status
  <2>6. retryCount' \in [Events -> 0 .. MaxRetries + 1]
    <3>1. CASE MarkFailed(w) /\ StillMine(w)
      <4>1. PICK n \in 0 .. MaxRetries + 1 : retryCount' = [retryCount EXCEPT ![Evt(w).id] = n]
        BY <2>2, <3>1, BoundsAssumption DEF MarkFailed, Claimed
      <4> QED
        BY <4>1 DEF TypeOK
    <3>2. CASE ~(MarkFailed(w) /\ StillMine(w))
      BY <1>3, <3>2 DEF TypeOK, Finalize, FinalizeError, MarkFailed, rowVars
    <3> QED
      BY <3>1, <3>2
  <2> QED
    BY <2>1, <2>3, <2>4, <2>5, <2>6 DEF TypeOK
<1>4. ASSUME NEW w \in Workers, MarkFailedError(w) \/ Crash(w) PROVE TypeOK'
  <2>1. DropBatch(w) /\ faults' \in 0 .. MaxFaults
    BY <1>4, BoundsAssumption DEF TypeOK, MarkFailedError, Crash
  <2>2. <<>> \in Seq(Claimed)
    OBVIOUS
  <2> QED
    BY <2>1, <2>2 DEF DropBatch, TypeOK, rowVars
<1>5. ASSUME NEW e \in Events, Create(e) \/ ClaimExpires(e) \/ BackoffPasses(e) PROVE TypeOK'
  <2>1. UNCHANGED <<retryCount, claimedAt, workerVars, copies>>
    BY <1>5 DEF Create, ClaimExpires, BackoffPasses
  <2>2. /\ status' \in [Events -> Status] /\ retryAt' \in [Events -> {"none", "future", "past"}]
        /\ expired' \in [Events -> BOOLEAN]
    BY <1>5 DEF Create, ClaimExpires, BackoffPasses, TypeOK, Status
  <2>3. faults' \in 0 .. MaxFaults
    BY <1>5, FaultType DEF Create, ClaimExpires, BackoffPasses
  <2> QED
    BY <2>1, <2>2, <2>3 DEF TypeOK, workerVars
<1>6. CASE UNCHANGED vars
  BY <1>6 DEF vars, rowVars, workerVars, TypeOK
<1> QED
  BY <1>1, <1>2, <1>3, <1>4, <1>5, <1>6 DEF Next, Work

-----------------------------------------------------------------------------
(* PROCESSED means published. *)

\* The updates that end the handling of an event.
Ends(w) == Finalize(w) \/ FinalizeError(w) \/ MarkFailed(w) \/ MarkFailedError(w) \/ Crash(w)

LEMMA RestedStep == TypeOK /\ Rested /\ [Next]_vars => Rested'
<1> SUFFICES ASSUME TypeOK, Rested, [Next]_vars PROVE Rested'
  OBVIOUS
<1>1. ASSUME NEW w \in Workers, Work(w) PROVE Rested'
  <2>1. CASE Claim(w)
    <3>3. PICK s \in Seq(Claimed) : batch' = [batch EXCEPT ![w] = s]
      BY <2>1, ClaimStep DEF Claims
    <3>1. \A v \in Workers \ {w} : batch'[v] = batch[v]
      BY <3>3 DEF TypeOK
    <3>2. ~published'[w] /\ ~failing'[w] /\ UNCHANGED <<published, failing>>
      BY <2>1 DEF Claim, Rested
    <3> QED
      BY <3>1, <3>2 DEF Rested, Idle
  <2>2. CASE Publish(w) \/ PublishError(w)
    BY <2>2 DEF TypeOK, Rested, Publish, PublishError, Publishing, Idle
  <2>3. CASE Ends(w)
    <3>1. \A v \in Workers \ {w} : batch'[v] = batch[v] /\ published'[v] = published[v] /\ failing'[v] = failing[v]
      BY <2>3 DEF TypeOK, Ends, Finalize, FinalizeError, MarkFailed, MarkFailedError, Crash, NextEvent, DropBatch
    <3>2. ~published'[w] /\ ~failing'[w]
      BY <2>3 DEF TypeOK, Ends, Finalize, FinalizeError, MarkFailed, MarkFailedError, Crash, NextEvent, DropBatch
    <3> QED
      BY <3>1, <3>2 DEF Rested, Idle
  <2> QED
    BY <1>1, <2>1, <2>2, <2>3 DEF Work, Ends
<1>2. CASE UNCHANGED workerVars
  BY <1>2 DEF workerVars, Rested, Idle
<1> QED
  BY <1>1, <1>2 DEF Next, Create, ClaimExpires, BackoffPasses, vars

LEMMA SentStep == TypeOK /\ Rested /\ Sent /\ [Next]_vars => Sent'
<1> SUFFICES ASSUME TypeOK, Rested, Sent, [Next]_vars PROVE Sent'
  OBVIOUS
<1>1. ASSUME NEW w \in Workers, Claim(w) PROVE Sent'
  <2>1. PICK now \in Stamps \ StampsInUse, s \in Seq(Claimed), taken \in SUBSET Due : Claims(w, now, s, taken)
    BY <1>1, ClaimStep
  <2>2. UNCHANGED <<published, copies>> /\ ~published[w]
    BY <1>1 DEF Claim, Rested
  <2>3. \A v \in Workers \ {w} : batch'[v] = batch[v]
    BY <2>1 DEF Claims, TypeOK
  <2>4. \A e \in Events : status'[e] = "PROCESSED" => status[e] = "PROCESSED"
    BY <2>1 DEF Claims
  <2> QED
    BY <2>2, <2>3, <2>4 DEF Sent, NoLostEvent, Idle, Evt
<1>2. ASSUME NEW w \in Workers, Publish(w) \/ PublishError(w) PROVE Sent'
  <2>1. Evt(w).id \in Events /\ UNCHANGED <<status, batch>>
    BY <1>2, HeadOfBatch DEF Publish, PublishError, Publishing, Claimed, rowVars
  <2>2. \A e \in Events : copies[e] \in Nat /\ copies'[e] \in Nat /\ copies'[e] >= copies[e]
    BY <1>2, <2>1 DEF TypeOK, Publish, PublishError
  <2>3. \A v \in Workers : ~Idle(v) => Evt(v).id \in Events
    BY HeadOfBatch DEF Claimed
  <2>4. \A v \in Workers \ {w} : published'[v] = published[v]
    BY <1>2 DEF TypeOK, Publish, PublishError
  <2>5. published'[w] => copies'[Evt(w).id] >= 1
    <3>1. CASE Publish(w)
      <4>1. copies[Evt(w).id] \in Nat /\ copies'[Evt(w).id] = copies[Evt(w).id] + 1
        BY <2>1, <3>1 DEF TypeOK, Publish
      <4> QED
        BY <4>1
    <3>2. CASE PublishError(w)
      BY <3>2 DEF PublishError, Publishing
    <3> QED
      BY <1>2, <3>1, <3>2
  <2>6. \A e \in Events : copies[e] >= 1 => copies'[e] >= 1
    BY <2>2
  <2>7. NoLostEvent'
    BY <2>1, <2>6 DEF Sent, NoLostEvent
  <2>8. \A v \in Workers : ~Idle(v)' /\ published'[v] => copies'[Evt(v)'.id] >= 1
    BY <2>1, <2>3, <2>4, <2>5, <2>6 DEF Sent, Idle, Evt
  <2> QED
    BY <2>7, <2>8 DEF Sent
<1>3. ASSUME NEW w \in Workers, Ends(w) PROVE Sent'
  <2>1. UNCHANGED copies /\ ~published'[w]
    BY <1>3 DEF TypeOK, Ends, Finalize, FinalizeError, MarkFailed, MarkFailedError, Crash, NextEvent, DropBatch
  <2>2. \A v \in Workers \ {w} : batch'[v] = batch[v] /\ published'[v] = published[v]
    BY <1>3 DEF TypeOK, Ends, Finalize, FinalizeError, MarkFailed, MarkFailedError, Crash, NextEvent, DropBatch
  <2>3. ASSUME NEW e \in Events, status'[e] = "PROCESSED" PROVE copies[e] >= 1
    <3>1. status[e] = "PROCESSED" \/ (Finalize(w) /\ e = Evt(w).id)
      BY <1>3, <2>3 DEF TypeOK, Ends, Finalize, FinalizeError, MarkFailed, MarkFailedError, Crash, DropBatch, rowVars
    <3> QED
      BY <3>1 DEF Sent, NoLostEvent, Finalize
  <2> QED
    BY <2>1, <2>2, <2>3 DEF Sent, NoLostEvent, Idle, Evt
<1>4. ASSUME NEW e \in Events, Create(e) \/ ClaimExpires(e) \/ BackoffPasses(e) PROVE Sent'
  <2>1. UNCHANGED <<workerVars, copies>> /\ \A f \in Events : status'[f] = "PROCESSED" => status[f] = "PROCESSED"
    BY <1>4 DEF TypeOK, Create, ClaimExpires, BackoffPasses
  <2> QED
    BY <2>1 DEF Sent, NoLostEvent, Idle, Evt, workerVars
<1>5. CASE UNCHANGED vars
  BY <1>5 DEF vars, rowVars, workerVars, Sent, NoLostEvent, Idle, Evt
<1> QED
  BY <1>1, <1>2, <1>3, <1>4, <1>5 DEF Next, Work, Ends

-----------------------------------------------------------------------------
(* A row that still carries the stamp has not been counted on. *)

\* A claim that a worker holds has a stamp that a new claim does not take.
LEMMA HeldStamps ==
  ASSUME TypeOK, NEW w \in Workers, NEW i \in 1 .. Len(batch[w])
  PROVE  /\ batch[w][i] \in Claimed
         /\ batch[w][i].claimedAt \in StampsInUse
<1>1. batch[w] \in Seq(Claimed) /\ i \in DOMAIN batch[w]
  BY DEF TypeOK
<1>2. batch[w][i] \in ToSet(batch[w])
  BY <1>1 DEF ToSet
<1> QED
  BY <1>1, <1>2 DEF StampsInUse

LEMMA FreshStep == TypeOK /\ Fresh /\ [Next]_vars => Fresh'
<1> SUFFICES ASSUME TypeOK, Fresh, [Next]_vars PROVE Fresh'
  OBVIOUS
<1>1. ASSUME NEW w \in Workers, Claim(w) PROVE Fresh'
  <2>1. PICK now \in Stamps \ StampsInUse, s \in Seq(Claimed), taken \in SUBSET Due : Claims(w, now, s, taken)
    BY <1>1, ClaimStep
  <2>2. batch'[w] = s /\ UNCHANGED retryCount /\ \A v \in Workers \ {w} : batch'[v] = batch[v]
    BY <1>1, <2>1 DEF Claim, Claims, TypeOK
  <2>3. \A i \in 1 .. Len(s) : s[i].retryCount = retryCount[s[i].id]
    BY <2>1 DEF Claims
  <2>4. ASSUME NEW v \in Workers \ {w}, NEW i \in 1 .. Len(batch[v]),
               claimedAt'[batch[v][i].id] = batch[v][i].claimedAt
        PROVE  retryCount[batch[v][i].id] = batch[v][i].retryCount
    <3>1. batch[v][i].id \in Events /\ batch[v][i].claimedAt # now
      BY HeldStamps DEF Claimed
    <3>2. claimedAt[batch[v][i].id] = batch[v][i].claimedAt
      BY <2>1, <2>4, <3>1 DEF Claims
    <3> QED
      BY <3>2 DEF Fresh
  <2> QED
    BY <2>2, <2>3, <2>4 DEF Fresh
<1>2. ASSUME NEW w \in Workers, Ends(w) PROVE Fresh'
  <2>1. /\ ~Idle(w) /\ \A v \in Workers \ {w} : batch'[v] = batch[v]
        /\ batch'[w] = Tail(batch[w]) \/ batch'[w] = <<>>
    BY <1>2 DEF TypeOK, Ends, Finalize, FinalizeError, MarkFailed, MarkFailedError, Crash, NextEvent, DropBatch
  <2>2. \A v \in Workers : \A i \in 1 .. Len(batch'[v]) :
          \E j \in 1 .. Len(batch[v]) : batch'[v][i] = batch[v][j]
    <3>1. SUFFICES ASSUME NEW v \in Workers, NEW i \in 1 .. Len(batch'[v])
                   PROVE  \E j \in 1 .. Len(batch[v]) : batch'[v][i] = batch[v][j]
      OBVIOUS
    <3>2. CASE v # w
      BY <2>1, <3>2
    <3>3. CASE v = w /\ batch'[w] = Tail(batch[w])
      <4>1. /\ batch'[w][i] = batch[w][i + 1]
            /\ i + 1 \in 1 .. Len(batch[w])
        BY <2>1, <3>3, HeadOfBatch
      <4> QED
        BY <3>3, <4>1
    <3>4. CASE v = w /\ batch'[w] = <<>>
      BY <3>4
    <3> QED
      BY <2>1, <3>2, <3>3, <3>4
  <2>3. Evt(w).id \in Events
    BY <2>1, HeadOfBatch DEF Claimed
  <2>4. \A e \in Events : claimedAt'[e] = NoStamp \/ (claimedAt'[e] = claimedAt[e] /\ retryCount'[e] = retryCount[e])
    BY <1>2, <2>3 DEF TypeOK, Ends, Finalize, FinalizeError, MarkFailed, MarkFailedError, Crash, DropBatch, rowVars
  <2>5. ASSUME NEW v \in Workers, NEW i \in 1 .. Len(batch'[v]),
               claimedAt'[batch'[v][i].id] = batch'[v][i].claimedAt
        PROVE  retryCount'[batch'[v][i].id] = batch'[v][i].retryCount
    <3>1. PICK j \in 1 .. Len(batch[v]) : batch'[v][i] = batch[v][j]
      BY <2>2
    <3>2. batch[v][j].id \in Events /\ batch[v][j].claimedAt # NoStamp
      BY HeldStamps, StampsAssumption DEF Claimed
    <3> QED
      BY <2>4, <2>5, <3>1, <3>2 DEF Fresh
  <2> QED
    BY <2>5 DEF Fresh
<1>3. CASE UNCHANGED <<batch, claimedAt, retryCount>>
  BY <1>3 DEF Fresh
<1> QED
  BY <1>1, <1>2, <1>3 DEF Next, Work, Ends, Publish, PublishError, Create, ClaimExpires, BackoffPasses,
     vars, rowVars, workerVars

-----------------------------------------------------------------------------
\* The inductive invariant of the outbox.
THEOREM Invariance == Spec => []IInv
<1>1. IInv /\ [Next]_vars => IInv'
  BY TypeStep, RestedStep, SentStep, FreshStep DEF IInv
<1> QED
  BY <1>1, InitIInv, PTL DEF Spec

\* Type correctness; the retry count stays below its bound.
THEOREM TypeCorrect == Spec => []TypeOK
<1>1. IInv => TypeOK
  BY DEF IInv
<1> QED
  BY <1>1, Invariance, PTL

\* For any number of workers, rows and faults: what is PROCESSED has reached the exchange.
THEOREM ProcessedWasPublished == Spec => []NoLostEvent
<1>1. IInv => NoLostEvent
  BY DEF IInv, Sent
<1> QED
  BY <1>1, Invariance, PTL

\* What a step may do to a row.
Forward ==
  \A e \in Events : /\ status[e] = "PROCESSED" => status'[e] = "PROCESSED"
                    /\ retryCount'[e] >= retryCount[e]

LEMMA ForwardStep == IInv /\ [Next]_vars => Forward
<1> SUFFICES ASSUME IInv, [Next]_vars, NEW e \in Events
             PROVE  /\ status[e] = "PROCESSED" => status'[e] = "PROCESSED"
                    /\ retryCount'[e] >= retryCount[e]
  BY DEF Forward
<1>1. retryCount[e] \in Int /\ retryCount[e] <= MaxRetries + 1
  BY BoundsAssumption DEF IInv, TypeOK
<1>2. ASSUME NEW w \in Workers, Claim(w)
      PROVE  status[e] = "PROCESSED" => status'[e] = "PROCESSED"
  <2>1. PICK now \in Stamps \ StampsInUse, s \in Seq(Claimed), taken \in SUBSET Due : Claims(w, now, s, taken)
    BY <1>2, ClaimStep DEF IInv
  <2>2. status[e] = "PROCESSED" => e \notin taken
    BY DEF Due, Claimable
  <2> QED
    BY <2>1, <2>2 DEF Claims
<1>3. ASSUME NEW w \in Workers, Finalize(w) \/ MarkFailed(w)
      PROVE  status[e] = "PROCESSED" => status'[e] = "PROCESSED"
  BY <1>3 DEF IInv, TypeOK, Finalize, MarkFailed, StillMine, rowVars
<1>4. ASSUME NEW w \in Workers, MarkFailed(w) PROVE retryCount'[e] >= retryCount[e]
  <2>1. CASE StillMine(w) /\ e = Evt(w).id
    <3>1. Evt(w) = batch[w][1] /\ 1 \in 1 .. Len(batch[w]) /\ Evt(w) \in Claimed
      BY <1>4, HeadOfBatch DEF IInv, MarkFailed
    <3>2. retryCount[e] = Evt(w).retryCount
      BY <2>1, <3>1 DEF IInv, Fresh, StillMine
    <3>3. retryCount'[e] = IF Evt(w).retryCount + 1 <= MaxRetries THEN Evt(w).retryCount + 1 ELSE MaxRetries + 1
      BY <1>4, <2>1 DEF IInv, TypeOK, MarkFailed
    <3> QED
      BY <1>1, <3>2, <3>3, BoundsAssumption
  <2>2. CASE ~(StillMine(w) /\ e = Evt(w).id)
    <3>1. retryCount'[e] = retryCount[e]
      BY <1>4, <2>2 DEF IInv, TypeOK, MarkFailed, rowVars
    <3> QED
      BY <1>1, <3>1
  <2> QED
    BY <2>1, <2>2
<1>5. (\A w \in Workers : ~MarkFailed(w)) => retryCount' = retryCount
  BY DEF Next, Work, Claim, Publish, PublishError, Finalize, FinalizeError, MarkFailedError, Crash,
     DropBatch, Create, ClaimExpires, BackoffPasses, vars, rowVars
<1>6. (\A w \in Workers : ~Claim(w) /\ ~Finalize(w) /\ ~MarkFailed(w)) /\ status[e] = "PROCESSED"
        => status'[e] = "PROCESSED"
  BY DEF IInv, TypeOK, Next, Work, Publish, PublishError, FinalizeError, MarkFailedError, Crash,
     DropBatch, Create, ClaimExpires, BackoffPasses, vars, rowVars
<1> QED
  BY <1>1, <1>2, <1>3, <1>4, <1>5, <1>6

\* However late a worker comes back with a claim that was taken over, it reopens no PROCESSED
\* row and turns no retry count back.
THEOREM RowsGoForward == Spec => ForwardOnly
<1>1. IInv /\ [Next]_vars => [Forward]_vars
  BY ForwardStep
<1>2. ForwardOnly <=> [][Forward]_vars
  BY DEF ForwardOnly, Forward
<1> QED
  BY <1>1, <1>2, Invariance, PTL DEF Spec

-----------------------------------------------------------------------------
(* Every copy is paid for. *)

\* A step of worker w leaves the batches of the other workers alone.
OthersRest(w) ==
  \A v \in Workers \ {w} : batch'[v] = batch[v] /\ published'[v] = published[v] /\ failing'[v] = failing[v]

LEMMA WorkAlone ==
  ASSUME TypeOK, NEW w \in Workers, Work(w)
  PROVE  OthersRest(w)
<1>1. CASE Claim(w)
  <2>1. PICK s \in Seq(Claimed) : batch' = [batch EXCEPT ![w] = s]
    BY <1>1, ClaimStep DEF Claims
  <2> QED
    BY <1>1, <2>1 DEF OthersRest, TypeOK, Claim
<1>2. CASE Publish(w) \/ PublishError(w)
  BY <1>2 DEF OthersRest, TypeOK, Publish, PublishError
<1>3. CASE Ends(w)
  BY <1>3 DEF OthersRest, TypeOK, Ends, Finalize, FinalizeError, MarkFailed, MarkFailedError, Crash,
     NextEvent, DropBatch
<1> QED
  BY <1>1, <1>2, <1>3 DEF Work, Ends

\* Two sets of workers that differ by w at most.
LEMMA CountWorkers ==
  ASSUME NEW S \in SUBSET Workers, NEW T \in SUBSET Workers, NEW w, S \ {w} = T \ {w}
  PROVE  /\ Cardinality(S) \in Nat /\ Cardinality(T) \in Nat
         /\ Cardinality(T) = Cardinality(S) + (IF w \in T THEN 1 ELSE 0) - (IF w \in S THEN 1 ELSE 0)
<1>1. IsFiniteSet(S) /\ IsFiniteSet(T)
  BY FS_Subset, WorkersAssumption
<1>2. Cardinality(S) \in Nat /\ Cardinality(T) \in Nat
  BY <1>1, FS_CardinalityType
<1>3. Cardinality(S \ {w}) = IF w \in S THEN Cardinality(S) - 1 ELSE Cardinality(S)
  BY <1>1, FS_RemoveElement
<1>4. Cardinality(T \ {w}) = IF w \in T THEN Cardinality(T) - 1 ELSE Cardinality(T)
  BY <1>1, FS_RemoveElement
<1>5. Cardinality(S \ {w}) = Cardinality(T \ {w})
  OBVIOUS
<1> QED
  BY <1>2, <1>3, <1>4, <1>5

\* When only worker w moves, the number of holders of a row changes by w at most.
LEMMA HoldersStep ==
  ASSUME NEW w \in Workers, OthersRest(w), NEW e \in Events
  PROVE  /\ Cardinality(Holders(e)) \in Nat /\ Cardinality(Holders(e)') \in Nat
         /\ Cardinality(Holders(e)') =
              Cardinality(Holders(e)) + (IF Holds(w, e)' THEN 1 ELSE 0) - (IF Holds(w, e) THEN 1 ELSE 0)
<1>1. \A v \in Workers \ {w} : Holds(v, e)' <=> Holds(v, e)
  BY DEF OthersRest, Holds
<1>2. Holders(e) \in SUBSET Workers /\ Holders(e)' \in SUBSET Workers
  BY DEF Holders
<1>3. Holders(e) \ {w} = Holders(e)' \ {w}
  BY <1>1 DEF Holders
<1>4. (w \in Holders(e) <=> Holds(w, e)) /\ (w \in Holders(e)' <=> Holds(w, e)')
  BY DEF Holders
<1>5. /\ Cardinality(Holders(e)) \in Nat /\ Cardinality(Holders(e)') \in Nat
      /\ Cardinality(Holders(e)') = Cardinality(Holders(e))
           + (IF w \in Holders(e)' THEN 1 ELSE 0) - (IF w \in Holders(e) THEN 1 ELSE 0)
  BY <1>2, <1>3, CountWorkers
<1> QED
  BY <1>4, <1>5

\* When only worker w moves and row e stays as it is, so does its chance of a further claim.
LEMMA UpStep ==
  ASSUME NEW w \in Workers, OthersRest(w), NEW e \in Events,
         status'[e] = status[e], claimedAt'[e] = claimedAt[e], expired'[e] = expired[e],
         HoldsClaim(w, e)' <=> HoldsClaim(w, e)
  PROVE  Up(e)' <=> Up(e)
<1>1. \A v \in Workers \ {w} : HoldsClaim(v, e)' <=> HoldsClaim(v, e)
  BY DEF OthersRest, HoldsClaim
<1>2. HeldBy(e)' = HeldBy(e)
  BY <1>1 DEF HeldBy
<1> QED
  BY <1>2 DEF Up

\* After the head of a batch is done with, its worker holds the other rows as before.
LEMMA TailHolds ==
  ASSUME TypeOK, Distinct, NEW w \in Workers, ~Idle(w), NextEvent(w), NEW e \in Events
  PROVE  /\ e = Evt(w).id => ~Holds(w, e)'
         /\ e # Evt(w).id => (Holds(w, e)' <=> Holds(w, e))
         /\ e # Evt(w).id /\ claimedAt'[e] = claimedAt[e] => (HoldsClaim(w, e)' <=> HoldsClaim(w, e))
         /\ e = Evt(w).id => ~HoldsClaim(w, e)'
         /\ e = Evt(w).id /\ claimedAt[e] # Evt(w).claimedAt => ~HoldsClaim(w, e)
<1> DEFINE old == batch[w]
           new == batch'[w]
<1>1. /\ Evt(w) = old[1] /\ 1 \in 1 .. Len(old) /\ Len(old) \in Nat
      /\ new = Tail(old) /\ Len(new) = Len(old) - 1 /\ ~published'[w]
  BY HeadOfBatch DEF TypeOK, NextEvent
<1>2. \A i \in 1 .. Len(new) : new[i] = old[i + 1] /\ i + 1 \in 1 .. Len(old) /\ i + 1 # 1
  BY <1>1, HeadOfBatch
<1>3. \A i \in 2 .. Len(old) : i - 1 \in 1 .. Len(new) /\ new[i - 1] = old[i] /\ i # 1 /\ i \in 1 .. Len(old)
  <2> TAKE i \in 2 .. Len(old)
  <2>1. i - 1 \in 1 .. Len(new) /\ (i - 1) + 1 = i /\ i # 1 /\ i \in 1 .. Len(old)
    BY <1>1
  <2> QED
    BY <1>2, <2>1
<1>4. \A i \in 1 .. Len(old) : i = 1 \/ i \in 2 .. Len(old)
  BY <1>1
<1>5. \A i, j \in 1 .. Len(old) : old[i].id = old[j].id => i = j
  BY DEF Distinct
<1> HIDE DEF old, new
<1>6. Holds(w, e)' <=> \E i \in 1 .. Len(new) : new[i].id = e
  BY <1>1 DEF Holds, new
<1>7. Holds(w, e) <=> \E i \in 1 .. Len(old) : old[i].id = e /\ ~(i = 1 /\ published[w])
  BY DEF Holds, old
<1>8. HoldsClaim(w, e)' <=> \E i \in 1 .. Len(new) : new[i].id = e /\ new[i].claimedAt = claimedAt'[e]
  BY DEF HoldsClaim, new
<1>9. HoldsClaim(w, e) <=> \E i \in 1 .. Len(old) : old[i].id = e /\ old[i].claimedAt = claimedAt[e]
  BY DEF HoldsClaim, old
<1>10. CASE e = Evt(w).id
  <2>1. \A i \in 1 .. Len(new) : new[i].id # e
    BY <1>1, <1>2, <1>5, <1>10
  <2>2. \A i \in 1 .. Len(old) : old[i].id = e => old[i].claimedAt = Evt(w).claimedAt
    BY <1>1, <1>5, <1>10
  <2> QED
    BY <1>6, <1>8, <1>9, <1>10, <2>1, <2>2
<1>11. CASE e # Evt(w).id
  <2>1. \A i \in 1 .. Len(old) : old[i].id = e => i \in 2 .. Len(old)
    BY <1>1, <1>4, <1>11
  <2>2. Holds(w, e)' <=> Holds(w, e)
    BY <1>2, <1>3, <1>6, <1>7, <2>1
  <2>3. ASSUME claimedAt'[e] = claimedAt[e] PROVE HoldsClaim(w, e)' <=> HoldsClaim(w, e)
    <3>1. ASSUME HoldsClaim(w, e)' PROVE HoldsClaim(w, e)
      <4>1. PICK i \in 1 .. Len(new) : new[i].id = e /\ new[i].claimedAt = claimedAt[e]
        BY <1>8, <2>3, <3>1
      <4> QED
        BY <1>2, <1>9, <4>1
    <3>2. ASSUME HoldsClaim(w, e) PROVE HoldsClaim(w, e)'
      <4>1. PICK i \in 1 .. Len(old) : old[i].id = e /\ old[i].claimedAt = claimedAt'[e]
        BY <1>9, <2>3, <3>2
      <4> QED
        BY <1>3, <1>8, <2>1, <4>1
    <3> QED
      BY <3>1, <3>2
  <2> QED
    BY <1>11, <2>2, <2>3
<1> QED
  BY <1>10, <1>11

LEMMA DistinctStep == TypeOK /\ Distinct /\ [Next]_vars => Distinct'
<1> SUFFICES ASSUME TypeOK, Distinct, [Next]_vars PROVE Distinct'
  OBVIOUS
<1>1. ASSUME NEW w \in Workers, Work(w) PROVE Distinct'
  <2>1. \A v \in Workers \ {w} : batch'[v] = batch[v]
    BY <1>1, WorkAlone DEF OthersRest
  <2>2. \A i, j \in 1 .. Len(batch'[w]) : batch'[w][i].id = batch'[w][j].id => i = j
    <3>1. CASE Claim(w)
      <4>1. PICK now \in Stamps \ StampsInUse, s \in Seq(Claimed), taken \in SUBSET Due : Claims(w, now, s, taken)
        BY <3>1, ClaimStep
      <4>2. batch'[w] = s
        BY <4>1 DEF Claims, TypeOK
      <4> QED
        BY <4>1, <4>2 DEF Claims
    <3>2. CASE Publish(w) \/ PublishError(w)
      BY <3>2 DEF Publish, PublishError, Distinct
    <3>3. CASE ~Idle(w) /\ NextEvent(w)
      <4>1. /\ batch'[w] = Tail(batch[w]) /\ Len(batch'[w]) = Len(batch[w]) - 1
            /\ \A i \in 1 .. Len(batch'[w]) : batch'[w][i] = batch[w][i + 1] /\ i + 1 \in 1 .. Len(batch[w])
        BY <3>3, HeadOfBatch DEF NextEvent, TypeOK
      <4> SUFFICES ASSUME NEW i \in 1 .. Len(batch'[w]), NEW j \in 1 .. Len(batch'[w]),
                          batch'[w][i].id = batch'[w][j].id
                   PROVE  i = j
        OBVIOUS
      <4>2. i + 1 = j + 1
        BY <4>1 DEF Distinct
      <4>3. i \in Int /\ j \in Int
        OBVIOUS
      <4> QED
        BY <4>2, <4>3
    <3>4. CASE DropBatch(w)
      BY <3>4 DEF DropBatch, TypeOK
    <3> QED
      BY <1>1, <3>1, <3>2, <3>3, <3>4 DEF Work, Finalize, FinalizeError, MarkFailed, MarkFailedError, Crash
  <2> QED
    BY <2>1, <2>2 DEF Distinct
<1>2. CASE UNCHANGED batch
  BY <1>2 DEF Distinct
<1> QED
  BY <1>1, <1>2 DEF Next, Create, ClaimExpires, BackoffPasses, vars, workerVars

\* A confirm and an error exclude each other.
Exclusive == \A w \in Workers : ~(published[w] /\ failing[w])

LEMMA ExclusiveStep == TypeOK /\ Exclusive /\ [Next]_vars => Exclusive'
<1> SUFFICES ASSUME TypeOK, Exclusive, [Next]_vars PROVE Exclusive'
  OBVIOUS
<1>1. ASSUME NEW w \in Workers, Work(w) PROVE Exclusive'
  <2>1. \A v \in Workers \ {w} : published'[v] = published[v] /\ failing'[v] = failing[v]
    BY <1>1, WorkAlone DEF OthersRest
  <2>2. ~(published'[w] /\ failing'[w])
    BY <1>1 DEF TypeOK, Exclusive, Work, Claim, Publish, PublishError, Publishing, Finalize, FinalizeError,
       MarkFailed, MarkFailedError, Crash, NextEvent, DropBatch
  <2> QED
    BY <2>1, <2>2 DEF Exclusive
<1>2. CASE UNCHANGED workerVars
  BY <1>2 DEF Exclusive, workerVars
<1> QED
  BY <1>1, <1>2 DEF Next, Create, ClaimExpires, BackoffPasses, vars

\* The budget of one row.
Paid(e) == copies[e] + Cardinality(Holders(e)) + (IF Up(e) THEN 1 ELSE 0) <= 1 + faults

\* A step of w keeps row e within its budget when what it adds is paid by a fault.
LEMMA PaidStep ==
  ASSUME TypeOK, TypeOK', NEW w \in Workers, OthersRest(w), NEW e \in Events, Paid(e),
         /\ copies'[e] + (IF Holds(w, e)' THEN 1 ELSE 0) + (IF Up(e)' THEN 1 ELSE 0) + faults
            <= copies[e] + (IF Holds(w, e) THEN 1 ELSE 0) + (IF Up(e) THEN 1 ELSE 0) + faults'
  PROVE  Paid(e)'
<1>1. /\ Cardinality(Holders(e)) \in Nat /\ Cardinality(Holders(e)') \in Nat
      /\ Cardinality(Holders(e)') =
           Cardinality(Holders(e)) + (IF Holds(w, e)' THEN 1 ELSE 0) - (IF Holds(w, e) THEN 1 ELSE 0)
  BY HoldersStep
<1>2. copies[e] \in Nat /\ copies'[e] \in Nat /\ faults \in Int /\ faults' \in Int
  BY BoundsAssumption DEF TypeOK
<1> DEFINE h == IF Holds(w, e) THEN 1 ELSE 0
           hh == IF Holds(w, e)' THEN 1 ELSE 0
           u == IF Up(e) THEN 1 ELSE 0
           uu == IF Up(e)' THEN 1 ELSE 0
<1>3. h \in Int /\ hh \in Int /\ u \in Int /\ uu \in Int
  OBVIOUS
<1>4. Cardinality(Holders(e)') = Cardinality(Holders(e)) + hh - h
  BY <1>1
<1>5. copies'[e] + hh + uu + faults <= copies[e] + h + u + faults'
  OBVIOUS
<1>6. copies[e] + Cardinality(Holders(e)) + u <= 1 + faults
  BY DEF Paid
<1>7. Paid(e)' <=> copies'[e] + Cardinality(Holders(e)') + uu <= 1 + faults'
  BY DEF Paid
<1> HIDE DEF h, hh, u, uu
<1> QED
  BY <1>1, <1>2, <1>3, <1>4, <1>5, <1>6, <1>7

LEMMA PaidClaim ==
  ASSUME TypeOK, TypeOK', NEW w \in Workers, Claim(w), NEW e \in Events, Paid(e)
  PROVE  Paid(e)'
<1>1. PICK now \in Stamps \ StampsInUse, s \in Seq(Claimed), taken \in SUBSET Due : Claims(w, now, s, taken)
  BY ClaimStep
<1>7. OthersRest(w) /\ UNCHANGED <<copies, faults>> /\ Len(batch[w]) = 0
  BY WorkAlone DEF Work, Claim, Idle
<1>8. batch'[w] = s
  BY <1>1 DEF Claims, TypeOK
<1>2. /\ OthersRest(w) /\ UNCHANGED <<copies, faults>> /\ batch'[w] = s /\ Len(batch[w]) = 0
  BY <1>7, <1>8
<1>3. ~Holds(w, e) /\ ~HoldsClaim(w, e)
  BY <1>2 DEF Holds, HoldsClaim
<1>4. copies[e] \in Int /\ faults \in Int
  BY BoundsAssumption DEF TypeOK
<1>5. CASE e \in taken
  <2>1. Up(e)
    BY <1>5 DEF Due, Claimable, Up
  <2>2. PICK i \in 1 .. Len(s) : s[i].id = e /\ s[i].claimedAt = now
    BY <1>1, <1>5 DEF Claims
  <2>3. status'[e] = "PUBLISHING" /\ claimedAt'[e] = now /\ expired'[e] = FALSE
    BY <1>1, <1>5 DEF Claims
  <2>4. HoldsClaim(w, e)'
    BY <1>2, <2>2, <2>3 DEF HoldsClaim
  <2>5. ~Up(e)'
    BY <2>3, <2>4 DEF Up, HeldBy
  <2> QED
    BY <1>2, <1>3, <1>4, <2>1, <2>5, PaidStep
<1>6. CASE e \notin taken
  <2>1. status'[e] = status[e] /\ claimedAt'[e] = claimedAt[e] /\ expired'[e] = expired[e]
    BY <1>1, <1>6 DEF Claims
  <2>2. ~Holds(w, e)' /\ ~HoldsClaim(w, e)'
    BY <1>1, <1>2, <1>6 DEF Claims, Holds, HoldsClaim
  <2>3. Up(e)' <=> Up(e)
    BY <1>2, <1>3, <2>1, <2>2, UpStep
  <2> QED
    BY <1>2, <1>3, <1>4, <2>2, <2>3, PaidStep
<1> QED
  BY <1>5, <1>6

LEMMA PaidPublish ==
  ASSUME TypeOK, TypeOK', Distinct, NEW w \in Workers, Publish(w) \/ PublishError(w),
         NEW e \in Events, Paid(e)
  PROVE  Paid(e)'
<1>1. /\ OthersRest(w) /\ Publishing(w) /\ UNCHANGED <<rowVars, batch>>
  BY WorkAlone DEF Work, Publish, PublishError
<1>2. Up(e)' <=> Up(e)
  BY <1>1, UpStep DEF rowVars, HoldsClaim
<1>3. copies[e] \in Int /\ faults \in Int /\ copies \in [Events -> Nat]
  BY BoundsAssumption DEF TypeOK
<1>4. /\ Evt(w) = batch[w][1] /\ 1 \in 1 .. Len(batch[w]) /\ ~published[w]
  BY <1>1, HeadOfBatch DEF Publishing
<1>5. Holds(w, e)' => Holds(w, e)
  BY <1>1, <1>4 DEF Holds
<1>6. CASE Publish(w) /\ e = Evt(w).id
  <2>1. published'[w] /\ copies'[e] = copies[e] + 1 /\ faults' = faults
    BY <1>3, <1>6 DEF TypeOK, Publish
  <2>2. Holds(w, e)
    BY <1>4, <1>6 DEF Holds
  <2>3. \A i \in 1 .. Len(batch[w]) : batch[w][i].id = e => i = 1
    BY <1>4, <1>6 DEF Distinct
  <2>4. ~Holds(w, e)'
    BY <1>1, <2>1, <2>3 DEF Holds
  <2> QED
    BY <1>1, <1>2, <1>3, <2>1, <2>2, <2>4, PaidStep
<1>7. CASE Publish(w) /\ e # Evt(w).id
  <2>1. copies'[e] = copies[e] /\ faults' = faults
    BY <1>3, <1>7 DEF Publish
  <2> QED
    BY <1>1, <1>2, <1>3, <1>5, <2>1, PaidStep
<1>8. CASE PublishError(w)
  <2>1. copies'[e] + faults <= copies[e] + faults'
    BY <1>3, <1>8 DEF PublishError
  <2>2. copies'[e] \in Int /\ faults' \in Int
    BY BoundsAssumption DEF TypeOK
  <2> QED
    BY <1>1, <1>2, <1>3, <1>5, <2>1, <2>2, PaidStep
<1> QED
  BY <1>6, <1>7, <1>8

LEMMA PaidEnds ==
  ASSUME TypeOK, TypeOK', Distinct, Exclusive, NEW w \in Workers, Ends(w), NEW e \in Events, Paid(e)
  PROVE  Paid(e)'
<1>1. OthersRest(w) /\ copies' = copies /\ ~Idle(w)
  BY WorkAlone DEF Ends, Work, Finalize, FinalizeError, MarkFailed, MarkFailedError, Crash, DropBatch
<1>2. copies[e] \in Int /\ faults \in Int /\ faults' \in Int
  BY BoundsAssumption DEF TypeOK
<1>3. Evt(w).id \in Events /\ Evt(w) = batch[w][1] /\ 1 \in 1 .. Len(batch[w]) /\ Evt(w).claimedAt \in Stamps
  BY <1>1, HeadOfBatch DEF Claimed
<1>4. CASE NextEvent(w) /\ e # Evt(w).id
  <2>1. /\ status'[e] = status[e] /\ claimedAt'[e] = claimedAt[e] /\ expired'[e] = expired[e]
        /\ faults' >= faults
    <3>1. CASE Finalize(w) \/ FinalizeError(w) \/ MarkFailed(w)
      BY <1>2, <1>3, <1>4, <3>1 DEF TypeOK, Finalize, FinalizeError, MarkFailed, rowVars
    <3>2. CASE MarkFailedError(w) \/ Crash(w)
      BY <1>2, <3>2 DEF MarkFailedError, Crash, DropBatch, rowVars
    <3> QED
      BY <3>1, <3>2 DEF Ends
  <2>2. (Holds(w, e)' <=> Holds(w, e)) /\ (HoldsClaim(w, e)' <=> HoldsClaim(w, e))
    BY <1>1, <1>4, <2>1, TailHolds
  <2>3. Up(e)' <=> Up(e)
    BY <1>1, <2>1, <2>2, UpStep
  <2> QED
    BY <1>1, <1>2, <2>1, <2>2, <2>3, PaidStep
<1>5. CASE Finalize(w) /\ e = Evt(w).id
  <2>1. NextEvent(w) /\ faults' = faults
    BY <1>5 DEF Finalize
  <2>2. ~Holds(w, e)' /\ ~HoldsClaim(w, e)'
    BY <1>1, <1>5, <2>1, TailHolds
  <2>3. CASE StillMine(w)
    <3>1. status'[e] = "PROCESSED"
      BY <1>3, <1>5, <2>3 DEF Finalize, TypeOK
    <3>2. ~Up(e)'
      BY <3>1 DEF Up
    <3> QED
      BY <1>1, <1>2, <2>1, <2>2, <3>2, PaidStep
  <2>4. CASE ~StillMine(w)
    <3>1. status'[e] = status[e] /\ claimedAt'[e] = claimedAt[e] /\ expired'[e] = expired[e]
      BY <1>5, <2>4 DEF Finalize
    <3>2. CASE status[e] = "PUBLISHING"
      <4>1. claimedAt[e] # Evt(w).claimedAt
        BY <1>5, <2>4, <3>2 DEF StillMine
      <4>2. ~HoldsClaim(w, e)
        BY <1>1, <1>5, <2>1, <4>1, TailHolds
      <4>3. Up(e)' <=> Up(e)
        BY <1>1, <2>2, <3>1, <4>2, UpStep
      <4> QED
        BY <1>1, <1>2, <2>1, <2>2, <4>3, PaidStep
    <3>3. CASE status[e] # "PUBLISHING"
      <4>1. Up(e)' <=> Up(e)
        BY <3>1, <3>3 DEF Up
      <4> QED
        BY <1>1, <1>2, <2>1, <2>2, <4>1, PaidStep
    <3> QED
      BY <3>2, <3>3
  <2> QED
    BY <2>3, <2>4
<1>6. CASE MarkFailed(w) /\ e = Evt(w).id
  <2>1. NextEvent(w) /\ faults' = faults /\ ~published[w]
    BY <1>6 DEF MarkFailed, Exclusive
  <2>2. ~Holds(w, e)' /\ Holds(w, e)
    BY <1>1, <1>3, <1>6, <2>1, TailHolds DEF Holds
  <2> QED
    BY <1>1, <1>2, <2>1, <2>2, PaidStep
<1>7. CASE MarkFailedError(w)
  <2>1. batch'[w] = <<>> /\ faults' = faults /\ ~published[w] /\ UNCHANGED rowVars
    BY <1>7 DEF MarkFailedError, DropBatch, TypeOK, Exclusive
  <2>2. ~Holds(w, e)' /\ ~HoldsClaim(w, e)'
    BY <2>1 DEF Holds, HoldsClaim
  <2>3. CASE Holds(w, e)
    BY <1>1, <1>2, <2>1, <2>2, <2>3, PaidStep
  <2>4. CASE ~Holds(w, e)
    <3>1. ~HoldsClaim(w, e)
      BY <2>1, <2>4 DEF Holds, HoldsClaim
    <3>2. Up(e)' <=> Up(e)
      BY <1>1, <2>1, <2>2, <3>1, UpStep DEF rowVars
    <3> QED
      BY <1>1, <1>2, <2>1, <2>2, <2>4, <3>2, PaidStep
  <2> QED
    BY <2>3, <2>4
<1>8. CASE (FinalizeError(w) /\ e = Evt(w).id) \/ Crash(w)
  <2>1. faults' = faults + 1
    BY <1>8 DEF FinalizeError, Crash
  <2>2. ~Holds(w, e)'
    <3>1. CASE FinalizeError(w) /\ e = Evt(w).id
      BY <1>1, <3>1, TailHolds DEF FinalizeError
    <3>2. CASE Crash(w)
      BY <3>2 DEF Crash, DropBatch, TypeOK, Holds
    <3> QED
      BY <1>8, <3>1, <3>2
  <2> QED
    BY <1>1, <1>2, <2>1, <2>2, PaidStep
<1> QED
  BY <1>4, <1>5, <1>6, <1>7, <1>8 DEF Ends, Finalize, FinalizeError, MarkFailed

LEMMA PaidRest ==
  ASSUME TypeOK, TypeOK', NEW f \in Events, Create(f) \/ ClaimExpires(f) \/ BackoffPasses(f),
         NEW e \in Events, Paid(e)
  PROVE  Paid(e)'
<1>1. UNCHANGED <<claimedAt, workerVars, copies>>
  BY DEF Create, ClaimExpires, BackoffPasses
<1>2. Holders(e)' = Holders(e) /\ HeldBy(e)' = HeldBy(e)
  BY <1>1 DEF Holders, Holds, HeldBy, HoldsClaim, workerVars
<1>3. copies[e] \in Int /\ faults \in Int /\ Cardinality(Holders(e)) \in Int
  <2>1. Cardinality(Holders(e)) \in Nat
    BY FS_Subset, FS_CardinalityType, WorkersAssumption DEF Holders
  <2> QED
    BY <2>1, BoundsAssumption DEF TypeOK
<1>4. CASE faults' = faults + 1
  BY <1>1, <1>2, <1>3, <1>4 DEF Paid
<1>5. CASE faults' = faults /\ (Up(e)' => Up(e))
  BY <1>1, <1>2, <1>3, <1>5 DEF Paid
<1>6. Create(f) \/ BackoffPasses(f) => faults' = faults /\ (Up(e)' => Up(e))
  BY <1>2 DEF Create, BackoffPasses, Up, TypeOK
<1>7. ClaimExpires(f) => faults' = faults + 1 \/ (faults' = faults /\ (Up(e)' => Up(e)))
  BY <1>2 DEF ClaimExpires, Up, TypeOK
<1> QED
  BY <1>4, <1>5, <1>6, <1>7

LEMMA BudgetStep == TypeOK /\ TypeOK' /\ BudgetInv /\ [Next]_vars => BudgetInv'
<1> SUFFICES ASSUME TypeOK, TypeOK', BudgetInv, [Next]_vars PROVE BudgetInv'
  OBVIOUS
<1>1. Exclusive /\ Distinct /\ \A e \in Events : Paid(e)
  BY DEF BudgetInv, Exclusive, Paid
<1>2. ASSUME NEW e \in Events PROVE Paid(e)'
  <2>1. ASSUME NEW w \in Workers, Work(w) PROVE Paid(e)'
    BY <1>1, <2>1, PaidClaim, PaidPublish, PaidEnds DEF Work, Ends
  <2>2. ASSUME NEW f \in Events, Create(f) \/ ClaimExpires(f) \/ BackoffPasses(f) PROVE Paid(e)'
    BY <1>1, <2>2, PaidRest
  <2>3. CASE UNCHANGED vars
    BY <1>1, <2>3 DEF Paid, Holders, Holds, Up, HeldBy, HoldsClaim, vars, rowVars, workerVars
  <2> QED
    BY <2>1, <2>2, <2>3 DEF Next
<1>3. Exclusive' /\ Distinct'
  BY <1>1, ExclusiveStep, DistinctStep
<1> QED
  BY <1>2, <1>3 DEF BudgetInv, Exclusive, Paid

LEMMA InitBudget == Init => BudgetInv
<1> SUFFICES ASSUME Init PROVE BudgetInv
  OBVIOUS
<1>1. \A e \in Events : Holders(e) = {}
  BY DEF Init, Holders, Holds
<1>2. \A e \in Events : copies[e] = 0 /\ faults = 0
  BY DEF Init
<1>3. Cardinality({}) = 0
  BY FS_EmptySet
<1>4. \A e \in Events : Paid(e)
  BY <1>1, <1>2, <1>3 DEF Paid
<1> QED
  BY <1>4 DEF Init, BudgetInv, Distinct, Paid

\* With its strengthening the budget is inductive.
THEOREM BudgetHolds == Spec => []BudgetInv
<1>1. IInv /\ IInv' /\ BudgetInv /\ [Next]_vars => BudgetInv'
  BY BudgetStep DEF IInv
<1> QED
  BY <1>1, InitBudget, Invariance, PTL DEF Spec

\* For any number of workers, rows, retries and faults: every further copy of an event is paid
\* for by a crash, a lost confirm, a failed finalize or an overrun claim.
THEOREM CopiesNeedFaults == Spec => []DuplicatesOnlyByFault
<1>1. TypeOK /\ BudgetInv => DuplicatesOnlyByFault
  <2> SUFFICES ASSUME TypeOK, BudgetInv, NEW e \in Events PROVE copies[e] <= 1 + faults
    BY DEF DuplicatesOnlyByFault
  <2>1. Cardinality(Holders(e)) \in Nat
    BY FS_Subset, FS_CardinalityType, WorkersAssumption DEF Holders
  <2>2. copies[e] \in Nat /\ faults \in Nat
    BY BoundsAssumption DEF TypeOK
  <2>3. copies[e] + Cardinality(Holders(e)) + (IF Up(e) THEN 1 ELSE 0) <= 1 + faults
    BY DEF BudgetInv
  <2> QED
    BY <2>1, <2>2, <2>3
<1> QED
  BY <1>1, TypeCorrect, BudgetHolds, PTL

-----------------------------------------------------------------------------
(* The workers implement Delivery. *)

\* What a worker holds was committed.
Committed == \A w \in Workers : \A i \in 1 .. Len(batch[w]) : batch[w][i].id \in written

\* A committed row never disappears.
LEMMA WrittenStays == TypeOK /\ [Next]_vars => written \subseteq written'
<1> SUFFICES ASSUME TypeOK, [Next]_vars PROVE written \subseteq written'
  OBVIOUS
<1>1. ASSUME NEW w \in Workers, Claim(w) PROVE written \subseteq written'
  <2>1. PICK now \in Stamps \ StampsInUse, s \in Seq(Claimed), taken \in SUBSET Due : Claims(w, now, s, taken)
    BY <1>1, ClaimStep
  <2> QED
    BY <2>1 DEF Claims, written
<1>2. ASSUME NEW w \in Workers, Work(w), ~Claim(w) PROVE written \subseteq written'
  BY <1>2 DEF TypeOK, Work, Publish, PublishError, Finalize, FinalizeError, MarkFailed, MarkFailedError,
     Crash, DropBatch, rowVars, written
<1>3. ASSUME NEW e \in Events, Create(e) \/ ClaimExpires(e) \/ BackoffPasses(e) PROVE written \subseteq written'
  BY <1>3 DEF TypeOK, Create, ClaimExpires, BackoffPasses, written
<1>4. CASE UNCHANGED vars
  BY <1>4 DEF vars, rowVars, written
<1> QED
  BY <1>1, <1>2, <1>3, <1>4 DEF Next

LEMMA CommittedStep == TypeOK /\ Committed /\ [Next]_vars => Committed'
<1> SUFFICES ASSUME TypeOK, Committed, [Next]_vars PROVE Committed'
  OBVIOUS
<1>1. written \subseteq written'
  BY WrittenStays
<1>2. ASSUME NEW w \in Workers, Work(w) PROVE Committed'
  <2>1. \A v \in Workers \ {w} : batch'[v] = batch[v]
    BY <1>2, WorkAlone DEF OthersRest
  <2>2. \A i \in 1 .. Len(batch'[w]) : batch'[w][i].id \in written'
    <3>1. CASE Claim(w)
      <4>1. PICK now \in Stamps \ StampsInUse, s \in Seq(Claimed), taken \in SUBSET Due : Claims(w, now, s, taken)
        BY <3>1, ClaimStep
      <4>2. batch'[w] = s
        BY <4>1 DEF Claims, TypeOK
      <4>3. Due \subseteq written
        BY DEF Due, Claimable, written
      <4> QED
        BY <1>1, <4>1, <4>2, <4>3 DEF Claims
    <3>2. CASE Publish(w) \/ PublishError(w)
      BY <1>1, <3>2 DEF Publish, PublishError, Committed
    <3>3. CASE ~Idle(w) /\ NextEvent(w)
      <4>1. \A i \in 1 .. Len(batch'[w]) : batch'[w][i] = batch[w][i + 1] /\ i + 1 \in 1 .. Len(batch[w])
        BY <3>3, HeadOfBatch DEF NextEvent, TypeOK
      <4> QED
        BY <1>1, <4>1 DEF Committed
    <3>4. CASE DropBatch(w)
      BY <3>4 DEF DropBatch, TypeOK
    <3> QED
      BY <1>2, <3>1, <3>2, <3>3, <3>4 DEF Work, Finalize, FinalizeError, MarkFailed, MarkFailedError, Crash
  <2> QED
    BY <1>1, <2>1, <2>2 DEF Committed
<1>3. CASE UNCHANGED batch
  BY <1>1, <1>3 DEF Committed
<1> QED
  BY <1>2, <1>3 DEF Next, Create, ClaimExpires, BackoffPasses, vars, workerVars

\* The next copy of what a worker is about to publish is within the budget.
LEMMA HeadIsPaid ==
  ASSUME TypeOK, BudgetInv, Committed, NEW w \in Workers, Publishing(w)
  PROVE  Evt(w).id \in Events /\ Evt(w).id \in written /\ copies[Evt(w).id] <= faults
<1> DEFINE e == Evt(w).id
<1>1. Evt(w) \in Claimed /\ Evt(w) = batch[w][1] /\ 1 \in 1 .. Len(batch[w]) /\ ~published[w]
  BY HeadOfBatch DEF Publishing
<1>2. e \in Events /\ e \in written
  BY <1>1 DEF Claimed, Committed
<1>3. w \in Holders(e)
  BY <1>1 DEF Holders, Holds
<1>4. IsFiniteSet(Holders(e))
  BY FS_Subset, WorkersAssumption DEF Holders
<1>5. Cardinality(Holders(e)) \in Nat /\ Cardinality(Holders(e)) # 0
  BY <1>3, <1>4, FS_CardinalityType, FS_EmptySet
<1>6. copies[e] + Cardinality(Holders(e)) + (IF Up(e) THEN 1 ELSE 0) <= 1 + faults
  BY <1>2 DEF BudgetInv
<1>7. copies[e] \in Nat /\ faults \in Nat
  BY <1>2, BoundsAssumption DEF TypeOK
<1> HIDE DEF e
<1>8. copies[e] <= faults
  BY <1>5, <1>6, <1>7
<1> QED
  BY <1>2, <1>8 DEF e

LEMMA DeliveryStep ==
  IInv /\ BudgetInv /\ Committed /\ [Next]_vars => [Promise!DeliveryNext]_(Promise!deliveryVars)
<1> SUFFICES ASSUME IInv, BudgetInv, Committed, [Next]_vars
             PROVE  Promise!DeliveryNext \/ UNCHANGED <<written, copies, closed, faults>>
  BY DEF Promise!deliveryVars
<1>0. TypeOK
  BY DEF IInv
<1>1. ASSUME NEW w \in Workers, Claim(w) PROVE UNCHANGED <<written, copies, closed, faults>>
  <2>1. PICK now \in Stamps \ StampsInUse, s \in Seq(Claimed), taken \in SUBSET Due : Claims(w, now, s, taken)
    BY <1>0, <1>1, ClaimStep
  <2>2. \A e \in taken : status[e] \in {"PENDING", "FAILED", "PUBLISHING"}
    BY DEF Due, Claimable
  <2> QED
    BY <1>1, <2>1, <2>2 DEF Claim, Claims, written, closed
<1>2. ASSUME NEW w \in Workers, Publish(w) PROVE Promise!DeliveryNext
  <2>1. Evt(w).id \in Events /\ Evt(w).id \in written /\ copies[Evt(w).id] <= faults
    BY <1>0, <1>2, HeadIsPaid DEF Publish
  <2>2. UNCHANGED <<written, closed, faults>>
    BY <1>2 DEF Publish, rowVars, written, closed
  <2>3. Promise!Send(Evt(w).id)
    BY <1>2, <2>1, <2>2 DEF Publish, Promise!Send, Promise!Sent
  <2> QED
    BY <2>1, <2>3 DEF Promise!DeliveryNext
<1>3. ASSUME NEW w \in Workers, PublishError(w)
      PROVE  Promise!DeliveryNext \/ UNCHANGED <<written, copies, closed, faults>>
  <2>1. Evt(w).id \in Events /\ Evt(w).id \in written /\ copies[Evt(w).id] <= faults
    BY <1>0, <1>3, HeadIsPaid DEF PublishError
  <2>2. UNCHANGED <<written, closed>>
    BY <1>3 DEF PublishError, rowVars, written, closed
  <2>3. CASE faults' = faults + 1 /\ copies' = [copies EXCEPT ![Evt(w).id] = @ + 1]
    <3>1. Promise!Lapse
      BY <2>1, <2>2, <2>3 DEF Promise!Lapse, Promise!Sent
    <3> QED
      BY <3>1 DEF Promise!DeliveryNext
  <2> QED
    BY <1>3, <2>2, <2>3 DEF PublishError
<1>4. ASSUME NEW w \in Workers, Finalize(w)
      PROVE  Promise!DeliveryNext \/ UNCHANGED <<written, copies, closed, faults>>
  <2>1. Evt(w).id \in Events
    BY <1>0, <1>4, HeadOfBatch DEF Finalize, Claimed
  <2>2. copies[Evt(w).id] >= 1
    BY <1>4 DEF IInv, Sent, Finalize
  <2>3. CASE StillMine(w)
    <3>1. written' = written /\ closed' = closed \cup {Evt(w).id} /\ UNCHANGED <<copies, faults>>
      BY <1>0, <1>4, <2>1, <2>3 DEF Finalize, StillMine, TypeOK, written, closed
    <3>2. Promise!Close(Evt(w).id)
      BY <2>2, <3>1 DEF Promise!Close
    <3> QED
      BY <2>1, <3>2 DEF Promise!DeliveryNext
  <2>4. CASE ~StillMine(w)
    BY <1>4, <2>4 DEF Finalize, written, closed
  <2> QED
    BY <2>3, <2>4
<1>5. ASSUME NEW w \in Workers, MarkFailed(w) \/ MarkFailedError(w)
      PROVE  UNCHANGED <<written, copies, closed, faults>>
  BY <1>0, <1>5, HeadOfBatch DEF MarkFailed, MarkFailedError, DropBatch, StillMine, rowVars, TypeOK, written, closed
<1>6. ASSUME NEW w \in Workers, FinalizeError(w) \/ Crash(w) PROVE Promise!DeliveryNext
  <2>1. faults' = faults + 1 /\ UNCHANGED <<written, copies, closed>>
    BY <1>6 DEF FinalizeError, Crash, DropBatch, rowVars, written, closed
  <2>2. Promise!Lapse
    BY <2>1 DEF Promise!Lapse
  <2> QED
    BY <2>2 DEF Promise!DeliveryNext
<1>7. ASSUME NEW e \in Events, Create(e) PROVE Promise!DeliveryNext
  <2>1. written' = written \cup {e} /\ UNCHANGED <<copies, closed, faults>>
    BY <1>0, <1>7 DEF Create, TypeOK, written, closed
  <2>2. Promise!Write(e)
    BY <2>1 DEF Promise!Write
  <2> QED
    BY <2>2 DEF Promise!DeliveryNext
<1>8. ASSUME NEW e \in Events, ClaimExpires(e) \/ BackoffPasses(e)
      PROVE  Promise!DeliveryNext \/ UNCHANGED <<written, copies, closed, faults>>
  <2>1. UNCHANGED <<written, copies, closed>>
    BY <1>8 DEF ClaimExpires, BackoffPasses, written, closed
  <2>2. CASE faults' = faults + 1
    <3>1. Promise!Lapse
      BY <2>1, <2>2 DEF Promise!Lapse
    <3> QED
      BY <3>1 DEF Promise!DeliveryNext
  <2> QED
    BY <1>8, <2>1, <2>2 DEF ClaimExpires, BackoffPasses
<1>9. CASE UNCHANGED vars
  BY <1>9 DEF vars, rowVars, written, closed
<1> QED
  BY <1>1, <1>2, <1>3, <1>4, <1>5, <1>6, <1>7, <1>8, <1>9 DEF Next, Work

\* For any number of workers, rows, retries and faults the claim protocol delivers at least
\* once: no event is sent before it is written or closed before it is sent, and further copies
\* take faults.
THEOREM WorkersImplementDelivery == Spec => ImplementsDelivery
<1>1. Init => Promise!DeliveryInit
  BY DEF Init, Promise!DeliveryInit, written, closed
<1>2. Init => Committed
  BY DEF Init, Committed
<1>3. IInv /\ Committed /\ [Next]_vars => Committed'
  BY CommittedStep DEF IInv
<1>4. Spec => []Committed
  BY <1>2, <1>3, Invariance, PTL DEF Spec
<1> QED
  BY <1>1, <1>4, DeliveryStep, Invariance, BudgetHolds, PTL
  DEF Spec, ImplementsDelivery, Promise!DeliverySpec
=============================================================================
