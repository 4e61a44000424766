-------------------------------- MODULE Outbox --------------------------------
(***************************************************************************)
(* OutboxService.processPendingEvents run by the OutboxWorker of several   *)
(* application processes over one `events' table.                          *)
(*                                                                         *)
(* A claim is one SQL statement and stamps its rows with claimed_at, which *)
(* later updates compare for equality only: claim stamps are drawn from a  *)
(* finite set, each time one that no row and no worker still uses.  Clock  *)
(* comparisons (claim TTL, next_retry_at) become facts that turn true some *)
(* time after the row is written.                                          *)
(***************************************************************************)
EXTENDS Integers, FiniteSets, Sequences, SequencesExt

CONSTANTS
  Events,       \* outbox rows, numbered in created_at order
  Workers,      \* application processes, one polling worker each
  Stamps,       \* claim stamps
  NoStamp,      \* claimed_at IS NULL
  BatchSize,    \* OUTBOX_BATCH_SIZE
  MaxRetries,   \* OUTBOX_MAX_RETRIES
  MaxFaults     \* bound on crashes, lost confirms, failed finalizes and slow workers

ASSUME EventsAssumption == Events \subseteq Nat /\ IsFiniteSet(Events)
ASSUME WorkersAssumption == IsFiniteSet(Workers)
ASSUME StampsAssumption == NoStamp \notin Stamps
ASSUME BoundsAssumption == BatchSize \in Nat \ {0} /\ MaxRetries \in Nat \ {0} /\ MaxFaults \in Nat

VARIABLES
  status,      \* status column of each row ("ABSENT" before the row is committed)
  retryCount,  \* retry_count; one past MaxRetries stands for every larger value
  retryAt,     \* next_retry_at: "none" is NULL, "future", "past"
  claimedAt,   \* claim stamp of each row
  expired,     \* the claim TTL of the row has passed
  batch,       \* what each worker still has to handle, head first
  published,   \* worker has a confirm for the head of its batch
  failing,     \* worker is in the catch block for the head of its batch
  copies,      \* how often each event reached the exchange
  faults       \* number of faults so far

rowVars == <<status, retryCount, retryAt, claimedAt, expired>>
workerVars == <<batch, published, failing>>
vars == <<rowVars, workerVars, copies, faults>>

Status == {"ABSENT", "PENDING", "PUBLISHING", "FAILED", "PROCESSED"}

\* A claimed row as the claim statement returned it.
Claimed == [id: Events, retryCount: 0 .. MaxRetries + 1, claimedAt: Stamps]

TypeOK ==
  /\ status \in [Events -> Status]
  /\ retryCount \in [Events -> 0 .. MaxRetries + 1]
  /\ retryAt \in [Events -> {"none", "future", "past"}]
  /\ claimedAt \in [Events -> Stamps \cup {NoStamp}]
  /\ expired \in [Events -> BOOLEAN]
  /\ batch \in [Workers -> Seq(Claimed)]
  /\ published \in [Workers -> BOOLEAN]
  /\ failing \in [Workers -> BOOLEAN]
  /\ copies \in [Events -> Nat]
  /\ faults \in 0 .. MaxFaults

Init ==
  /\ status = [e \in Events |-> "ABSENT"]
  /\ retryCount = [e \in Events |-> 0]
  /\ retryAt = [e \in Events |-> "none"]
  /\ claimedAt = [e \in Events |-> NoStamp]
  /\ expired = [e \in Events |-> FALSE]
  /\ batch = [w \in Workers |-> <<>>]
  /\ published = [w \in Workers |-> FALSE]
  /\ failing = [w \in Workers |-> FALSE]
  /\ copies = [e \in Events |-> 0]
  /\ faults = 0

-----------------------------------------------------------------------------
\* Seeded faults: no TTL on a claim, or no way back from a claim.
Claimable_AnyPublishing(e) ==
  \/ status[e] \in {"PENDING", "PUBLISHING"}
  \/ status[e] = "FAILED" /\ retryAt[e] \in {"none", "past"}
Claimable_NoReclaim(e) ==
  \/ status[e] = "PENDING"
  \/ status[e] = "FAILED" /\ retryAt[e] \in {"none", "past"}

\* The WHERE clause of claimNextBatch.
Claimable(e) ==
  \/ status[e] = "PENDING"
  \/ status[e] = "FAILED" /\ retryAt[e] \in {"none", "past"}
  \/ status[e] = "PUBLISHING" /\ claimedAt[e] # NoStamp /\ expired[e]

Due == {e \in Events : Claimable(e)}

\* ORDER BY created_at LIMIT batchSize, in any order: UPDATE ... RETURNING keeps none.
Batches ==
  {s \in UNION {[1 .. n -> Due] : n \in 1 .. BatchSize} :
     /\ IsInjective(s)
     /\ \A e \in Due \ ToSet(s) : Len(s) = BatchSize /\ \A i \in DOMAIN s : s[i] < e}

StampsInUse ==
  {claimedAt[e] : e \in Events} \cup UNION {{c.claimedAt : c \in ToSet(batch[w])} : w \in Workers}

Idle(w) == batch[w] = <<>>

\* Another transaction commits its event with status PENDING.
Create(e) ==
  /\ status[e] = "ABSENT"
  /\ status' = [status EXCEPT ![e] = "PENDING"]
  /\ UNCHANGED <<retryCount, retryAt, claimedAt, expired, workerVars, copies, faults>>

\* claimNextBatch: one statement, so two workers never claim a row at once (SKIP LOCKED).
\* Stamps is the bound that keeps claimed_at finite; an unused one is always left.
Claim(w) ==
  /\ Idle(w) /\ Stamps \ StampsInUse # {}
  /\ \E rows \in Batches :
       LET now == CHOOSE s \in Stamps \ StampsInUse : TRUE
           taken == ToSet(rows)
       IN /\ status' = [e \in Events |-> IF e \in taken THEN "PUBLISHING" ELSE status[e]]
          /\ claimedAt' = [e \in Events |-> IF e \in taken THEN now ELSE claimedAt[e]]
          /\ expired' = [e \in Events |-> IF e \in taken THEN FALSE ELSE expired[e]]
          /\ batch' = [batch EXCEPT ![w] =
               [i \in DOMAIN rows |->
                  [id |-> rows[i], retryCount |-> retryCount[rows[i]], claimedAt |-> now]]]
  /\ UNCHANGED <<retryCount, retryAt, published, failing, copies, faults>>

-----------------------------------------------------------------------------
(* The loop body, for the head of the batch. *)

Evt(w) == Head(batch[w])
Publishing(w) == ~Idle(w) /\ ~published[w] /\ ~failing[w]

\* Seeded fault: the claim stamp is not compared.
StillMine_StatusOnly(w) == status[Evt(w).id] = "PUBLISHING"

\* The row is still the one this worker claimed.
StillMine(w) == status[Evt(w).id] = "PUBLISHING" /\ claimedAt[Evt(w).id] = Evt(w).claimedAt

NextEvent(w) ==
  /\ batch' = [batch EXCEPT ![w] = Tail(@)]
  /\ published' = [published EXCEPT ![w] = FALSE]
  /\ failing' = [failing EXCEPT ![w] = FALSE]

\* Seeded fault: the confirm is not awaited.
Publish_Unconfirmed(w) ==
  /\ Publishing(w)
  /\ \/ copies' = [copies EXCEPT ![Evt(w).id] = @ + 1]
     \/ UNCHANGED copies
  /\ published' = [published EXCEPT ![w] = TRUE]
  /\ UNCHANGED <<rowVars, batch, failing, faults>>

\* The broker has the message and confirms it.
Publish(w) ==
  /\ Publishing(w)
  /\ copies' = [copies EXCEPT ![Evt(w).id] = @ + 1]
  /\ published' = [published EXCEPT ![w] = TRUE]
  /\ UNCHANGED <<rowVars, batch, failing, faults>>

\* No channel, a nack, or a confirm that never comes: the message may be in the exchange.
PublishError(w) ==
  /\ Publishing(w)
  /\ failing' = [failing EXCEPT ![w] = TRUE]
  /\ \/ UNCHANGED <<copies, faults>>
     \/ /\ faults < MaxFaults /\ faults' = faults + 1
        /\ copies' = [copies EXCEPT ![Evt(w).id] = @ + 1]
  /\ UNCHANGED <<rowVars, batch, published>>

\* The guarded update to PROCESSED; with count 0 the row belongs to somebody else by now.
Finalize(w) ==
  /\ ~Idle(w) /\ published[w]
  /\ IF StillMine(w)
     THEN /\ status' = [status EXCEPT ![Evt(w).id] = "PROCESSED"]
          /\ retryAt' = [retryAt EXCEPT ![Evt(w).id] = "none"]
          /\ claimedAt' = [claimedAt EXCEPT ![Evt(w).id] = NoStamp]
          /\ expired' = [expired EXCEPT ![Evt(w).id] = FALSE]
     ELSE UNCHANGED <<status, retryAt, claimedAt, expired>>
  /\ NextEvent(w)
  /\ UNCHANGED <<retryCount, copies, faults>>

\* The update fails after the publish: logged, the row stays PUBLISHING.
FinalizeError(w) ==
  /\ ~Idle(w) /\ published[w]
  /\ faults < MaxFaults /\ faults' = faults + 1
  /\ NextEvent(w)
  /\ UNCHANGED <<rowVars, copies>>

\* Seeded fault: the retries are not counted against their maximum.
MarkFailed_RetryForever(w) ==
  /\ ~Idle(w) /\ failing[w] /\ StillMine(w)
  /\ status' = [status EXCEPT ![Evt(w).id] = "FAILED"]
  /\ retryCount' = [retryCount EXCEPT ![Evt(w).id] = Evt(w).retryCount + 1]
  /\ retryAt' = [retryAt EXCEPT ![Evt(w).id] = "future"]
  /\ claimedAt' = [claimedAt EXCEPT ![Evt(w).id] = NoStamp]
  /\ NextEvent(w)
  /\ UNCHANGED <<expired, copies, faults>>

\* The catch block: FAILED with a backoff, or with no next_retry_at once retries are used up.
MarkFailed(w) ==
  /\ ~Idle(w) /\ failing[w]
  /\ LET nextRetryCount == Evt(w).retryCount + 1
         shouldRetry == nextRetryCount <= MaxRetries
     IN IF StillMine(w)
        THEN /\ status' = [status EXCEPT ![Evt(w).id] = "FAILED"]
             /\ retryCount' = [retryCount EXCEPT ![Evt(w).id] =
                  IF shouldRetry THEN nextRetryCount ELSE MaxRetries + 1]
             /\ retryAt' = [retryAt EXCEPT ![Evt(w).id] = IF shouldRetry THEN "future" ELSE "none"]
             /\ claimedAt' = [claimedAt EXCEPT ![Evt(w).id] = NoStamp]
             /\ expired' = [expired EXCEPT ![Evt(w).id] = FALSE]
        ELSE UNCHANGED rowVars
  /\ NextEvent(w)
  /\ UNCHANGED <<copies, faults>>

DropBatch(w) ==
  /\ batch' = [batch EXCEPT ![w] = <<>>]
  /\ published' = [published EXCEPT ![w] = FALSE]
  /\ failing' = [failing EXCEPT ![w] = FALSE]
  /\ UNCHANGED <<rowVars, copies>>

\* The update to FAILED throws out of the loop: tick logs it, the rest of the batch is dropped.
MarkFailedError(w) ==
  /\ ~Idle(w) /\ failing[w]
  /\ DropBatch(w)
  /\ UNCHANGED faults

\* The process dies and polls again after its restart.
Crash(w) ==
  /\ ~Idle(w)
  /\ faults < MaxFaults /\ faults' = faults + 1
  /\ DropBatch(w)

-----------------------------------------------------------------------------
(* Time. *)

\* Worker w still has to handle row e under the claim that the row carries.
HoldsClaim(w, e) ==
  \E i \in 1 .. Len(batch[w]) : batch[w][i].id = e /\ batch[w][i].claimedAt = claimedAt[e]

HeldBy(e) == {w \in Workers : HoldsClaim(w, e)}

\* The claim TTL passes; when its worker is merely slow that counts as a fault.
ClaimExpires(e) ==
  /\ status[e] = "PUBLISHING" /\ ~expired[e]
  /\ expired' = [expired EXCEPT ![e] = TRUE]
  /\ IF HeldBy(e) = {} THEN UNCHANGED faults
                       ELSE faults < MaxFaults /\ faults' = faults + 1
  /\ UNCHANGED <<status, retryCount, retryAt, claimedAt, workerVars, copies>>

BackoffPasses(e) ==
  /\ retryAt[e] = "future"
  /\ retryAt' = [retryAt EXCEPT ![e] = "past"]
  /\ UNCHANGED <<status, retryCount, claimedAt, expired, workerVars, copies, faults>>

-----------------------------------------------------------------------------
Work(w) ==
  Claim(w) \/ Publish(w) \/ PublishError(w) \/ Finalize(w) \/ FinalizeError(w)
    \/ MarkFailed(w) \/ MarkFailedError(w) \/ Crash(w)

Next ==
  \/ \E w \in Workers : Work(w)
  \/ \E e \in Events : Create(e) \/ ClaimExpires(e) \/ BackoffPasses(e)

Spec == Init /\ [][Next]_vars

\* The interval timer polls and the loop goes on; time passes; a broker that is tried again
\* and again accepts in the end.  Faults are finitely many.
Fairness ==
  /\ \A w \in Workers : /\ WF_vars(Claim(w)) /\ SF_vars(Publish(w))
                        /\ WF_vars(Publish(w) \/ PublishError(w))
                        /\ WF_vars(Finalize(w) \/ FinalizeError(w))
                        /\ WF_vars(MarkFailed(w) \/ MarkFailedError(w))
  /\ \A e \in Events : WF_vars(ClaimExpires(e)) /\ WF_vars(BackoffPasses(e))
FairSpec == Spec /\ Fairness

-----------------------------------------------------------------------------
\* An event is PROCESSED only after the exchange has it, whichever worker finalised it.
NoLostEvent == \A e \in Events : status[e] = "PROCESSED" => copies[e] >= 1

\* An event is published again only after a crash, a lost confirm, a failed finalize or an
\* overrun claim: workers polling side by side never publish the same claim twice.
DuplicatesOnlyByFault == \A e \in Events : copies[e] <= 1 + faults

\* A worker that comes back late, after its claim was taken over, neither reopens a PROCESSED
\* event nor turns back the retry count (the claimedAt condition of both updates).
ForwardOnly ==
  [][\A e \in Events :
       /\ status[e] = "PROCESSED" => status'[e] = "PROCESSED"
       /\ retryCount'[e] >= retryCount[e]]_vars

\* An event whose retries are used up is left alone ("retried with exponential backoff until
\* max retries", README.md:246).
StopsAtMaxRetries ==
  [][\A e \in Events :
       status[e] = "FAILED" /\ retryCount[e] > MaxRetries => status'[e] = "FAILED"]_vars

(* The outbox implements Delivery. *)
written == {e \in Events : status[e] # "ABSENT"}
closed == {e \in Events : status[e] = "PROCESSED"}
Promise ==
  INSTANCE Delivery WITH written <- written, copies <- copies, closed <- closed, lapses <- faults

\* Whatever the workers do with claims, retries and clocks is, seen from the events, one of: write,
\* send, lapse, close.  No event is sent before its transaction commits, closed before it was sent,
\* reopened, or sent again without a fault.
ImplementsDelivery == Promise!DeliverySpec

\* Every committed event is published and finalised in the end: crashes and slow workers are
\* made good by the claim TTL.
EveryEventProcessed == \A e \in Events : status[e] = "PENDING" ~> status[e] = "PROCESSED"

-----------------------------------------------------------------------------
(* Why there are no more copies than faults allow. *)

\* Worker w is still going to publish event e.
Holds(w, e) ==
  \E i \in 1 .. Len(batch[w]) : batch[w][i].id = e /\ ~(i = 1 /\ published[w])

Holders(e) == {w \in Workers : Holds(w, e)}

\* Whether e is, or without another fault will be, up for a claim.
Up(e) ==
  \/ status[e] \in {"ABSENT", "PENDING", "FAILED"}
  \/ status[e] = "PUBLISHING" /\ (expired[e] \/ HeldBy(e) = {})

\* No row is twice in a batch.
Distinct ==
  \A w \in Workers : \A i, j \in 1 .. Len(batch[w]) : batch[w][i].id = batch[w][j].id => i = j

\* The copies, and those still to come, are paid for.
BudgetInv ==
  /\ \A w \in Workers : ~(published[w] /\ failing[w])
  /\ Distinct
  /\ \A e \in Events : copies[e] + Cardinality(Holders(e)) + (IF Up(e) THEN 1 ELSE 0) <= 1 + faults
=============================================================================
