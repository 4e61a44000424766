---------------------------- MODULE EventConsumer ----------------------------
(***************************************************************************)
(* RabbitMqConsumer (audit) and EmailConsumer over their two queues, for   *)
(* one outbox event: claim the row in processed_messages, dispatch, mark   *)
(* completed; on an error mark failed and publish a copy for a retry, or   *)
(* dead-letter.                                                            *)
(*                                                                         *)
(* Both consumers run the same code with a row of their own.  A queue      *)
(* holds copies of the event, which differ in their x-attempts header      *)
(* only.  A copy in the hands of a handler is unacknowledged and goes back *)
(* to its queue when the connection of its process closes.                 *)
(***************************************************************************)
EXTENDS Integers, FiniteSets

CONSTANTS
  Processes,   \* application processes, each consuming from every queue
  Queues,      \* the queues bound to the exchange, one consumer each
  Handlers,    \* calls of handleMessage that may be under way at once: <<process, queue, slot>>
  Types,       \* event types
  Unsupported, \* <<queue, type>> pairs the dispatcher of the queue refuses for good
  MaxRetries,  \* RABBITMQ_CONSUMER_MAX_RETRIES
  MaxFaults,   \* bound on crashes, lost connections, failed statements and overrun claims
  None

ASSUME UnsupportedAssumption == Unsupported \subseteq Queues \X Types
ASSUME TypesAssumption == None \notin Types
ASSUME ConsumerBounds ==
  MaxRetries \in Nat \ {0} /\ MaxFaults \in Nat

\* Nobody awaits handleMessage: a process is at work on as many copies of a queue as the broker
\* sends it before one is acknowledged, RABBITMQ_CONSUMER_PREFETCH at most.
ASSUME HandlersAssumption == Handlers \subseteq Processes \X Queues \X Nat /\ IsFiniteSet(Handlers)
ProcessOf(h) == h[1]
QueueOf(h) == h[2]
SlotOf(h) == h[3]

HandlersOf(p, q) == {h \in Handlers : ProcessOf(h) = p /\ QueueOf(h) = q}

VARIABLES
  type,      \* type of the event, None before it is published
  ready,     \* ready[q][n]: copies in q that were tried n times before
  row,       \* processed_messages row of each consumer
  expired,   \* the claim TTL of the row has passed
  pc,        \* where each handler is
  attempts,  \* x-attempts of the copy each handler has
  outcome,   \* what the error in its catch block leads to
  mine,      \* the copy is still this handler's to acknowledge
  up,        \* processes whose connection is open
  effects,   \* audit rows written, mails sent; 2 stands for several
  dead,      \* queues with a copy in their dead letter queue
  faults

rowVars == <<row, expired>>
handlerVars == <<pc, attempts, outcome, mine>>
vars == <<type, ready, rowVars, handlerVars, up, effects, dead, faults>>

Phase == {"idle", "dispatch", "complete", "fail", "settle", "ack"}

\* Values of x-attempts; the last one is never used.
Attempts == 0 .. MaxRetries + 1

TypeOK ==
  /\ type \in Types \cup {None}
  /\ ready \in [Queues -> [Attempts -> Nat]]
  /\ row \in [Queues -> {"ABSENT", "CLAIMED", "COMPLETED", "FAILED"}]
  /\ expired \in [Queues -> BOOLEAN]
  /\ pc \in [Handlers -> Phase]
  /\ attempts \in [Handlers -> 0 .. MaxRetries]
  /\ outcome \in [Handlers -> {"none", "retry", "giveUp"}]
  /\ mine \in [Handlers -> BOOLEAN]
  /\ up \subseteq Processes
  /\ effects \in [Queues -> 0 .. 2] /\ dead \subseteq Queues
  /\ faults \in 0 .. MaxFaults

Init ==
  /\ type = None
  /\ ready = [q \in Queues |-> [n \in Attempts |-> 0]]
  /\ row = [q \in Queues |-> "ABSENT"]
  /\ expired = [q \in Queues |-> FALSE]
  /\ pc = [h \in Handlers |-> "idle"]
  /\ attempts = [h \in Handlers |-> 0]
  /\ outcome = [h \in Handlers |-> "none"]
  /\ mine = [h \in Handlers |-> FALSE]
  /\ up = Processes
  /\ effects = [q \in Queues |-> 0] /\ dead = {}
  /\ faults = 0

-----------------------------------------------------------------------------
Goto(h, p) == pc' = [pc EXCEPT ![h] = p]
Fault == faults < MaxFaults /\ faults' = faults + 1

\* Seeded fault: one retry too many.
Catch_OffByOne(h, next, n, kind) ==
  /\ Goto(h, next)
  /\ outcome' = [outcome EXCEPT ![h] =
       IF kind = "transient" /\ n <= MaxRetries THEN "retry" ELSE "giveUp"]

\* An exception: a transient one is retried as long as the copy has attempts left.
Catch(h, next, n, kind) ==
  /\ Goto(h, next)
  /\ outcome' = [outcome EXCEPT ![h] =
       IF kind = "transient" /\ n + 1 <= MaxRetries THEN "retry" ELSE "giveUp"]

\* The exchange routes a copy to every queue, also a copy that one consumer sends for itself.
Fanout(n) == ready' = [q \in Queues |-> [ready[q] EXCEPT ![n] = @ + 1]]

\* OutboxService publishes the event (a second time only after a fault of its own, module
\* Outbox: such a copy meets the rows as the copies of a retry do).
PublishEvent ==
  /\ type = None /\ type' \in Types
  /\ Fanout(0)
  /\ UNCHANGED <<rowVars, handlerVars, up, effects, dead, faults>>

\* The first free slot of a process that is connected: which one it is tells nothing.
Ready(h) ==
  /\ pc[h] = "idle" /\ ProcessOf(h) \in up
  /\ \A g \in HandlersOf(ProcessOf(h), QueueOf(h)) : SlotOf(g) < SlotOf(h) => pc[g] # "idle"

\* h takes a copy from its queue; nothing but parsing happens before the claim.
Deliver(h) ==
  /\ Ready(h)
  /\ \E n \in Attempts :
       /\ ready[QueueOf(h)][n] > 0
       /\ ready' = [ready EXCEPT ![QueueOf(h)][n] = @ - 1]
       /\ attempts' = [attempts EXCEPT ![h] = n]
  /\ mine' = [mine EXCEPT ![h] = TRUE]

\* h is through with its copy.
Finish(h) ==
  /\ Goto(h, "idle")
  /\ attempts' = [attempts EXCEPT ![h] = 0]
  /\ outcome' = [outcome EXCEPT ![h] = "none"]
  /\ mine' = [mine EXCEPT ![h] = FALSE]

-----------------------------------------------------------------------------
(* The try block. *)

\* Seeded fault: a claim is taken over whatever its age.
Claimable_AnyClaim(q) == row[q] # "COMPLETED"

\* ON CONFLICT DO NOTHING, and the conditions of the takeover.
Claimable(q) ==
  \/ row[q] \in {"ABSENT", "FAILED"}
  \/ row[q] = "CLAIMED" /\ expired[q]

TakeClaim(q) ==
  /\ row' = [row EXCEPT ![q] = "CLAIMED"]
  /\ expired' = [expired EXCEPT ![q] = FALSE]

\* The TTL matters to a claim only.
CloseClaim(q, s) ==
  /\ row' = [row EXCEPT ![q] = s]
  /\ expired' = [expired EXCEPT ![q] = FALSE]

Claim(h) ==
  /\ Deliver(h)
  /\ Claimable(QueueOf(h)) /\ TakeClaim(QueueOf(h))
  /\ Goto(h, "dispatch")
  /\ UNCHANGED <<type, outcome, up, effects, dead, faults>>

\* A row that cannot be claimed makes the copy a duplicate: it is acknowledged and gone.
SkipDuplicate(h) ==
  /\ Ready(h)
  /\ ~Claimable(QueueOf(h))
  /\ \E n \in Attempts :
       /\ ready[QueueOf(h)][n] > 0
       /\ ready' = [ready EXCEPT ![QueueOf(h)][n] = @ - 1]
  /\ UNCHANGED <<type, rowVars, handlerVars, up, effects, dead, faults>>

\* The claim statement fails, with or without effect; markFailed is not called.
ClaimError(h) ==
  /\ Deliver(h) /\ Fault
  /\ \/ UNCHANGED rowVars
     \/ Claimable(QueueOf(h)) /\ TakeClaim(QueueOf(h))
  /\ \E e \in {"transient", "permanent"} : Catch(h, "settle", attempts'[h], e)
  /\ UNCHANGED <<type, up, effects, dead>>

AddEffect(h) == effects' = [effects EXCEPT ![QueueOf(h)] = IF @ = 0 THEN 1 ELSE 2]
Supported(h) == <<QueueOf(h), type>> \notin Unsupported

\* The audit row is written, the mail is sent.
Dispatch(h) ==
  /\ pc[h] = "dispatch" /\ Supported(h)
  /\ AddEffect(h)
  /\ Goto(h, "complete")
  /\ UNCHANGED <<type, ready, rowVars, attempts, outcome, mine, up, dead, faults>>

\* Seeded fault: the error is swallowed.
DispatchError_Swallowed(h) ==
  /\ pc[h] = "dispatch"
  /\ Goto(h, "complete")
  /\ UNCHANGED <<type, ready, rowVars, attempts, outcome, mine, up, effects, dead, faults>>

\* An unsupported type is permanent; any other failure depends on its cause.
DispatchError(h) ==
  /\ pc[h] = "dispatch"
  /\ \/ Catch(h, "fail", attempts[h], "permanent") /\ UNCHANGED <<effects, faults>>
     \/ /\ Supported(h) /\ Catch(h, "fail", attempts[h], "transient")
        /\ \/ UNCHANGED <<effects, faults>>
           \/ AddEffect(h) /\ Fault
  /\ UNCHANGED <<type, ready, rowVars, attempts, mine, up, dead>>

\* markCompleted: zero rows updated is a transient error.
Complete(h) ==
  /\ pc[h] = "complete"
  /\ IF row[QueueOf(h)] = "CLAIMED"
     THEN CloseClaim(QueueOf(h), "COMPLETED") /\ Goto(h, "ack") /\ UNCHANGED outcome
     ELSE Catch(h, "fail", attempts[h], "transient") /\ UNCHANGED rowVars
  /\ UNCHANGED <<type, ready, attempts, mine, up, effects, dead, faults>>

CompleteError(h) ==
  /\ pc[h] = "complete" /\ Fault
  /\ \/ UNCHANGED rowVars
     \/ row[QueueOf(h)] = "CLAIMED" /\ CloseClaim(QueueOf(h), "COMPLETED")
  /\ \E e \in {"transient", "permanent"} : Catch(h, "fail", attempts[h], e)
  /\ UNCHANGED <<type, ready, attempts, mine, up, effects, dead>>

-----------------------------------------------------------------------------
(* The catch block. *)

\* markFailed has no condition on the row; its own error is only logged.
MarkFailed(h) ==
  /\ pc[h] = "fail"
  /\ \/ CloseClaim(QueueOf(h), "FAILED") /\ UNCHANGED faults
     \/ UNCHANGED rowVars /\ Fault
  /\ Goto(h, "settle")
  /\ UNCHANGED <<type, ready, attempts, outcome, mine, up, effects, dead>>

\* republishForRetry: the copy is sent on the channel, the acknowledgement follows it.
Republish(h) ==
  /\ pc[h] = "settle" /\ mine[h] /\ outcome[h] = "retry"
  /\ Fanout(attempts[h] + 1)
  /\ Goto(h, "ack")
  /\ UNCHANGED <<type, rowVars, attempts, outcome, mine, up, effects, dead, faults>>

\* It returns false when the write buffer is full: sent all the same, and the original nacked.
RepublishBlocked(h) ==
  /\ pc[h] = "settle" /\ mine[h] /\ outcome[h] = "retry" /\ Fault
  /\ Fanout(attempts[h] + 1)
  /\ dead' = dead \cup {QueueOf(h)}
  /\ Finish(h)
  /\ UNCHANGED <<type, rowVars, up, effects>>

\* safeAck: on a closed channel it is skipped.
Ack(h) ==
  /\ pc[h] = "ack"
  /\ Finish(h)
  /\ UNCHANGED <<type, ready, rowVars, up, effects, dead, faults>>

\* Seeded fault: the message is put back.
Nack_Requeue(h) ==
  /\ pc[h] = "settle" /\ outcome[h] = "giveUp"
  /\ ready' = IF mine[h] THEN [ready EXCEPT ![QueueOf(h)][attempts[h]] = @ + 1] ELSE ready
  /\ Finish(h)
  /\ UNCHANGED <<type, rowVars, up, effects, dead, faults>>

\* Seeded fault: ack instead of nack.
Nack_Acks(h) ==
  /\ pc[h] = "settle" /\ outcome[h] = "giveUp"
  /\ Finish(h)
  /\ UNCHANGED <<type, ready, rowVars, up, effects, dead, faults>>

\* safeNack with requeue = false: the dead letter exchange takes the copy, if the channel lives.
Nack(h) ==
  /\ pc[h] = "settle" /\ outcome[h] = "giveUp"
  /\ dead' = IF mine[h] THEN dead \cup {QueueOf(h)} ELSE dead
  /\ Finish(h)
  /\ UNCHANGED <<type, ready, rowVars, up, effects, faults>>

-----------------------------------------------------------------------------
(* Failures and time. *)

\* The handlers of p whose copy of q, tried n times before, has not been acknowledged.
Unacked(p, q, n) == {h \in HandlersOf(p, q) : mine[h] /\ attempts[h] = n}

\* The broker puts the unacknowledged copies of p back.
Requeue(p) ==
  ready' = [q \in Queues |-> [n \in Attempts |-> ready[q][n] + Cardinality(Unacked(p, q, n))]]

\* The connection closes and is not opened again; handlers under way go on without it.
ConnectionCloses(p) ==
  /\ p \in up /\ Fault
  /\ up' = up \ {p}
  /\ Requeue(p)
  /\ mine' = [h \in Handlers |-> mine[h] /\ ProcessOf(h) # p]
  /\ UNCHANGED <<type, rowVars, pc, attempts, outcome, effects, dead>>

\* The process ends and another takes its place.
Restart(p) ==
  LET keep(f, x) == [h \in Handlers |-> IF ProcessOf(h) = p THEN x ELSE f[h]]
  IN /\ up' = up \cup {p}
     /\ Requeue(p)
     /\ pc' = keep(pc, "idle") /\ attempts' = keep(attempts, 0)
     /\ outcome' = keep(outcome, "none") /\ mine' = keep(mine, FALSE)
     /\ UNCHANGED <<type, rowVars, effects, dead>>

Crash(p) ==
  /\ \E h \in Handlers : ProcessOf(h) = p /\ pc[h] # "idle"
  /\ Fault /\ Restart(p)

\* channel.publish throws on a closed channel, out of the catch block of a promise that
\* nobody awaits: the process ends.
RepublishThrows(h) ==
  /\ pc[h] = "settle" /\ ~mine[h] /\ outcome[h] = "retry"
  /\ Restart(ProcessOf(h)) /\ UNCHANGED faults

\* Handlers that believe to have the claim of q.
Claimants(q) == {h \in Handlers : QueueOf(h) = q /\ pc[h] \in {"dispatch", "complete", "fail"}}

ClaimExpires(q) ==
  /\ row[q] = "CLAIMED" /\ ~expired[q]
  /\ expired' = [expired EXCEPT ![q] = TRUE]
  /\ IF Claimants(q) = {} THEN UNCHANGED faults ELSE Fault
  /\ UNCHANGED <<type, ready, row, handlerVars, up, effects, dead>>

-----------------------------------------------------------------------------
Advance(h) ==
  \/ Claim(h) \/ SkipDuplicate(h) \/ ClaimError(h) \/ Dispatch(h) \/ DispatchError(h)
  \/ Complete(h) \/ CompleteError(h) \/ MarkFailed(h)
  \/ Republish(h) \/ RepublishBlocked(h) \/ RepublishThrows(h) \/ Ack(h) \/ Nack(h)

Next ==
  \/ PublishEvent
  \/ \E h \in Handlers : Advance(h)
  \/ \E p \in Processes : ConnectionCloses(p) \/ Crash(p)
  \/ \E q \in Queues : ClaimExpires(q)

Spec == Init /\ [][Next]_vars

\* As long as something is left that a handler can do, some handler does it: the broker delivers,
\* Node runs the calls under way. Nothing is said about which one.
Fairness == WF_vars(\E h \in Handlers : Advance(h))
FairSpec == Spec /\ Fairness

-----------------------------------------------------------------------------
\* Copies of the event that are queued at q or with a handler that will answer for them.
InFlight(q) ==
  \/ \E n \in Attempts : ready[q][n] > 0
  \/ \E h \in Handlers : QueueOf(h) = q /\ pc[h] # "idle"

\* COMPLETED is written only after the effect, by whichever handler: a takeover, a late
\* handler or a retry of the other queue cannot complete an event nobody handled.
CompletedHasEffect == \A q \in Queues : row[q] = "COMPLETED" => effects[q] >= 1

\* Without faults nothing takes effect twice: a retry of one consumer goes to both queues, and
\* the other consumer, done with the event or at work on it in any process, drops the copy.
EffectOnce == faults = 0 => \A q \in Queues : effects[q] <= 1

\* A published event that is no longer on its way at a queue has taken effect there or is a
\* dead letter; where a fault broke that, its row still says CLAIMED or FAILED: no event
\* disappears without a trace in processed_messages.
DropsLeaveTrace ==
  \A q \in Queues : type # None /\ ~InFlight(q) =>
    \/ effects[q] >= 1 \/ q \in dead
    \/ faults > 0 /\ row[q] \in {"CLAIMED", "FAILED"}

\* At-least-once: no copy left means the event took effect or is a dead letter
\* ("Outbox + dedup (at-least-once)", README.md:263).
AtLeastOnce ==
  \A q \in Queues : type # None /\ ~InFlight(q) => effects[q] >= 1 \/ q \in dead

\* A process that still consumes from q.
Consumed(q) == \E h \in Handlers : QueueOf(h) = q /\ ProcessOf(h) \in up

\* Retries end: whatever fails, however the retries of the two consumers feed each other, a queue
\* that is consumed runs empty in the end.
QueuesDrain == \A q \in Queues : []<>Consumed(q) => <>[](~InFlight(q))
=============================================================================
