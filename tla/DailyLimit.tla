------------------------------ MODULE DailyLimit ------------------------------
(***************************************************************************)
(* The daily limit of one customer: DailyTransferLimitExceededRule (the    *)
(* withdraw rule is the same code over other keys), its reservations in    *)
(* Redis, and the handlers of TransactionsService that reserve before the  *)
(* database transaction and give back when it fails.                       *)
(*                                                                         *)
(* A database transaction is one step here; module Transactions opens it   *)
(* up.  Days are the UTC day buckets of the Redis keys.  The variable      *)
(* `slips' records, where they happen, the events that make a reservation  *)
(* and the money that moved disagree.                                      *)
(***************************************************************************)
EXTENDS Integers, FiniteSets, FiniteSetsExt

CONSTANTS
  Handlers,   \* handler invocations; a client retry is another handler
  Refs,       \* reference ids of the customer
  MaxAmount,  \* amounts are 1 .. MaxAmount
  Limit,      \* FRAUD_DAILY_TRANSFER_LIMIT
  LastDay,    \* bound on the calendar
  MaxFaults,  \* bound on Redis errors, lost acknowledgements and crashes
  None

ASSUME DailyAssumption ==
  MaxAmount \in Nat \ {0} /\ Limit \in Nat /\ LastDay \in Nat /\ MaxFaults \in Nat
ASSUME NoneAssumption == None \notin [ref: Refs, amount: 1 .. MaxAmount]

VARIABLES
  cmd,       \* the command each handler carries
  pc,        \* where each handler is
  today,     \* day bucket of the clock
  total,     \* fraud:transfer:daily:<day>, 0 when absent
  reserved,  \* fraud:transfer:daily:ref:<day>:<ref>, 0 when absent
  released,  \* fraud:transfer:daily:released:<day>:<ref>
  posted,    \* COMPLETED transaction rows
  rejected,  \* references with a REJECTED row
  slips,     \* what has gone wrong so far, by name
  faults     \* number of faults so far

redis == <<total, reserved, released>>
rows == <<posted, rejected>>
vars == <<cmd, pc, today, redis, rows, slips, faults>>

Days == 0 .. LastDay
Commands == [ref: Refs, amount: 1 .. MaxAmount]
Rows == [ref: Refs, amount: 1 .. MaxAmount, day: Days]
Slip == {"redis", "twin", "amount", "midnight"}
Phase == {"idle", "lookup", "reserve", "aggregate", "execute", "reject", "release", "done"}

TypeOK ==
  /\ cmd \in [Handlers -> Commands \cup {None}]
  /\ pc \in [Handlers -> Phase]
  /\ today \in Days
  /\ total \in [Days -> 0 .. Limit]
  /\ reserved \in [Days -> [Refs -> 0 .. MaxAmount]]
  /\ released \in [Days -> SUBSET Refs]
  /\ posted \subseteq Rows
  /\ rejected \subseteq Refs
  /\ slips \subseteq Slip
  /\ faults \in 0 .. MaxFaults

Init ==
  /\ cmd = [h \in Handlers |-> None]
  /\ pc = [h \in Handlers |-> "idle"]
  /\ today = 0
  /\ total = [d \in Days |-> 0]
  /\ reserved = [d \in Days |-> [r \in Refs |-> 0]]
  /\ released = [d \in Days |-> {}]
  /\ posted = {} /\ rejected = {}
  /\ slips = {} /\ faults = 0

-----------------------------------------------------------------------------
Ref(h) == cmd[h].ref
Amount(h) == cmd[h].amount
Goto(h, p) == pc' = [pc EXCEPT ![h] = p]
Fault == faults < MaxFaults /\ faults' = faults + 1
Active(h) == pc[h] \notin {"idle", "done"}

RowExists(r) == r \in rejected \/ \E p \in posted : p.ref = r

\* Another handler of this reference is under way, or the reference is already posted
\* (by another handler, or by this one when the acknowledgement of its commit was lost).
HasTwin(h) ==
  \/ \E g \in Handlers \ {h} : Active(g) /\ Ref(g) = Ref(h)
  \/ \E p \in posted : p.ref = Ref(h)

SumOn(d, S) == SumFunctionOnSet([p \in S |-> p.amount], {p \in S : p.day = d})

-----------------------------------------------------------------------------
Submit(h) ==
  /\ pc[h] = "idle"
  /\ \E c \in Commands : cmd' = [cmd EXCEPT ![h] = c]
  /\ Goto(h, "lookup")
  /\ UNCHANGED <<today, redis, rows, slips, faults>>

\* findExisting: a reference with a row is answered from it, no rule is evaluated.
FindExisting(h) ==
  /\ pc[h] = "lookup"
  /\ Goto(h, IF RowExists(Ref(h)) THEN "done" ELSE "reserve")
  /\ UNCHANGED <<cmd, today, redis, rows, slips, faults>>

\* A rule in front of this one rejects (amount, same account, transfers per minute).
RejectEarlier(h) ==
  /\ pc[h] = "reserve"
  /\ Goto(h, "reject")
  /\ UNCHANGED <<cmd, today, redis, rows, slips, faults>>

\* Seeded faults: the limit is compared before the amount is added, or a repeated
\* reservation of a reference is added again.
Fits_BeforeAdding(h) == total[today] <= Limit
AlreadyReserved_Ignored(h) == FALSE

\* The comparison and the EXISTS test of RESERVE_LUA.
Fits(h) == total[today] + Amount(h) <= Limit
AlreadyReserved(h) == reserved[today][Ref(h)] > 0

\* RESERVE_LUA, one atomic script.
ReserveScript(h) ==
  IF AlreadyReserved(h) \/ ~Fits(h)
  THEN UNCHANGED <<total, reserved>>
  ELSE /\ total' = [total EXCEPT ![today] = @ + Amount(h)]
       /\ reserved' = [reserved EXCEPT ![today][Ref(h)] = Amount(h)]

\* A reference that is already reserved passes with the amount of its first command.
Reserve(h) ==
  /\ pc[h] = "reserve"
  /\ ReserveScript(h)
  /\ Goto(h, IF AlreadyReserved(h) \/ Fits(h) THEN "execute" ELSE "reject")
  /\ slips' = IF AlreadyReserved(h) /\ reserved[today][Ref(h)] # Amount(h)
              THEN slips \cup {"amount"} ELSE slips
  /\ UNCHANGED <<cmd, today, released, rows, faults>>

\* The call fails, before or after the script ran: the database is asked instead.
RedisError(h) ==
  /\ pc[h] = "reserve" /\ Fault
  /\ \/ UNCHANGED <<total, reserved>>
     \/ ReserveScript(h)
  /\ slips' = slips \cup {"redis"}
  /\ Goto(h, "aggregate")
  /\ UNCHANGED <<cmd, today, released, rows>>

FitsInDb(h) == SumOn(today, posted) + Amount(h) <= Limit

\* evaluateFromDb: the rows of today; an error of the query rejects.
EvaluateFromDb(h) ==
  /\ pc[h] = "aggregate"
  /\ \/ FitsInDb(h) /\ Goto(h, "execute")
     \/ Goto(h, "reject")
  /\ UNCHANGED <<cmd, today, redis, rows, slips, faults>>

-----------------------------------------------------------------------------
(* The database transaction. *)

\* A fraud rejection is recorded, then thrown.
CreateRejected(h) ==
  /\ pc[h] = "reject" /\ ~RowExists(Ref(h))
  /\ rejected' = rejected \cup {Ref(h)}
  /\ Goto(h, "release")
  /\ UNCHANGED <<cmd, today, redis, posted, slips, faults>>

PostRow(h) ==
  /\ pc[h] = "execute" /\ ~RowExists(Ref(h))
  /\ posted' = posted \cup {[ref |-> Ref(h), amount |-> Amount(h), day |-> today]}
  /\ UNCHANGED <<cmd, today, redis, rejected>>

Post(h) == PostRow(h) /\ Goto(h, "done") /\ UNCHANGED <<slips, faults>>

\* Committed, but the handler sees an error and gives the reservation back.
PostAckLost(h) ==
  PostRow(h) /\ Goto(h, "release") /\ Fault /\ UNCHANGED slips

\* Refused (account, balance) or failed: nothing is committed, the catch block releases.
TxFails(h) ==
  /\ pc[h] \in {"execute", "reject"}
  /\ Goto(h, "release")
  /\ UNCHANGED <<cmd, today, redis, rows, slips, faults>>

-----------------------------------------------------------------------------
\* Seeded fault: the reservation key outlives its release.
ReleaseScript_KeepsRef(r) ==
  /\ total' = [total EXCEPT ![today] =
       IF r \in released[today] \/ @ < reserved[today][r] THEN @ ELSE @ - reserved[today][r]]
  /\ released' = [released EXCEPT ![today] = @ \cup {r}]
  /\ UNCHANGED reserved

\* RELEASE_LUA: only the first release of a reference and day gives anything back.
ReleaseScript(r) ==
  IF r \in released[today]
  THEN UNCHANGED redis
  ELSE /\ total' = [total EXCEPT ![today] =
            IF @ < reserved[today][r] THEN 0 ELSE @ - reserved[today][r]]
       /\ reserved' = [reserved EXCEPT ![today][r] = 0]
       /\ released' = [released EXCEPT ![today] = @ \cup {r}]

\* Seeded fault: the catch block releases on every error.
UniqueConflict_Releases(h) ==
  /\ pc[h] \in {"execute", "reject"} /\ RowExists(Ref(h))
  /\ ReleaseScript(Ref(h))
  /\ Goto(h, "done")
  /\ UNCHANGED <<cmd, today, rows, slips, faults>>

\* P2002: the reservation belongs to the handler that posted; the existing row is answered.
UniqueConflict(h) ==
  /\ pc[h] \in {"execute", "reject"} /\ RowExists(Ref(h))
  /\ Goto(h, "done")
  /\ UNCHANGED <<cmd, today, redis, rows, slips, faults>>

\* releaseReservation, with the keys of the day it runs on.
Release(h) ==
  /\ pc[h] = "release"
  /\ ReleaseScript(Ref(h))
  /\ slips' = IF HasTwin(h) THEN slips \cup {"twin"} ELSE slips
  /\ Goto(h, "done")
  /\ UNCHANGED <<cmd, today, rows, faults>>

\* Redis fails: best effort, the reservation stays.
ReleaseSkipped(h) ==
  /\ pc[h] = "release" /\ Fault
  /\ Goto(h, "done")
  /\ UNCHANGED <<cmd, today, redis, rows, slips>>

Crash(h) ==
  /\ Active(h) /\ Fault
  /\ Goto(h, "done")
  /\ UNCHANGED <<cmd, today, redis, rows, slips>>

\* Midnight: a reservation of yesterday does not count for a transfer posted today.
NextDay ==
  /\ today < LastDay /\ today' = today + 1
  /\ slips' = IF \E h \in Handlers : Active(h) THEN slips \cup {"midnight"} ELSE slips
  /\ UNCHANGED <<cmd, pc, redis, rows, faults>>

Step(h) ==
  \/ Submit(h) \/ FindExisting(h) \/ RejectEarlier(h) \/ Reserve(h) \/ RedisError(h)
  \/ EvaluateFromDb(h) \/ CreateRejected(h) \/ Post(h) \/ PostAckLost(h) \/ TxFails(h)
  \/ UniqueConflict(h) \/ Release(h) \/ ReleaseSkipped(h) \/ Crash(h)

Next == NextDay \/ \E h \in Handlers : Step(h)

Spec == Init /\ [][Next]_vars

-----------------------------------------------------------------------------
\* The references with a reservation on day d.
Live(d) == {r \in Refs : reserved[d][r] > 0}

\* The counter is exactly what the live reservations add up to: no order of reserve, repeated
\* reserve, release and repeated release of a reference counts or gives back anything twice.
CountsReservations ==
  \A d \in Days : total[d] = SumFunctionOnSet(reserved[d], Live(d))

\* What a customer moves in a day stays within the limit, in every interleaving of handlers,
\* crashes, refusals and P2002 answers, as long as none of the recorded slips has happened.
LimitHolds == slips = {} => \A d \in Days : SumOn(d, posted) <= Limit

\* While one reference is handled by one handler, Redis answers and the day does not change,
\* what is posted is covered by its own reservation, also when the commit came long after.
PostedIsReserved ==
  slips = {} => \A p \in posted : reserved[p.day][p.ref] >= p.amount

\* With every handler finished and nothing failed, the counter holds what was posted and no
\* more: a failed command has given its reservation back (only a Redis error may skip that:
\* "reservation release failed, best-effort skip").
ReservationsGivenBack ==
  (faults = 0 /\ slips = {} /\ \A h \in Handlers : ~Active(h))
    => \A d \in Days : total[d] = SumOn(d, posted)
=============================================================================
