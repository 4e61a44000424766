--------------------------- MODULE DailyLimitProofs ---------------------------
(***************************************************************************)
(* Proofs about DailyLimit: type correctness, with the counter never above *)
(* the limit, and that what is posted is covered by its own reservation.   *)
(***************************************************************************)
EXTENDS DailyLimit, SumTheorems, TLAPS

\* The counter and the reservations keep their ranges through both scripts.
LEMMA ScriptsType ==
  ASSUME TypeOK, NEW h \in Handlers, cmd[h] \in Commands
  PROVE  /\ ReserveScript(h) =>
              /\ total' \in [Days -> 0 .. Limit]
              /\ reserved' \in [Days -> [Refs -> 0 .. MaxAmount]]
         /\ ReleaseScript(Ref(h)) =>
              /\ total' \in [Days -> 0 .. Limit]
              /\ reserved' \in [Days -> [Refs -> 0 .. MaxAmount]]
              /\ released' \in [Days -> SUBSET Refs]
<1>1. Ref(h) \in Refs /\ Amount(h) \in 1 .. MaxAmount /\ today \in Days
  BY DEF TypeOK, Commands, Ref, Amount
<1>2. total[today] \in 0 .. Limit /\ reserved[today] \in [Refs -> 0 .. MaxAmount]
  BY <1>1 DEF TypeOK
<1>3. ASSUME ReserveScript(h)
      PROVE  total' \in [Days -> 0 .. Limit] /\ reserved' \in [Days -> [Refs -> 0 .. MaxAmount]]
  <2>1. CASE AlreadyReserved(h) \/ ~Fits(h)
    BY <1>3, <2>1 DEF ReserveScript, TypeOK
  <2>2. CASE ~(AlreadyReserved(h) \/ ~Fits(h))
    <3>1. total[today] + Amount(h) \in 0 .. Limit
      BY <1>1, <1>2, <2>2, DailyAssumption DEF Fits
    <3>2. total' \in [Days -> 0 .. Limit]
      BY <1>1, <1>3, <2>2, <3>1 DEF ReserveScript, TypeOK
    <3>3. reserved' = [reserved EXCEPT ![today] = [@ EXCEPT ![Ref(h)] = Amount(h)]]
      BY <1>3, <2>2 DEF ReserveScript
    <3>4. Amount(h) \in 0 .. MaxAmount
      BY <1>1, DailyAssumption
    <3>5. [reserved[today] EXCEPT ![Ref(h)] = Amount(h)] \in [Refs -> 0 .. MaxAmount]
      BY <1>2, <3>4
    <3> QED
      BY <1>1, <3>2, <3>3, <3>5 DEF TypeOK
  <2> QED
    BY <2>1, <2>2
<1>4. ASSUME ReleaseScript(Ref(h))
      PROVE  /\ total' \in [Days -> 0 .. Limit]
             /\ reserved' \in [Days -> [Refs -> 0 .. MaxAmount]]
             /\ released' \in [Days -> SUBSET Refs]
  <2>1. CASE Ref(h) \in released[today]
    BY <1>4, <2>1 DEF ReleaseScript, redis, TypeOK
  <2>2. CASE Ref(h) \notin released[today]
    <3>1. reserved[today][Ref(h)] \in 0 .. MaxAmount
      BY <1>1, <1>2
    <3>2. total[today] >= reserved[today][Ref(h)]
            => total[today] - reserved[today][Ref(h)] \in 0 .. Limit
      BY <1>2, <3>1, DailyAssumption
    <3>3. total' \in [Days -> 0 .. Limit]
      BY <1>1, <1>2, <1>4, <2>2, <3>1, <3>2, DailyAssumption DEF ReleaseScript, TypeOK
    <3>4. reserved' = [reserved EXCEPT ![today] = [@ EXCEPT ![Ref(h)] = 0]]
      BY <1>4, <2>2 DEF ReleaseScript
    <3>5. 0 \in 0 .. MaxAmount
      BY DailyAssumption
    <3>8. [reserved[today] EXCEPT ![Ref(h)] = 0] \in [Refs -> 0 .. MaxAmount]
      BY <1>2, <3>5
    <3>6. reserved' \in [Days -> [Refs -> 0 .. MaxAmount]]
      BY <1>1, <3>4, <3>8 DEF TypeOK
    <3>7. released' \in [Days -> SUBSET Refs]
      BY <1>1, <1>4, <2>2 DEF ReleaseScript, TypeOK
    <3> QED
      BY <3>3, <3>6, <3>7
  <2> QED
    BY <2>1, <2>2
<1> QED
  BY <1>3, <1>4

\* A handler under way carries a command.
Carried == \A h \in Handlers : pc[h] # "idle" => cmd[h] \in Commands

\* A handler past its reservation is covered by it, unless a slip was recorded.
Covered ==
  \A h \in Handlers :
    /\ pc[h] = "aggregate" => slips # {}
    /\ pc[h] = "execute" /\ slips = {} => reserved[today][Ref(h)] >= Amount(h)

IInv == TypeOK /\ Carried /\ Covered /\ PostedIsReserved

LEMMA InitIInv == Init => IInv
<1> SUFFICES ASSUME Init PROVE IInv
  OBVIOUS
<1>1. 0 \in Days /\ 0 \in 0 .. Limit /\ 0 \in 0 .. MaxAmount /\ 0 \in 0 .. MaxFaults
  BY DailyAssumption DEF Days
<1>2. TypeOK
  BY <1>1 DEF Init, TypeOK, Phase, Slip
<1>3. Carried /\ Covered /\ PostedIsReserved
  BY DEF Init, Carried, Covered, PostedIsReserved
<1> QED
  BY <1>2, <1>3 DEF IInv

\* A step of h moves h only, within the phases, and keeps its command.
LEMMA MoveType ==
  ASSUME TypeOK, Carried, NEW h \in Handlers, NEW p \in Phase, Goto(h, p), cmd' = cmd,
         cmd[h] \in Commands
  PROVE  pc' \in [Handlers -> Phase] /\ cmd' \in [Handlers -> Commands \cup {None}] /\ Carried'
  BY DEF TypeOK, Carried, Goto

LEMMA FaultType == TypeOK /\ (Fault \/ UNCHANGED faults) => faults' \in 0 .. MaxFaults
  BY DailyAssumption DEF TypeOK, Fault

LEMMA SubmitType == ASSUME IInv, NEW h \in Handlers, Submit(h) PROVE TypeOK' /\ Carried'
<1>1. PICK c \in Commands : cmd' = [cmd EXCEPT ![h] = c]
  BY DEF Submit
<1>2. /\ pc' = [pc EXCEPT ![h] = "lookup"]
      /\ UNCHANGED <<today, total, reserved, released, posted, rejected, slips, faults>>
  BY DEF Submit, Goto, redis, rows
<1>3. pc' \in [Handlers -> Phase] /\ cmd' \in [Handlers -> Commands \cup {None}] /\ Carried'
  BY <1>1, <1>2 DEF IInv, TypeOK, Carried, Phase
<1> QED
  BY <1>2, <1>3 DEF IInv, TypeOK

\* The steps of a handler that leave Redis and the rows alone.
LEMMA ControlType ==
  ASSUME IInv, NEW h \in Handlers,
         FindExisting(h) \/ RejectEarlier(h) \/ EvaluateFromDb(h) \/ TxFails(h)
           \/ UniqueConflict(h) \/ ReleaseSkipped(h) \/ Crash(h)
  PROVE  TypeOK' /\ Carried'
<1>1. /\ pc[h] # "idle" /\ UNCHANGED <<cmd, today, total, reserved, released, posted, rejected, slips>>
      /\ Fault \/ UNCHANGED faults
      /\ \E p \in Phase : Goto(h, p)
  BY DEF FindExisting, RejectEarlier, EvaluateFromDb, TxFails, UniqueConflict, ReleaseSkipped,
     Crash, Active, Phase, redis, rows
<1> QED
  BY <1>1, MoveType, FaultType DEF IInv, TypeOK, Carried

LEMMA RedisType ==
  ASSUME IInv, NEW h \in Handlers, Reserve(h) \/ RedisError(h) \/ Release(h)
  PROVE  TypeOK' /\ Carried'
<1>1. cmd[h] \in Commands
  BY DEF IInv, Carried, Reserve, RedisError, Release
<1>2. /\ UNCHANGED <<cmd, today, posted, rejected>>
      /\ Fault \/ UNCHANGED faults
      /\ slips' \subseteq Slip
      /\ \E p \in Phase : Goto(h, p)
  BY DEF IInv, TypeOK, Reserve, RedisError, Release, Phase, Slip, rows
<1>3. /\ total' \in [Days -> 0 .. Limit]
      /\ reserved' \in [Days -> [Refs -> 0 .. MaxAmount]]
      /\ released' \in [Days -> SUBSET Refs]
  <2>1. CASE Reserve(h) \/ RedisError(h)
    BY <1>1, <2>1, ScriptsType DEF IInv, TypeOK, Reserve, RedisError
  <2>2. CASE Release(h)
    BY <1>1, <2>2, ScriptsType DEF IInv, Release
  <2> QED
    BY <2>1, <2>2
<1> QED
  BY <1>1, <1>2, <1>3, MoveType, FaultType DEF IInv, TypeOK

LEMMA RowType ==
  ASSUME IInv, NEW h \in Handlers, CreateRejected(h) \/ Post(h) \/ PostAckLost(h)
  PROVE  TypeOK' /\ Carried'
<1>1. cmd[h] \in Commands
  BY DEF IInv, Carried, CreateRejected, Post, PostAckLost, PostRow
<1>2. /\ UNCHANGED <<cmd, today, total, reserved, released, slips>>
      /\ Fault \/ UNCHANGED faults
      /\ \E p \in Phase : Goto(h, p)
  BY DEF CreateRejected, Post, PostAckLost, PostRow, Phase, redis
<1>3. posted' \subseteq Rows /\ rejected' \subseteq Refs
  <2>1. [ref |-> Ref(h), amount |-> Amount(h), day |-> today] \in Rows /\ Ref(h) \in Refs
    BY <1>1 DEF IInv, TypeOK, Commands, Rows, Ref, Amount
  <2> QED
    BY <2>1 DEF IInv, TypeOK, CreateRejected, Post, PostAckLost, PostRow
<1> QED
  BY <1>1, <1>2, <1>3, MoveType, FaultType DEF IInv, TypeOK

LEMMA TypeStep == IInv /\ [Next]_vars => TypeOK' /\ Carried'
<1> SUFFICES ASSUME IInv, [Next]_vars PROVE TypeOK' /\ Carried'
  OBVIOUS
<1>1. CASE NextDay
  <2>1. today' \in Days /\ slips' \subseteq Slip
    BY <1>1, DailyAssumption DEF IInv, TypeOK, NextDay, Days, Slip
  <2> QED
    BY <1>1, <2>1 DEF IInv, TypeOK, Carried, NextDay, redis, rows
<1>2. CASE \E h \in Handlers : Step(h)
  BY <1>2, SubmitType, ControlType, RedisType, RowType DEF Step
<1>3. CASE UNCHANGED vars
  BY <1>3 DEF IInv, TypeOK, Carried, vars, redis, rows
<1> QED
  BY <1>1, <1>2, <1>3 DEF Next

-----------------------------------------------------------------------------
(* What is posted or about to be posted is covered. *)

\* A reservation never lowers one.
LEMMA ReserveGrows ==
  ASSUME TypeOK, NEW h \in Handlers, cmd[h] \in Commands, ReserveScript(h)
  PROVE  \A d \in Days, r \in Refs :
           /\ reserved'[d][r] \in Nat /\ reserved[d][r] \in Nat
           /\ reserved'[d][r] >= reserved[d][r]
<1> SUFFICES ASSUME NEW d \in Days, NEW r \in Refs
             PROVE  /\ reserved'[d][r] \in Nat /\ reserved[d][r] \in Nat
                    /\ reserved'[d][r] >= reserved[d][r]
  OBVIOUS
<1>1. reserved[d] \in [Refs -> 0 .. MaxAmount] /\ reserved'[d] \in [Refs -> 0 .. MaxAmount]
  BY ScriptsType DEF TypeOK
<1>2. reserved[d][r] \in Nat /\ reserved'[d][r] \in Nat
  BY <1>1, DailyAssumption
<1>3. CASE UNCHANGED reserved
  BY <1>2, <1>3
<1>4. CASE /\ ~AlreadyReserved(h)
           /\ reserved' = [reserved EXCEPT ![today] = [@ EXCEPT ![Ref(h)] = Amount(h)]]
  <2>1. today \in Days /\ Ref(h) \in Refs /\ Amount(h) \in 1 .. MaxAmount
    BY DEF TypeOK, Commands, Ref, Amount
  <2>2. CASE d = today /\ r = Ref(h)
    <3>1. reserved[d][r] = 0
      BY <1>2, <1>4, <2>2 DEF AlreadyReserved
    <3> QED
      BY <1>2, <3>1
  <2>3. CASE ~(d = today /\ r = Ref(h))
    <3>1. reserved'[d][r] = reserved[d][r]
      BY <1>1, <1>4, <2>1, <2>3 DEF TypeOK
    <3> QED
      BY <1>2, <3>1
  <2> QED
    BY <2>2, <2>3
<1> QED
  BY <1>3, <1>4 DEF ReserveScript

LEMMA ReserveCovers ==
  ASSUME IInv, NEW h \in Handlers, Reserve(h), TypeOK'
  PROVE  Covered' /\ PostedIsReserved'
<1>1. cmd[h] \in Commands /\ ReserveScript(h) /\ UNCHANGED <<cmd, today, posted>>
  BY DEF IInv, Carried, Reserve, rows
<1>2. \A d \in Days, r \in Refs :
        /\ reserved'[d][r] \in Nat /\ reserved[d][r] \in Nat
        /\ reserved'[d][r] >= reserved[d][r]
  BY <1>1, ReserveGrows DEF IInv
<1>3. slips' = {} => slips = {}
  BY DEF Reserve
<1>4. ASSUME NEW g \in Handlers, pc'[g] = "execute", slips' = {}
      PROVE  reserved'[today][Ref(g)] >= Amount(g)
  <2>1. CASE g = h
    <3>1. today \in Days /\ Ref(h) \in Refs /\ Amount(h) \in 1 .. MaxAmount
      BY <1>1 DEF IInv, TypeOK, Commands, Ref, Amount
    <3>2. CASE AlreadyReserved(h)
      <4>1. reserved[today][Ref(h)] = Amount(h) /\ UNCHANGED reserved
        BY <1>1, <1>4, <3>2 DEF Reserve, ReserveScript
      <4> QED
        BY <2>1, <3>1, <4>1
    <3>3. CASE ~AlreadyReserved(h)
      <4>1. Fits(h)
        BY <1>4, <2>1, <3>3 DEF Reserve, Goto, IInv, TypeOK
      <4>2. reserved' = [reserved EXCEPT ![today] = [@ EXCEPT ![Ref(h)] = Amount(h)]]
        BY <1>1, <3>3, <4>1 DEF ReserveScript
      <4>3. reserved'[today][Ref(h)] = Amount(h)
        BY <3>1, <4>2 DEF IInv, TypeOK
      <4> QED
        BY <2>1, <3>1, <4>3
    <3> QED
      BY <3>2, <3>3
  <2>2. CASE g # h
    <3>1. pc[g] = "execute"
      BY <1>4, <2>2 DEF Reserve, Goto, IInv, TypeOK
    <3>2. cmd[g] \in Commands /\ today \in Days
      BY <3>1 DEF IInv, TypeOK, Carried
    <3>3. Ref(g) \in Refs /\ Amount(g) \in Int
      BY <3>2 DEF Commands, Ref, Amount
    <3>4. reserved[today][Ref(g)] >= Amount(g)
      BY <1>3, <1>4, <3>1 DEF IInv, Covered
    <3>5. /\ reserved'[today][Ref(g)] \in Nat /\ reserved[today][Ref(g)] \in Nat
          /\ reserved'[today][Ref(g)] >= reserved[today][Ref(g)]
      BY <1>2, <3>2, <3>3
    <3> QED
      BY <3>3, <3>4, <3>5
  <2> QED
    BY <2>1, <2>2
<1>5. ASSUME NEW g \in Handlers, pc'[g] = "aggregate" PROVE slips' # {}
  BY <1>3, <1>5 DEF IInv, TypeOK, Covered, Reserve, Goto
<1>6. ASSUME NEW p \in posted, slips' = {} PROVE reserved'[p.day][p.ref] >= p.amount
  <2>1. p.day \in Days /\ p.ref \in Refs /\ p.amount \in Int
    BY DEF IInv, TypeOK, Rows
  <2>2. reserved[p.day][p.ref] >= p.amount
    BY <1>3, <1>6 DEF IInv, PostedIsReserved
  <2>3. /\ reserved'[p.day][p.ref] \in Nat /\ reserved[p.day][p.ref] \in Nat
        /\ reserved'[p.day][p.ref] >= reserved[p.day][p.ref]
    BY <1>2, <2>1
  <2> QED
    BY <2>1, <2>2, <2>3
<1> QED
  BY <1>1, <1>4, <1>5, <1>6 DEF Covered, PostedIsReserved, Ref, Amount

\* Without a twin, a release takes nothing from a handler under way or from a posted row.
LEMMA ReleaseCovers ==
  ASSUME IInv, NEW h \in Handlers, Release(h)
  PROVE  Covered' /\ PostedIsReserved'
<1>1. /\ cmd[h] \in Commands /\ ReleaseScript(Ref(h)) /\ UNCHANGED <<cmd, today, posted>>
      /\ pc' = [pc EXCEPT ![h] = "done"]
      /\ slips' = {} => slips = {} /\ ~HasTwin(h)
  BY DEF IInv, Carried, Release, Goto, rows
<1>2. \A d \in Days, r \in Refs : r # Ref(h) => reserved'[d][r] = reserved[d][r]
  BY <1>1 DEF IInv, TypeOK, ReleaseScript, redis
<1>3. ASSUME NEW g \in Handlers, pc'[g] = "execute", slips' = {}
      PROVE  reserved'[today][Ref(g)] >= Amount(g)
  <2>1. g # h /\ pc[g] = "execute"
    BY <1>1, <1>3 DEF IInv, TypeOK
  <2>2. Ref(g) # Ref(h)
    BY <1>1, <1>3, <2>1 DEF HasTwin, Active
  <2>3. Ref(g) \in Refs /\ today \in Days
    BY <2>1 DEF IInv, TypeOK, Carried, Commands, Ref
  <2>4. reserved[today][Ref(g)] >= Amount(g)
    BY <1>1, <1>3, <2>1 DEF IInv, Covered
  <2> QED
    BY <1>2, <2>2, <2>3, <2>4
<1>4. ASSUME NEW g \in Handlers, pc'[g] = "aggregate" PROVE slips' # {}
  BY <1>1, <1>4 DEF IInv, TypeOK, Covered
<1>5. ASSUME NEW p \in posted, slips' = {} PROVE reserved'[p.day][p.ref] >= p.amount
  <2>1. p.ref # Ref(h)
    BY <1>1, <1>5 DEF HasTwin
  <2>2. p.day \in Days /\ p.ref \in Refs
    BY DEF IInv, TypeOK, Rows
  <2>3. reserved[p.day][p.ref] >= p.amount
    BY <1>1, <1>5 DEF IInv, PostedIsReserved
  <2> QED
    BY <1>2, <2>1, <2>2, <2>3
<1> QED
  BY <1>1, <1>3, <1>4, <1>5 DEF Covered, PostedIsReserved, Ref, Amount

\* Every other step of a handler leaves the reservations alone.
LEMMA OtherCovers ==
  ASSUME IInv, NEW h \in Handlers, Step(h), ~Reserve(h), ~RedisError(h), ~Release(h)
  PROVE  Covered' /\ PostedIsReserved'
<1>1. UNCHANGED <<today, reserved, slips>> /\ \A g \in Handlers \ {h} : cmd'[g] = cmd[g] /\ pc'[g] = pc[g]
  BY DEF IInv, TypeOK, Step, Submit, FindExisting, RejectEarlier, EvaluateFromDb, CreateRejected,
     Post, PostAckLost, PostRow, TxFails, UniqueConflict, ReleaseSkipped, Crash, Goto, redis
<1>2. pc'[h] # "aggregate" /\ (pc'[h] = "execute" => slips # {})
  BY DEF IInv, TypeOK, Covered, Step, Submit, FindExisting, RejectEarlier, EvaluateFromDb,
     CreateRejected, Post, PostAckLost, PostRow, TxFails, UniqueConflict, ReleaseSkipped, Crash, Goto
<1>3. \/ UNCHANGED posted
      \/ /\ pc[h] = "execute"
         /\ posted' = posted \cup {[ref |-> Ref(h), amount |-> Amount(h), day |-> today]}
  BY DEF Step, Submit, FindExisting, RejectEarlier, EvaluateFromDb, CreateRejected,
     Post, PostAckLost, PostRow, TxFails, UniqueConflict, ReleaseSkipped, Crash, rows
<1>4. Covered'
  BY <1>1, <1>2 DEF IInv, Covered, Ref, Amount
<1>5. PostedIsReserved'
  BY <1>1, <1>3 DEF IInv, Covered, PostedIsReserved
<1> QED
  BY <1>4, <1>5

LEMMA NextIInv == IInv /\ [Next]_vars => IInv'
<1> SUFFICES ASSUME IInv, [Next]_vars PROVE IInv'
  OBVIOUS
<1>1. TypeOK' /\ Carried'
  BY TypeStep
<1>2. CASE NextDay
  <2>1. slips' = {} => slips = {} /\ \A h \in Handlers : ~Active(h)
    BY <1>2 DEF NextDay
  <2>2. UNCHANGED <<cmd, pc, reserved, posted>>
    BY <1>2 DEF NextDay, redis, rows
  <2>3. Covered' /\ PostedIsReserved'
    BY <2>1, <2>2 DEF IInv, Covered, PostedIsReserved, Active, Ref, Amount
  <2> QED
    BY <1>1, <2>3 DEF IInv
<1>3. ASSUME NEW h \in Handlers, Step(h) PROVE Covered' /\ PostedIsReserved'
  <2>1. CASE RedisError(h)
    BY <2>1 DEF RedisError, Covered, PostedIsReserved
  <2> QED
    BY <1>1, <1>3, <2>1, ReserveCovers, ReleaseCovers, OtherCovers
<1>4. CASE UNCHANGED vars
  BY <1>1, <1>4 DEF IInv, Covered, PostedIsReserved, vars, redis, rows, Ref, Amount
<1> QED
  BY <1>1, <1>2, <1>3, <1>4 DEF IInv, Next

-----------------------------------------------------------------------------
\* The inductive invariant of the reservations.
THEOREM Invariance == Spec => []IInv
  BY InitIInv, NextIInv, PTL DEF Spec

\* Type correctness; the counter of a day never passes the limit, whatever happens.
THEOREM TypeCorrect == Spec => []TypeOK
<1>1. IInv => TypeOK
  BY DEF IInv
<1> QED
  BY <1>1, Invariance, PTL

\* However many handlers and references there are, and however they interleave: without a
\* recorded slip every posted amount is covered by the reservation of its own reference.
THEOREM PostingsAreReserved == Spec => []PostedIsReserved
<1>1. IInv => PostedIsReserved
  BY DEF IInv
<1> QED
  BY <1>1, Invariance, PTL

-----------------------------------------------------------------------------
(* The counter. *)

\* The counter of day d is what its live reservations add up to.
Counted(d) == IsFiniteSet(Live(d)) /\ total[d] = SumFunctionOnSet(reserved[d], Live(d))

\* One row per reference: what PostRow checks.
OnePerRef == \A p, q \in posted : p.ref = q.ref => p = q

CounterInv == (\A d \in Days : Counted(d)) /\ IsFiniteSet(posted) /\ OnePerRef

\* One reservation of day d changes to v, and the counter with it.
LEMMA CountedChange ==
  ASSUME TypeOK, NEW d \in Days, Counted(d), NEW r \in Refs, NEW v \in Nat,
         reserved'[d] = [reserved[d] EXCEPT ![r] = v],
         reserved[d][r] <= total[d] => total'[d] = total[d] - reserved[d][r] + v
  PROVE  Counted(d)'
<1>1. reserved[d] \in [Refs -> Nat]
  BY DailyAssumption DEF TypeOK
<1>2. Live(d) = Support(reserved[d], Refs) /\ Live(d)' = Support(reserved'[d], Refs)
  BY DEF Live, Support
<1>3. /\ IsFiniteSet(Support(reserved'[d], Refs))
      /\ SumFunctionOnSet(reserved'[d], Support(reserved'[d], Refs))
           = SumFunctionOnSet(reserved[d], Support(reserved[d], Refs)) - reserved[d][r] + v
      /\ reserved[d][r] <= SumFunctionOnSet(reserved[d], Support(reserved[d], Refs))
  BY <1>1, <1>2, SumSupport DEF Counted
<1> QED
  BY <1>2, <1>3 DEF Counted

\* RESERVE_LUA adds what it writes, and RELEASE_LUA takes back what it clears: the counter is
\* never smaller than a reservation it holds, so the floor at 0 is never used.
LEMMA ScriptsCount ==
  ASSUME TypeOK, CounterInv, NEW h \in Handlers, cmd[h] \in Commands,
         ReserveScript(h) \/ ReleaseScript(Ref(h)), NEW d \in Days
  PROVE  Counted(d)'
<1>1. Ref(h) \in Refs /\ Amount(h) \in 1 .. MaxAmount /\ today \in Days
  BY DEF TypeOK, Commands, Ref, Amount
<1>2. total \in [Days -> 0 .. Limit] /\ reserved \in [Days -> [Refs -> 0 .. MaxAmount]] /\ Counted(d)
  BY DEF TypeOK, CounterInv
<1>3. CASE UNCHANGED <<total, reserved>>
  BY <1>2, <1>3 DEF Counted, Live
<1>4. CASE ReserveScript(h) /\ ~ UNCHANGED <<total, reserved>>
  <2>1. /\ total' = [total EXCEPT ![today] = @ + Amount(h)]
        /\ reserved' = [reserved EXCEPT ![today] = [@ EXCEPT ![Ref(h)] = Amount(h)]]
        /\ ~ (reserved[today][Ref(h)] > 0)
    BY <1>4 DEF ReserveScript, AlreadyReserved
  <2>2. CASE d = today
    <3>1. reserved[today][Ref(h)] = 0 /\ Amount(h) \in Nat
      BY <1>1, <1>2, <2>1, DailyAssumption
    <3>2. /\ reserved'[d] = [reserved[d] EXCEPT ![Ref(h)] = Amount(h)]
          /\ total'[d] = total[d] + Amount(h) /\ total[d] \in Nat
      BY <1>1, <1>2, <2>1, <2>2, DailyAssumption
    <3>3. total'[d] = total[d] - reserved[d][Ref(h)] + Amount(h)
      BY <2>2, <3>1, <3>2
    <3> QED
      BY <1>1, <1>2, <3>1, <3>2, <3>3, CountedChange
  <2>3. CASE d # today
    BY <1>2, <2>1, <2>3 DEF Counted, Live
  <2> QED
    BY <2>2, <2>3
<1>5. CASE ReleaseScript(Ref(h)) /\ ~ UNCHANGED <<total, reserved>>
  <2>1. /\ total' = [total EXCEPT ![today] =
                       IF @ < reserved[today][Ref(h)] THEN 0 ELSE @ - reserved[today][Ref(h)]]
        /\ reserved' = [reserved EXCEPT ![today] = [@ EXCEPT ![Ref(h)] = 0]]
    BY <1>5 DEF ReleaseScript, redis
  <2>2. CASE d = today
    <3>1. reserved'[d] = [reserved[d] EXCEPT ![Ref(h)] = 0]
      BY <1>1, <1>2, <2>1, <2>2
    <3>2. total[d] \in Nat /\ reserved[d][Ref(h)] \in Nat
      BY <1>1, <1>2, DailyAssumption
    <3>3. total'[d] = IF total[d] < reserved[d][Ref(h)] THEN 0 ELSE total[d] - reserved[d][Ref(h)]
      BY <1>2, <2>1, <2>2
    <3>4. reserved[d][Ref(h)] <= total[d] => total'[d] = total[d] - reserved[d][Ref(h)] + 0
      BY <3>2, <3>3
    <3> QED
      BY <1>1, <1>2, <3>1, <3>4, CountedChange
  <2>3. CASE d # today
    BY <1>2, <2>1, <2>3 DEF Counted, Live
  <2> QED
    BY <2>2, <2>3
<1> QED
  BY <1>3, <1>4, <1>5

LEMMA InitCounter == Init => CounterInv
<1> SUFFICES ASSUME Init PROVE CounterInv
  OBVIOUS
<1>1. ASSUME NEW d \in Days PROVE Counted(d)
  <2>1. total[d] = 0 /\ Live(d) = {}
    BY DEF Init, Live
  <2> QED
    BY <2>1, SumEmpty, FS_EmptySet DEF Counted
<1>2. IsFiniteSet(posted) /\ OnePerRef
  BY FS_EmptySet DEF Init, OnePerRef
<1> QED
  BY <1>1, <1>2 DEF CounterInv

\* A step of a handler runs one of the scripts or none, and posts one row or none.
LEMMA HandlerCounter ==
  ASSUME IInv, CounterInv, NEW h \in Handlers, Step(h)
  PROVE  CounterInv'
<1>1. pc[h] # "idle" => cmd[h] \in Commands
  BY DEF IInv, Carried
<1>2. \/ UNCHANGED <<total, reserved>>
      \/ pc[h] # "idle" /\ (ReserveScript(h) \/ ReleaseScript(Ref(h)))
  BY DEF Step, Submit, FindExisting, RejectEarlier, Reserve, RedisError, EvaluateFromDb,
     CreateRejected, Post, PostAckLost, PostRow, TxFails, UniqueConflict, Release,
     ReleaseSkipped, Crash, redis
<1>3. \A d \in Days : Counted(d)'
  BY <1>1, <1>2, ScriptsCount DEF IInv, CounterInv, Counted, Live
<1>4. \/ UNCHANGED posted
      \/ PostRow(h)
  BY DEF Step, Submit, FindExisting, RejectEarlier, Reserve, RedisError, EvaluateFromDb,
     CreateRejected, Post, PostAckLost, TxFails, UniqueConflict, Release,
     ReleaseSkipped, Crash, rows
<1>5. IsFiniteSet(posted') /\ OnePerRef'
  <2>1. CASE UNCHANGED posted
    BY <2>1 DEF CounterInv, OnePerRef
  <2>2. CASE PostRow(h)
    <3> DEFINE new == [ref |-> Ref(h), amount |-> Amount(h), day |-> today]
    <3>1. posted' = posted \cup {new} /\ \A p \in posted : p.ref # new.ref
      BY <2>2 DEF PostRow, RowExists
    <3> HIDE DEF new
    <3>2. IsFiniteSet(posted')
      BY <3>1, FS_AddElement DEF CounterInv
    <3>3. OnePerRef'
      BY <3>1 DEF CounterInv, OnePerRef
    <3> QED
      BY <3>2, <3>3
  <2> QED
    BY <1>4, <2>1, <2>2
<1> QED
  BY <1>3, <1>5 DEF CounterInv

LEMMA NextCounter == IInv /\ CounterInv /\ [Next]_vars => CounterInv'
<1> SUFFICES ASSUME IInv, CounterInv, [Next]_vars PROVE CounterInv'
  OBVIOUS
<1>1. CASE NextDay \/ UNCHANGED vars
  BY <1>1 DEF NextDay, vars, redis, rows, CounterInv, Counted, Live, OnePerRef
<1> QED
  BY <1>1, HandlerCounter DEF Next

LEMMA CounterInvariance == Spec => []CounterInv
  BY InitCounter, NextCounter, Invariance, PTL DEF Spec

\* Whatever order handlers reserve, repeat, fail and release in, for any number of them and of
\* references: the counter of a day is exactly the sum of its live reservations.
THEOREM CounterIsExact == Spec => []CountsReservations
<1>1. CounterInv => CountsReservations
  BY DEF CounterInv, Counted, CountsReservations
<1> QED
  BY <1>1, CounterInvariance, PTL

\* What is posted on a day is covered, row by row, by reservations of that day, of different
\* references; those add up to the counter; and the counter is within the limit.
LEMMA PostedWithinLimit == IInv /\ CounterInv => LimitHolds
<1> SUFFICES ASSUME IInv, CounterInv, slips = {}, NEW d \in Days
             PROVE  SumOn(d, posted) <= Limit
  BY DEF LimitHolds
<1> DEFINE S == {p \in posted : p.day = d}
           amount == [p \in posted |-> p.amount]
           ref == [p \in posted |-> p.ref]
<1>1. ASSUME NEW p \in posted
      PROVE  p.ref \in Refs /\ p.day \in Days /\ p.amount \in 1 .. MaxAmount
  BY DEF IInv, TypeOK, Rows
<1>2. IsFiniteSet(S) /\ IsFiniteSet(Live(d))
  BY FS_Subset DEF CounterInv, Counted
<1>3. reserved[d] \in [Refs -> 0 .. MaxAmount]
  BY DEF IInv, TypeOK
<1>4. \A r \in Live(d) : reserved[d][r] \in Nat
  BY <1>3, DailyAssumption DEF Live
<1>5. ASSUME NEW p \in S
      PROVE  amount[p] \in Int /\ ref[p] \in Live(d) /\ amount[p] <= reserved[d][ref[p]]
  <2>1. p.day = d /\ reserved[d][p.ref] >= p.amount
    BY DEF IInv, PostedIsReserved
  <2>2. reserved[d][p.ref] \in Int /\ p.amount \in Int /\ p.amount > 0
    BY <1>1, <1>3, DailyAssumption
  <2> QED
    BY <1>1, <2>1, <2>2 DEF Live
<1>6. \A p, q \in S : ref[p] = ref[q] => p = q
  BY DEF CounterInv, OnePerRef
<1>7. SumFunctionOnSet(amount, S) <= SumFunctionOnSet(reserved[d], Live(d))
  <2> HIDE DEF S, amount, ref
  <2> QED
    BY <1>2, <1>4, <1>5, <1>6, SumCovered
<1>8. SumFunctionOnSet(reserved[d], Live(d)) = total[d] /\ total[d] <= Limit /\ total[d] \in Int
  BY DEF CounterInv, Counted, IInv, TypeOK
<1>9. SumFunctionOnSet(amount, S) \in Int
  <2> HIDE DEF S, amount
  <2> QED
    BY <1>2, <1>5, SumInt
<1> QED
  BY <1>7, <1>8, <1>9, DailyAssumption DEF SumOn

\* The daily limit itself: for any number of handlers, references, days and faults, the amounts
\* posted on a day stay within the limit as long as no slip was recorded.
THEOREM LimitIsKept == Spec => []LimitHolds
  BY PostedWithinLimit, Invariance, CounterInvariance, PTL
=============================================================================
