------------------------------- MODULE Delivery -------------------------------
(***************************************************************************)
(* What the outbox promises: an event that was written is sent at least    *)
(* once before it is closed, never before it is written, and once more     *)
(* only for a lapse (a crash, a lost confirm, a failed finalize, a worker  *)
(* slower than its claim).  Workers, claims, retries and clocks are gone.  *)
(***************************************************************************)
EXTENDS Naturals

CONSTANT Events

VARIABLES
  written,     \* events that were committed
  copies,      \* how often each event was sent
  closed,      \* events that need no more care
  lapses       \* number of lapses so far

deliveryVars == <<written, copies, closed, lapses>>

DeliveryInit == written = {} /\ copies = [e \in Events |-> 0] /\ closed = {} /\ lapses = 0

Write(e) ==
  /\ written' = written \cup {e}
  /\ UNCHANGED <<copies, closed, lapses>>

\* The first copy is free, each further one takes a lapse.
Sent(e) ==
  /\ e \in written /\ copies[e] <= lapses
  /\ copies' = [copies EXCEPT ![e] = @ + 1]

Send(e) == Sent(e) /\ UNCHANGED <<written, closed, lapses>>

\* A lapse, of which a copy may come at once.
Lapse ==
  /\ lapses' = lapses + 1
  /\ UNCHANGED copies \/ \E e \in Events : Sent(e)
  /\ UNCHANGED <<written, closed>>

Close(e) ==
  /\ copies[e] >= 1
  /\ closed' = closed \cup {e}
  /\ UNCHANGED <<written, copies, lapses>>

DeliveryNext == Lapse \/ \E e \in Events : Write(e) \/ Send(e) \/ Close(e)

DeliverySpec == DeliveryInit /\ [][DeliveryNext]_deliveryVars
=============================================================================
