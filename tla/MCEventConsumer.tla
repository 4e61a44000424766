--------------------------- MODULE MCEventConsumer ---------------------------
(* Small instances of EventConsumer for TLC. *)
EXTENDS EventConsumer

CONSTANTS p1, p2

\* The audit dispatcher knows transaction events only, but its queue is bound to `#'.
MCQueues == {"audit", "email"}
MCTypes == {"TRANSACTION", "USER_REGISTERED"}
MCUnsupported == {<<"audit", "USER_REGISTERED">>}

\* Two calls at once in one process, a second process, and a second queue for the retries to reach.
MCHandlers == {<<p1, "audit", 1>>, <<p1, "audit", 2>>, <<p2, "audit", 1>>, <<p1, "email", 1>>}

\* One process with two calls at once on either queue.
MCOneProcess == {p1} \X MCQueues \X {1, 2}
=============================================================================
