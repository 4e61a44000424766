------------------------------- MODULE MCOutbox -------------------------------
(* Small instances of Outbox for TLC. *)
EXTENDS Outbox

MCEvents == {1, 2}
MCOneEvent == {1}

\* More stamps than rows and workers together, so that a claim always finds an unused one.
MCStamps == 1 .. 5
=============================================================================
