----------------------------- MODULE MCListener ------------------------------
(* The listener and one other task; an event is late by a tick at most. *)
EXTENDS Listener

=============================================================================
