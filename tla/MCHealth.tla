------------------------------ MODULE MCHealth -------------------------------
(* A window shorter than the run, so that passes and polls outlast it. *)
EXTENDS Health

=============================================================================
