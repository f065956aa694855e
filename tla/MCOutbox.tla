------------------------------ MODULE MCOutbox ------------------------------
(* Outbox instances for TLC. *)
EXTENDS Outbox
=============================================================================
