--------------------------- MODULE MCOutboxRelay ---------------------------
(* A small instance of OutboxRelay for TLC. *)
EXTENDS OutboxRelay
=============================================================================
