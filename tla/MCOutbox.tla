------------------------------ MODULE MCOutbox ------------------------------
(* TLC instance of Outbox: two relays over numbered rows. *)
EXTENDS Outbox
=============================================================================
