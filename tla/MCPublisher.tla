----------------------------- MODULE MCPublisher -----------------------------
(* TLC instance of ConfirmedPublisher. *)
EXTENDS ConfirmedPublisher
=============================================================================
