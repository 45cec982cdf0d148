----------------------------- MODULE MCTimeline -----------------------------
(* TLC instance of OrderDetails. *)
EXTENDS OrderDetails
=============================================================================
