---------------------------- MODULE MCCommerceFlow ----------------------------
(***************************************************************************)
(* TLC instances of CommerceFlow.                                          *)
(***************************************************************************)
EXTENDS CommerceFlow

MCRequested == [o \in Orders |-> 1]
=============================================================================
