---------------------------- MODULE MCServiceHost ----------------------------
(***************************************************************************)
(* TLC instances of ServiceHost: the first instance is of the previous     *)
(* release, which has one migration less.                                  *)
(***************************************************************************)
EXTENDS ServiceHost

MCKnown == [i \in Instances |-> i]
=============================================================================
