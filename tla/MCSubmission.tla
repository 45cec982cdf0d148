---------------------------- MODULE MCSubmission ----------------------------
(***************************************************************************)
(* TLC instances of OrderSubmission: requests 1 and 2 are the same order,  *)
(* request 3 reuses their key for another one, request 4 has its own key.  *)
(***************************************************************************)
EXTENDS OrderSubmission

MCKeyOf == [r \in Requests |-> IF r = 4 THEN "k2" ELSE "k1"]
MCBodyOf == [r \in Requests |-> IF r = 3 THEN "b2" ELSE "b1"]
=============================================================================
