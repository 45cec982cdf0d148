----------------------------- MODULE MCDelivery -----------------------------
(***************************************************************************)
(* TLC instances of MessageDelivery: messages 1 and 2 are copies of one    *)
(* event, message 3 is another event, message 4 cannot be decoded.         *)
(***************************************************************************)
EXTENDS MessageDelivery

MCEventOf == [m \in Messages |-> IF m <= 2 THEN "e1" ELSE "e2"]
=============================================================================
