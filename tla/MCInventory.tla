----------------------------- MODULE MCInventory -----------------------------
(***************************************************************************)
(* TLC instances of InventoryReservation.  Orders 1 and 2 list the same    *)
(* products in different orders, so that locks taken in the order of the   *)
(* items could close a circle, and cannot both be served; order 1 repeats  *)
(* a product, order 3 asks for a product that has no stock row.            *)
(***************************************************************************)
EXTENDS InventoryReservation, TLC

MCProducts == 1..4
MCStocked == 1..3
MCInitialStock == <<3, 1, 2>>

Line(p, q) == [product |-> p, quantity |-> q]
MCItems == << <<Line(3, 1), Line(1, 2), Line(3, 1)>>,
              <<Line(1, 2), Line(2, 1), Line(3, 1)>>,
              <<Line(4, 1), Line(2, 1)>> >>
=============================================================================
