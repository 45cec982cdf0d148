-------------------------- MODULE ReservationPromise --------------------------
(***************************************************************************)
(* What the inventory promises about paid orders, as if reservations were  *)
(* made one at a time: an order is decided once, against the stock that is *)
(* left at that moment, all of its products or none; the decision and its  *)
(* result event appear together; and every order asked for is decided.     *)
(***************************************************************************)
EXTENDS Naturals, Sequences

CONSTANTS Orders, Products, Stocked, Requested, InitialStock

VARIABLES asked,        \* orders whose payment was announced
          stock,        \* quantity left of each stocked product
          reservation,  \* "none", "Reserved" or "Rejected"
          events        \* result events of each order

vars == <<asked, stock, reservation, events>>

Init == /\ asked = {}
        /\ stock = InitialStock
        /\ reservation = [o \in Orders |-> "none"]
        /\ events = [o \in Orders |-> <<>>]

Ask(o) == /\ asked' = asked \cup {o}
          /\ UNCHANGED <<stock, reservation, events>>

\* What is left of product p; a product without a row has none.
Left(p) == IF p \in Stocked THEN stock[p] ELSE 0

Fits(o) == \A p \in Products : Requested[o][p] <= Left(p)

Conclude(o, status) ==
  /\ o \in asked /\ reservation[o] = "none"
  /\ reservation' = [reservation EXCEPT ![o] = status]
  /\ events' = [events EXCEPT ![o] = Append(@, status)]
  /\ UNCHANGED asked

Reserve(o) ==
  /\ Fits(o)
  /\ Conclude(o, "Reserved")
  /\ stock' = [p \in Stocked |-> stock[p] - Requested[o][p]]

Reject(o) ==
  /\ ~Fits(o)
  /\ Conclude(o, "Rejected")
  /\ UNCHANGED stock

Next == \E o \in Orders : Ask(o) \/ Reserve(o) \/ Reject(o)

\* The safety half of the promise.
Safe == Init /\ [][Next]_vars

\* The whole promise: no paid order is left without an answer.
Spec == Safe /\ \A o \in Orders : (o \in asked) ~> (reservation[o] # "none")
=============================================================================
