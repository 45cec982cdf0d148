----------------------------- MODULE Quantities -----------------------------
(***************************************************************************)
(* aggregateQuantities: an order's items, a sequence of lines in which the *)
(* same product may appear more than once, become one quantity per         *)
(* product.  The code walks the lines and adds each to a map.              *)
(***************************************************************************)
EXTENDS Naturals, Sequences, SequencesExt

\* Faulty variant: a later line replaces an earlier one.
LastLineCounts(quantities, item) ==
  [quantities EXCEPT ![item.product] = item.quantity]

\* One iteration of the loop.
AddLine(quantities, item) ==
  [quantities EXCEPT ![item.product] = @ + item.quantity]

AggregateQuantities(Products, items) ==
  FoldLeft(AddLine, [p \in Products |-> 0], items)

\* What the loop computes: the quantities of the lines of product p, added up.
ListedQuantity(items, p) ==
  SumFunctionOnSet([i \in DOMAIN items |-> items[i].quantity],
                   {i \in DOMAIN items : items[i].product = p})
=============================================================================
