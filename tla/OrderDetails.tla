---------------------------- MODULE OrderDetails ----------------------------
(***************************************************************************)
(* GET /orders/{id}: OrderTimeline's reader is given events in a set, and  *)
(* TimelineView's view is made of rows, which the reader has from the      *)
(* database in the order in which they were recorded.  Here a reader's     *)
(* details become its view.  What OrderTimeline leaves out of a row is     *)
(* free: events are recorded at any times and dated by producers that      *)
(* copy the order's time, and there are any retries.                       *)
(***************************************************************************)
EXTENDS OrderTimeline, TimelineView, SequencesExt

CONSTANTS Clock,      \* times on the clock of the database
          MaxRetries  \* bound on the retries of one order

ASSUME ClockAssumption == Clock \subseteq Nat
ASSUME RetriesAssumption == MaxRetries \in Nat

\* The order is accepted at 0.
Row(kind, occurred, recorded) ==
  [kind |-> kind, occurredAt |-> occurred, recordedAt |-> recorded]

\* The rows of an order with n retries and events of these types.
History(types, n, retried, recorded) ==
  <<Row("Accepted", 0, 0)>>
    \o [i \in 1..n |-> Row("Replayed", retried[i], retried[i])]
    \o SetToSeq({Row(t, 0, recorded[t]) : t \in types})

Histories(types) ==
  {History(types, n, retried, recorded) :
     n \in 0..MaxRetries, retried \in [1..MaxRetries -> Clock],
     recorded \in [types -> Clock \ {0}]}

Publications ==
  [createdAt : {0}, publishedAt : (Clock \ {0}) \cup {NotPublished}]

IsShownInOrder(types) ==
  \A rows \in Histories(types), publication \in Publications :
    IsCausalView(rows, publication, BuildOrderTimeline(rows, publication))

\* The sets of events all views of which are causal.
ShownInOrder == UNION {IF IsShownInOrder(types) THEN {types} ELSE {} :
                         types \in SUBSET Types}

\* However late and in whatever order events were recorded, the timeline a
\* client is shown tells of no effect before its cause, and of every retry just
\* before the first of the steps, in their order, that was seen after it.  So
\* nothing seen after a retry is shown before it; a step seen before it may be
\* shown behind it, if its cause was seen late.
ShownCausally ==
  \A r \in Readers : readPc[r] = "done" => entries[r] \in ShownInOrder
=============================================================================
