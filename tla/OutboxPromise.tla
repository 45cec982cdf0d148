---------------------------- MODULE OutboxPromise ----------------------------
(***************************************************************************)
(* What the transactional outbox promises to the services that use it,     *)
(* independently of relays, leases and batches: an event committed with a  *)
(* business change is handed to the broker at least once, an event is      *)
(* recorded as published only after the broker has it, and every committed *)
(* event is eventually recorded as published.                              *)
(***************************************************************************)
CONSTANT Events

VARIABLES stored,     \* events committed to the outbox table
          delivered,  \* events the broker has accepted at least once
          recorded    \* events recorded as published

vars == <<stored, delivered, recorded>>

Init == /\ stored = {}
        /\ delivered = {}
        /\ recorded = {}

\* A business transaction commits together with its event.
Commit(e) == /\ e \in Events \ stored
             /\ stored' = stored \cup {e}
             /\ UNCHANGED <<delivered, recorded>>

\* Committed events reach the broker; a crash can settle several at once.
\* Delivering one that is there already is a duplicate, which changes nothing.
Deliver(S) == /\ S \subseteq stored
              /\ delivered' = delivered \cup S
              /\ UNCHANGED <<stored, recorded>>

\* Events the broker has are recorded as published.
Record(S) == /\ S \subseteq delivered
             /\ recorded' = recorded \cup S
             /\ UNCHANGED <<stored, delivered>>

Next == \/ \E e \in Events : Commit(e)
        \/ \E S \in SUBSET Events : Deliver(S) \/ Record(S)

\* The safety half of the promise.
Safe == Init /\ [][Next]_vars

\* The whole promise: no committed event is stranded in the outbox.
Spec == Safe /\ \A e \in Events : (e \in stored) ~> (e \in recorded)
=============================================================================
