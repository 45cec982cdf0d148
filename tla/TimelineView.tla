---------------------------- MODULE TimelineView ----------------------------
(***************************************************************************)
(* buildOrderTimeline: the rows of an order's history and the publication  *)
(* of its OrderCreated event become the entries a client is shown.  Events *)
(* are recorded in any order and their producers' times may be copies of   *)
(* earlier ones, so that neither the rows' order nor any clock shows what  *)
(* caused what: steps are ordered by stage, and idempotent retries, which  *)
(* have no stage, by the time they were received.                          *)
(*                                                                         *)
(* A row is [kind, occurredAt, recordedAt], with an event's type as its    *)
(* kind; an entry keeps the number of its row, 0 for the publication.      *)
(* Titles, descriptions and services are left out.                         *)
(***************************************************************************)
EXTENDS Naturals, Sequences, FiniteSets

CONSTANT NotPublished  \* publishedAt while the broker has not confirmed the event

\* Faulty variant: a step is dated by its producer.
ToEntryAtProducer(row, number) ==
  [kind |-> row.kind, number |-> number, at |-> row.occurredAt]

\* A step is dated by the order service, on the clock of its database.
ToEntry(row, number) ==
  [kind |-> row.kind, number |-> number,
   at |-> IF row.kind \in {"Accepted", "Replayed"} THEN row.occurredAt
                                                   ELSE row.recordedAt]

PublicationEntry(publication) ==
  IF publication.publishedAt # NotPublished
    THEN [kind |-> "Published", number |-> 0, at |-> publication.publishedAt]
    ELSE [kind |-> "PublicationPending", number |-> 0,
          at |-> publication.createdAt]

EntryStage(entry) ==
  CASE entry.kind = "Accepted" -> 0
    [] entry.kind \in {"Published", "PublicationPending"} -> 1
    [] entry.kind = "PaymentAuthorized" -> 2
    [] entry.kind \in {"InventoryReserved", "InventoryReservationFailed"} -> 3
    [] entry.kind = "DeliveryBooked" -> 4

IsRetry(entry) == entry.kind = "Replayed"
IsStep(entry) == ~IsRetry(entry)

\* The elements of a finite set in an order of it, a set of pairs.
InOrder(S, order) ==
  [k \in 1..Cardinality(S) |->
     CHOOSE x \in S : Cardinality({y \in S : <<y, x>> \in order}) = k - 1]

\* Sorting is stable: entries that compare equal keep their places.
ByTime(list) ==
  {p \in (DOMAIN list) \X (DOMAIN list) :
     \/ list[p[1]].at < list[p[2]].at
     \/ list[p[1]].at = list[p[2]].at /\ p[1] < p[2]}

ByStage(list) ==
  {p \in (DOMAIN list) \X (DOMAIN list) :
     \/ EntryStage(list[p[1]]) < EntryStage(list[p[2]])
     \/ EntryStage(list[p[1]]) = EntryStage(list[p[2]]) /\ p \in ByTime(list)}

StepsOf(list) ==
  LET order == InOrder({i \in DOMAIN list : IsStep(list[i])}, ByStage(list))
  IN  [k \in DOMAIN order |-> list[order[k]]]

RetriesOf(list) ==
  LET order == InOrder({i \in DOMAIN list : IsRetry(list[i])}, ByTime(list))
  IN  [k \in DOMAIN order |-> list[order[k]]]

\* Faulty variant: a retry also precedes what was observed with it.
BeforeOrWith(retry, step) == retry.at <= step.at

\* The retry was received before the step was observed.
Before(retry, step) == retry.at < step.at

\* The number of retries that the while loop takes before the step.
Due(retries, step) ==
  CHOOSE n \in 0..Len(retries) :
    /\ \A k \in 1..n : Before(retries[k], step)
    /\ n < Len(retries) => ~Before(retries[n + 1], step)

\* One step of the loop.  The accepted order is not preceded by any retry.
Place(view, step) ==
  LET due == IF view.ordered = <<>> THEN 0 ELSE Due(view.retries, step)
  IN  [ordered |-> view.ordered \o SubSeq(view.retries, 1, due) \o <<step>>,
       retries |-> SubSeq(view.retries, due + 1, Len(view.retries))]

\* The whole loop.
Placed(steps, retries) ==
  LET view[n \in 0..Len(steps)] ==
        IF n = 0 THEN [ordered |-> <<>>, retries |-> retries]
                 ELSE Place(view[n - 1], steps[n])
  IN  view[Len(steps)]

OrderCausally(list) ==
  LET view == Placed(StepsOf(list), RetriesOf(list))
  IN  view.ordered \o view.retries

BuildOrderTimeline(rows, publication) ==
  OrderCausally(Append([i \in DOMAIN rows |-> ToEntry(rows[i], i)],
                       PublicationEntry(publication)))
-----------------------------------------------------------------------------
(* What the order of the entries means. *)

\* The steps that a step cannot happen without.
Causes(kind) ==
  CASE kind \in {"Published", "PublicationPending"} -> {"Accepted"}
    [] kind = "Replayed" -> {"Accepted"}
    [] kind = "PaymentAuthorized" -> {"Published", "PublicationPending"}
    [] kind \in {"InventoryReserved", "InventoryReservationFailed"} ->
         {"PaymentAuthorized"}
    [] kind = "DeliveryBooked" -> {"InventoryReserved"}
    [] OTHER -> {}

\* When the order service saw what an entry tells of.
SeenAt(entry, rows, publication) ==
  CASE entry.kind = "Published" -> publication.publishedAt
    [] entry.kind = "PublicationPending" -> publication.createdAt
    [] entry.kind \in {"Accepted", "Replayed"} -> rows[entry.number].occurredAt
    [] OTHER -> rows[entry.number].recordedAt

\* The first step after place i.
NextStep(view, i) ==
  CHOOSE j \in i + 1 .. Len(view) :
    IsStep(view[j]) /\ \A k \in i + 1 .. j - 1 : IsRetry(view[k])

\* A view shows every row once, no effect before its cause, the retries in the
\* order they came, and each of them before the first of the steps, in the order
\* in which they are shown, that the order service saw later: all that is shown
\* before a retry had been seen by then, and the next step had not.  Behind that
\* step there may be others that had been seen: an effect can be seen before its
\* cause, and is not shown before it.
IsCausalView(rows, publication, view) ==
  LET Seen(i) == SeenAt(view[i], rows, publication)
  IN  /\ Len(view) = Len(rows) + 1
      /\ {view[i].number : i \in DOMAIN view} = 0..Len(rows)
      /\ \A i, j \in DOMAIN view : i < j => view[j].kind \notin Causes(view[i].kind)
      /\ \A i \in DOMAIN view : IsRetry(view[i]) =>
           /\ \A j \in 1 .. i - 1 : Seen(j) <= Seen(i)
           /\ (\E j \in i + 1 .. Len(view) : IsStep(view[j])) =>
                Seen(i) < Seen(NextStep(view, i))
=============================================================================
