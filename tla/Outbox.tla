------------------------------- MODULE Outbox -------------------------------
(***************************************************************************)
(* The transactional outbox of one service: the PostgreSQL table behind    *)
(* PostgresOutboxStore and the OutboxRelays (one per service process) that *)
(* claim due rows under a lease, publish them to RabbitMQ outside of any   *)
(* transaction, and record the outcome.                                    *)
(*                                                                         *)
(* Each store call is one SQL statement.  claimBatch is split into the     *)
(* moment its SELECT ... FOR UPDATE SKIP LOCKED takes the row locks and    *)
(* the moment the UPDATE commits, because other statements run in between; *)
(* markPublished and releaseForRetry wait for row locks, so each is one    *)
(* step taken when the rows are unlocked.                                  *)
(*                                                                         *)
(* Time is abstracted to the instant a row's available_at is reached       *)
(* (BecomeDue).  "faults" counts the crashes, stops, failed calls and      *)
(* expired leases of a relay still at work.  Rows and faults share one     *)
(* bound, MaxTrouble, so that TLC meets few rows with many faults and many *)
(* rows with few.                                                          *)
(***************************************************************************)
EXTENDS Naturals, FiniteSets

CONSTANTS Events,     \* outbox rows, by sequence_id
          Relays,     \* one OutboxRelay per service process
          NoRelay,    \* claimed_by IS NULL
          BatchSize,  \* batchSize
          MaxTrouble  \* bound on the rows and the faults together

ASSUME EventsAssumption == Events \subseteq Nat
ASSUME RelayAssumption == NoRelay \notin Relays
ASSUME BoundAssumption == BatchSize \in Nat \ {0} /\ MaxTrouble \in Nat

VARIABLES
  stored,     \* rows in the table
  published,  \* rows with published_at IS NOT NULL
  due,        \* rows with available_at <= clock_timestamp()
  claimedBy,  \* claimed_by
  attempts,   \* attempts
  pc,         \* where run() of each relay is
  batch,      \* the rows a relay has locked or claimed
  token,      \* the attempts value each claimed message carries
  confirmed,  \* claimed messages whose publish was fulfilled
  failed,     \* claimed messages whose publish was rejected, to be released
  notified,   \* the relay's notified flag
  aborted,    \* the abort signal of the relay's run()
  acked,      \* commits a process was told of and has not yet notified
  unseen,     \* history: notifications since the relay's last scan
  leases,     \* history: leases that have not run out, per claimant
  copies,     \* history: copies of each event the broker accepted
  faults      \* faults so far

table == <<stored, published, due, claimedBy, attempts>>
work == <<batch, token, confirmed, failed>>
signals == <<notified, aborted, acked, unseen>>
history == <<leases, copies>>
vars == <<stored, published, due, claimedBy, attempts, pc, batch, token,
          confirmed, failed, notified, aborted, acked, unseen, leases, copies,
          faults>>

PCs == {"loop", "claim", "locked", "publish", "release", "sleep", "backoff",
        "stopped", "down"}

TypeOK ==
  /\ stored \subseteq Events
  /\ published \subseteq stored
  /\ due \subseteq stored
  /\ claimedBy \in [Events -> Relays \cup {NoRelay}]
  /\ attempts \in [Events -> Nat]
  /\ pc \in [Relays -> PCs]
  /\ batch \in [Relays -> SUBSET Events]
  /\ token \in [Relays -> [Events -> Nat]]
  /\ confirmed \in [Relays -> SUBSET Events]
  /\ failed \in [Relays -> SUBSET Events]
  /\ \A r \in Relays : confirmed[r] \cup failed[r] \subseteq batch[r]
  /\ notified \in [Relays -> BOOLEAN]
  /\ aborted \in [Relays -> BOOLEAN]
  /\ acked \in [Relays -> SUBSET Events]
  /\ unseen \in [Relays -> SUBSET Events]
  /\ leases \in [Relays -> SUBSET Events]
  /\ copies \in [Events -> Nat]
  /\ faults \in Nat

Init ==
  /\ stored = {} /\ published = {} /\ due = {}
  /\ claimedBy = [e \in Events |-> NoRelay]
  /\ attempts = [e \in Events |-> 0]
  /\ pc = [r \in Relays |-> "loop"]
  /\ batch = [r \in Relays |-> {}]
  /\ token = [r \in Relays |-> [e \in Events |-> 0]]
  /\ confirmed = [r \in Relays |-> {}]
  /\ failed = [r \in Relays |-> {}]
  /\ notified = [r \in Relays |-> FALSE]
  /\ aborted = [r \in Relays |-> FALSE]
  /\ acked = [r \in Relays |-> {}]
  /\ unseen = [r \in Relays |-> {}]
  /\ leases = [r \in Relays |-> {}]
  /\ copies = [e \in Events |-> 0]
  /\ faults = 0
-----------------------------------------------------------------------------
(* Helpers. *)

Running(r) == pc[r] \notin {"stopped", "down"}

Bounded == Cardinality(stored) + faults < MaxTrouble

\* A fault is one more of a bounded number of things that go wrong.
Fault == Bounded /\ faults' = faults + 1

\* Rows whose locks are held by a claim statement that has not committed.
Locked == UNION {batch[r] : r \in {q \in Relays : pc[q] = "locked"}}

\* Faulty variants: published rows or abandoned claims are ignored.
ClaimableAgain == due \ Locked
ClaimableOnce == {e \in (due \ published) \ Locked : claimedBy[e] = NoRelay}

\* Rows the SELECT of claimBatch matches and can lock: published_at IS NULL,
\* available_at <= clock_timestamp(), SKIP LOCKED.
Claimable == (due \ published) \ Locked

\* Faulty variant: the claim does not count.
UncountedAttempt(e) == attempts[e]

\* attempts = outbox.attempts + 1
NextAttempt(e) == attempts[e] + 1

\* ORDER BY sequence_id LIMIT: the lowest-numbered claimable rows.
IsBatch(B, S) ==
  /\ B \subseteq S
  /\ Cardinality(B) = IF Cardinality(S) < BatchSize THEN Cardinality(S)
                                                   ELSE BatchSize
  /\ \A x \in B, y \in S \ B : x < y

\* Faulty variant: releaseForRetry without its fence.
UnfencedClaim(r, e) == e \notin published

\* WHERE claimed_by = .. AND attempts = .. AND published_at IS NULL.
HoldsClaim(r, e) ==
  /\ claimedBy[e] = r
  /\ attempts[e] = token[r][e]
  /\ e \notin published

\* Faulty variant: rejected messages are marked along with the others.
ToMarkAll(r) == batch[r]

\* The messages of the batch whose publish was fulfilled.
ToMark(r) == confirmed[r]

\* Faulty variant: the notified flag is not read before the wait.
AfterBatchDeaf(r, n) ==
  IF n < BatchSize /\ ~aborted[r] THEN "sleep" ELSE "loop"

\* waitForWork(poll, wakeOnNotify = true) after a batch of n rows: it sleeps
\* unless the batch was full, a notification came in or the relay is stopping.
AfterBatch(r, n) ==
  IF n < BatchSize /\ ~aborted[r] /\ ~notified[r] THEN "sleep" ELSE "loop"

\* waitForWork(retryDelay, wakeOnNotify = false) after a failed cycle.
AfterFailure(r) == IF aborted[r] THEN "loop" ELSE "backoff"

\* The local variables of processBatch go out of scope.
ForgetBatch(r) ==
  /\ batch' = [batch EXCEPT ![r] = {}]
  /\ token' = [token EXCEPT ![r] = [e \in Events |-> 0]]
  /\ confirmed' = [confirmed EXCEPT ![r] = {}]
  /\ failed' = [failed EXCEPT ![r] = {}]

Goto(r, label) == pc' = [pc EXCEPT ![r] = label]
-----------------------------------------------------------------------------
(* The services that write to the outbox. *)

\* A business transaction of relay r's process commits with its event; the
\* acknowledgement of the COMMIT reaches the process, or is lost.
Enqueue(r, e) ==
  /\ Running(r) /\ e \in Events \ stored /\ Bounded
  /\ stored' = stored \cup {e}
  /\ due' = due \cup {e}
  /\ \/ acked' = [acked EXCEPT ![r] = @ \cup {e}]
     \/ acked' = acked
  /\ UNCHANGED <<published, claimedBy, attempts, pc, work, notified, aborted,
                 unseen, history, faults>>

\* notify(): the process wakes its relay after the commit.
Notify(r, e) ==
  /\ Running(r) /\ e \in acked[r]
  /\ acked' = [acked EXCEPT ![r] = @ \ {e}]
  /\ notified' = [notified EXCEPT ![r] = TRUE]
  /\ unseen' = [unseen EXCEPT ![r] = @ \cup {e}]
  /\ pc' = IF pc[r] = "sleep" THEN [pc EXCEPT ![r] = "loop"] ELSE pc
  /\ UNCHANGED <<table, work, aborted, history, faults>>

\* available_at is reached: a retry delay or a lease has run out.  For a relay
\* still at work on the row that is a fault: it was too slow.
BecomeDue(e) ==
  /\ e \in (stored \ published) \ due
  /\ due' = due \cup {e}
  /\ leases' = [r \in Relays |-> IF claimedBy[e] = r THEN leases[r] \ {e}
                                                     ELSE leases[r]]
  /\ IF \E r \in Relays : e \in batch[r] /\ claimedBy[e] = r
       THEN Fault
       ELSE UNCHANGED faults
  /\ UNCHANGED <<stored, published, claimedBy, attempts, pc, work, signals,
                 copies>>
-----------------------------------------------------------------------------
(* The relay's loop. *)

\* The top of run(): stop if aborted, else clear notified and claim.
Loop(r) ==
  /\ pc[r] = "loop"
  /\ IF aborted[r]
       THEN Goto(r, "stopped") /\ UNCHANGED notified
       ELSE Goto(r, "claim") /\ notified' = [notified EXCEPT ![r] = FALSE]
  /\ UNCHANGED <<table, work, aborted, acked, unseen, history, faults>>

\* claimBatch: the SELECT locks the first due rows no other claim has locked.
ClaimScan(r) ==
  /\ pc[r] = "claim"
  /\ \E B \in SUBSET Claimable :
       IsBatch(B, Claimable) /\ batch' = [batch EXCEPT ![r] = B]
  /\ unseen' = [unseen EXCEPT ![r] = {}]
  /\ Goto(r, "locked")
  /\ UNCHANGED <<table, token, confirmed, failed, notified, aborted, acked,
                 history, faults>>

\* The UPDATE of claimBatch on the locked rows.
ClaimRows(r) ==
  /\ due' = due \ batch[r]
  /\ claimedBy' = [e \in Events |-> IF e \in batch[r] THEN r ELSE claimedBy[e]]
  /\ attempts' = [e \in Events |-> IF e \in batch[r] THEN NextAttempt(e)
                                                    ELSE attempts[e]]
  /\ leases' = [leases EXCEPT ![r] = @ \cup batch[r]]

\* The claim commits and the relay starts to publish what it returned.
ClaimCommit(r) ==
  /\ pc[r] = "locked" /\ batch[r] # {}
  /\ ClaimRows(r)
  /\ token' = [token EXCEPT ![r] =
       [e \in Events |-> IF e \in batch[r] THEN NextAttempt(e) ELSE 0]]
  /\ Goto(r, "publish")
  /\ UNCHANGED <<stored, published, batch, confirmed, failed, signals, copies,
                 faults>>

\* Nothing was due.
ClaimNothing(r) ==
  /\ pc[r] = "locked" /\ batch[r] = {}
  /\ Goto(r, AfterBatch(r, 0))
  /\ UNCHANGED <<table, work, signals, history, faults>>

\* The claim fails; the statement took effect nevertheless, or did not.
ClaimFails(r) ==
  /\ pc[r] = "locked" /\ Fault
  /\ \/ ClaimRows(r)
     \/ UNCHANGED <<due, claimedBy, attempts, leases>>
  /\ ForgetBatch(r)
  /\ Goto(r, AfterFailure(r))
  /\ UNCHANGED <<stored, published, signals, copies>>

Unsettled(r) == batch[r] \ (confirmed[r] \cup failed[r])

\* The broker accepts and confirms one message of the batch.
PublishConfirmed(r, e) ==
  /\ pc[r] = "publish" /\ e \in Unsettled(r)
  /\ copies' = [copies EXCEPT ![e] = @ + 1]
  /\ confirmed' = [confirmed EXCEPT ![r] = @ \cup {e}]
  /\ UNCHANGED <<table, pc, batch, token, failed, signals, leases, faults>>

\* One publish is rejected: not sent, returned or refused, or timed out with
\* the broker having accepted it all the same.
PublishFails(r, e) ==
  /\ pc[r] = "publish" /\ e \in Unsettled(r) /\ Fault
  /\ \/ copies' = copies
     \/ copies' = [copies EXCEPT ![e] = @ + 1]
  /\ failed' = [failed EXCEPT ![r] = @ \cup {e}]
  /\ UNCHANGED <<table, pc, batch, token, confirmed, signals, leases>>

\* The UPDATE of markPublished: not fenced by the claim.
MarkRows(S) ==
  /\ published' = published \cup S
  /\ claimedBy' = [e \in Events |-> IF e \in S \ published THEN NoRelay
                                                          ELSE claimedBy[e]]
  /\ leases' = [r \in Relays |-> leases[r] \ S]

\* allSettled is done: what was confirmed is marked; if nothing failed, the
\* batch is over, else the failed messages are released next.
MarkPublished(r) ==
  /\ pc[r] = "publish" /\ Unsettled(r) = {}
  /\ ToMark(r) \cap Locked = {}
  /\ MarkRows(ToMark(r))
  /\ IF failed[r] = {}
       THEN ForgetBatch(r) /\ Goto(r, AfterBatch(r, Cardinality(batch[r])))
       ELSE UNCHANGED work /\ Goto(r, "release")
  /\ UNCHANGED <<stored, due, attempts, signals, copies, faults>>

\* markPublished throws, with or without effect: processBatch is abandoned
\* and the failed messages are not released either.
MarkFails(r) ==
  /\ pc[r] = "publish" /\ Unsettled(r) = {} /\ ToMark(r) # {}
  /\ ToMark(r) \cap Locked = {} /\ Fault
  /\ \/ MarkRows(ToMark(r))
     \/ UNCHANGED <<published, claimedBy, leases>>
  /\ ForgetBatch(r)
  /\ Goto(r, AfterFailure(r))
  /\ UNCHANGED <<stored, due, attempts, signals, copies>>

\* The UPDATE of releaseForRetry, fenced by the claim.
ReleaseRow(r, e) ==
  IF HoldsClaim(r, e)
    THEN /\ due' = due \ {e}
         /\ claimedBy' = [claimedBy EXCEPT ![e] = NoRelay]
         /\ leases' = [leases EXCEPT ![r] = @ \ {e}]
    ELSE UNCHANGED <<due, claimedBy, leases>>

\* scheduleRetry of the next failed message.  An error of the store is caught,
\* whether or not the statement took effect.
Release(r, e) ==
  /\ pc[r] = "release" /\ e \in failed[r] \ Locked
  /\ \A f \in failed[r] : e <= f
  /\ \/ ReleaseRow(r, e) /\ UNCHANGED faults
     \/ UNCHANGED <<due, claimedBy, leases>> /\ Fault
  /\ IF failed[r] = {e}
       THEN ForgetBatch(r) /\ Goto(r, AfterBatch(r, Cardinality(batch[r])))
       ELSE /\ failed' = [failed EXCEPT ![r] = @ \ {e}]
            /\ UNCHANGED <<pc, batch, token, confirmed>>
  /\ UNCHANGED <<stored, published, attempts, signals, copies>>

\* The poll interval or the retry delay of the loop is over.
WakeUp(r) ==
  /\ pc[r] \in {"sleep", "backoff"}
  /\ Goto(r, "loop")
  /\ UNCHANGED <<table, work, signals, history, faults>>
-----------------------------------------------------------------------------
(* Shutdown, crash and restart of a process. *)

\* The host aborts the relay's signal, which also ends its wait.
Abort(r) ==
  /\ Running(r) /\ ~aborted[r] /\ Fault
  /\ aborted' = [aborted EXCEPT ![r] = TRUE]
  /\ pc' = IF pc[r] \in {"sleep", "backoff"} THEN [pc EXCEPT ![r] = "loop"]
                                             ELSE pc
  /\ UNCHANGED <<table, work, notified, acked, unseen, history>>

\* A process dies: its locks are released, its memory is lost, and of the
\* messages on their way to the broker some arrive.
Crash(r) ==
  /\ Running(r) /\ Fault
  /\ \E S \in SUBSET (IF pc[r] = "publish" THEN Unsettled(r) ELSE {}) :
       copies' = [e \in Events |-> IF e \in S THEN copies[e] + 1 ELSE copies[e]]
  /\ ForgetBatch(r)
  /\ Goto(r, "down")
  /\ UNCHANGED <<table, signals, leases>>

Restart(r) ==
  /\ ~Running(r)
  /\ Goto(r, "loop")
  /\ notified' = [notified EXCEPT ![r] = FALSE]
  /\ aborted' = [aborted EXCEPT ![r] = FALSE]
  /\ acked' = [acked EXCEPT ![r] = {}]
  /\ unseen' = [unseen EXCEPT ![r] = {}]
  /\ UNCHANGED <<table, work, history, faults>>
-----------------------------------------------------------------------------
\* What a relay and its process do in the course of things.
RelayStep(r) ==
  \/ Loop(r) \/ ClaimScan(r) \/ ClaimCommit(r) \/ ClaimNothing(r)
  \/ MarkPublished(r) \/ WakeUp(r) \/ Restart(r)
  \/ \E e \in Events : PublishConfirmed(r, e) \/ Release(r, e)

\* What goes wrong.
RelayFault(r) ==
  \/ ClaimFails(r) \/ MarkFails(r) \/ Abort(r) \/ Crash(r)
  \/ \E e \in Events : PublishFails(r, e)

Next ==
  \/ \E r \in Relays : RelayStep(r) \/ RelayFault(r)
  \/ \E r \in Relays, e \in Events : Enqueue(r, e) \/ Notify(r, e)
  \/ \E e \in Events : BecomeDue(e)

Spec == Init /\ [][Next]_vars

\* Every relay keeps running (a process that goes down is restarted), time
\* passes, and publishing succeeds once the bounded faults are used up.
Fairness ==
  /\ \A r \in Relays : WF_vars(RelayStep(r))
  /\ \A e \in Events : WF_vars(BecomeDue(e))

FairSpec == Spec /\ Fairness
-----------------------------------------------------------------------------
(* Properties. *)

\* No event is lost between the table and the broker, and none is taken up
\* again: markPublished only ever records rows the broker has accepted, and no
\* late statement of a slow relay leaves a recorded row with a claim.
PublishedWasDelivered ==
  \A e \in published : copies[e] > 0 /\ claimedBy[e] = NoRelay

\* Relays claim disjoint batches: while the lease of one claimant runs, the
\* row is leased to no other, even if a slow relay returns from a claim it
\* lost and releases the row (the fence of releaseForRetry).
LeasesAreExclusive ==
  \A q, r \in Relays : q # r => leases[q] \cap leases[r] = {}

\* notify() is never lost: no relay waits out its poll interval after a
\* notification that its last scan of the table preceded.
NoLostWakeUp == \A r \in Relays : pc[r] = "sleep" => unseen[r] = {}

\* A row's attempts bound the copies the broker can have, so an event whose
\* row shows one attempt was not duplicated by the relays.
AttemptsCountCopies == \A e \in Events : copies[e] <= attempts[e]

\* Every attempt after the first is explained by something that went wrong:
\* without faults each event is claimed, and sent, exactly once.
RetriesAreExplained == \A e \in Events : attempts[e] <= 1 + faults

\* A published row is final: no later statement of a slow or restarted relay
\* claims it, counts an attempt on it or makes it unpublished.
PublishedRowsAreFinal ==
  [][\A e \in published : /\ e \in published'
                          /\ attempts'[e] = attempts[e]
                          /\ claimedBy'[e] = NoRelay]_vars

\* The outbox implements the promise it makes to its services.
Promise == INSTANCE OutboxPromise
             WITH delivered <- {e \in Events : copies[e] > 0},
                  recorded <- published

PromiseSafe == Promise!Safe
PromiseKept == Promise!Spec
=============================================================================
