---------------------------- MODULE OutboxProofs ----------------------------
(***************************************************************************)
(* Proofs about Outbox, for every set of rows and relays, every batch size *)
(* and every number of faults.                                             *)
(***************************************************************************)
EXTENDS Outbox, FiniteSetTheorems, TLAPS

\* The state of a relay that no step other than its own disturbs.
Holding(r) == pc[r] \in {"locked", "publish", "release"}

\* A relay has a batch only between its claim and the end of processBatch, the
\* rows of a batch are in the table, and a lock is held on due rows only.
BatchInv ==
  \A r \in Relays :
    /\ ~Holding(r) => batch[r] = {}
    /\ batch[r] \subseteq stored
    /\ pc[r] = "locked" => /\ batch[r] \subseteq due \ published
                           /\ confirmed[r] = {} /\ failed[r] = {}

\* FOR UPDATE SKIP LOCKED: no row is locked by two claims.
LockInv ==
  \A q, r \in Relays :
    q # r /\ pc[q] = "locked" /\ pc[r] = "locked" => batch[q] \cap batch[r] = {}

\* While a lease runs the row still names its claimant, is not due, and is not
\* published: what makes leases exclusive.
LeaseInv ==
  \A r \in Relays : \A e \in leases[r] :
    claimedBy[e] = r /\ e \in stored /\ e \notin due /\ e \notin published

\* What is confirmed or recorded has reached the broker, and only rows of the
\* table have; a published row has no claimant.
DeliveryInv ==
  /\ \A r \in Relays : \A e \in confirmed[r] : copies[e] > 0
  /\ \A e \in published : copies[e] > 0 /\ claimedBy[e] = NoRelay
  /\ \A e \in Events : copies[e] > 0 => e \in stored

\* A notification that the last scan did not see is remembered by the flag,
\* until the loop clears it to scan again.
SignalInv ==
  \A r \in Relays :
    /\ unseen[r] # {} => notified[r] \/ pc[r] \in {"claim", "down", "stopped"}
    /\ pc[r] = "sleep" => unseen[r] = {}

\* The claim of the row is being worked on and nothing has gone wrong with it.
InHand(e) ==
  \E r \in Relays : /\ pc[r] = "publish"
                    /\ claimedBy[e] = r
                    /\ e \in batch[r] \ failed[r]

\* Each attempt but the one in hand was ended by a fault.
AttemptInv ==
  \A e \in Events :
    /\ e \notin stored => attempts[e] = 0
    /\ attempts[e] <= 1 + faults
    /\ e \in stored \ published =>
         \/ attempts[e] <= faults
         \/ e \notin due /\ InHand(e)

IInv == /\ TypeOK
        /\ BatchInv
        /\ LockInv
        /\ LeaseInv
        /\ DeliveryInv
        /\ SignalInv
        /\ AttemptInv
-----------------------------------------------------------------------------
\* Every behaviour starts in the invariant.
LEMMA InitInv == Init => IInv
  BY RelayAssumption
     DEF Init, IInv, TypeOK, BatchInv, LockInv, LeaseInv, DeliveryInv,
         SignalInv, AttemptInv, Holding, PCs

\* Where a relay goes after a batch or a failed cycle.
LEMMA NextLabel ==
  ASSUME NEW r \in Relays, NEW n
  PROVE  /\ AfterBatch(r, n) \in {"sleep", "loop"}
         /\ AfterBatch(r, n) = "sleep" => ~notified[r]
         /\ AfterFailure(r) \in {"backoff", "loop"}
  BY DEF AfterBatch, AfterFailure

\* The types of what the helpers of the actions assign.
WorkType ==
  /\ batch \in [Relays -> SUBSET Events]
  /\ token \in [Relays -> [Events -> Nat]]
  /\ confirmed \in [Relays -> SUBSET Events]
  /\ failed \in [Relays -> SUBSET Events]
  /\ \A r \in Relays : confirmed[r] \cup failed[r] \subseteq batch[r]

LEMMA ForgetBatchType ==
  ASSUME TypeOK, NEW r \in Relays, ForgetBatch(r)
  PROVE  WorkType'
  BY DEF TypeOK, WorkType, ForgetBatch

LEMMA GotoType ==
  ASSUME TypeOK, NEW r \in Relays, NEW l \in PCs, Goto(r, l)
  PROVE  pc' \in [Relays -> PCs]
  BY DEF TypeOK, Goto

LEMMA ClaimRowsType ==
  ASSUME TypeOK, NEW r \in Relays, ClaimRows(r)
  PROVE  /\ due' \subseteq stored
         /\ claimedBy' \in [Events -> Relays \cup {NoRelay}]
         /\ attempts' \in [Events -> Nat]
         /\ leases' \in [Relays -> SUBSET Events]
  BY DEF TypeOK, ClaimRows, NextAttempt

LEMMA MarkRowsType ==
  ASSUME TypeOK, NEW S \in SUBSET stored, MarkRows(S)
  PROVE  /\ published' \subseteq stored
         /\ claimedBy' \in [Events -> Relays \cup {NoRelay}]
         /\ leases' \in [Relays -> SUBSET Events]
  BY DEF TypeOK, MarkRows

LEMMA ReleaseRowType ==
  ASSUME TypeOK, NEW r \in Relays, NEW e \in Events, ReleaseRow(r, e)
  PROVE  /\ due' \subseteq stored
         /\ claimedBy' \in [Events -> Relays \cup {NoRelay}]
         /\ leases' \in [Relays -> SUBSET Events]
<1>1. CASE HoldsClaim(r, e)
  <2>1. /\ due' = due \ {e}
        /\ claimedBy' = [claimedBy EXCEPT ![e] = NoRelay]
        /\ leases' = [leases EXCEPT ![r] = @ \ {e}]
    BY <1>1 DEF ReleaseRow
  <2> QED
    BY <2>1 DEF TypeOK
<1>2. CASE ~HoldsClaim(r, e)
  BY <1>2 DEF TypeOK, ReleaseRow
<1> QED
  BY <1>1, <1>2

\* Type correctness is preserved by every step.
LEMMA TypeStep == TypeOK /\ BatchInv /\ [Next]_vars => TypeOK'
<1> SUFFICES ASSUME TypeOK, BatchInv, [Next]_vars PROVE TypeOK'
  OBVIOUS
<1>1. ASSUME NEW r \in Relays, Loop(r) PROVE TypeOK'
  BY <1>1 DEF Loop, TypeOK, PCs, Goto, table, work, history
<1>2. ASSUME NEW r \in Relays, ClaimScan(r) PROVE TypeOK'
  <2>1. PICK B \in SUBSET Claimable : batch' = [batch EXCEPT ![r] = B]
    BY <1>2 DEF ClaimScan
  <2>2. B \subseteq Events
    BY <2>1 DEF Claimable, TypeOK
  <2>3. confirmed[r] = {} /\ failed[r] = {}
    BY <1>2 DEF ClaimScan, BatchInv, Holding, TypeOK
  <2>4. WorkType'
    BY <1>2, <2>1, <2>2, <2>3 DEF ClaimScan, WorkType, TypeOK
  <2> QED
    BY <1>2, <2>4, GotoType DEF ClaimScan, WorkType, TypeOK, PCs, table, history
<1>3. ASSUME NEW r \in Relays, ClaimCommit(r) PROVE TypeOK'
  <2>1. token' \in [Relays -> [Events -> Nat]]
    BY <1>3 DEF ClaimCommit, NextAttempt, TypeOK
  <2> QED
    BY <1>3, <2>1, ClaimRowsType, GotoType DEF ClaimCommit, TypeOK, PCs, signals
<1>4. ASSUME NEW r \in Relays, ClaimNothing(r) PROVE TypeOK'
  <2>1. AfterBatch(r, 0) \in PCs
    BY NextLabel DEF PCs
  <2> QED
    BY <1>4, <2>1, GotoType DEF ClaimNothing, TypeOK, table, work, signals, history
<1>5. ASSUME NEW r \in Relays, MarkPublished(r) PROVE TypeOK'
  <2> DEFINE n == Cardinality(batch[r])
  <2>1. AfterBatch(r, n) \in PCs /\ "release" \in PCs
    BY NextLabel DEF PCs
  <2>2. ToMark(r) \in SUBSET stored
    BY DEF ToMark, BatchInv, TypeOK
  <2>3. WorkType' /\ pc' \in [Relays -> PCs]
    <3>1. CASE failed[r] = {}
      BY <1>5, <2>1, <3>1, ForgetBatchType, GotoType DEF MarkPublished
    <3>2. CASE failed[r] # {}
      BY <1>5, <2>1, <3>2, GotoType DEF MarkPublished, WorkType, TypeOK, work
    <3> QED
      BY <3>1, <3>2
  <2> QED
    BY <1>5, <2>2, <2>3, MarkRowsType DEF MarkPublished, WorkType, TypeOK, signals
<1>6. ASSUME NEW r \in Relays, WakeUp(r) PROVE TypeOK'
  BY <1>6 DEF WakeUp, TypeOK, PCs, Goto, table, work, signals, history
<1>7. ASSUME NEW r \in Relays, Restart(r) PROVE TypeOK'
  BY <1>7 DEF Restart, TypeOK, PCs, Goto, table, work, history
<1>8. ASSUME NEW r \in Relays, NEW e \in Events, PublishConfirmed(r, e) PROVE TypeOK'
  BY <1>8 DEF PublishConfirmed, Unsettled, TypeOK, table, signals
<1>9. ASSUME NEW r \in Relays, NEW e \in Events, Release(r, e) PROVE TypeOK'
  <2> DEFINE n == Cardinality(batch[r])
  <2>1. AfterBatch(r, n) \in PCs
    BY NextLabel DEF PCs
  <2>2. WorkType' /\ pc' \in [Relays -> PCs]
    <3>1. CASE failed[r] = {e}
      BY <1>9, <2>1, <3>1, ForgetBatchType, GotoType DEF Release
    <3>2. CASE failed[r] # {e}
      <4>1. /\ failed' = [failed EXCEPT ![r] = @ \ {e}]
            /\ UNCHANGED <<pc, batch, token, confirmed>>
        BY <1>9, <3>2 DEF Release
      <4> QED
        BY <4>1 DEF WorkType, TypeOK
    <3> QED
      BY <3>1, <3>2
  <2>3. /\ due' \subseteq stored
        /\ claimedBy' \in [Events -> Relays \cup {NoRelay}]
        /\ leases' \in [Relays -> SUBSET Events]
        /\ faults' \in Nat
    BY <1>9, ReleaseRowType DEF Release, Fault, TypeOK
  <2> QED
    BY <1>9, <2>2, <2>3 DEF Release, WorkType, TypeOK, signals
<1>10. ASSUME NEW r \in Relays, ClaimFails(r) PROVE TypeOK'
  <2>1. AfterFailure(r) \in PCs
    BY NextLabel DEF PCs
  <2>2. /\ due' \subseteq stored
        /\ claimedBy' \in [Events -> Relays \cup {NoRelay}]
        /\ attempts' \in [Events -> Nat]
        /\ leases' \in [Relays -> SUBSET Events]
    BY <1>10, ClaimRowsType DEF ClaimFails, TypeOK
  <2> QED
    BY <1>10, <2>1, <2>2, ForgetBatchType, GotoType
       DEF ClaimFails, WorkType, Fault, TypeOK, signals
<1>11. ASSUME NEW r \in Relays, MarkFails(r) PROVE TypeOK'
  <2>1. AfterFailure(r) \in PCs
    BY NextLabel DEF PCs
  <2>2. ToMark(r) \in SUBSET stored
    BY DEF ToMark, BatchInv, TypeOK
  <2>3. /\ published' \subseteq stored
        /\ claimedBy' \in [Events -> Relays \cup {NoRelay}]
        /\ leases' \in [Relays -> SUBSET Events]
    BY <1>11, <2>2, MarkRowsType DEF MarkFails, TypeOK
  <2> QED
    BY <1>11, <2>1, <2>3, ForgetBatchType, GotoType
       DEF MarkFails, WorkType, Fault, TypeOK, signals
<1>12. ASSUME NEW r \in Relays, Abort(r) PROVE TypeOK'
  BY <1>12 DEF Abort, Fault, TypeOK, PCs, Goto, table, work, history
<1>13. ASSUME NEW r \in Relays, Crash(r) PROVE TypeOK'
  BY <1>13, ForgetBatchType DEF Crash, Fault, WorkType, TypeOK, PCs, Goto, table, signals
<1>14. ASSUME NEW r \in Relays, NEW e \in Events, PublishFails(r, e) PROVE TypeOK'
  <2>1. copies' \in [Events -> Nat]
    <3>1. CASE copies' = copies
      BY <3>1 DEF TypeOK
    <3>2. CASE copies' = [copies EXCEPT ![e] = @ + 1]
      BY <3>2 DEF TypeOK
    <3> QED
      BY <1>14, <3>1, <3>2 DEF PublishFails
  <2>2. faults' \in Nat
    BY <1>14 DEF PublishFails, Fault, TypeOK
  <2> QED
    BY <1>14, <2>1, <2>2 DEF PublishFails, Unsettled, TypeOK, table, signals
<1>15. ASSUME NEW r \in Relays, NEW e \in Events, Enqueue(r, e) PROVE TypeOK'
  <2>1. acked' \in [Relays -> SUBSET Events]
    BY <1>15 DEF Enqueue, TypeOK
  <2> QED
    BY <1>15, <2>1 DEF Enqueue, TypeOK, work, history
<1>16. ASSUME NEW r \in Relays, NEW e \in Events, Notify(r, e) PROVE TypeOK'
  BY <1>16 DEF Notify, TypeOK, PCs, table, work, history
<1>17. ASSUME NEW e \in Events, BecomeDue(e) PROVE TypeOK'
  BY <1>17 DEF BecomeDue, Fault, TypeOK, work, signals
<1>18. CASE UNCHANGED vars
  BY <1>18 DEF vars, TypeOK
<1> QED
  BY <1>1, <1>2, <1>3, <1>4, <1>5, <1>6, <1>7, <1>8, <1>9, <1>10, <1>11,
     <1>12, <1>13, <1>14, <1>15, <1>16, <1>17, <1>18
     DEF Next, RelayStep, RelayFault
-----------------------------------------------------------------------------
\* The batch and lock discipline is preserved.
LEMMA BatchStep == IInv /\ [Next]_vars => BatchInv'
<1> SUFFICES ASSUME IInv, [Next]_vars PROVE BatchInv'
  OBVIOUS
<1> USE DEF IInv, BatchInv, Holding
<1>1. ASSUME NEW r \in Relays,
             Loop(r) \/ ClaimNothing(r) \/ WakeUp(r) \/ Restart(r) \/ Abort(r)
      PROVE  BatchInv'
  BY <1>1, NextLabel
     DEF Loop, ClaimNothing, WakeUp, Restart, Abort, Running, Goto, TypeOK,
         table, work
<1>2. ASSUME NEW r \in Relays, ClaimScan(r) PROVE BatchInv'
  <2>1. PICK B \in SUBSET Claimable : batch' = [batch EXCEPT ![r] = B]
    BY <1>2 DEF ClaimScan
  <2>2. B \subseteq due \ published /\ B \subseteq stored
    BY <2>1 DEF Claimable, TypeOK
  <2> QED
    BY <1>2, <2>1, <2>2 DEF ClaimScan, Goto, TypeOK, table
<1>3. ASSUME NEW r \in Relays, ClaimCommit(r) \/ ClaimFails(r) PROVE BatchInv'
  <2>1. ASSUME NEW q \in Relays, q # r, pc[q] = "locked"
        PROVE  batch[q] \subseteq due' \ published'
    BY <1>3, <2>1 DEF ClaimCommit, ClaimFails, ClaimRows, LockInv, TypeOK
  <2>2. ASSUME NEW q \in Relays, q # r
        PROVE  /\ pc'[q] = pc[q] /\ batch'[q] = batch[q]
               /\ confirmed'[q] = confirmed[q] /\ failed'[q] = failed[q]
    BY <1>3, <2>2 DEF ClaimCommit, ClaimFails, ForgetBatch, Goto, TypeOK
  <2>3. CASE ClaimCommit(r)
    <3>1. pc'[r] = "publish" /\ batch'[r] = batch[r] /\ stored' = stored
      BY <2>3 DEF ClaimCommit, Goto, TypeOK
    <3> QED
      BY <2>1, <2>2, <2>3, <3>1 DEF ClaimCommit
  <2>4. CASE ClaimFails(r)
    <3>1. pc'[r] \in {"backoff", "loop"} /\ batch'[r] = {} /\ stored' = stored
      BY <2>4, NextLabel DEF ClaimFails, ForgetBatch, Goto, TypeOK
    <3> QED
      BY <2>1, <2>2, <2>4, <3>1 DEF ClaimFails
  <2> QED
    BY <1>3, <2>3, <2>4
<1>4. ASSUME NEW r \in Relays, MarkPublished(r) \/ MarkFails(r) PROVE BatchInv'
  <2>1. ASSUME NEW q \in Relays, pc[q] = "locked"
        PROVE  batch[q] \subseteq due' \ published'
    BY <1>4, <2>1 DEF MarkPublished, MarkFails, MarkRows, Locked
  <2>2. ASSUME NEW q \in Relays, q # r
        PROVE  /\ pc'[q] = pc[q] /\ batch'[q] = batch[q]
               /\ confirmed'[q] = confirmed[q] /\ failed'[q] = failed[q]
    BY <1>4, <2>2 DEF MarkPublished, MarkFails, ForgetBatch, Goto, work, TypeOK
  <2>3. /\ \/ pc'[r] = "release" /\ batch'[r] = batch[r]
           \/ pc'[r] \in {"backoff", "sleep", "loop"} /\ batch'[r] = {}
        /\ stored' = stored
    <3>1. CASE MarkPublished(r) /\ failed[r] = {}
      <4>1. AfterBatch(r, Cardinality(batch[r])) \in {"sleep", "loop"}
        BY NextLabel
      <4> QED
        BY <3>1, <4>1 DEF MarkPublished, ForgetBatch, Goto, TypeOK
    <3>2. CASE MarkPublished(r) /\ failed[r] # {}
      BY <3>2 DEF MarkPublished, Goto, work, TypeOK
    <3>3. CASE MarkFails(r)
      BY <3>3, NextLabel DEF MarkFails, ForgetBatch, Goto, TypeOK
    <3> QED
      BY <1>4, <3>1, <3>2, <3>3
  <2> QED
    BY <1>4, <2>1, <2>2, <2>3 DEF MarkPublished, MarkFails
<1>5. ASSUME NEW r \in Relays, NEW e \in Events, Release(r, e) PROVE BatchInv'
  <2>1. ASSUME NEW q \in Relays, pc[q] = "locked"
        PROVE  batch[q] \subseteq due' \ published'
    BY <1>5, <2>1 DEF Release, ReleaseRow, Locked
  <2>2. ASSUME NEW q \in Relays, q # r
        PROVE  /\ pc'[q] = pc[q] /\ batch'[q] = batch[q]
               /\ confirmed'[q] = confirmed[q] /\ failed'[q] = failed[q]
    BY <1>5, <2>2 DEF Release, ForgetBatch, Goto, TypeOK
  <2>3. /\ \/ pc'[r] = "release"
           \/ pc'[r] \in {"sleep", "loop"} /\ batch'[r] = {}
        /\ batch'[r] \subseteq stored'
    BY <1>5, NextLabel DEF Release, ForgetBatch, Goto, TypeOK
  <2> QED
    BY <1>5, <2>1, <2>2, <2>3 DEF Release
<1>6. ASSUME NEW r \in Relays, Crash(r) PROVE BatchInv'
  BY <1>6 DEF Crash, ForgetBatch, Goto, TypeOK, table
<1>7. ASSUME NEW r \in Relays, NEW e \in Events,
             PublishConfirmed(r, e) \/ PublishFails(r, e)
      PROVE  BatchInv'
  <2>1. /\ pc[r] = "publish"
        /\ UNCHANGED <<table, pc, batch>>
        /\ \A q \in Relays : q # r => confirmed'[q] = confirmed[q] /\ failed'[q] = failed[q]
    BY <1>7 DEF PublishConfirmed, PublishFails, TypeOK
  <2> QED
    BY <2>1 DEF table
<1>8. ASSUME NEW r \in Relays, NEW e \in Events, Enqueue(r, e) \/ Notify(r, e)
      PROVE  BatchInv'
  BY <1>8 DEF Enqueue, Notify, TypeOK, table, work
<1>9. ASSUME NEW e \in Events, BecomeDue(e) PROVE BatchInv'
  BY <1>9 DEF BecomeDue, work
<1>10. CASE UNCHANGED vars
  BY <1>10 DEF vars
<1> QED
  BY <1>1, <1>2, <1>3, <1>4, <1>5, <1>6, <1>7, <1>8, <1>9, <1>10
     DEF Next, RelayStep, RelayFault

\* A scan locks only rows that no other claim has locked.
LEMMA LockStep == IInv /\ [Next]_vars => LockInv'
<1> SUFFICES ASSUME IInv, [Next]_vars PROVE LockInv'
  OBVIOUS
<1>1. ASSUME NEW r \in Relays, ClaimScan(r) PROVE LockInv'
  <2>1. PICK B \in SUBSET Claimable : batch' = [batch EXCEPT ![r] = B]
    BY <1>1 DEF ClaimScan
  <2>2. \A q \in Relays : pc[q] = "locked" => B \cap batch[q] = {}
    BY <2>1 DEF Claimable, Locked
  <2>3. \A q \in Relays : q # r => pc'[q] = pc[q] /\ batch'[q] = batch[q]
    BY <1>1, <2>1 DEF ClaimScan, Goto, IInv, TypeOK
  <2>4. batch'[r] = B
    BY <2>1 DEF IInv, TypeOK
  <2> QED
    BY <2>2, <2>3, <2>4 DEF IInv, LockInv
<1>2. ASSUME NEW q \in Relays, pc'[q] = "locked",
             ~ \E r \in Relays : ClaimScan(r)
      PROVE  pc[q] = "locked" /\ batch'[q] = batch[q]
  <2> USE <1>2 DEF IInv, TypeOK
  <2>1. ASSUME NEW r \in Relays,
               Loop(r) \/ ClaimNothing(r) \/ WakeUp(r) \/ Restart(r) \/ Abort(r)
        PROVE  pc[q] = "locked" /\ batch'[q] = batch[q]
    BY <2>1, NextLabel
       DEF Loop, ClaimNothing, WakeUp, Restart, Abort, Goto, work
  <2>2. ASSUME NEW r \in Relays, ClaimCommit(r) \/ ClaimFails(r) \/ MarkFails(r)
        PROVE  pc[q] = "locked" /\ batch'[q] = batch[q]
    BY <2>2, NextLabel DEF ClaimCommit, ClaimFails, MarkFails, ForgetBatch, Goto
  <2>3. ASSUME NEW r \in Relays, MarkPublished(r)
        PROVE  pc[q] = "locked" /\ batch'[q] = batch[q]
    <3>1. AfterBatch(r, Cardinality(batch[r])) \in {"sleep", "loop"}
      BY NextLabel
    <3> QED
      BY <2>3, <3>1 DEF MarkPublished, ForgetBatch, Goto, work
  <2>4. ASSUME NEW r \in Relays, NEW e \in Events,
               Release(r, e) \/ PublishConfirmed(r, e) \/ PublishFails(r, e)
        PROVE  pc[q] = "locked" /\ batch'[q] = batch[q]
    BY <2>4, NextLabel
       DEF Release, PublishConfirmed, PublishFails, ForgetBatch, Goto
  <2>5. ASSUME NEW r \in Relays, Crash(r)
        PROVE  pc[q] = "locked" /\ batch'[q] = batch[q]
    BY <2>5 DEF Crash, ForgetBatch, Goto
  <2>6. ASSUME NEW r \in Relays, NEW e \in Events,
               Enqueue(r, e) \/ Notify(r, e)
        PROVE  pc[q] = "locked" /\ batch'[q] = batch[q]
    BY <2>6 DEF Enqueue, Notify, work
  <2>7. ASSUME NEW e \in Events, BecomeDue(e)
        PROVE  pc[q] = "locked" /\ batch'[q] = batch[q]
    BY <2>7 DEF BecomeDue, work
  <2>8. CASE UNCHANGED vars
    BY <2>8 DEF vars
  <2> QED
    BY <2>1, <2>2, <2>3, <2>4, <2>5, <2>6, <2>7, <2>8 DEF Next, RelayStep, RelayFault
<1>3. CASE ~ \E r \in Relays : ClaimScan(r)
  BY <1>2, <1>3 DEF IInv, LockInv
<1> QED
  BY <1>1, <1>3

\* Leases: a claim takes due rows only, and a row's lease ends when it is
\* released by its holder, recorded as published, or due again.
LEMMA LeaseStep == IInv /\ [Next]_vars => LeaseInv'
<1> SUFFICES ASSUME IInv, [Next]_vars PROVE LeaseInv'
  OBVIOUS
<1> USE DEF IInv, LeaseInv
<1>1. ASSUME UNCHANGED <<stored, published, due, claimedBy, leases>> PROVE LeaseInv'
  BY <1>1
<1>2. ASSUME NEW r \in Relays, pc[r] = "locked", ClaimRows(r),
             UNCHANGED <<published, stored>>
      PROVE  LeaseInv'
  <2>1. batch[r] \subseteq due \ published /\ batch[r] \subseteq stored
    BY <1>2 DEF BatchInv
  <2> SUFFICES ASSUME NEW q \in Relays, NEW e \in leases'[q]
               PROVE  /\ claimedBy'[e] = q /\ e \in stored'
                      /\ e \notin due' /\ e \notin published'
    OBVIOUS
  <2>2. e \in Events
    BY <1>2 DEF ClaimRows, TypeOK
  <2>3. CASE e \in leases[q]
    BY <1>2, <2>1, <2>2, <2>3 DEF ClaimRows
  <2>4. CASE e \notin leases[q]
    <3>1. q = r /\ e \in batch[r]
      BY <1>2, <2>4 DEF ClaimRows, TypeOK
    <3> QED
      BY <1>2, <2>1, <2>2, <3>1 DEF ClaimRows
  <2> QED
    BY <2>3, <2>4
<1>3. ASSUME NEW S \in SUBSET stored, MarkRows(S), UNCHANGED <<stored, due>>
      PROVE  LeaseInv'
  BY <1>3 DEF MarkRows, TypeOK
<1>4. ASSUME NEW r \in Relays, ClaimCommit(r) \/ ClaimFails(r) PROVE LeaseInv'
  BY <1>1, <1>2, <1>4 DEF ClaimCommit, ClaimFails
<1>5. ASSUME NEW r \in Relays, MarkPublished(r) \/ MarkFails(r) PROVE LeaseInv'
  <2>1. ToMark(r) \in SUBSET stored
    BY DEF ToMark, BatchInv, TypeOK
  <2> QED
    BY <1>1, <1>3, <1>5, <2>1 DEF MarkPublished, MarkFails
<1>6. ASSUME NEW r \in Relays, NEW e \in Events, Release(r, e) PROVE LeaseInv'
  <2>1. CASE ReleaseRow(r, e) /\ HoldsClaim(r, e)
    <3>1. /\ due' = due \ {e}
          /\ claimedBy' = [claimedBy EXCEPT ![e] = NoRelay]
          /\ leases' = [leases EXCEPT ![r] = @ \ {e}]
          /\ claimedBy[e] = r
          /\ UNCHANGED <<published, stored>>
      BY <1>6, <2>1 DEF Release, ReleaseRow, HoldsClaim
    <3> QED
      BY <3>1 DEF TypeOK
  <2>2. CASE ~(ReleaseRow(r, e) /\ HoldsClaim(r, e))
    BY <1>1, <1>6, <2>2 DEF Release, ReleaseRow
  <2> QED
    BY <2>1, <2>2
<1>7. ASSUME NEW e \in Events, BecomeDue(e) PROVE LeaseInv'
  BY <1>7 DEF BecomeDue, TypeOK
<1>8. ASSUME NEW r \in Relays, NEW e \in Events, Enqueue(r, e) PROVE LeaseInv'
  <2>1. \A q \in Relays : e \notin leases[q]
    BY <1>8 DEF Enqueue
  <2> QED
    BY <1>8, <2>1 DEF Enqueue, history
<1>9. ASSUME NEW r \in Relays,
             \/ Loop(r) \/ ClaimScan(r) \/ ClaimNothing(r) \/ WakeUp(r)
             \/ Restart(r) \/ Abort(r) \/ Crash(r)
      PROVE  LeaseInv'
  BY <1>1, <1>9
     DEF Loop, ClaimScan, ClaimNothing, WakeUp, Restart, Abort, Crash, table, history
<1>10. ASSUME NEW r \in Relays, NEW e \in Events,
              PublishConfirmed(r, e) \/ PublishFails(r, e) \/ Notify(r, e)
       PROVE  LeaseInv'
  BY <1>1, <1>10 DEF PublishConfirmed, PublishFails, Notify, table, history
<1>11. CASE UNCHANGED vars
  BY <1>1, <1>11 DEF vars
<1> QED
  BY <1>4, <1>5, <1>6, <1>7, <1>8, <1>9, <1>10, <1>11
     DEF Next, RelayStep, RelayFault

\* Only what the broker accepted is recorded as published.
LEMMA DeliveryStep == IInv /\ [Next]_vars => DeliveryInv'
<1> SUFFICES ASSUME IInv, [Next]_vars PROVE DeliveryInv'
  OBVIOUS
<1> USE DEF IInv, DeliveryInv
<1>1. ASSUME UNCHANGED <<published, claimedBy, copies, stored>>,
             \A q \in Relays : confirmed'[q] \subseteq confirmed[q]
      PROVE  DeliveryInv'
  BY <1>1
<1>2. ASSUME NEW r \in Relays, ClaimCommit(r) \/ ClaimFails(r) PROVE DeliveryInv'
  <2>1. \A q \in Relays : confirmed'[q] \subseteq confirmed[q]
    BY <1>2 DEF ClaimCommit, ClaimFails, ForgetBatch, TypeOK
  <2>2. CASE ClaimRows(r)
    <3>1. batch[r] \cap published = {}
      BY <1>2 DEF ClaimCommit, ClaimFails, BatchInv
    <3>2. \A e \in published : claimedBy'[e] = claimedBy[e]
      BY <2>2, <3>1 DEF ClaimRows, TypeOK
    <3> QED
      BY <1>2, <2>1, <3>2 DEF ClaimCommit, ClaimFails
  <2>3. CASE ~ClaimRows(r)
    BY <1>1, <1>2, <2>1, <2>3 DEF ClaimCommit, ClaimFails
  <2> QED
    BY <2>2, <2>3
<1>3. ASSUME NEW r \in Relays, MarkPublished(r) \/ MarkFails(r) PROVE DeliveryInv'
  <2>1. \A q \in Relays : confirmed'[q] \subseteq confirmed[q]
    BY <1>3 DEF MarkPublished, MarkFails, ForgetBatch, work, TypeOK
  <2>2. CASE MarkRows(ToMark(r))
    <3>1. \A e \in ToMark(r) : copies[e] > 0 /\ e \in Events
      BY DEF ToMark, TypeOK
    <3>2. \A e \in published' : claimedBy'[e] = NoRelay
      BY <2>2, <3>1 DEF MarkRows, TypeOK
    <3> QED
      BY <1>3, <2>1, <2>2, <3>1, <3>2 DEF MarkPublished, MarkFails, MarkRows
  <2>3. CASE ~MarkRows(ToMark(r))
    BY <1>1, <1>3, <2>1, <2>3 DEF MarkPublished, MarkFails
  <2> QED
    BY <2>2, <2>3
<1>4. ASSUME NEW r \in Relays, NEW e \in Events, Release(r, e) PROVE DeliveryInv'
  <2>1. \A q \in Relays : confirmed'[q] \subseteq confirmed[q]
    BY <1>4 DEF Release, ForgetBatch, TypeOK
  <2>2. \A f \in published : claimedBy'[f] = claimedBy[f]
    BY <1>4 DEF Release, ReleaseRow, HoldsClaim, TypeOK
  <2> QED
    BY <1>4, <2>1, <2>2 DEF Release
<1>5. ASSUME NEW r \in Relays, NEW e \in Events, PublishConfirmed(r, e)
      PROVE  DeliveryInv'
  <2>1. e \in stored
    BY <1>5 DEF PublishConfirmed, Unsettled, BatchInv
  <2> QED
    BY <1>5, <2>1 DEF PublishConfirmed, TypeOK, table
<1>6. ASSUME NEW r \in Relays, NEW e \in Events, PublishFails(r, e)
      PROVE  DeliveryInv'
  <2>1. e \in stored
    BY <1>6 DEF PublishFails, Unsettled, BatchInv
  <2>2. \A f \in Events : copies[f] > 0 => copies'[f] > 0
    BY <1>6 DEF PublishFails, TypeOK
  <2>3. \A f \in Events : copies'[f] > 0 => f = e \/ copies[f] > 0
    BY <1>6 DEF PublishFails, TypeOK
  <2> QED
    BY <1>6, <2>1, <2>2, <2>3 DEF PublishFails, TypeOK, table
<1>7. ASSUME NEW r \in Relays, Crash(r) PROVE DeliveryInv'
  <2>1. PICK S \in SUBSET batch[r] :
          copies' = [e \in Events |-> IF e \in S THEN copies[e] + 1 ELSE copies[e]]
    BY <1>7 DEF Crash, Unsettled
  <2>2. S \subseteq stored
    BY DEF BatchInv
  <2>3. \A q \in Relays : confirmed'[q] \subseteq confirmed[q]
    BY <1>7 DEF Crash, ForgetBatch, TypeOK
  <2> QED
    BY <1>7, <2>1, <2>2, <2>3 DEF Crash, TypeOK, table
<1>8. ASSUME NEW r \in Relays, NEW e \in Events, Enqueue(r, e) PROVE DeliveryInv'
  BY <1>8 DEF Enqueue, TypeOK, work, history
<1>9. ASSUME NEW e \in Events, BecomeDue(e) PROVE DeliveryInv'
  BY <1>9 DEF BecomeDue, work
<1>10. ASSUME NEW r \in Relays,
              \/ Loop(r) \/ ClaimScan(r) \/ ClaimNothing(r) \/ WakeUp(r)
              \/ Restart(r) \/ Abort(r)
       PROVE  DeliveryInv'
  BY <1>10 DEF Loop, ClaimScan, ClaimNothing, WakeUp, Restart, Abort, table, work, history
<1>11. ASSUME NEW r \in Relays, NEW e \in Events, Notify(r, e) PROVE DeliveryInv'
  BY <1>11 DEF Notify, table, work, history
<1>12. CASE UNCHANGED vars
  BY <1>12 DEF vars
<1> QED
  BY <1>2, <1>3, <1>4, <1>5, <1>6, <1>7, <1>8, <1>9, <1>10, <1>11, <1>12
     DEF Next, RelayStep, RelayFault

\* A scan is what clears the memory of a notification, and a relay goes to
\* sleep only with its flag down.
LEMMA SignalStep == IInv /\ [Next]_vars => SignalInv'
<1> SUFFICES ASSUME IInv, [Next]_vars PROVE SignalInv'
  OBVIOUS
<1> USE DEF IInv, SignalInv, TypeOK
<1>1. ASSUME NEW r \in Relays, NEW n,
             pc[r] \notin {"claim", "down", "stopped"},
             Goto(r, AfterBatch(r, n)) \/ Goto(r, AfterFailure(r)),
             UNCHANGED <<notified, unseen>>
      PROVE  SignalInv'
  BY <1>1, NextLabel DEF Goto
<1>2. ASSUME NEW r \in Relays, ClaimNothing(r) \/ ClaimFails(r) \/ MarkFails(r)
      PROVE  SignalInv'
  BY <1>1, <1>2 DEF ClaimNothing, ClaimFails, MarkFails, signals
<1>3. ASSUME NEW r \in Relays, MarkPublished(r) PROVE SignalInv'
  <2>1. CASE failed[r] = {}
    BY <1>1, <1>3, <2>1 DEF MarkPublished, signals
  <2>2. CASE failed[r] # {}
    BY <1>3, <2>2 DEF MarkPublished, Goto, signals
  <2> QED
    BY <2>1, <2>2
<1>4. ASSUME NEW r \in Relays, NEW e \in Events, Release(r, e) PROVE SignalInv'
  <2>1. CASE failed[r] = {e}
    BY <1>1, <1>4, <2>1 DEF Release, signals
  <2>2. CASE failed[r] # {e}
    BY <1>4, <2>2 DEF Release, signals
  <2> QED
    BY <2>1, <2>2
<1>5. ASSUME NEW r \in Relays,
             \/ Loop(r) \/ ClaimScan(r) \/ ClaimCommit(r) \/ WakeUp(r)
             \/ Restart(r) \/ Abort(r) \/ Crash(r)
      PROVE  SignalInv'
  BY <1>5
     DEF Loop, ClaimScan, ClaimCommit, WakeUp, Restart, Abort, Crash, Goto,
         Running, signals
<1>6. ASSUME NEW r \in Relays, NEW e \in Events,
             \/ PublishConfirmed(r, e) \/ PublishFails(r, e)
             \/ Enqueue(r, e) \/ Notify(r, e)
      PROVE  SignalInv'
  BY <1>6 DEF PublishConfirmed, PublishFails, Enqueue, Notify, signals
<1>7. ASSUME NEW e \in Events, BecomeDue(e) PROVE SignalInv'
  BY <1>7 DEF BecomeDue, signals
<1>8. CASE UNCHANGED vars
  BY <1>8 DEF vars
<1> QED
  BY <1>2, <1>3, <1>4, <1>5, <1>6, <1>7, <1>8 DEF Next, RelayStep, RelayFault

\* Every way for a row to be due again is paid for by a fault.
LEMMA AttemptStep == IInv /\ [Next]_vars => AttemptInv'
<1> SUFFICES ASSUME IInv, [Next]_vars, NEW e \in Events
             PROVE  /\ e \notin stored' => attempts'[e] = 0
                    /\ attempts'[e] <= 1 + faults'
                    /\ e \in stored' \ published' =>
                         \/ attempts'[e] <= faults'
                         \/ e \notin due' /\ InHand(e)'
  BY DEF AttemptInv
<1> DEFINE Goal == /\ e \notin stored' => attempts'[e] = 0
                   /\ attempts'[e] <= 1 + faults'
                   /\ e \in stored' \ published' =>
                        \/ attempts'[e] <= faults'
                        \/ e \notin due' /\ InHand(e)'
<1> USE DEF IInv, TypeOK
<1>0. /\ e \notin stored => attempts[e] = 0
      /\ attempts[e] <= 1 + faults
      /\ e \in stored \ published =>
           \/ attempts[e] <= faults
           \/ e \notin due /\ InHand(e)
      /\ attempts[e] \in Nat /\ faults \in Nat
  BY DEF AttemptInv
\* A step that makes nothing due and stops no work keeps the bound.
<1>1. ASSUME UNCHANGED <<stored, published, attempts, faults>>,
             due' \subseteq due,
             InHand(e) /\ e \in stored \ published => InHand(e)'
      PROVE  Goal
  BY <1>0, <1>1
\* A fault raises the bound.
<1>2. ASSUME Fault, UNCHANGED <<stored, attempts>>, published \subseteq published'
      PROVE  Goal
  BY <1>0, <1>2 DEF Fault
<1>3. ASSUME NEW r \in Relays, ClaimCommit(r) PROVE Goal
  <2>1. CASE e \in batch[r]
    <3>1. attempts[e] <= faults /\ e \in stored
      BY <1>0, <1>3, <2>1 DEF ClaimCommit, BatchInv
    <3>2. attempts'[e] = attempts[e] + 1
      BY <1>3, <2>1 DEF ClaimCommit, ClaimRows, NextAttempt
    <3>3. InHand(e)' /\ e \notin due'
      BY <1>3, <2>1 DEF ClaimCommit, ClaimRows, InHand, Goto, BatchInv
    <3> QED
      BY <1>0, <1>3, <3>1, <3>2, <3>3 DEF ClaimCommit
  <2>2. CASE e \notin batch[r]
    <3>1. attempts'[e] = attempts[e] /\ claimedBy'[e] = claimedBy[e]
      BY <1>3, <2>2 DEF ClaimCommit, ClaimRows
    <3>2. InHand(e) => InHand(e)'
      BY <1>3, <3>1 DEF ClaimCommit, InHand, Goto
    <3> QED
      BY <1>0, <1>3, <3>1, <3>2 DEF ClaimCommit, ClaimRows
  <2> QED
    BY <2>1, <2>2
<1>4. ASSUME NEW r \in Relays, ClaimFails(r) PROVE Goal
  <2>1. CASE e \in batch[r]
    <3>1. attempts[e] <= faults /\ e \in stored
      BY <1>0, <1>4, <2>1 DEF ClaimFails, BatchInv
    <3>2. attempts'[e] \in {attempts[e], attempts[e] + 1}
      BY <1>4, <2>1 DEF ClaimFails, ClaimRows, NextAttempt
    <3> QED
      BY <1>0, <1>4, <3>1, <3>2 DEF ClaimFails, Fault
  <2>2. CASE e \notin batch[r]
    <3>1. attempts'[e] = attempts[e]
      BY <1>4, <2>2 DEF ClaimFails, ClaimRows
    <3> QED
      BY <1>0, <1>4, <3>1 DEF ClaimFails, Fault
  <2> QED
    BY <2>1, <2>2
<1>5. ASSUME NEW r \in Relays, MarkPublished(r) PROVE Goal
  <2>1. InHand(e) /\ e \in stored \ published' => InHand(e)'
    <3> SUFFICES ASSUME InHand(e), e \in stored \ published' PROVE InHand(e)'
      OBVIOUS
    <3>1. PICK q \in Relays : /\ pc[q] = "publish" /\ claimedBy[e] = q
                              /\ e \in batch[q] \ failed[q]
      BY DEF InHand
    <3>2. e \notin ToMark(r)
      BY <1>5 DEF MarkPublished, MarkRows
    <3>3. q # r
      BY <1>5, <3>1, <3>2 DEF MarkPublished, Unsettled, ToMark
    <3>4. pc'[q] = pc[q] /\ batch'[q] = batch[q] /\ failed'[q] = failed[q]
      BY <1>5, <3>3 DEF MarkPublished, ForgetBatch, Goto, work
    <3>5. claimedBy'[e] = claimedBy[e]
      BY <1>5, <3>2 DEF MarkPublished, MarkRows
    <3> QED
      BY <3>1, <3>4, <3>5 DEF InHand
  <2> QED
    BY <1>0, <1>5, <2>1 DEF MarkPublished, MarkRows
<1>6. ASSUME NEW r \in Relays, MarkFails(r) PROVE Goal
  BY <1>2, <1>6 DEF MarkFails, MarkRows
<1>7. ASSUME NEW r \in Relays, NEW f \in Events, Release(r, f) PROVE Goal
  <2>1. due' \subseteq due
    BY <1>7 DEF Release, ReleaseRow
  <2>2. InHand(e) => InHand(e)'
    <3> SUFFICES ASSUME InHand(e) PROVE InHand(e)'
      OBVIOUS
    <3>1. PICK q \in Relays : /\ pc[q] = "publish" /\ claimedBy[e] = q
                              /\ e \in batch[q] \ failed[q]
      BY DEF InHand
    <3>2. q # r
      BY <1>7, <3>1 DEF Release
    <3>3. pc'[q] = pc[q] /\ batch'[q] = batch[q] /\ failed'[q] = failed[q]
      BY <1>7, <3>2 DEF Release, ForgetBatch, Goto
    <3>4. claimedBy'[e] = claimedBy[e]
      BY <1>7, <3>1, <3>2 DEF Release, ReleaseRow, HoldsClaim
    <3> QED
      BY <3>1, <3>3, <3>4 DEF InHand
  <2> QED
    BY <1>0, <1>7, <2>1, <2>2 DEF Release, Fault
<1>8. ASSUME NEW r \in Relays, Abort(r) \/ Crash(r) PROVE Goal
  BY <1>2, <1>8 DEF Abort, Crash, table
<1>9. ASSUME NEW r \in Relays, NEW f \in Events, PublishFails(r, f) PROVE Goal
  BY <1>2, <1>9 DEF PublishFails, table
<1>10. ASSUME NEW r \in Relays, NEW f \in Events, PublishConfirmed(r, f) PROVE Goal
  BY <1>1, <1>10 DEF PublishConfirmed, InHand, table
<1>11. ASSUME NEW f \in Events, BecomeDue(f) PROVE Goal
  <2>1. CASE f # e
    BY <1>0, <1>11, <2>1 DEF BecomeDue, InHand, Fault, work
  <2>2. CASE f = e
    BY <1>0, <1>11, <2>2 DEF BecomeDue, InHand, Fault, work
  <2> QED
    BY <2>1, <2>2
<1>12. ASSUME NEW r \in Relays, NEW f \in Events, Enqueue(r, f) PROVE Goal
  <2>1. InHand(e) => InHand(e)'
    BY <1>12 DEF Enqueue, InHand, work
  <2> QED
    BY <1>0, <1>12, <2>1 DEF Enqueue
<1>13. ASSUME NEW r \in Relays, NEW f \in Events, Notify(r, f) PROVE Goal
  BY <1>1, <1>13 DEF Notify, InHand, table, work
<1>14. ASSUME NEW r \in Relays,
              \/ Loop(r) \/ ClaimScan(r) \/ ClaimNothing(r) \/ WakeUp(r) \/ Restart(r)
       PROVE  Goal
  <2>1. \A q \in Relays : pc[q] = "publish" =>
           pc'[q] = pc[q] /\ batch'[q] = batch[q] /\ failed'[q] = failed[q]
    BY <1>14 DEF Loop, ClaimScan, ClaimNothing, WakeUp, Restart, Goto, Running, work
  <2>2. UNCHANGED <<stored, published, due, claimedBy, attempts, faults>>
    BY <1>14 DEF Loop, ClaimScan, ClaimNothing, WakeUp, Restart, table
  <2>3. InHand(e) => InHand(e)'
    BY <2>1, <2>2 DEF InHand
  <2> QED
    BY <1>1, <2>2, <2>3
<1>15. CASE UNCHANGED vars
  BY <1>1, <1>15 DEF vars, InHand
<1> QED
  BY <1>3, <1>4, <1>5, <1>6, <1>7, <1>8, <1>9, <1>10, <1>11, <1>12, <1>13,
     <1>14, <1>15 DEF Next, RelayStep, RelayFault
-----------------------------------------------------------------------------
\* IInv is inductive.
THEOREM Invariance == Spec => []IInv
<1>1. IInv /\ [Next]_vars => IInv'
  BY TypeStep, BatchStep, LockStep, LeaseStep, DeliveryStep, SignalStep,
     AttemptStep DEF IInv
<1> QED
  BY <1>1, InitInv, PTL DEF Spec

\* Every variable keeps its type in every behaviour.
THEOREM TypeCorrect == Spec => []TypeOK
<1>1. IInv => TypeOK
  BY DEF IInv
<1> QED
  BY <1>1, Invariance, PTL

\* An event recorded as published has reached the broker.
THEOREM NothingLost == Spec => []PublishedWasDelivered
<1>1. IInv => PublishedWasDelivered
  BY DEF IInv, DeliveryInv, PublishedWasDelivered
<1> QED
  BY <1>1, Invariance, PTL

\* No row is under the running lease of two relays.
THEOREM ExclusiveLeases == Spec => []LeasesAreExclusive
<1>1. IInv => LeasesAreExclusive
  BY DEF IInv, LeaseInv, LeasesAreExclusive
<1> QED
  BY <1>1, Invariance, PTL

\* No relay sleeps on a notification its last scan preceded.
THEOREM WakeUpsAreKept == Spec => []NoLostWakeUp
<1>1. IInv => NoLostWakeUp
  BY DEF IInv, SignalInv, NoLostWakeUp
<1> QED
  BY <1>1, Invariance, PTL

\* Without faults every event is claimed once.
THEOREM RetriesExplained == Spec => []RetriesAreExplained
<1>1. IInv => RetriesAreExplained
  BY DEF IInv, AttemptInv, RetriesAreExplained
<1> QED
  BY <1>1, Invariance, PTL

\* What a step can do to the row of a published event: nothing.
LEMMA FinalStep ==
  IInv /\ [Next]_vars =>
    \A e \in published : /\ e \in published'
                         /\ attempts'[e] = attempts[e]
                         /\ claimedBy'[e] = NoRelay
<1> SUFFICES ASSUME IInv, [Next]_vars, NEW e \in published
             PROVE  /\ e \in published'
                    /\ attempts'[e] = attempts[e]
                    /\ claimedBy'[e] = NoRelay
  OBVIOUS
<1>1. claimedBy[e] = NoRelay /\ e \in Events
  BY DEF IInv, DeliveryInv, TypeOK
<1>2. \A r \in Relays : pc[r] = "locked" => e \notin batch[r]
  BY DEF IInv, BatchInv
<1>3. ASSUME NEW r \in Relays,
             ClaimCommit(r) \/ ClaimFails(r) \/ MarkPublished(r) \/ MarkFails(r)
      PROVE  /\ e \in published' /\ attempts'[e] = attempts[e]
             /\ claimedBy'[e] = NoRelay
  BY <1>1, <1>2, <1>3
     DEF ClaimCommit, ClaimFails, MarkPublished, MarkFails, ClaimRows, MarkRows
<1>4. ASSUME NEW r \in Relays, NEW f \in Events, Release(r, f)
      PROVE  /\ e \in published' /\ attempts'[e] = attempts[e]
             /\ claimedBy'[e] = NoRelay
  <2>1. claimedBy'[e] = claimedBy[e]
    BY <1>1, <1>4 DEF Release, ReleaseRow, HoldsClaim, IInv, TypeOK
  <2> QED
    BY <1>1, <1>4, <2>1 DEF Release
<1>5. ASSUME NEW r \in Relays, NEW f \in Events,
             PublishConfirmed(r, f) \/ PublishFails(r, f) \/ Enqueue(r, f) \/ Notify(r, f)
      PROVE  UNCHANGED <<published, attempts, claimedBy>>
  BY <1>5 DEF PublishConfirmed, PublishFails, Enqueue, Notify, table
<1>6. ASSUME NEW r \in Relays,
             \/ Loop(r) \/ ClaimScan(r) \/ ClaimNothing(r) \/ WakeUp(r)
             \/ Restart(r) \/ Abort(r) \/ Crash(r)
      PROVE  UNCHANGED <<published, attempts, claimedBy>>
  BY <1>6 DEF Loop, ClaimScan, ClaimNothing, WakeUp, Restart, Abort, Crash, table
<1>7. ASSUME NEW f \in Events, BecomeDue(f)
      PROVE  UNCHANGED <<published, attempts, claimedBy>>
  BY <1>7 DEF BecomeDue
<1>8. CASE UNCHANGED vars
  BY <1>1, <1>8 DEF vars
<1> QED
  BY <1>1, <1>3, <1>4, <1>5, <1>6, <1>7, <1>8 DEF Next, RelayStep, RelayFault

\* The row of a published event never changes again.
THEOREM RowsAreFinal == Spec => PublishedRowsAreFinal
<1>1. IInv /\ [Next]_vars =>
        [\A e \in published : /\ e \in published'
                              /\ attempts'[e] = attempts[e]
                              /\ claimedBy'[e] = NoRelay]_vars
  BY FinalStep
<1> QED
  BY <1>1, Invariance, PTL DEF Spec, PublishedRowsAreFinal
-----------------------------------------------------------------------------
\* The relays from which a copy of e may still go out under their claim.
Sending(e) == {r \in Relays : pc[r] = "publish" /\ e \in Unsettled(r)}

\* Each attempt pays for one copy: one that the broker has, or one that a relay
\* is still to send.
CountInv ==
  \A e \in Events : /\ IsFiniteSet(Sending(e))
                    /\ copies[e] + Cardinality(Sending(e)) <= attempts[e]

\* The ways in which a step may change the account of one event, with c copies,
\* the senders S and a attempts: nothing new goes out, a claim adds a sender, or
\* a sender gives up its turn.
LEMMA Account ==
  ASSUME NEW S, NEW T, NEW r, NEW c \in Nat, NEW a \in Nat, NEW d \in Nat,
         NEW b \in Nat, IsFiniteSet(S), c + Cardinality(S) <= a,
         \/ T \subseteq S /\ d <= c /\ b >= a
         \/ T = S \cup {r} /\ d = c /\ b = a + 1
         \/ T = S \ {r} /\ r \in S /\ d <= c + 1 /\ b = a
  PROVE  IsFiniteSet(T) /\ d + Cardinality(T) <= b
<1>1. Cardinality(S) \in Nat
  BY FS_CardinalityType
<1>2. CASE T \subseteq S /\ d <= c /\ b >= a
  <2>1. IsFiniteSet(T) /\ Cardinality(T) <= Cardinality(S)
    BY <1>2, FS_Subset
  <2>2. Cardinality(T) \in Nat
    BY <2>1, FS_CardinalityType
  <2> QED
    BY <1>1, <1>2, <2>1, <2>2
<1>3. CASE T = S \cup {r} /\ d = c /\ b = a + 1
  <2>1. /\ IsFiniteSet(S \cup {r})
        /\ Cardinality(S \cup {r}) = IF r \in S THEN Cardinality(S)
                                                ELSE Cardinality(S) + 1
    BY FS_AddElement, Zenon
  <2> QED
    BY <1>1, <1>3, <2>1
<1>4. CASE T = S \ {r} /\ r \in S /\ d <= c + 1 /\ b = a
  <2>1. /\ IsFiniteSet(S \ {r})
        /\ Cardinality(S \ {r}) = IF r \in S THEN Cardinality(S) - 1
                                             ELSE Cardinality(S)
    BY FS_RemoveElement, Zenon
  <2> QED
    BY <1>1, <1>4, <2>1
<1> QED
  BY <1>2, <1>3, <1>4

\* A claim adds one attempt and one sender, and a sender is gone once its
\* publish is settled or its process is dead.
LEMMA CountStep == IInv /\ TypeOK' /\ CountInv /\ [Next]_vars => CountInv'
<1> SUFFICES ASSUME IInv, TypeOK', CountInv, [Next]_vars, NEW e \in Events
             PROVE  /\ IsFiniteSet(Sending(e)')
                    /\ copies'[e] + Cardinality(Sending(e)') <= attempts'[e]
  BY DEF CountInv
<1> DEFINE Goal == /\ IsFiniteSet(Sending(e)')
                   /\ copies'[e] + Cardinality(Sending(e)') <= attempts'[e]
<1>a. /\ copies[e] \in Nat /\ attempts[e] \in Nat
      /\ copies'[e] \in Nat /\ attempts'[e] \in Nat
  BY DEF IInv, TypeOK
<1>b. IsFiniteSet(Sending(e)) /\ copies[e] + Cardinality(Sending(e)) <= attempts[e]
  BY DEF CountInv
<1> DEFINE S == Sending(e)
           T == Sending(e)'
           c == copies[e]
           a == attempts[e]
           d == copies'[e]
           b == attempts'[e]
<1>c. /\ c \in Nat /\ a \in Nat /\ d \in Nat /\ b \in Nat
      /\ IsFiniteSet(S) /\ c + Cardinality(S) <= a
  BY <1>a, <1>b
<1>d. ASSUME NEW r, \/ T \subseteq S /\ d <= c /\ b >= a
                    \/ T = S \cup {r} /\ d = c /\ b = a + 1
                    \/ T = S \ {r} /\ r \in S /\ d <= c + 1 /\ b = a
      PROVE  Goal
  <2>1. Goal <=> IsFiniteSet(T) /\ d + Cardinality(T) <= b
    OBVIOUS
  <2> HIDE DEF S, T, c, a, d, b, Goal
  <2> QED
    BY <1>c, <1>d, <2>1, Account
<1>e. ASSUME NEW r, r \in S, T = S \ {r}, d <= c + 1, b = a PROVE Goal
  <2> HIDE DEF S, T, c, a, d, b, Goal
  <2> QED
    BY <1>d, <1>e
<1>f. ASSUME NEW r, T = S \cup {r}, d = c, b = a + 1 PROVE Goal
  <2> HIDE DEF S, T, c, a, d, b, Goal
  <2> QED
    BY <1>d, <1>f
<1>0. ASSUME Sending(e)' \subseteq Sending(e), copies' = copies,
             attempts'[e] >= attempts[e]
      PROVE  Goal
  BY <1>a, <1>0, <1>d
<1>1. ASSUME NEW r \in Relays, ClaimCommit(r) PROVE Goal
  <2>1. copies' = copies
    BY <1>1 DEF ClaimCommit
  <2>2. CASE e \in batch[r]
    <3>1. Sending(e)' = Sending(e) \cup {r}
      BY <1>1, <2>2 DEF IInv, TypeOK, ClaimCommit, BatchInv, Sending, Unsettled, Goto
    <3>2. attempts'[e] = attempts[e] + 1
      BY <1>1, <2>2 DEF IInv, TypeOK, ClaimCommit, ClaimRows, NextAttempt
    <3> QED
      BY <2>1, <3>1, <3>2, <1>f
  <2>3. CASE e \notin batch[r]
    <3>1. Sending(e)' = Sending(e)
      BY <1>1, <2>3 DEF IInv, TypeOK, ClaimCommit, Sending, Unsettled, Goto
    <3>2. attempts'[e] = attempts[e]
      BY <1>1, <2>3 DEF IInv, TypeOK, ClaimCommit, ClaimRows
    <3> QED
      BY <1>a, <1>0, <2>1, <3>1, <3>2
  <2> QED
    BY <2>2, <2>3
<1>2. ASSUME NEW r \in Relays, ClaimFails(r) PROVE Goal
  <2>1. Sending(e)' \subseteq Sending(e)
    BY <1>2 DEF IInv, TypeOK, ClaimFails, ForgetBatch, Sending, Unsettled, Goto
  <2>2. attempts'[e] >= attempts[e] /\ copies' = copies
    BY <1>2 DEF IInv, TypeOK, ClaimFails, ClaimRows, NextAttempt
  <2> QED
    BY <1>a, <1>0, <2>1, <2>2
<1>3. ASSUME NEW r \in Relays, MarkPublished(r) \/ MarkFails(r) PROVE Goal
  <2>1. Sending(e)' \subseteq Sending(e)
    BY <1>3
       DEF IInv, TypeOK, MarkPublished, MarkFails, ForgetBatch, Sending, Unsettled,
           Goto, work
  <2> QED
    BY <1>a, <1>0, <1>3, <2>1 DEF IInv, TypeOK, MarkPublished, MarkFails
<1>4. ASSUME NEW r \in Relays, NEW f \in Events, Release(r, f) PROVE Goal
  <2>1. Sending(e)' \subseteq Sending(e)
    <3>1. pc'[r] # "publish"
      <4>1. AfterBatch(r, Cardinality(batch[r])) \in {"sleep", "loop"}
        BY NextLabel
      <4>2. pc[r] = "release"
            /\ pc' \in {pc, [pc EXCEPT ![r] = AfterBatch(r, Cardinality(batch[r]))]}
        BY <1>4 DEF Release, Goto
      <4> QED
        BY <4>1, <4>2 DEF IInv, TypeOK
    <3>2. \A q \in Relays \ {r} : /\ pc'[q] = pc[q] /\ batch'[q] = batch[q]
                                 /\ confirmed'[q] = confirmed[q]
                                 /\ failed'[q] = failed[q]
      BY <1>4 DEF IInv, TypeOK, Release, ForgetBatch, Goto
    <3> QED
      BY <3>1, <3>2 DEF Sending, Unsettled
  <2> QED
    <3>1. copies' = copies /\ attempts' = attempts
      BY <1>4 DEF Release
    <3> QED
      BY <1>a, <1>0, <2>1, <3>1
<1>5. ASSUME NEW r \in Relays, NEW f \in Events,
             PublishConfirmed(r, f) \/ PublishFails(r, f)
      PROVE  Goal
  <2>1. attempts'[e] = attempts[e]
    BY <1>5 DEF IInv, TypeOK, PublishConfirmed, PublishFails, table
  <2>2. CASE f = e
    <3>1. r \in Sending(e) /\ Sending(e)' = Sending(e) \ {r}
      BY <1>5, <2>2 DEF IInv, TypeOK, PublishConfirmed, PublishFails, Sending, Unsettled
    <3>2. copies'[e] <= copies[e] + 1
      BY <1>5, <2>2 DEF IInv, TypeOK, PublishConfirmed, PublishFails
    <3> QED
      BY <2>1, <3>1, <3>2, <1>e
  <2>3. CASE f # e
    <3>1. Sending(e)' = Sending(e)
      <4>1. pc' = pc /\ batch' = batch
        BY <1>5 DEF PublishConfirmed, PublishFails
      <4>2. \/ confirmed' = [confirmed EXCEPT ![r] = @ \cup {f}] /\ failed' = failed
            \/ failed' = [failed EXCEPT ![r] = @ \cup {f}] /\ confirmed' = confirmed
        BY <1>5 DEF PublishConfirmed, PublishFails
      <4>3. \A q \in Relays : e \in confirmed'[q] \cup failed'[q]
                              <=> e \in confirmed[q] \cup failed[q]
        <5>1. /\ confirmed \in [Relays -> SUBSET Events]
              /\ failed \in [Relays -> SUBSET Events]
          BY DEF IInv, TypeOK
        <5>2. CASE confirmed' = [confirmed EXCEPT ![r] = @ \cup {f}] /\ failed' = failed
          BY <2>3, <5>1, <5>2
        <5>3. CASE failed' = [failed EXCEPT ![r] = @ \cup {f}] /\ confirmed' = confirmed
          BY <2>3, <5>1, <5>3
        <5> QED
          BY <4>2, <5>2, <5>3
      <4>4. ASSUME NEW q \in Relays PROVE q \in Sending(e)' <=> q \in Sending(e)
        BY <4>1, <4>3 DEF Sending, Unsettled
      <4> QED
        BY <4>4 DEF Sending
    <3>2. copies'[e] = copies[e]
      BY <1>5, <2>3 DEF IInv, TypeOK, PublishConfirmed, PublishFails
    <3> QED
      BY <1>a, <2>1, <3>1, <3>2, <1>d
  <2> QED
    BY <2>2, <2>3
<1>6. ASSUME NEW r \in Relays, Crash(r) PROVE Goal
  <2>1. attempts'[e] = attempts[e]
    BY <1>6 DEF IInv, TypeOK, Crash, table
  <2>2. Sending(e)' = Sending(e) \ {r}
    BY <1>6 DEF IInv, TypeOK, Crash, ForgetBatch, Sending, Unsettled, Goto
  <2>3. PICK s \in SUBSET (IF pc[r] = "publish" THEN Unsettled(r) ELSE {}) :
          copies' = [x \in Events |-> IF x \in s THEN copies[x] + 1 ELSE copies[x]]
    BY <1>6 DEF IInv, TypeOK, Crash
  <2>4. CASE r \in Sending(e)
    <3>1. copies'[e] <= copies[e] + 1
      BY <1>a, <2>3
    <3> QED
      BY <2>1, <2>2, <2>4, <3>1, <1>e
  <2>5. CASE r \notin Sending(e)
    <3>1. copies'[e] = copies[e] /\ Sending(e)' \subseteq Sending(e)
      BY <2>2, <2>3, <2>5 DEF IInv, TypeOK, Sending
    <3> QED
      BY <1>a, <2>1, <3>1, <1>d
  <2> QED
    BY <2>4, <2>5
<1>7. ASSUME NEW r \in Relays,
             \/ Loop(r) \/ ClaimScan(r) \/ ClaimNothing(r) \/ WakeUp(r)
             \/ Restart(r) \/ Abort(r)
      PROVE  Goal
  <2>1. Sending(e)' \subseteq Sending(e)
    <3>1. pc'[r] # "publish" \/ (pc'[r] = pc[r] /\ batch' = batch)
      <4>1. AfterBatch(r, 0) \in {"sleep", "loop"}
        BY NextLabel
      <4>2. CASE Abort(r)
        BY <4>2 DEF IInv, TypeOK, Abort, work
      <4>3. CASE ~Abort(r)
        BY <1>7, <4>1, <4>3
           DEF IInv, TypeOK, Loop, ClaimScan, ClaimNothing, WakeUp, Restart, Goto
      <4> QED
        BY <4>2, <4>3
    <3>2. \A q \in Relays \ {r} : pc'[q] = pc[q] /\ batch'[q] = batch[q]
      BY <1>7
         DEF IInv, TypeOK, Loop, ClaimScan, ClaimNothing, WakeUp, Restart, Abort,
             Goto, work
    <3>3. confirmed' = confirmed /\ failed' = failed
      BY <1>7 DEF Loop, ClaimScan, ClaimNothing, WakeUp, Restart, Abort, work
    <3> QED
      BY <3>1, <3>2, <3>3 DEF Sending, Unsettled
  <2> QED
    BY <1>a, <1>0, <1>7, <2>1
       DEF IInv, TypeOK, Loop, ClaimScan, ClaimNothing, WakeUp, Restart, Abort, table, history
<1>8. ASSUME NEW r \in Relays, NEW f \in Events, Enqueue(r, f) \/ Notify(r, f)
      PROVE  Goal
  <2>1. Sending(e)' \subseteq Sending(e)
    BY <1>8 DEF IInv, TypeOK, Enqueue, Notify, Sending, Unsettled, work
  <2> QED
    BY <1>a, <1>0, <1>8, <2>1 DEF IInv, TypeOK, Enqueue, Notify, table, history
<1>9. ASSUME UNCHANGED <<work, pc, copies, attempts>> PROVE Goal
  <2>1. Sending(e)' = Sending(e) /\ copies'[e] = copies[e] /\ attempts'[e] = attempts[e]
    BY <1>9 DEF IInv, TypeOK, Sending, Unsettled, work
  <2> QED
    BY <2>1 DEF IInv, TypeOK, CountInv
<1>10. ASSUME NEW f \in Events, BecomeDue(f) PROVE Goal
  BY <1>9, <1>10 DEF IInv, TypeOK, BecomeDue
<1>11. CASE UNCHANGED vars
  BY <1>9, <1>11 DEF IInv, TypeOK, vars, work
<1> QED
  BY <1>1, <1>2, <1>3, <1>4, <1>5, <1>6, <1>7, <1>8, <1>10, <1>11
     DEF Next, RelayStep, RelayFault

\* The broker never has more copies of an event than its row has attempts.
THEOREM CopiesAreCounted == Spec => []AttemptsCountCopies
<1>1. Init => CountInv
  <2> SUFFICES ASSUME Init, NEW e \in Events
               PROVE  /\ IsFiniteSet(Sending(e))
                      /\ copies[e] + Cardinality(Sending(e)) <= attempts[e]
    BY DEF CountInv
  <2>1. Sending(e) = {} /\ copies[e] = 0 /\ attempts[e] = 0
    BY DEF Init, Sending
  <2> QED
    BY <2>1, FS_EmptySet
<1>2. IInv /\ CountInv => AttemptsCountCopies
  <2> SUFFICES ASSUME IInv, CountInv, NEW e \in Events
               PROVE  copies[e] <= attempts[e]
    BY DEF AttemptsCountCopies
  <2>1. /\ IsFiniteSet(Sending(e))
        /\ copies[e] + Cardinality(Sending(e)) <= attempts[e]
        /\ copies[e] \in Nat /\ attempts[e] \in Nat
    BY DEF CountInv, IInv, TypeOK
  <2>2. Cardinality(Sending(e)) \in Nat
    BY <2>1, FS_CardinalityType
  <2> QED
    BY <2>1, <2>2
<1>3. IInv => TypeOK
  BY DEF IInv
<1> QED
  BY <1>1, <1>2, <1>3, CountStep, Invariance, PTL DEF Spec
-----------------------------------------------------------------------------
\* The events the broker has accepted.
Delivered == {e \in Events : copies[e] > 0}

\* Every step of the relays is a step of the promise, or invisible to it.
LEMMA PromiseStep == IInv /\ [Next]_vars => [Promise!Next]_(Promise!vars)
<1> SUFFICES ASSUME IInv, [Next]_vars PROVE [Promise!Next]_(Promise!vars)
  OBVIOUS
<1> USE DEF IInv, TypeOK, Promise!vars
<1>1. ASSUME NEW S \in SUBSET stored, UNCHANGED <<stored, published>>,
             {e \in Events : copies'[e] > 0} = Delivered \cup S
      PROVE  Promise!Next
  <2>1. Promise!Deliver(S)
    BY <1>1 DEF Promise!Deliver, Delivered
  <2> QED
    BY <2>1 DEF Promise!Next
<1>2. ASSUME NEW S \in SUBSET Delivered, UNCHANGED <<stored, copies>>,
             published' = published \cup S
      PROVE  Promise!Next
  <2>1. Promise!Record(S) /\ S \in SUBSET Events
    BY <1>2 DEF Promise!Record, Delivered
  <2> QED
    BY <2>1 DEF Promise!Next
<1>3. ASSUME UNCHANGED <<stored, published, copies>>
      PROVE  UNCHANGED Promise!vars
  BY <1>3
<1>4. ASSUME NEW r \in Relays, MarkPublished(r) \/ MarkFails(r)
      PROVE  Promise!Next \/ UNCHANGED Promise!vars
  <2>1. ToMark(r) \in SUBSET Delivered
    BY DEF ToMark, Delivered, DeliveryInv
  <2>2. UNCHANGED <<stored, copies>> /\ published' \in {published, published \cup ToMark(r)}
    BY <1>4 DEF MarkPublished, MarkFails, MarkRows
  <2> QED
    BY <1>2, <1>3, <2>1, <2>2
<1>5. ASSUME NEW r \in Relays, NEW e \in Events, PublishConfirmed(r, e)
      PROVE  Promise!Next
  <2>1. {e} \in SUBSET stored
    BY <1>5 DEF PublishConfirmed, Unsettled, BatchInv
  <2>2. {f \in Events : copies'[f] > 0} = Delivered \cup {e}
    BY <1>5 DEF PublishConfirmed, Delivered
  <2> QED
    BY <1>1, <1>5, <2>1, <2>2 DEF PublishConfirmed, table
<1>6. ASSUME NEW r \in Relays, NEW e \in Events, PublishFails(r, e)
      PROVE  Promise!Next \/ UNCHANGED Promise!vars
  <2>1. {e} \in SUBSET stored
    BY <1>6 DEF PublishFails, Unsettled, BatchInv
  <2>2. CASE copies' = copies
    BY <1>3, <1>6, <2>2 DEF PublishFails, table
  <2>3. CASE copies' = [copies EXCEPT ![e] = @ + 1]
    <3>1. {f \in Events : copies'[f] > 0} = Delivered \cup {e}
      BY <2>3 DEF Delivered
    <3> QED
      BY <1>1, <1>6, <2>1, <3>1 DEF PublishFails, table
  <2> QED
    BY <1>6, <2>2, <2>3 DEF PublishFails
<1>7. ASSUME NEW r \in Relays, Crash(r) PROVE Promise!Next
  <2>1. PICK S \in SUBSET batch[r] :
          copies' = [e \in Events |-> IF e \in S THEN copies[e] + 1 ELSE copies[e]]
    BY <1>7 DEF Crash, Unsettled
  <2>2. S \in SUBSET stored
    BY DEF BatchInv
  <2>3. {f \in Events : copies'[f] > 0} = Delivered \cup S
    BY <2>1, <2>2 DEF Delivered
  <2> QED
    BY <1>1, <1>7, <2>2, <2>3 DEF Crash, table
<1>8. ASSUME NEW r \in Relays, NEW e \in Events, Enqueue(r, e) PROVE Promise!Next
  <2>1. Promise!Commit(e)
    BY <1>8 DEF Enqueue, history, Promise!Commit
  <2> QED
    BY <2>1 DEF Promise!Next
<1>9. ASSUME NEW r \in Relays,
             \/ Loop(r) \/ ClaimScan(r) \/ ClaimCommit(r) \/ ClaimNothing(r)
             \/ ClaimFails(r) \/ WakeUp(r) \/ Restart(r) \/ Abort(r)
      PROVE  UNCHANGED Promise!vars
  BY <1>3, <1>9
     DEF Loop, ClaimScan, ClaimCommit, ClaimNothing, ClaimFails, WakeUp,
         Restart, Abort, table, history
<1>10. ASSUME NEW r \in Relays, NEW e \in Events,
              Release(r, e) \/ Notify(r, e)
       PROVE  UNCHANGED Promise!vars
  BY <1>3, <1>10 DEF Release, Notify, table, history
<1>11. ASSUME NEW e \in Events, BecomeDue(e) PROVE UNCHANGED Promise!vars
  BY <1>3, <1>11 DEF BecomeDue
<1>12. CASE UNCHANGED vars
  BY <1>3, <1>12 DEF vars
<1> QED
  BY <1>4, <1>5, <1>6, <1>7, <1>8, <1>9, <1>10, <1>11, <1>12
     DEF Next, RelayStep, RelayFault

\* The relays implement the safety half of the outbox's promise.
THEOREM Implementation == Spec => PromiseSafe
<1>1. Init => Promise!Init
  BY DEF Init, Promise!Init
<1> QED
  BY <1>1, PromiseStep, Invariance, PTL DEF Spec, PromiseSafe, Promise!Safe
=============================================================================
