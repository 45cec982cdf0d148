-------------------------- MODULE ServiceHostProofs --------------------------
(***************************************************************************)
(* Theorems about ServiceHost and Migrations, for any number of instances, *)
(* releases, tasks and faults.                                             *)
(***************************************************************************)
EXTENDS ServiceHost, SequenceTheorems, TLAPS

(* What the lock protects. *)

DatabaseType ==
  /\ history \subseteq Versions /\ schema \in Seq(Versions)
  /\ lock \subseteq Instances
  /\ phase \in [Instances -> {"idle", "locking", "reading", "applying", "done",
                              "failed"}]
  /\ seen \in [Instances -> SUBSET Versions]
  /\ applied \in [Instances -> Seq(Versions)]

\* The tables have the migrations 1..n for some n.
InOrder ==
  /\ history = 1..Len(schema)
  /\ \A v \in 1..Len(schema) : schema[v] = v

\* Whoever reads or applies has the lock; what it applied is what comes next.
Locked(i) ==
  /\ phase[i] \in {"reading", "applying"} => lock = {i}
  /\ phase[i] = "applying" =>
       /\ seen[i] = history
       /\ \A k \in 1..Len(applied[i]) : applied[i][k] = Len(schema) + k
  /\ phase[i] = "done" => Plan(i) \subseteq history

DatabaseInv == DatabaseType /\ InOrder /\ \A i \in Instances : Locked(i)

LEMMA VersionsAreNumbers ==
  /\ Versions \subseteq Nat
  /\ \A i \in Instances : Plan(i) \subseteq Versions
  /\ \A i \in Instances : Known[i] \in Nat
BY KnownAssumption DEF Versions, Plan

\* The numbers that a sequence contains.
LEMMA RangeOfApplied ==
  ASSUME NEW n \in Nat, NEW s \in Seq(Nat),
         \A k \in 1..Len(s) : s[k] = n + k
  PROVE  Range(s) = (n + 1)..(n + Len(s))
<1>1. DOMAIN s = 1..Len(s) /\ Len(s) \in Nat
  OBVIOUS
<1>2. ASSUME NEW v \in Range(s) PROVE v \in (n + 1)..(n + Len(s))
  BY <1>1, <1>2 DEF Range
<1>3. ASSUME NEW v \in (n + 1)..(n + Len(s)) PROVE v \in Range(s)
  <2>1. v - n \in 1..Len(s) /\ s[v - n] = v
    BY <1>1, <1>3
  <2>. QED BY <2>1, <1>1 DEF Range
<1>. QED BY <1>2, <1>3

\* What is pending comes after what was applied.
LEMMA PendingIsTheRest ==
  ASSUME DatabaseInv, NEW i \in Instances, phase[i] = "applying"
  PROVE  /\ Range(applied[i]) =
              (Len(schema) + 1)..(Len(schema) + Len(applied[i]))
         /\ Pending(i) = (Len(schema) + Len(applied[i]) + 1)..Known[i]
<1>1. applied[i] \in Seq(Nat) /\ Len(schema) \in Nat /\ Len(applied[i]) \in Nat
  <2>1. applied[i] \in Seq(Versions) /\ schema \in Seq(Versions)
    BY DEF DatabaseInv, DatabaseType
  <2>2. applied[i] \in Seq(Nat)
    BY <2>1, VersionsAreNumbers, SeqMonotonic
  <2>3. Len(schema) \in Nat /\ Len(applied[i]) \in Nat
    BY <2>1
  <2>. QED BY <2>2, <2>3
<1>2. \A k \in 1..Len(applied[i]) : applied[i][k] = Len(schema) + k
  BY DEF DatabaseInv, Locked
<1>3. Range(applied[i]) = (Len(schema) + 1)..(Len(schema) + Len(applied[i]))
  BY <1>1, <1>2, RangeOfApplied
<1>4. seen[i] = 1..Len(schema)
  BY DEF DatabaseInv, Locked, InOrder
<1>5. Known[i] \in Nat
  BY VersionsAreNumbers
<1>6. Pending(i) = ((1..Known[i]) \ (1..Len(schema)))
                     \ ((Len(schema) + 1)..(Len(schema) + Len(applied[i])))
  BY <1>3, <1>4 DEF Pending, Plan
<1>7. ASSUME NEW n \in Nat, NEW m \in Nat, NEW k \in Nat
      PROVE  ((1..k) \ (1..n)) \ ((n + 1)..(n + m)) = (n + m + 1)..k
  OBVIOUS
<1>. QED BY <1>1, <1>3, <1>5, <1>6, <1>7

\* What stays as it is when only instance i takes a step.
LEMMA OthersKeepTheirPlan ==
  ASSUME DatabaseInv, NEW i \in Instances, NEW j \in Instances, j # i,
         UNCHANGED tables, lock' \in {lock, lock \ {i}},
         phase'[j] = phase[j], seen'[j] = seen[j], applied'[j] = applied[j]
  PROVE  Locked(j)'
BY DEF DatabaseInv, Locked, tables, Plan

LEMMA TablesKeepTheirOrder ==
  ASSUME DatabaseInv, UNCHANGED tables
  PROVE  InOrder'
BY DEF DatabaseInv, InOrder, tables

LEMMA BeginKeeps ==
  ASSUME DatabaseInv, NEW i \in Instances, BeginMigrating(i)
  PROVE  DatabaseInv'
<1>. USE DEF BeginMigrating, SetPhase
<1>1. DatabaseType'
  BY DEF DatabaseInv, DatabaseType, tables
<1>2. InOrder'
  BY TablesKeepTheirOrder
<1>3. ASSUME NEW j \in Instances PROVE Locked(j)'
  <2>1. CASE j = i
    BY <2>1 DEF DatabaseInv, DatabaseType, Locked
  <2>2. CASE j # i
    BY <2>2, OthersKeepTheirPlan DEF DatabaseInv, DatabaseType
  <2>. QED BY <2>1, <2>2
<1>. QED BY <1>1, <1>2, <1>3 DEF DatabaseInv

LEMMA TakeLockKeeps ==
  ASSUME DatabaseInv, NEW i \in Instances, TakeLock(i)
  PROVE  DatabaseInv'
<1>. USE DEF TakeLock, SetPhase
<1>1. DatabaseType'
  BY DEF DatabaseInv, DatabaseType, tables
<1>2. InOrder'
  BY TablesKeepTheirOrder
<1>3. ASSUME NEW j \in Instances PROVE Locked(j)'
  <2>1. CASE j = i
    BY <2>1 DEF DatabaseInv, DatabaseType, Locked
  <2>2. CASE j # i
    <3>1. phase[j] \notin {"reading", "applying"}
      BY DEF DatabaseInv, Locked
    <3>. QED BY <3>1, <2>2 DEF DatabaseInv, DatabaseType, Locked, tables, Plan
  <2>. QED BY <2>1, <2>2
<1>. QED BY <1>1, <1>2, <1>3 DEF DatabaseInv

LEMMA ReadKeeps ==
  ASSUME DatabaseInv, NEW i \in Instances, ReadHistory(i)
  PROVE  DatabaseInv'
<1>. USE DEF ReadHistory, SetPhase
<1>1. DatabaseType'
  BY DEF DatabaseInv, DatabaseType, tables
<1>2. InOrder'
  BY TablesKeepTheirOrder
<1>3. ASSUME NEW j \in Instances PROVE Locked(j)'
  <2>1. CASE j = i
    <3>1. applied'[i] = <<>> /\ seen'[i] = history /\ phase'[i] = "applying"
      BY DEF DatabaseInv, DatabaseType
    <3>2. lock' = {i}
      BY DEF DatabaseInv, Locked
    <3>. QED BY <3>1, <3>2, <2>1 DEF Locked, tables
  <2>2. CASE j # i
    BY <2>2, OthersKeepTheirPlan DEF DatabaseInv, DatabaseType
  <2>. QED BY <2>1, <2>2
<1>. QED BY <1>1, <1>2, <1>3 DEF DatabaseInv

LEMMA ApplyKeeps ==
  ASSUME DatabaseInv, NEW i \in Instances, Apply(i)
  PROVE  DatabaseInv'
<1>0. PICK v \in Pending(i) :
        /\ \A w \in Pending(i) : v <= w
        /\ applied' = [applied EXCEPT ![i] = Append(@, v)]
  BY DEF Apply
<1>1. /\ phase[i] = "applying"
      /\ UNCHANGED <<history, schema, lock, phase, seen>>
  BY DEF Apply, tables
<1>2. /\ applied[i] \in Seq(Versions) /\ v \in Versions
      /\ Len(applied[i]) \in Nat /\ Len(schema) \in Nat
  BY <1>0, VersionsAreNumbers DEF DatabaseInv, DatabaseType, Pending
<1>3. v = Len(schema) + Len(applied[i]) + 1
  <2>1. Pending(i) = (Len(schema) + Len(applied[i]) + 1)..Known[i]
    BY <1>1, PendingIsTheRest
  <2>2. v \in Nat /\ Known[i] \in Nat
    BY <1>2, VersionsAreNumbers
  <2>3. Len(schema) + Len(applied[i]) + 1 <= v /\ v <= Known[i]
    BY <2>1, <2>2, <1>0, <1>2
  <2>4. Len(schema) + Len(applied[i]) + 1 \in Pending(i)
    BY <2>1, <2>2, <2>3, <1>2
  <2>5. v <= Len(schema) + Len(applied[i]) + 1
    BY <2>4, <1>0
  <2>. QED BY <2>2, <2>3, <2>5, <1>2
<1>4. applied'[i] = Append(applied[i], v)
  BY <1>0 DEF DatabaseInv, DatabaseType
<1>5. DatabaseType'
  <2>1. Append(applied[i], v) \in Seq(Versions)
    BY <1>2
  <2>. QED BY <2>1, <1>0, <1>1 DEF DatabaseInv, DatabaseType
<1>6. InOrder'
  BY <1>1, TablesKeepTheirOrder DEF tables
<1>7. ASSUME NEW j \in Instances PROVE Locked(j)'
  <2>1. CASE j = i
    <3>1. ASSUME NEW k \in 1..Len(applied'[i])
          PROVE  applied'[i][k] = Len(schema) + k
      <4>1. /\ Len(Append(applied[i], v)) = Len(applied[i]) + 1
            /\ Append(applied[i], v)[Len(applied[i]) + 1] = v
            /\ \A n \in 1..Len(applied[i]) :
                 Append(applied[i], v)[n] = applied[i][n]
        BY <1>2
      <4>2. \A n \in 1..Len(applied[i]) : applied[i][n] = Len(schema) + n
        BY <1>1 DEF DatabaseInv, Locked
      <4>3. k \in 1..Len(applied[i]) \/ k = Len(applied[i]) + 1
        BY <3>1, <4>1, <1>4, <1>2
      <4>4. CASE k \in 1..Len(applied[i])
        BY <4>1, <4>2, <4>4, <1>4
      <4>5. CASE k = Len(applied[i]) + 1
        <5>1. applied'[i][k] = v
          BY <4>1, <4>5, <1>4
        <5>. QED BY <5>1, <4>5, <1>2, <1>3
      <4>. QED BY <4>3, <4>4, <4>5
    <3>2. seen[i] = history /\ lock = {i}
      BY <1>1 DEF DatabaseInv, Locked
    <3>. QED BY <3>1, <3>2, <2>1, <1>1 DEF Locked
  <2>2. CASE j # i
    BY <2>2, <1>0, <1>1, OthersKeepTheirPlan DEF DatabaseInv, DatabaseType, tables
  <2>. QED BY <2>1, <2>2
<1>. QED BY <1>5, <1>6, <1>7 DEF DatabaseInv

LEMMA FailKeeps ==
  ASSUME DatabaseInv, NEW i \in Instances, FailMigrating(i)
  PROVE  DatabaseInv'
<1>. USE DEF FailMigrating, SetPhase, Unlock
<1>1. DatabaseType'
  BY DEF DatabaseInv, DatabaseType, tables
<1>2. InOrder'
  BY TablesKeepTheirOrder
<1>3. ASSUME NEW j \in Instances PROVE Locked(j)'
  <2>1. CASE j = i
    BY <2>1 DEF DatabaseInv, DatabaseType, Locked
  <2>2. CASE j # i
    BY <2>2, OthersKeepTheirPlan DEF DatabaseInv, DatabaseType
  <2>. QED BY <2>1, <2>2
<1>. QED BY <1>1, <1>2, <1>3 DEF DatabaseInv

LEMMA DisconnectKeeps ==
  ASSUME DatabaseInv, NEW i \in Instances, Disconnect(i)
  PROVE  DatabaseInv'
<1>. USE DEF Disconnect, SetPhase, Unlock
<1>1. DatabaseType'
  BY DEF DatabaseInv, DatabaseType, tables
<1>2. InOrder'
  BY TablesKeepTheirOrder
<1>3. ASSUME NEW j \in Instances PROVE Locked(j)'
  <2>1. CASE j = i
    BY <2>1 DEF DatabaseInv, DatabaseType, Locked
  <2>2. CASE j # i
    BY <2>2, OthersKeepTheirPlan DEF DatabaseInv, DatabaseType
  <2>. QED BY <2>1, <2>2
<1>. QED BY <1>1, <1>2, <1>3 DEF DatabaseInv

\* A COMMIT, answered or not, leaves the plan of its instance in the tables and
\* disturbs nobody, since nobody else has the lock.
LEMMA PersistKeeps ==
  ASSUME DatabaseInv, NEW i \in Instances, phase[i] = "applying",
         Pending(i) = {}, Persist(i), Unlock(i),
         NEW p \in {"done", "failed"}, SetPhase(i, p),
         UNCHANGED <<seen, applied>>
  PROVE  DatabaseInv'
<1>1. /\ applied[i] \in Seq(Versions) /\ schema \in Seq(Versions)
      /\ Len(applied[i]) \in Nat /\ Len(schema) \in Nat
  BY DEF DatabaseInv, DatabaseType
<1>2. /\ schema' = schema \o applied[i]
      /\ history' = history \cup Range(applied[i])
      /\ Range(applied[i]) =
           (Len(schema) + 1)..(Len(schema) + Len(applied[i]))
  BY PendingIsTheRest DEF Persist
<1>3. /\ schema' \in Seq(Versions)
      /\ Len(schema') = Len(schema) + Len(applied[i])
      /\ \A v \in 1..Len(schema') :
           schema'[v] = IF v <= Len(schema) THEN schema[v]
                        ELSE applied[i][v - Len(schema)]
  BY <1>1, <1>2
<1>4. history' = 1..Len(schema')
  <2>1. history = 1..Len(schema)
    BY DEF DatabaseInv, InOrder
  <2>. QED BY <2>1, <1>1, <1>2, <1>3
<1>5. InOrder'
  <2>1. ASSUME NEW v \in 1..Len(schema') PROVE schema'[v] = v
    <3>1. CASE v <= Len(schema)
      <4>1. v \in 1..Len(schema)
        BY <2>1, <3>1, <1>1
      <4>. QED BY <4>1, <3>1, <2>1, <1>3 DEF DatabaseInv, InOrder
    <3>2. CASE ~(v <= Len(schema))
      <4>1. v - Len(schema) \in 1..Len(applied[i])
        BY <2>1, <3>2, <1>1, <1>3
      <4>2. applied[i][v - Len(schema)] = Len(schema) + (v - Len(schema))
        BY <4>1 DEF DatabaseInv, Locked
      <4>. QED BY <4>1, <4>2, <3>2, <2>1, <1>1, <1>3
    <3>. QED BY <3>1, <3>2
  <2>. QED BY <2>1, <1>4 DEF InOrder
<1>6. DatabaseType'
  <2>1. Range(applied[i]) \subseteq Versions
    BY <1>1 DEF Range
  <2>2. history' \subseteq Versions
    BY <2>1, <1>2 DEF DatabaseInv, DatabaseType
  <2>. QED BY <2>2, <1>3 DEF DatabaseInv, DatabaseType, SetPhase, Unlock
<1>7. lock = {i} /\ lock' = {}
  BY DEF DatabaseInv, Locked, Unlock
<1>8. ASSUME NEW j \in Instances PROVE Locked(j)'
  <2>1. CASE j = i
    <3>1. phase'[i] = p
      BY DEF SetPhase, DatabaseInv, DatabaseType
    <3>2. Plan(i) \subseteq history'
      <4>1. (Len(schema) + Len(applied[i]) + 1)..Known[i] = {}
        BY PendingIsTheRest
      <4>2. Known[i] \in Nat
        BY VersionsAreNumbers
      <4>3. Known[i] <= Len(schema')
        BY <4>1, <4>2, <1>1, <1>3
      <4>. QED BY <4>2, <4>3, <1>4, <1>3, <1>1 DEF Plan
    <3>. QED BY <3>1, <3>2, <2>1 DEF Locked, Plan
  <2>2. CASE j # i
    <3>1. phase'[j] = phase[j]
      BY <2>2 DEF SetPhase, DatabaseInv, DatabaseType
    <3>2. phase[j] \notin {"reading", "applying"}
      BY <1>7, <2>2 DEF DatabaseInv, Locked
    <3>3. history \subseteq history'
      BY <1>2
    <3>. QED BY <3>1, <3>2, <3>3 DEF DatabaseInv, Locked, Plan
  <2>. QED BY <2>1, <2>2
<1>. QED BY <1>5, <1>6, <1>8 DEF DatabaseInv

LEMMA UnchangedKeeps ==
  ASSUME DatabaseInv, UNCHANGED database
  PROVE  DatabaseInv'
BY DEF DatabaseInv, DatabaseType, InOrder, Locked, Plan, database
-----------------------------------------------------------------------------
(* The processes. *)

\* What each part of a process tells of the others.
Ordered(i) ==
  /\ main[i] = "started" => phase[i] = "done"
  /\ server[i] # "none" \/ running[i] # {} => main[i] = "started"
  /\ serving[i] => server[i] \in {"listening", "closing"}
  /\ main[i] = "off" => stop[i] = "none"
  /\ main[i] = "failed" => stop[i] # "none"
  /\ main[i] = "starting" /\ stop[i] # "none" => early[i]
  /\ main[i] = "started" /\ stop[i] = "none" => server[i] = "listening"
  /\ stop[i] = "closing" => server[i] = "closing"

\* Once the signal is aborted nothing is served, and what still runs is
\* awaited, unless the shutdown began too early.
Quiet(i) ==
  /\ Aborted(i) /\ ~early[i] =>
       /\ server[i] # "listening" /\ ~serving[i]
       /\ running[i] \subseteq awaited[i]
  /\ stop[i] = "releasing" /\ ~early[i] => running[i] = {}

ProcessType ==
  /\ main \in [Instances -> {"off", "starting", "started", "failed"}]
  /\ server \in [Instances -> {"none", "listening", "closing", "closed"}]
  /\ serving \in [Instances -> BOOLEAN]
  /\ running \in [Instances -> SUBSET Tasks]
  /\ stop \in [Instances -> {"none", "closing", "settling", "releasing"}]
  /\ awaited \in [Instances -> SUBSET Tasks]
  /\ code \in [Instances -> 0..1] /\ exit \in [Instances -> 0..1]
  /\ early \in [Instances -> BOOLEAN]
  /\ faults \in 0..MaxFaults

ProcessInv ==
  ProcessType /\ \A i \in Instances : Ordered(i) /\ Quiet(i)

IInv == DatabaseInv /\ ProcessInv

\* What an instance does concerns its own process only.
Frame(i) ==
  \A j \in Instances : j # i =>
    /\ main'[j] = main[j] /\ server'[j] = server[j]
    /\ serving'[j] = serving[j] /\ running'[j] = running[j]
    /\ stop'[j] = stop[j] /\ awaited'[j] = awaited[j]
    /\ early'[j] = early[j] /\ phase'[j] = phase[j]

LEMMA FrameKeeps ==
  ASSUME IInv, NEW i \in Instances, Frame(i), ProcessType',
         Ordered(i)', Quiet(i)'
  PROVE  ProcessInv'
<1>. SUFFICES ASSUME NEW j \in Instances PROVE Ordered(j)' /\ Quiet(j)'
  BY DEF ProcessInv
<1>1. CASE j = i
  BY <1>1
<1>2. CASE j # i
  <2>1. Ordered(j)'
    BY <1>2 DEF Frame, IInv, ProcessInv, Ordered
  <2>2. Quiet(j)'
    BY <1>2 DEF Frame, IInv, ProcessInv, Quiet, Aborted
  <2>. QED BY <2>1, <2>2
<1>. QED BY <1>1, <1>2

\* Which phases a database step leaves behind.
LEMMA PhasesOfOthers ==
  ASSUME DatabaseType, NEW i \in Instances,
         \E p \in {"idle", "locking", "reading", "applying", "done", "failed"} :
           SetPhase(i, p)
  PROVE  \A j \in Instances : j # i => phase'[j] = phase[j]
BY DEF DatabaseType, SetPhase

\* The first call of shutdown() aborts, or closes a server that listens.
LEMMA ShutdownDoes ==
  ASSUME ProcessType, NEW i \in Instances, NEW c \in 0..1,
         NEW left \in SUBSET Tasks, Shutdown(i, c, left)
  PROVE  /\ stop' \in [Instances -> {"none", "closing", "settling", "releasing"}]
         /\ server' \in [Instances -> {"none", "listening", "closing", "closed"}]
         /\ awaited' \in [Instances -> SUBSET Tasks]
         /\ code' \in [Instances -> 0..1]
         /\ early' \in [Instances -> BOOLEAN]
         /\ \A j \in Instances : j # i =>
              /\ stop'[j] = stop[j] /\ server'[j] = server[j]
              /\ awaited'[j] = awaited[j] /\ early'[j] = early[j]
         /\ \/ /\ stop[i] # "none" /\ stop'[i] = stop[i]
               /\ server'[i] = server[i] /\ awaited'[i] = awaited[i]
               /\ early'[i] = early[i]
            \/ /\ stop[i] = "none" /\ server[i] = "listening"
               /\ stop'[i] = "closing" /\ server'[i] = "closing"
               /\ early'[i] <=> main[i] = "starting"
            \/ /\ stop[i] = "none" /\ server[i] # "listening"
               /\ stop'[i] = (IF left = {} THEN "releasing" ELSE "settling")
               /\ awaited'[i] = left /\ server'[i] = server[i]
               /\ early'[i] <=> main[i] = "starting"
<1>. USE DEF Shutdown, Abort, ProcessType
<1>1. CASE stop[i] # "none"
  BY <1>1
<1>2. ASSUME stop[i] = "none"
      PROVE  /\ early' \in [Instances -> BOOLEAN]
             /\ early'[i] <=> main[i] = "starting"
             /\ \A j \in Instances : j # i => early'[j] = early[j]
  <2>1. PICK e \in BOOLEAN : e <=> main[i] = "starting"
    OBVIOUS
  <2>2. early' = [early EXCEPT ![i] = e]
    <3>1. (main[i] = "starting") = e
      BY <2>1
    <3>2. early' = [early EXCEPT ![i] = main[i] = "starting"]
      BY <1>2
    <3>. QED BY <3>1, <3>2
  <2>3. early' \in [Instances -> BOOLEAN] /\ early'[i] = e
    BY <2>2
  <2>. QED BY <2>1, <2>2, <2>3
<1>3. CASE stop[i] = "none" /\ server[i] = "listening"
  <2>1. /\ stop' = [stop EXCEPT ![i] = "closing"]
        /\ server' = [server EXCEPT ![i] = "closing"]
        /\ code' = [code EXCEPT ![i] = c] /\ awaited' = awaited
    BY <1>3
  <2>. QED BY <2>1, <1>2, <1>3
<1>4. CASE stop[i] = "none" /\ server[i] # "listening"
  <2>1. PICK s \in {"settling", "releasing"} :
          s = (IF left = {} THEN "releasing" ELSE "settling")
    OBVIOUS
  <2>2. /\ stop' = [stop EXCEPT ![i] = s] /\ server' = server
        /\ code' = [code EXCEPT ![i] = c]
        /\ awaited' = [awaited EXCEPT ![i] = left]
    BY <1>4, <2>1
  <2>. QED BY <2>1, <2>2, <1>2, <1>4
<1>. QED BY <1>1, <1>3, <1>4

\* The end of a process leaves nothing of it.
LEMMA ExitKeeps ==
  ASSUME IInv, NEW i \in Instances, NEW c \in 0..1, Exit(i, c),
         faults' \in 0..MaxFaults
  PROVE  IInv'
<1>1. DatabaseInv'
  BY DisconnectKeeps DEF IInv, Exit
<1>2. ProcessType'
  BY DEF IInv, ProcessInv, ProcessType, Exit
<1>3. Frame(i)
  BY DEF IInv, ProcessInv, ProcessType, DatabaseInv, DatabaseType, Exit, Frame,
         Disconnect, SetPhase
<1>4. Ordered(i)' /\ Quiet(i)'
  BY DEF IInv, ProcessInv, ProcessType, Exit, Ordered, Quiet, Aborted
<1>. QED BY <1>1, <1>2, <1>3, <1>4, FrameKeeps DEF IInv

LEMMA LaunchKeeps ==
  ASSUME IInv, NEW i \in Instances, Launch(i)
  PROVE  IInv'
<1>1. DatabaseInv'
  BY BeginKeeps DEF IInv, Launch
<1>2. ProcessType'
  BY DEF IInv, ProcessInv, ProcessType, Launch
<1>3. Frame(i)
  BY DEF IInv, ProcessInv, ProcessType, DatabaseInv, DatabaseType, Launch, Frame,
         BeginMigrating, SetPhase
<1>4. Ordered(i)' /\ Quiet(i)'
  BY DEF IInv, ProcessInv, ProcessType, Launch, Ordered, Quiet, Aborted
<1>. QED BY <1>1, <1>2, <1>3, <1>4, FrameKeeps DEF IInv

\* A step of a transaction, successful or not, changes no process.
LEMMA TransactionKeeps ==
  ASSUME IInv, NEW i \in Instances, main[i] = "starting",
         \/ Migrate(i) \/ FailMigrating(i) \/ CommitUnanswered(i),
         UNCHANGED process, faults' \in 0..MaxFaults
  PROVE  IInv'
<1>1. /\ DatabaseInv'
      /\ \E p \in {"reading", "applying", "done", "failed"} : SetPhase(i, p)
  <2>1. CASE TakeLock(i)
    BY <2>1, TakeLockKeeps DEF IInv, TakeLock
  <2>2. CASE ReadHistory(i)
    BY <2>2, ReadKeeps DEF IInv, ReadHistory
  <2>3. CASE Apply(i)
    <3>1. SetPhase(i, "applying")
      BY <2>3 DEF Apply, SetPhase, IInv, DatabaseInv, DatabaseType
    <3>. QED BY <3>1, <2>3, ApplyKeeps DEF IInv
  <2>4. CASE Commit(i)
    BY <2>4, PersistKeeps DEF IInv, Commit
  <2>5. CASE FailMigrating(i)
    BY <2>5, FailKeeps DEF IInv, FailMigrating
  <2>6. CASE CommitUnanswered(i)
    BY <2>6, PersistKeeps DEF IInv, CommitUnanswered
  <2>. QED BY <2>1, <2>2, <2>3, <2>4, <2>5, <2>6 DEF Migrate
<1>2. ProcessType'
  BY DEF IInv, ProcessInv, ProcessType, process
<1>3. Frame(i)
  BY <1>1, PhasesOfOthers DEF IInv, DatabaseInv, Frame, process
<1>4. Ordered(i)' /\ Quiet(i)'
  BY DEF IInv, ProcessInv, process, Ordered, Quiet, Aborted
<1>. QED BY <1>1, <1>2, <1>3, <1>4, FrameKeeps DEF IInv

LEMMA ListenKeeps ==
  ASSUME IInv, NEW i \in Instances, Listen(i)
  PROVE  IInv'
<1>1. DatabaseInv'
  BY UnchangedKeeps DEF IInv, Listen
<1>2. ProcessType'
  BY DEF IInv, ProcessInv, ProcessType, Listen
<1>3. Frame(i)
  BY DEF IInv, ProcessInv, ProcessType, Listen, Frame, database
<1>4. Ordered(i)' /\ Quiet(i)'
  <2>1. /\ main'[i] = "started" /\ server'[i] = "listening"
        /\ phase'[i] = "done" /\ stop'[i] = stop[i] /\ early'[i] = early[i]
    BY DEF IInv, ProcessInv, ProcessType, Listen, database
  <2>2. stop[i] # "closing" /\ (stop[i] # "none" => early[i])
    BY DEF IInv, ProcessInv, Ordered, Listen
  <2>3. Ordered(i)'
    BY <2>1, <2>2 DEF Ordered
  <2>4. Quiet(i)'
    BY <2>1, <2>2 DEF Quiet, Aborted
  <2>. QED BY <2>3, <2>4
<1>. QED BY <1>1, <1>2, <1>3, <1>4, FrameKeeps DEF IInv

\* start() fails: nothing was served yet.
LEMMA FailedStartKeeps ==
  ASSUME IInv, NEW i \in Instances, main[i] = "starting",
         main' = [main EXCEPT ![i] = "failed"], Shutdown(i, 1, {}),
         UNCHANGED <<database, serving, running, exit>>,
         faults' \in 0..MaxFaults
  PROVE  IInv'
<1>1. DatabaseInv'
  BY UnchangedKeeps DEF IInv
<1>2. ProcessType'
  BY ShutdownDoes DEF IInv, ProcessInv, ProcessType
<1>3. Frame(i)
  BY ShutdownDoes DEF IInv, ProcessInv, ProcessType, Frame, database
<1>4. Ordered(i)' /\ Quiet(i)'
  <2>1. /\ server[i] = "none" /\ running[i] = {}
        /\ ~serving[i] /\ stop[i] # "closing"
    BY DEF IInv, ProcessInv, Ordered
  <2>2. /\ server'[i] = "none" /\ running'[i] = {} /\ ~serving'[i]
        /\ stop'[i] \notin {"none", "closing"} /\ main'[i] = "failed"
    BY <2>1, ShutdownDoes DEF IInv, ProcessInv, ProcessType
  <2>3. Ordered(i)'
    BY <2>2 DEF Ordered
  <2>4. Quiet(i)'
    BY <2>2 DEF Quiet, Aborted
  <2>. QED BY <2>3, <2>4
<1>. QED BY <1>1, <1>2, <1>3, <1>4, FrameKeeps DEF IInv

\* A shutdown of a process that runs, for whatever reason, with the tasks that
\* still run.
LEMMA ShutdownKeeps ==
  ASSUME IInv, NEW i \in Instances, Alive(i), NEW c \in 0..1,
         NEW left \in SUBSET running[i], Shutdown(i, c, left),
         running' = [running EXCEPT ![i] = left],
         UNCHANGED <<database, main, serving, exit>>,
         faults' \in 0..MaxFaults
  PROVE  IInv'
<1>1. DatabaseInv'
  BY UnchangedKeeps DEF IInv
<1>2. left \in SUBSET Tasks /\ ProcessType
  BY DEF IInv, ProcessInv, ProcessType
<1>3. ProcessType'
  BY <1>2, ShutdownDoes DEF ProcessType
<1>4. Frame(i)
  BY <1>2, ShutdownDoes DEF ProcessType, Frame, database
<1>5. /\ running'[i] = left /\ main'[i] = main[i] /\ serving'[i] = serving[i]
      /\ phase'[i] = phase[i] /\ main[i] # "off"
  BY <1>2 DEF ProcessType, Alive, database
<1>6. Ordered(i)
  BY DEF IInv, ProcessInv
<1>7. Ordered(i)' /\ Quiet(i)'
  <2>1. CASE stop[i] # "none"
    <3>1. /\ stop'[i] = stop[i] /\ server'[i] = server[i]
          /\ awaited'[i] = awaited[i] /\ early'[i] = early[i]
      BY <2>1, <1>2, ShutdownDoes
    <3>2. Ordered(i)'
      BY <3>1, <1>5, <1>6 DEF Ordered
    <3>3. Quiet(i)'
      BY <3>1, <1>5 DEF IInv, ProcessInv, Quiet, Aborted
    <3>. QED BY <3>2, <3>3
  <2>2. CASE stop[i] = "none" /\ server[i] = "listening"
    <3>1. /\ stop'[i] = "closing" /\ server'[i] = "closing"
          /\ early'[i] <=> main[i] = "starting"
      BY <2>2, <1>2, ShutdownDoes
    <3>2. Ordered(i)'
      BY <2>2, <3>1, <1>5, <1>6 DEF Ordered
    <3>3. Quiet(i)'
      BY <3>1 DEF Quiet, Aborted
    <3>. QED BY <3>2, <3>3
  <2>3. CASE stop[i] = "none" /\ server[i] # "listening"
    <3>1. /\ stop'[i] \in {"settling", "releasing"} /\ server'[i] = server[i]
          /\ early'[i] <=> main[i] = "starting"
      BY <2>3, <1>2, ShutdownDoes
    <3>2. main[i] = "starting"
      BY <2>3, <1>5, <1>6, <1>2 DEF Ordered, ProcessType
    <3>3. Ordered(i)'
      BY <3>1, <3>2, <1>5, <1>6 DEF Ordered
    <3>4. Quiet(i)'
      BY <3>1, <3>2 DEF Quiet, Aborted
    <3>. QED BY <3>3, <3>4
  <2>. QED BY <2>1, <2>2, <2>3
<1>. QED BY <1>1, <1>3, <1>4, <1>7, FrameKeeps DEF IInv

\* The steps of a shutdown and of what runs meanwhile.
LEMMA RunningKeeps ==
  ASSUME IInv, NEW i \in Instances,
         \/ ServerCloses(i) \/ TasksSettled(i)
         \/ RequestArrives(i) \/ RequestEnds(i)
         \/ \E t \in Tasks : TaskStops(i, t)
  PROVE  IInv'
<1>. USE DEF IInv, ProcessInv, ProcessType
<1>1. CASE ServerCloses(i)
  <2>. USE <1>1 DEF ServerCloses, Abort
  <2>1. /\ server' = [server EXCEPT ![i] = "closed"]
        /\ \E s \in {"settling", "releasing"} :
             /\ stop' = [stop EXCEPT ![i] = s]
             /\ s = "releasing" => running[i] = {}
        /\ awaited' = [awaited EXCEPT ![i] = running[i]]
    OBVIOUS
  <2>2. ProcessType' /\ Frame(i) /\ DatabaseInv'
    BY <2>1, UnchangedKeeps DEF Frame, database
  <2>3. Ordered(i)' /\ Quiet(i)'
    BY <2>1 DEF Ordered, Quiet, Aborted, database
  <2>. QED BY <2>2, <2>3, FrameKeeps
<1>2. CASE TasksSettled(i)
  <2>. USE <1>2 DEF TasksSettled
  <2>1. ProcessType' /\ Frame(i) /\ DatabaseInv'
    BY UnchangedKeeps DEF Frame, database
  <2>2. Ordered(i)' /\ Quiet(i)'
    BY DEF Ordered, Quiet, Aborted, database
  <2>. QED BY <2>1, <2>2, FrameKeeps
<1>3. CASE RequestArrives(i)
  <2>. USE <1>3 DEF RequestArrives
  <2>1. ProcessType' /\ Frame(i) /\ DatabaseInv'
    BY UnchangedKeeps DEF Frame, database
  <2>2. Ordered(i)' /\ Quiet(i)'
    BY DEF Ordered, Quiet, Aborted, database
  <2>. QED BY <2>1, <2>2, FrameKeeps
<1>4. CASE RequestEnds(i)
  <2>. USE <1>4 DEF RequestEnds
  <2>1. ProcessType' /\ Frame(i) /\ DatabaseInv'
    BY UnchangedKeeps DEF Frame, database
  <2>2. Ordered(i)' /\ Quiet(i)'
    BY DEF Ordered, Quiet, Aborted, database
  <2>. QED BY <2>1, <2>2, FrameKeeps
<1>5. ASSUME NEW t \in Tasks, TaskStops(i, t) PROVE IInv'
  <2>. USE <1>5 DEF TaskStops
  <2>1. ProcessType' /\ Frame(i) /\ DatabaseInv'
    BY UnchangedKeeps DEF Frame, database
  <2>2. Ordered(i)' /\ Quiet(i)'
    BY DEF Ordered, Quiet, Aborted, database
  <2>. QED BY <2>1, <2>2, FrameKeeps
<1>. QED BY <1>1, <1>2, <1>3, <1>4, <1>5
-----------------------------------------------------------------------------
(* The theorems. *)

LEMMA InitIInv == Init => IInv
<1>. SUFFICES ASSUME Init PROVE IInv
  OBVIOUS
<1>. USE DEF Init, DatabaseInit
<1>1. DatabaseInv
  BY DEF DatabaseInv, DatabaseType, InOrder, Locked
<1>2. ProcessInv
  BY BoundAssumption DEF ProcessInv, ProcessType, Ordered, Quiet, Aborted
<1>. QED BY <1>1, <1>2 DEF IInv

LEMMA NextIInv == IInv /\ [Next]_vars => IInv'
<1>. SUFFICES ASSUME IInv, [Next]_vars PROVE IInv'
  OBVIOUS
<1>1. faults \in 0..MaxFaults
  BY DEF IInv, ProcessInv, ProcessType
<1>2. Fault => faults' \in 0..MaxFaults
  BY <1>1, BoundAssumption DEF Fault
<1>3. CASE UNCHANGED vars
  <2>1. DatabaseInv'
    BY <1>3, UnchangedKeeps DEF IInv, vars
  <2>2. ProcessInv'
    BY <1>3 DEF IInv, ProcessInv, ProcessType, Ordered, Quiet, Aborted, vars,
                process, database
  <2>. QED BY <2>1, <2>2 DEF IInv
<1>4. ASSUME NEW i \in Instances, Launch(i) PROVE IInv'
  BY <1>4, LaunchKeeps
<1>5. ASSUME NEW i \in Instances, StartingStep(i) PROVE IInv'
  <2>1. CASE StartStep(i)
    BY <2>1, <1>1, TransactionKeeps DEF StartStep
  <2>2. CASE Listen(i)
    BY <2>2, ListenKeeps
  <2>3. CASE StartFails(i)
    BY <2>3, <1>1, FailedStartKeeps DEF StartFails
  <2>. QED BY <1>5, <2>1, <2>2, <2>3 DEF StartingStep
<1>6. ASSUME NEW i \in Instances, StoppingStep(i) \/ ForceExit(i) PROVE IInv'
  <2>1. CASE ServerCloses(i) \/ TasksSettled(i)
    BY <2>1, RunningKeeps
  <2>2. CASE Released(i)
    <3>1. code[i] \in 0..1
      BY DEF IInv, ProcessInv, ProcessType
    <3>. QED BY <3>1, <2>2, <1>1, ExitKeeps DEF Released
  <2>3. CASE ForceExit(i)
    BY <2>3, <1>1, ExitKeeps DEF ForceExit
  <2>. QED BY <1>6, <2>1, <2>2, <2>3 DEF StoppingStep
<1>7. ASSUME NEW i \in Instances,
             \/ RequestArrives(i) \/ RequestEnds(i)
             \/ \E t \in Tasks : TaskStops(i, t)
      PROVE  IInv'
  BY <1>7, RunningKeeps
<1>8. ASSUME NEW i \in Instances, InstanceFault(i) PROVE IInv'
  <2>1. CASE DatabaseFault(i)
    BY <2>1, <1>2, TransactionKeeps DEF DatabaseFault
  <2>2. CASE ListenFails(i)
    BY <2>2, <1>2, FailedStartKeeps DEF ListenFails
  <2>3. ASSUME NEW c \in 0..1, Alive(i), Fault, Shutdown(i, c, running[i]),
               UNCHANGED <<database, main, serving, running, exit>>
        PROVE  IInv'
    <3>1. running' = [running EXCEPT ![i] = running[i]]
      BY <2>3 DEF IInv, ProcessInv, ProcessType
    <3>. QED BY <2>3, <3>1, <1>2, ShutdownKeeps
  <2>4. CASE FatalError(i)
    BY <2>4, <2>3 DEF FatalError
  <2>5. CASE Signal(i)
    BY <2>5, <2>3 DEF Signal
  <2>6. CASE Crash(i)
    BY <2>6, <1>2, ExitKeeps DEF Crash
  <2>7. ASSUME NEW t \in Tasks, TaskFails(i, t) PROVE IInv'
    <3>1. Alive(i)
      BY <2>7 DEF TaskFails, Alive, IInv, ProcessInv, Ordered
    <3>2. running' = [running EXCEPT ![i] = running[i] \ {t}]
      BY <2>7 DEF TaskFails
    <3>3. /\ Shutdown(i, 1, running[i] \ {t}) /\ Fault
          /\ UNCHANGED <<database, main, serving, exit>>
      BY <2>7 DEF TaskFails
    <3>4. running[i] \ {t} \in SUBSET running[i] /\ 1 \in 0..1
      OBVIOUS
    <3>. QED BY <3>1, <3>2, <3>3, <3>4, <1>2, ShutdownKeeps
  <2>. QED BY <1>8, <2>1, <2>2, <2>4, <2>5, <2>6, <2>7 DEF InstanceFault
<1>. QED BY <1>3, <1>4, <1>5, <1>6, <1>7, <1>8 DEF Next

LEMMA Invariance == Spec => []IInv
<1>. QED BY InitIInv, NextIInv, PTL DEF Spec

\* Type correctness of the process and of the database it migrates.
THEOREM TypeCorrect == Spec => []TypeOK
<1>1. IInv => TypeOK
  BY DEF IInv, DatabaseInv, DatabaseType, ProcessInv, ProcessType, TypeOK
<1>. QED BY <1>1, Invariance, PTL

\* Instances of any releases that start, fail and restart at any time leave
\* tables that are the first so many migrations, each applied once; and what an
\* instance read of the history under the lock stays true until it commits.
THEOREM SchemasAreSound == Spec => []MigratedInOrder
<1>1. ASSUME IInv PROVE MigratedInOrder
  <2>1. schema \in Seq(Versions)
    BY <1>1 DEF IInv, DatabaseInv, DatabaseType
  <2>2. history = 1..Len(schema) /\ \A v \in 1..Len(schema) : schema[v] = v
    BY <1>1 DEF IInv, DatabaseInv, InOrder
  <2>3. schema = [v \in 1..Len(schema) |-> v]
    BY <2>1, <2>2
  <2>4. Range(schema) = 1..Len(schema)
    BY <2>1, <2>2 DEF Range
  <2>5. \A i \in Instances : phase[i] = "applying" => seen[i] = history
    BY <1>1 DEF IInv, DatabaseInv, Locked
  <2>. QED BY <2>2, <2>3, <2>4, <2>5 DEF MigratedInOrder
<1>. QED BY <1>1, Invariance, PTL

\* No instance serves or runs its tasks on a schema older than its release.
THEOREM SchemaFirst == Spec => []ServesWithSchema
<1>1. ASSUME IInv, NEW i \in Instances,
             server[i] = "listening" \/ running[i] # {}
      PROVE  Plan(i) \subseteq history
  <2>1. main[i] = "started"
    BY <1>1 DEF IInv, ProcessInv, Ordered
  <2>2. phase[i] = "done"
    BY <2>1, <1>1 DEF IInv, ProcessInv, Ordered
  <2>. QED BY <2>2, <1>1 DEF IInv, DatabaseInv, Locked
<1>2. IInv => ServesWithSchema
  BY <1>1 DEF ServesWithSchema
<1>. QED BY <1>2, Invariance, PTL

\* An exit code of 0 is never given to a process that cut a request or left a
\* task behind, if it was stopped after its start.
THEOREM ExitsAreHonest == Spec => CleanExit
<1>1. ASSUME IInv, [Next]_vars, NEW i \in Instances,
             Alive(i), ~Alive(i)', exit'[i] = 0, ~early[i]
      PROVE  /\ stop[i] = "releasing" /\ server[i] # "listening"
             /\ ~serving[i] /\ running[i] = {}
  <2>. USE DEF Alive
  <2>0. ProcessType
    BY <1>1 DEF IInv, ProcessInv
  <2>1. ASSUME NEW j \in Instances, Released(j) PROVE stop[i] = "releasing"
    BY <2>0, <2>1, <1>1 DEF Released, Exit, ProcessType
  <2>2. ASSUME NEW j \in Instances, ForceExit(j) \/ Crash(j) PROVE FALSE
    BY <2>0, <2>2, <1>1 DEF ForceExit, Crash, Exit, ProcessType
  <2>3. ASSUME NEW j \in Instances,
               Launch(j) \/ Listen(j) \/ StartFails(j) \/ ListenFails(j)
        PROVE  FALSE
    BY <2>0, <2>3, <1>1 DEF Launch, Listen, StartFails, ListenFails, ProcessType
  <2>4. ASSUME UNCHANGED main PROVE FALSE
    BY <2>4, <1>1
  <2>5. stop[i] = "releasing"
    BY <2>1, <2>2, <2>3, <2>4, <1>1
       DEF Next, StartingStep, StoppingStep, InstanceFault, StartStep,
           ServerCloses, TasksSettled, RequestArrives, RequestEnds, TaskStops,
           DatabaseFault, FatalError, Signal, TaskFails, vars, process
  <2>. QED BY <2>5, <1>1 DEF IInv, ProcessInv, Quiet, Aborted
<1>2. IInv /\ [Next]_vars =>
        [\A i \in Instances :
           Alive(i) /\ ~Alive(i)' /\ exit'[i] = 0 /\ ~early[i] =>
             /\ stop[i] = "releasing" /\ server[i] # "listening"
             /\ ~serving[i] /\ running[i] = {}]_vars
  BY <1>1
<1>. QED BY <1>2, Invariance, PTL DEF Spec, CleanExit
=============================================================================
