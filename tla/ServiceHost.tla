----------------------------- MODULE ServiceHost -----------------------------
(***************************************************************************)
(* runService: start, background tasks, one bounded shutdown, exit code;   *)
(* for the instances of a service with a database, which migrate it as     *)
(* they start and are started again when they fail.                        *)
(* Source: src/shared/runtime/src/serviceHost.ts, and the composition      *)
(* roots of the Order and Inventory Service.                               *)
(*                                                                         *)
(* A step is what runs between two awaits that really wait.  The server    *)
(* listens as soon as listen() is called, so that no signal can come       *)
(* between that and the start of the tasks.                                *)
(***************************************************************************)
EXTENDS Migrations, FiniteSets

CONSTANTS Tasks,     \* background tasks
          MaxFaults  \* bound on the faults of a behaviour

ASSUME BoundAssumption == MaxFaults \in Nat

VARIABLES
  main,     \* how far runService has come: "off" is no process
  server,   \* the HTTP server
  serving,  \* requests are open
  running,  \* background tasks that run
  stop,     \* the await of performShutdown
  awaited,  \* tasks that performShutdown waits for
  code,     \* its exit code
  early,    \* the shutdown began before start() was over
  exit,     \* exit code of the last process; at first 1, as it is to be started
  faults    \* faults so far

process == <<main, server, serving, running, stop, awaited, code, early, exit>>
vars == <<database, process, faults>>

TypeOK ==
  /\ history \subseteq Versions /\ schema \in Seq(Versions)
  /\ lock \subseteq Instances
  /\ phase \in [Instances -> {"idle", "locking", "reading", "applying", "done",
                              "failed"}]
  /\ seen \in [Instances -> SUBSET Versions]
  /\ applied \in [Instances -> Seq(Versions)]
  /\ main \in [Instances -> {"off", "starting", "started", "failed"}]
  /\ server \in [Instances -> {"none", "listening", "closing", "closed"}]
  /\ serving \in [Instances -> BOOLEAN]
  /\ running \in [Instances -> SUBSET Tasks]
  /\ stop \in [Instances -> {"none", "closing", "settling", "releasing"}]
  /\ awaited \in [Instances -> SUBSET Tasks]
  /\ code \in [Instances -> 0..1] /\ exit \in [Instances -> 0..1]
  /\ early \in [Instances -> BOOLEAN]
  /\ faults \in 0..MaxFaults

Init ==
  /\ DatabaseInit
  /\ main = [i \in Instances |-> "off"]
  /\ server = [i \in Instances |-> "none"]
  /\ serving = [i \in Instances |-> FALSE]
  /\ running = [i \in Instances |-> {}]
  /\ stop = [i \in Instances |-> "none"]
  /\ awaited = [i \in Instances |-> {}]
  /\ code = [i \in Instances |-> 0]
  /\ early = [i \in Instances |-> FALSE]
  /\ exit = [i \in Instances |-> 1]
  /\ faults = 0
-----------------------------------------------------------------------------
(* shutdown() *)

Fault == faults < MaxFaults /\ faults' = faults + 1

Alive(i) == main[i] # "off"

Aborted(i) == stop[i] \in {"settling", "releasing"}

\* The signal is aborted, and all tasks started so far are awaited: "left" of
\* them still run.
Abort(i, left) ==
  /\ stop' = [stop EXCEPT ![i] = IF left = {} THEN "releasing" ELSE "settling"]
  /\ awaited' = [awaited EXCEPT ![i] = left]

\* Only the first call has an effect; "left" are the tasks that run.
Shutdown(i, exitCode, left) ==
  IF stop[i] # "none"
    THEN UNCHANGED <<code, early, stop, awaited, server>>
    ELSE /\ code' = [code EXCEPT ![i] = exitCode]
         /\ early' = [early EXCEPT ![i] = main[i] = "starting"]
         /\ IF server[i] = "listening"
              THEN /\ server' = [server EXCEPT ![i] = "closing"]
                   /\ stop' = [stop EXCEPT ![i] = "closing"]
                   /\ UNCHANGED awaited
              ELSE Abort(i, left) /\ UNCHANGED server

\* The process ends, and its connection to the database with it.
Exit(i, exitCode) ==
  /\ main' = [main EXCEPT ![i] = "off"]
  /\ server' = [server EXCEPT ![i] = "none"]
  /\ serving' = [serving EXCEPT ![i] = FALSE]
  /\ running' = [running EXCEPT ![i] = {}]
  /\ stop' = [stop EXCEPT ![i] = "none"]
  /\ awaited' = [awaited EXCEPT ![i] = {}]
  /\ code' = [code EXCEPT ![i] = 0]
  /\ early' = [early EXCEPT ![i] = FALSE]
  /\ exit' = [exit EXCEPT ![i] = exitCode]
  /\ Disconnect(i)

\* The server is closed when its last request has been answered.
ServerCloses(i) ==
  /\ stop[i] = "closing" /\ ~serving[i]
  /\ server' = [server EXCEPT ![i] = "closed"]
  /\ Abort(i, running[i])
  /\ UNCHANGED <<database, main, serving, running, code, early, exit, faults>>

\* Faulty variant: nobody waits for the tasks.
ReleaseAtOnce(i) ==
  /\ stop[i] = "settling"
  /\ stop' = [stop EXCEPT ![i] = "releasing"]
  /\ UNCHANGED <<database, main, server, serving, running, awaited, code, early,
                 exit, faults>>

\* Promise.allSettled(taskPromises)
TasksSettled(i) ==
  /\ stop[i] = "settling" /\ awaited[i] \cap running[i] = {}
  /\ stop' = [stop EXCEPT ![i] = "releasing"]
  /\ UNCHANGED <<database, main, server, serving, running, awaited, code, early,
                 exit, faults>>

\* stop() has returned or failed: the pool has ended, which takes until no
\* transaction uses it.
Released(i) ==
  /\ stop[i] = "releasing" /\ ~InTransaction(i)
  /\ Exit(i, code[i])
  /\ UNCHANGED faults

\* shutdownTimeoutInMs is over.
ForceExit(i) ==
  /\ stop[i] # "none"
  /\ Exit(i, 1)
  /\ UNCHANGED faults
-----------------------------------------------------------------------------
(* Starting *)

\* The orchestrator starts what it never started, or what failed.
Launch(i) ==
  /\ main[i] = "off" /\ exit[i] = 1
  /\ main' = [main EXCEPT ![i] = "starting"]
  /\ BeginMigrating(i)
  /\ UNCHANGED <<server, serving, running, stop, awaited, code, early, exit,
                 faults>>

\* A step of start().
StartStep(i) ==
  /\ main[i] = "starting"
  /\ Migrate(i)
  /\ UNCHANGED <<process, faults>>

\* A transaction fails, or its COMMIT is not answered.
DatabaseFault(i) ==
  /\ main[i] = "starting" /\ Fault
  /\ FailMigrating(i) \/ CommitUnanswered(i)
  /\ UNCHANGED process

\* Faulty variant: start() is not awaited.
ListenEarly(i) ==
  /\ main[i] = "starting"
  /\ main' = [main EXCEPT ![i] = "started"]
  /\ server' = [server EXCEPT ![i] = "listening"]
  /\ running' = [running EXCEPT ![i] = Tasks]
  /\ UNCHANGED <<database, serving, stop, awaited, code, early, exit, faults>>

\* start() has returned: the server listens and the tasks run, whether or not
\* a shutdown has begun.
Listen(i) ==
  /\ main[i] = "starting" /\ phase[i] = "done"
  /\ main' = [main EXCEPT ![i] = "started"]
  /\ server' = [server EXCEPT ![i] = "listening"]
  /\ running' = [running EXCEPT ![i] = Tasks]
  /\ UNCHANGED <<database, serving, stop, awaited, code, early, exit, faults>>

\* start() has thrown.
StartFails(i) ==
  /\ main[i] = "starting" /\ phase[i] = "failed"
  /\ main' = [main EXCEPT ![i] = "failed"]
  /\ Shutdown(i, 1, {})
  /\ UNCHANGED <<database, serving, running, exit, faults>>

\* The seeding of the stock has thrown, or the port is taken.
ListenFails(i) ==
  /\ main[i] = "starting" /\ phase[i] = "done" /\ Fault
  /\ main' = [main EXCEPT ![i] = "failed"]
  /\ Shutdown(i, 1, {})
  /\ UNCHANGED <<database, serving, running, exit>>
-----------------------------------------------------------------------------
(* While it runs *)

RequestArrives(i) ==
  /\ server[i] = "listening" /\ ~serving[i]
  /\ serving' = [serving EXCEPT ![i] = TRUE]
  /\ UNCHANGED <<database, main, server, running, stop, awaited, code, early,
                 exit, faults>>

RequestEnds(i) ==
  /\ serving[i]
  /\ serving' = [serving EXCEPT ![i] = FALSE]
  /\ UNCHANGED <<database, main, server, running, stop, awaited, code, early,
                 exit, faults>>

\* A task returns because its signal is aborted.
TaskStops(i, t) ==
  /\ t \in running[i] /\ Aborted(i)
  /\ running' = [running EXCEPT ![i] = @ \ {t}]
  /\ UNCHANGED <<database, main, server, serving, stop, awaited, code, early,
                 exit, faults>>

\* Faulty variant: a dead task is only logged.
TaskFailsUnnoticed(i, t) ==
  /\ t \in running[i] /\ Fault
  /\ running' = [running EXCEPT ![i] = @ \ {t}]
  /\ UNCHANGED <<database, main, server, serving, stop, awaited, code, early,
                 exit>>

\* A task throws, or returns although nobody asked it to.
TaskFails(i, t) ==
  /\ t \in running[i] /\ Fault
  /\ running' = [running EXCEPT ![i] = @ \ {t}]
  /\ Shutdown(i, 1, running[i] \ {t})
  /\ UNCHANGED <<database, main, serving, exit>>

\* An uncaught exception or an unhandled rejection.
FatalError(i) ==
  /\ Alive(i) /\ Fault
  /\ Shutdown(i, 1, running[i])
  /\ UNCHANGED <<database, main, serving, running, exit>>

\* SIGTERM or SIGINT
Signal(i) ==
  /\ Alive(i) /\ Fault
  /\ Shutdown(i, 0, running[i])
  /\ UNCHANGED <<database, main, serving, running, exit>>

\* The process is killed, as by a second SIGTERM.
Crash(i) ==
  /\ Alive(i) /\ Fault
  /\ Exit(i, 1)
-----------------------------------------------------------------------------
StartingStep(i) == StartStep(i) \/ Listen(i) \/ StartFails(i)

StoppingStep(i) == ServerCloses(i) \/ TasksSettled(i) \/ Released(i)

InstanceFault(i) ==
  \/ DatabaseFault(i) \/ ListenFails(i)
  \/ FatalError(i) \/ Signal(i) \/ Crash(i)
  \/ \E t \in Tasks : TaskFails(i, t)

Next ==
  \E i \in Instances :
    \/ Launch(i) \/ StartingStep(i) \/ StoppingStep(i) \/ ForceExit(i)
    \/ RequestArrives(i) \/ RequestEnds(i)
    \/ \E t \in Tasks : TaskStops(i, t)
    \/ InstanceFault(i)

Spec == Init /\ [][Next]_vars

\* The orchestrator starts what failed, statements return, and the timer of a
\* shutdown fires.  Requests, tasks and stop() need not come to an end.
Fairness ==
  \A i \in Instances :
    WF_vars(Launch(i)) /\ WF_vars(StartingStep(i)) /\ WF_vars(ForceExit(i))

FairSpec == Spec /\ Fairness
-----------------------------------------------------------------------------
(* Properties. *)

\* A service that listens, or whose tasks run, has the schema of its release.
ServesWithSchema ==
  \A i \in Instances :
    server[i] = "listening" \/ running[i] # {} => Plan(i) \subseteq history

\* Exit code 0 means that no request was cut, no task was left behind, and
\* stop() was called after that and is over, if the service had started when it
\* was stopped.  Whether stop() succeeded the exit code does not say: its failure
\* is only logged.
CleanExit ==
  [][\A i \in Instances :
       Alive(i) /\ ~Alive(i)' /\ exit'[i] = 0 /\ ~early[i] =>
         /\ stop[i] = "releasing" /\ server[i] # "listening"
         /\ ~serving[i] /\ running[i] = {}]_vars

\* Each instance serves with all its tasks in the end, or was asked to stop and
\* did: failures lead to a restart, a shutdown ends even if requests and tasks do
\* not, and nobody waits for the lock of an instance that is gone.
Settles ==
  \A i \in Instances :
    <>[]\/ server[i] = "listening" /\ running[i] = Tasks
        \/ main[i] = "off" /\ exit[i] = 0

\* README.md: a service stops accepting requests, lets its tasks finish "and
\* only then closes its connections".
StopsInOrder ==
  \A i \in Instances :
    stop[i] = "releasing" => server[i] # "listening" /\ running[i] = {}
=============================================================================
