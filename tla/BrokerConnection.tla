-------------------------- MODULE BrokerConnection --------------------------
(***************************************************************************)
(* The connection of RabbitMqClient, as the supervisor and the publishers  *)
(* of one service share it: connect() with its one attempt at a time, the  *)
(* topology it declares, losing and closing connections, publish() and     *)
(* subscribe() on the channel they find, and one call of close() amidst.   *)
(*                                                                         *)
(* A session is a connection with its channel, numbered from 1; 0 is none. *)
(* What an attempt does between two awaits is a step: everything else may  *)
(* happen in between.  The exchange is declared with the first queue, and  *)
(* a queue with its dead letters and bindings.  What makes an await fail   *)
(* is a lost session or a timeout, which are faults, or a broker that is   *)
(* down, which may refuse as often as it is asked.                         *)
(***************************************************************************)
EXTENDS Naturals, Sequences, Functions

CONSTANTS Publishers,            \* relays and handlers that publish
          Supervisor,            \* the task that subscribes
          Topology,              \* the queues, in the order of declaration
          Route,                 \* the queues of the published routing key
          OwnQueue,              \* the queue the service consumes
          MaxConnectionRetries,
          MaxFaults              \* bound on the faults of a behaviour

Queues == Range(Topology)

ASSUME ClientAssumption == Supervisor \notin Publishers
ASSUME TopologyAssumption == /\ Topology \in Seq(Queues)
                             /\ Route \subseteq Queues
                             /\ OwnQueue \in Queues
ASSUME BoundAssumption == /\ MaxConnectionRetries \in Nat \ {0}
                          /\ MaxFaults \in Nat

Clients == Publishers \cup {Supervisor}

\* Every session but the first replaces one that a fault ended; close() may end
\* two, the current one and that of the attempt it aborts.
Sessions == 1..MaxFaults + 2

VARIABLES
  opened,       \* number of sessions opened so far
  up,           \* sessions whose connection is open
  closing,      \* sessions the client has let go of and is closing
  connection,   \* the client's connection, or 0
  channel,      \* the client's channel, or 0
  attempt,      \* the attempt to connect that everybody shares
  at,           \* where each client is
  subscribing,  \* the session on which the supervisor subscribes
  initialized,  \* the supervisor's flag
  declared,     \* queues that exist, with their bindings
  consumer,     \* the session on which the own queue is consumed, or 0
  missed,       \* an event was confirmed that a queue of its key has not got
  closeCall,    \* where close() is, and whether anybody has started an attempt
                \* since it began (history)
  faults        \* faults so far

sessions == <<opened, up, closing, connection, channel>>
service == <<at, subscribing, initialized>>
vars == <<opened, up, closing, connection, channel, attempt, at, subscribing,
          initialized, declared, consumer, missed, closeCall, faults>>

NoAttempt == [phase |-> "none", owner |-> Supervisor, aborted |-> FALSE,
              try |-> 0, session |-> 0, next |-> 0]

NotClosing == [phase |-> "none", late |-> FALSE]

TypeOK ==
  /\ opened \in 0..MaxFaults + 2
  /\ up \subseteq Sessions /\ closing \subseteq up
  /\ connection \in 0..opened /\ channel \in 0..opened
  /\ attempt \in [phase : {"none", "connecting", "opening", "declaring",
                           "cleaning", "pausing"},
                  owner : Clients, aborted : BOOLEAN,
                  try : 0..MaxConnectionRetries,
                  session : 0..opened, next : 0..Len(Topology)]
  /\ at \in [Clients -> {"idle", "connecting", "connected", "consuming"}]
  /\ subscribing \in 0..opened
  /\ initialized \in BOOLEAN
  /\ declared \subseteq Queues
  /\ consumer \in 0..opened
  /\ missed \in BOOLEAN
  /\ closeCall \in [phase : {"none", "draining", "closed"}, late : BOOLEAN]
  /\ faults \in 0..MaxFaults

\* The broker is new: nothing has been declared.
Init ==
  /\ opened = 0 /\ up = {} /\ closing = {}
  /\ connection = 0 /\ channel = 0 /\ attempt = NoAttempt
  /\ at = [c \in Clients |-> "idle"]
  /\ subscribing = 0 /\ initialized = FALSE
  /\ declared = {} /\ consumer = 0 /\ missed = FALSE
  /\ closeCall = NotClosing /\ faults = 0
-----------------------------------------------------------------------------
(* Helpers. *)

Fault == faults < MaxFaults /\ faults' = faults + 1

\* isReady() of the client
Ready == connection # 0 /\ channel # 0

\* Faulty variant: the client is not asked.
InitializedOnce == initialized

\* isReady() of the supervisor
SupervisorReady == initialized /\ Ready

Goto(c, state) == at' = [at EXCEPT ![c] = state]

\* closeResources, up to its first await: the rest is CloseSession.
CloseResources ==
  /\ closing' = closing \cup ({connection} \ {0})
  /\ connection' = 0 /\ channel' = 0 /\ consumer' = 0

\* Faulty variant: the event of any connection counts.
OnCloseOfAny(n) == connection' = 0 /\ channel' = 0 /\ consumer' = 0

\* Faulty variant: the channel is kept.
OnCloseConnectionOnly(n) ==
  /\ connection' = IF connection = n THEN 0 ELSE connection
  /\ consumer' = IF connection = n THEN 0 ELSE consumer
  /\ UNCHANGED channel

\* The close event of a connection, ignored unless it is the current one.
OnClose(n) ==
  IF connection = n
    THEN connection' = 0 /\ channel' = 0 /\ consumer' = 0
    ELSE UNCHANGED <<connection, channel, consumer>>
-----------------------------------------------------------------------------
(* connect() *)

\* There is a channel, whatever has been declared on it.
UseChannel(c) ==
  /\ channel # 0
  /\ Goto(c, "connected")
  /\ UNCHANGED <<sessions, attempt, consumer, closeCall>>

\* Somebody else's attempt is awaited.
JoinAttempt(c) ==
  /\ channel = 0 /\ attempt.phase # "none"
  /\ Goto(c, "connecting")
  /\ UNCHANGED <<sessions, attempt, consumer, closeCall>>

\* An attempt of its own, which closes a connection without channel first.
StartAttempt(c) ==
  /\ channel = 0 /\ attempt.phase = "none"
  /\ Goto(c, "connecting")
  /\ closeCall' = [closeCall EXCEPT !.late = closeCall.phase # "none"]
  /\ IF connection = 0
       THEN /\ attempt' = [NoAttempt EXCEPT !.phase = "connecting",
                                            !.owner = c, !.try = 1]
            /\ UNCHANGED <<sessions, consumer>>
       ELSE /\ attempt' = [NoAttempt EXCEPT !.phase = "cleaning",
                                            !.owner = c, !.session = connection]
            /\ CloseResources
            /\ UNCHANGED <<opened, up>>

Connect(c) == UseChannel(c) \/ JoinAttempt(c) \/ StartAttempt(c)

\* connectPromise is settled: whoever waits for it goes on.
Wake(state) ==
  at' = [c \in Clients |-> IF at[c] = "connecting" THEN state ELSE at[c]]

\* Faulty variant: the session is kept.
FailKeepingSession ==
  /\ attempt' = [attempt EXCEPT !.phase = "cleaning", !.session = 0]
  /\ UNCHANGED <<closing, connection, channel, consumer>>

\* An await has thrown: closeResources is awaited.
FailTry ==
  /\ attempt' = [attempt EXCEPT !.phase = "cleaning", !.session = connection]
  /\ CloseResources

\* connectToBroker resolves; an aborted attempt closes what it got.
ConnectionOpens ==
  /\ attempt.phase = "connecting"
  /\ opened < MaxFaults + 2
  /\ opened' = opened + 1
  /\ up' = up \cup {opened + 1}
  /\ IF attempt.aborted
       THEN /\ attempt' = [attempt EXCEPT !.phase = "cleaning",
                                          !.session = opened + 1]
            /\ closing' = closing \cup {opened + 1}
            /\ UNCHANGED connection
       ELSE /\ attempt' = [attempt EXCEPT !.phase = "opening",
                                          !.session = opened + 1]
            /\ connection' = opened + 1
            /\ UNCHANGED closing
  /\ UNCHANGED <<channel, service, declared, consumer, missed, closeCall, faults>>

\* connectToBroker rejects, as long as the broker is down.
ConnectionRefused ==
  /\ attempt.phase = "connecting"
  /\ FailTry
  /\ UNCHANGED <<opened, up, service, declared, missed, closeCall, faults>>

\* createChannel resolves, or has thrown.
ChannelOpens ==
  /\ attempt.phase = "opening"
  /\ IF connection = attempt.session /\ ~attempt.aborted
       THEN /\ channel' = connection
            /\ attempt' = [attempt EXCEPT !.phase = "declaring", !.next = 1]
            /\ UNCHANGED <<closing, connection, consumer>>
       ELSE FailTry
  /\ UNCHANGED <<opened, up, service, declared, missed, closeCall, faults>>

\* The next queue is declared on the channel, unless that is gone.
DeclareQueue ==
  /\ attempt.phase = "declaring" /\ attempt.next <= Len(Topology)
  /\ IF channel = attempt.session /\ ~attempt.aborted
       THEN /\ declared' = declared \cup {Topology[attempt.next]}
            /\ IF attempt.next < Len(Topology)
                 THEN attempt' = [attempt EXCEPT !.next = @ + 1] /\ UNCHANGED at
                 ELSE attempt' = NoAttempt /\ Wake("connected")
            /\ UNCHANGED <<closing, connection, channel, consumer>>
       ELSE FailTry /\ UNCHANGED <<declared, at>>
  /\ UNCHANGED <<opened, up, subscribing, initialized, missed, closeCall, faults>>

\* attempt < maxConnectionRetries does not hold
Exhausted == attempt.try >= MaxConnectionRetries

\* closeResources is done: the first try, the end, or a pause.
Cleaned ==
  /\ attempt.phase = "cleaning" /\ attempt.session \notin closing
  /\ IF attempt.aborted \/ (attempt.try > 0 /\ Exhausted)
       THEN attempt' = NoAttempt /\ Wake("idle")
       ELSE /\ attempt' = IF attempt.try = 0
                            THEN [attempt EXCEPT !.phase = "connecting",
                                                 !.try = 1, !.session = 0]
                            ELSE [attempt EXCEPT !.phase = "pausing",
                                                 !.next = 0, !.session = 0]
            /\ UNCHANGED at
  /\ UNCHANGED <<sessions, subscribing, initialized, declared, consumer,
                 missed, closeCall, faults>>

\* Faulty variant: the try does not count.
RetryUncounted ==
  /\ attempt.phase = "pausing"
  /\ IF attempt.aborted
       THEN attempt' = NoAttempt /\ Wake("idle")
       ELSE attempt' = [attempt EXCEPT !.phase = "connecting"] /\ UNCHANGED at
  /\ UNCHANGED <<sessions, subscribing, initialized, declared, consumer,
                 missed, closeCall, faults>>

\* The delay is over, or was aborted.
PauseEnds ==
  /\ attempt.phase = "pausing"
  /\ IF attempt.aborted
       THEN attempt' = NoAttempt /\ Wake("idle")
       ELSE /\ attempt' = [attempt EXCEPT !.phase = "connecting", !.try = @ + 1]
            /\ UNCHANGED at
  /\ UNCHANGED <<sessions, subscribing, initialized, declared, consumer,
                 missed, closeCall, faults>>
-----------------------------------------------------------------------------
(* publish() *)

StartPublish(p) ==
  /\ at[p] = "idle"
  /\ Connect(p)
  /\ UNCHANGED <<subscribing, initialized, declared, missed, faults>>

\* The broker takes the event and routes it, or returns it; or there is no
\* channel (any more).
Publish(p) ==
  /\ at[p] = "connected"
  /\ Goto(p, "idle")
  /\ missed' = (missed \/ /\ channel # 0 /\ Route \cap declared # {}
                          /\ ~(Route \subseteq declared))
  /\ UNCHANGED <<sessions, attempt, subscribing, initialized, declared,
                 consumer, closeCall, faults>>

\* publishTimeoutInMs is over: the owner aborts the attempt for everybody and
\* waits for its end, others give up.
PublishTimeout(p) ==
  /\ at[p] = "connecting" /\ Fault
  /\ IF attempt.owner = p
       THEN attempt' = [attempt EXCEPT !.aborted = TRUE] /\ UNCHANGED at
       ELSE Goto(p, "idle") /\ UNCHANGED attempt
  /\ UNCHANGED <<sessions, subscribing, initialized, declared, consumer, missed, closeCall>>
-----------------------------------------------------------------------------
(* The supervisor, and subscribe(). *)

\* The delay is over and the service is not ready: initialize.
Check ==
  /\ at[Supervisor] = "idle" /\ ~SupervisorReady
  /\ initialized' = FALSE
  /\ Connect(Supervisor)
  /\ UNCHANGED <<subscribing, declared, missed, faults>>

\* The own queue is declared on the channel there is.
Subscribe ==
  /\ at[Supervisor] = "connected"
  /\ IF channel # 0
       THEN /\ declared' = declared \cup {OwnQueue}
            /\ subscribing' = channel
            /\ Goto(Supervisor, "consuming")
       ELSE Goto(Supervisor, "idle") /\ UNCHANGED <<declared, subscribing>>
  /\ UNCHANGED <<sessions, attempt, initialized, consumer, missed, closeCall, faults>>

\* Faulty variant: the channel may have been replaced since.
ConsumeAnyway ==
  /\ at[Supervisor] = "consuming"
  /\ Goto(Supervisor, "idle")
  /\ consumer' = subscribing /\ subscribing' = 0 /\ initialized' = Ready
  /\ UNCHANGED <<sessions, attempt, declared, missed, closeCall, faults>>

\* consume resolves, or throws because the channel is gone.
Consume ==
  /\ at[Supervisor] = "consuming"
  /\ Goto(Supervisor, "idle")
  /\ subscribing' = 0
  /\ IF channel = subscribing
       THEN consumer' = channel /\ initialized' = Ready
       ELSE UNCHANGED <<consumer, initialized>>
  /\ UNCHANGED <<sessions, attempt, declared, missed, closeCall, faults>>
-----------------------------------------------------------------------------
(* The broker and the network. *)

ConnectionLost(n) ==
  /\ n \in up /\ Fault
  /\ up' = up \ {n}
  /\ closing' = closing \ {n}
  /\ OnClose(n)
  /\ UNCHANGED <<opened, attempt, service, declared, missed, closeCall>>

\* A channel error: the connection stays.
ChannelLost ==
  /\ channel # 0 /\ Fault
  /\ channel' = 0 /\ consumer' = 0
  /\ UNCHANGED <<opened, up, closing, connection, attempt, service, declared,
                 missed, closeCall>>

\* handleConsumerCancelledByBroker: the channel is dropped, nobody waits.
ConsumerCancelled ==
  /\ consumer # 0 /\ Fault
  /\ CloseResources
  /\ UNCHANGED <<opened, up, attempt, service, declared, missed, closeCall>>

\* A session is closed as the client asked for, and its event arrives.
CloseSession(n) ==
  /\ n \in closing
  /\ up' = up \ {n}
  /\ closing' = closing \ {n}
  /\ OnClose(n)
  /\ UNCHANGED <<opened, attempt, service, declared, missed, closeCall, faults>>
-----------------------------------------------------------------------------
(* close() *)

\* Faulty variant: the attempt under way is left alone.
CloseClient ==
  /\ closeCall.phase = "none" /\ Fault
  /\ closeCall' = [closeCall EXCEPT !.phase = "draining"]
  /\ consumer' = 0
  /\ UNCHANGED <<sessions, attempt, service, declared, missed>>

\* The attempt under way is aborted, and the consumer cancelled.
Close ==
  /\ closeCall.phase = "none" /\ Fault
  /\ closeCall' = [closeCall EXCEPT !.phase = "draining"]
  /\ attempt' = [attempt EXCEPT !.aborted = (attempt.phase # "none")]
  /\ consumer' = 0
  /\ UNCHANGED <<sessions, service, declared, missed>>

\* The handlers are done, or drainTimeoutInMs is over: what there is is closed,
\* and close() returns after CloseSession.
Drained ==
  /\ closeCall.phase = "draining"
  /\ closeCall' = [closeCall EXCEPT !.phase = "closed"]
  /\ CloseResources
  /\ UNCHANGED <<opened, up, attempt, service, declared, missed, faults>>
-----------------------------------------------------------------------------
AttemptStep ==
  ConnectionOpens \/ ChannelOpens \/ DeclareQueue \/ Cleaned \/ PauseEnds

SupervisorStep == Check \/ Subscribe \/ Consume

Next ==
  \/ AttemptStep \/ ConnectionRefused
  \/ \E p \in Publishers : StartPublish(p) \/ Publish(p) \/ PublishTimeout(p)
  \/ SupervisorStep
  \/ \E n \in Sessions : ConnectionLost(n) \/ CloseSession(n)
  \/ ChannelLost \/ ConsumerCancelled
  \/ Close \/ Drained

Spec == Init /\ [][Next]_vars

\* Awaits end, the supervisor keeps polling, and a broker that was told to
\* close a connection does.
Fairness ==
  /\ WF_vars(AttemptStep)
  /\ WF_vars(SupervisorStep)
  /\ \A p \in Publishers : WF_vars(Publish(p))
  /\ \A n \in Sessions : WF_vars(CloseSession(n))
  /\ WF_vars(Drained)

FairSpec == Spec /\ Fairness
-----------------------------------------------------------------------------
(* Properties. *)

\* No connection is forgotten: each is the current one or is being closed,
\* whatever order attempts, failures and late close events come in.
NoLeak == up \subseteq {connection} \cup closing

\* The channel is one of the current connection, which is open, so that
\* publish() and subscribe() never use what an earlier connection left.
ChannelIsCurrent == channel # 0 => channel = connection /\ channel \in up

\* What consumes is the current channel: deliveries are acknowledged on it.
ConsumerIsCurrent == consumer # 0 => consumer = channel

\* Whatever is used belongs to the connection there is.
SessionIsCurrent == ChannelIsCurrent /\ ConsumerIsCurrent

\* close() is final unless somebody connects again: the client has no connection
\* afterwards and every session that is open is being closed.  An attempt that
\* was under way may still wait for the broker, but it is aborted: the session
\* that it opens is closed at once.
ClosedForGood ==
  closeCall.phase = "closed" /\ ~closeCall.late =>
    /\ connection = 0 /\ channel = 0 /\ consumer = 0
    /\ up \subseteq closing
    /\ attempt.phase # "none" => attempt.aborted

\* connect() returns, with or without success, to all who wait for it, even if
\* the broker never comes back; and close() returns.
CallsReturn ==
  /\ \A c \in Clients : []<>(at[c] # "connecting")
  /\ []<>(closeCall.phase # "draining" /\ closing = {})

\* The broker does not refuse for ever.
BrokerReturns == SF_vars(ConnectionOpens)

\* After the last fault, if the broker is back, the service is connected to it
\* with the whole topology, and stays so.
TopologyCompletes == BrokerReturns => <>[](Ready /\ declared = Queues)

\* The same for the subscription, if only the supervisor makes connections: the
\* own queue is consumed for good, whatever publishers use.
ResubscribesAlone ==
  BrokerReturns /\ [](attempt.owner = Supervisor) => <>[](consumer # 0)

\* docs/reliability.md: when the broker is lost, the "supervisor reconnects and
\* resubscribes", no matter who else connects.
Resubscribes == BrokerReturns => <>[](consumer # 0)

\* README.md: the whole topology is declared each time a service connects,
\* "before it publishes anything".  So no queue of the key misses an event.
NothingMissed == ~missed
=============================================================================
