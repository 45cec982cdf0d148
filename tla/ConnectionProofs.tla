--------------------------- MODULE ConnectionProofs ---------------------------
(***************************************************************************)
(* Theorems about BrokerConnection, for every number of publishers, every  *)
(* topology and every number of faults: no connection is ever forgotten,   *)
(* channel and consumer belong to the current connection, and close() is   *)
(* final unless somebody connects again.  At the end, theorems about       *)
(* ConfirmedPublisher, the publications on the client's channel.           *)
(***************************************************************************)
EXTENDS BrokerConnection, ConfirmedPublisher, TLAPS

\* The current connection is open, and sessions are numbered as they open.
SessionsAreReal ==
  /\ connection # 0 => connection \in up
  /\ up \subseteq 1..opened

\* What holds at the awaits of an attempt.  While it connects, cleans up or
\* pauses there is no connection that it could overwrite; it pauses only when
\* a try is left, and declares from the first queue on.
AttemptIsSound ==
  /\ attempt.phase \in {"connecting", "cleaning", "pausing"} => connection = 0
  /\ attempt.phase = "pausing" => attempt.try < MaxConnectionRetries
  /\ attempt.phase = "declaring" => attempt.next >= 1

IInv == /\ TypeOK
        /\ NoLeak
        /\ ChannelIsCurrent
        /\ ConsumerIsCurrent
        /\ SessionsAreReal
        /\ AttemptIsSound
-----------------------------------------------------------------------------
(* The queues of the topology are in its range. *)
LEMMA TopologyFacts ==
  /\ Len(Topology) \in Nat
  /\ \A i \in 1..Len(Topology) : Topology[i] \in Queues
BY TopologyAssumption

(* There is a queue: the own one. *)
LEMMA TopologyNotEmpty == Len(Topology) \in Nat \ {0}
BY TopologyFacts, TopologyAssumption DEF Queues, Range

(* The attempts that TypeOK allows. *)
Attempts == [phase : {"none", "connecting", "opening", "declaring",
                      "cleaning", "pausing"},
             owner : Clients, aborted : BOOLEAN,
             try : 0..MaxConnectionRetries,
             session : 0..opened, next : 0..Len(Topology)]

(* The states of close(). *)
CloseCalls == [phase : {"none", "draining", "closed"}, late : BOOLEAN]

(* The absence of an attempt is of their type. *)
LEMMA NoAttemptTyped == ASSUME opened \in Nat PROVE NoAttempt \in Attempts
BY BoundAssumption, TopologyFacts DEF NoAttempt, Attempts, Clients

(* The initial state. *)
LEMMA Initial == Init => IInv
<1> SUFFICES ASSUME Init PROVE IInv
  OBVIOUS
<1>1. NoAttempt \in Attempts
  BY NoAttemptTyped DEF Init
<1>2. at \in [Clients -> {"idle", "connecting", "connected", "consuming"}]
  BY DEF Init
<1>3. attempt \in Attempts
  BY <1>1 DEF Init
<1>4. /\ up \subseteq Sessions /\ closing \subseteq up
      /\ opened \in 0..MaxFaults + 2 /\ faults \in 0..MaxFaults
      /\ connection \in 0..opened /\ channel \in 0..opened
      /\ subscribing \in 0..opened /\ consumer \in 0..opened
      /\ declared \subseteq Queues
  BY BoundAssumption DEF Init
<1>5. initialized \in BOOLEAN /\ missed \in BOOLEAN /\ closeCall \in CloseCalls
  BY DEF Init, NotClosing, CloseCalls
<1>6. TypeOK
  BY <1>2, <1>3, <1>4, <1>5 DEF TypeOK, Attempts, CloseCalls
<1>7. QED
  BY <1>6, BoundAssumption
  DEF Init, IInv, NoLeak, ChannelIsCurrent, ConsumerIsCurrent,
      SessionsAreReal, AttemptIsSound, NoAttempt

-----------------------------------------------------------------------------
(* The parts of the inductive invariant. *)

SessionInv ==
  /\ opened \in 0..MaxFaults + 2
  /\ up \subseteq Sessions /\ closing \subseteq up
  /\ connection \in 0..opened /\ channel \in 0..opened /\ consumer \in 0..opened
  /\ NoLeak /\ ChannelIsCurrent /\ ConsumerIsCurrent /\ SessionsAreReal

AttemptInv == attempt \in Attempts /\ AttemptIsSound

ServiceInv ==
  /\ at \in [Clients -> {"idle", "connecting", "connected", "consuming"}]
  /\ subscribing \in 0..opened
  /\ declared \subseteq Queues
  /\ faults \in 0..MaxFaults

FlagInv == /\ initialized \in BOOLEAN /\ missed \in BOOLEAN
           /\ closeCall \in CloseCalls

(* The inductive invariant by what its parts are about. *)
LEMMA Parts == IInv <=> SessionInv /\ AttemptInv /\ ServiceInv /\ FlagInv
BY DEF IInv, TypeOK, SessionInv, AttemptInv, ServiceInv, FlagInv, Attempts,
       CloseCalls

(* The same after a step. *)
LEMMA PartsNext ==
  IInv' <=> SessionInv' /\ AttemptInv' /\ ServiceInv' /\ FlagInv'
BY DEF IInv, TypeOK, SessionInv, AttemptInv, ServiceInv, FlagInv, Attempts,
       CloseCalls

(* closeResources forgets no session: the one it drops is being closed. *)
LEMMA Closed ==
  ASSUME SessionInv, CloseResources, UNCHANGED <<opened, up>>
  PROVE  SessionInv' /\ connection' = 0 /\ channel' = 0
BY DEF SessionInv, CloseResources, NoLeak, ChannelIsCurrent, ConsumerIsCurrent,
       SessionsAreReal

(* A close event takes away the session it is about, and no other. *)
LEMMA CloseEvent ==
  ASSUME SessionInv, NEW n \in Sessions, OnClose(n),
         up' = up \ {n}, closing' = closing \ {n}, UNCHANGED opened
  PROVE  SessionInv' /\ connection' \in {0, connection}
BY DEF SessionInv, OnClose, NoLeak, ChannelIsCurrent, ConsumerIsCurrent,
       SessionsAreReal

(* The rest of the state follows the sessions that it names. *)
LEMMA AttemptFrame ==
  ASSUME AttemptInv, attempt' = attempt, opened \in Nat, opened' \in Nat,
         opened <= opened', connection' \in {0, connection}
  PROVE  AttemptInv'
BY DEF AttemptInv, AttemptIsSound, Attempts

(* A failed try drops its session, and is cleaning up afterwards. *)
LEMMA FailedTry ==
  ASSUME SessionInv, AttemptInv, FailTry, UNCHANGED <<opened, up>>
  PROVE  SessionInv' /\ AttemptInv'
<1>1. SessionInv' /\ connection' = 0
  BY Closed DEF FailTry
<1>2. connection \in 0..opened
  BY DEF SessionInv
<1>3. attempt' \in Attempts'
  BY <1>2 DEF FailTry, AttemptInv, Attempts
<1>4. AttemptIsSound'
  BY <1>1 DEF FailTry, AttemptInv, AttemptIsSound, Attempts
<1>5. QED
  BY <1>1, <1>3, <1>4 DEF AttemptInv

(* connect() uses, joins or starts an attempt. *)
LEMMA ConnectKeeps ==
  ASSUME SessionInv, AttemptInv, NEW c \in Clients, Connect(c)
  PROVE  /\ SessionInv' /\ AttemptInv' /\ opened' = opened
         /\ \E state \in {"connecting", "connected"} : Goto(c, state)
         /\ closeCall \in CloseCalls => closeCall' \in CloseCalls
<1>0. closeCall \in CloseCalls => closeCall' \in CloseCalls
  BY DEF Connect, UseChannel, JoinAttempt, StartAttempt, CloseCalls
<1>1. CASE UseChannel(c)
  BY <1>1 DEF UseChannel, sessions, SessionInv, AttemptInv, AttemptIsSound,
     Attempts, NoLeak, ChannelIsCurrent, ConsumerIsCurrent, SessionsAreReal
<1>2. CASE JoinAttempt(c)
  BY <1>2 DEF JoinAttempt, sessions, SessionInv, AttemptInv, AttemptIsSound,
     Attempts, NoLeak, ChannelIsCurrent, ConsumerIsCurrent, SessionsAreReal
<1>3. CASE StartAttempt(c) /\ connection = 0
  <2>1. SessionInv'
    BY <1>3 DEF StartAttempt, sessions, SessionInv, NoLeak, ChannelIsCurrent,
       ConsumerIsCurrent, SessionsAreReal
  <2>2. attempt' = [phase |-> "connecting", owner |-> c, aborted |-> FALSE,
                    try |-> 1, session |-> 0, next |-> 0]
    BY <1>3 DEF StartAttempt, NoAttempt
  <2>3. attempt' \in Attempts' /\ opened' = opened /\ connection' = 0
    BY <1>3, <2>2, BoundAssumption, TopologyFacts
    DEF StartAttempt, sessions, SessionInv, Attempts
  <2>4. AttemptInv'
    BY <2>2, <2>3 DEF AttemptInv, AttemptIsSound
  <2>5. QED
    BY <1>0, <1>3, <2>1, <2>3, <2>4 DEF StartAttempt
<1>4. CASE StartAttempt(c) /\ connection # 0
  <2>1. SessionInv' /\ connection' = 0 /\ opened' = opened
    BY <1>4, Closed DEF StartAttempt
  <2>2. attempt' = [phase |-> "cleaning", owner |-> c, aborted |-> FALSE,
                    try |-> 0, session |-> connection, next |-> 0]
    BY <1>4 DEF StartAttempt, NoAttempt
  <2>3. attempt' \in Attempts'
    BY <2>1, <2>2, BoundAssumption, TopologyFacts DEF SessionInv, Attempts
  <2>4. AttemptInv'
    BY <2>1, <2>2, <2>3 DEF AttemptInv, AttemptIsSound
  <2>5. QED
    BY <1>0, <1>4, <2>1, <2>4 DEF StartAttempt
<1>5. QED
  BY <1>0, <1>1, <1>2, <1>3, <1>4 DEF Connect

(* Ending the attempt is safe. *)
LEMMA NoAttemptSound ==
  ASSUME SessionInv, attempt' = NoAttempt, opened' = opened PROVE AttemptInv'
<1>1. attempt' \in Attempts'
  BY NoAttemptTyped DEF SessionInv, Attempts
<1>2. QED
  BY <1>1 DEF AttemptInv, AttemptIsSound, NoAttempt

(* A new connection follows no other, or is closed at once if the attempt is
   aborted. *)
LEMMA ConnectionOpensKeeps ==
  ASSUME SessionInv, AttemptInv, ServiceInv, FlagInv, ConnectionOpens
  PROVE  SessionInv' /\ AttemptInv' /\ ServiceInv' /\ FlagInv'
<1>1. SessionInv'
  BY BoundAssumption
  DEF ConnectionOpens, SessionInv, AttemptInv, AttemptIsSound,
     NoLeak, ChannelIsCurrent, ConsumerIsCurrent, SessionsAreReal, Sessions
<1>2. AttemptInv'
  <2>1. opened' = opened + 1 /\ opened \in Nat /\ opened' \in Nat
    BY DEF ConnectionOpens, SessionInv
  <2>2. attempt' \in Attempts'
    <3>1. attempt \in Attempts /\ opened + 1 \in 0..opened'
      BY <2>1 DEF AttemptInv
    <3>2. attempt' =
           [attempt EXCEPT
              !.phase = IF attempt.aborted THEN "cleaning" ELSE "opening",
              !.session = opened + 1]
      BY DEF ConnectionOpens
    <3>3. QED
      BY <3>1, <3>2 DEF Attempts
  <2>3. connection = 0
    BY DEF ConnectionOpens, AttemptInv, AttemptIsSound
  <2>4. CASE attempt.aborted
    BY <2>2, <2>3, <2>4
    DEF ConnectionOpens, AttemptInv, AttemptIsSound, Attempts
  <2>5. CASE ~attempt.aborted
    BY <2>2, <2>5 DEF ConnectionOpens, AttemptInv, AttemptIsSound, Attempts
  <2>6. QED
    BY <2>4, <2>5
<1>3. ServiceInv'
  BY BoundAssumption
  DEF ConnectionOpens, sessions, service, SessionInv, ServiceInv, Fault, Goto,
      Wake, Clients
<1>4. FlagInv'
  BY DEF ConnectionOpens, service, FlagInv
<1>5. QED
  BY <1>1, <1>2, <1>3, <1>4

(* A refused connection ends the try. *)
LEMMA ConnectionRefusedKeeps ==
  ASSUME SessionInv, AttemptInv, ServiceInv, FlagInv, ConnectionRefused
  PROVE  SessionInv' /\ AttemptInv' /\ ServiceInv' /\ FlagInv'
<1>1. SessionInv'
  BY FailedTry DEF ConnectionRefused
<1>2. AttemptInv'
  BY FailedTry DEF ConnectionRefused
<1>3. ServiceInv'
  BY BoundAssumption
  DEF ConnectionRefused, sessions, service, SessionInv, ServiceInv, Fault,
      Goto, Wake, Clients
<1>4. FlagInv'
  BY DEF ConnectionRefused, service, FlagInv
<1>5. QED
  BY <1>1, <1>2, <1>3, <1>4

(* The channel is that of the current connection, or the try fails. *)
LEMMA ChannelOpensKeeps ==
  ASSUME SessionInv, AttemptInv, ServiceInv, FlagInv, ChannelOpens
  PROVE  SessionInv' /\ AttemptInv' /\ ServiceInv' /\ FlagInv'
<1>1. SessionInv'
  <2>1. CASE FailTry
    BY <2>1, FailedTry DEF ChannelOpens
  <2>2. CASE ~FailTry
    BY <2>2 DEF ChannelOpens, SessionInv, AttemptInv, Attempts, NoLeak,
       ChannelIsCurrent, ConsumerIsCurrent, SessionsAreReal
  <2>3. QED
    BY <2>1, <2>2
<1>2. AttemptInv'
  <2>1. CASE FailTry
    BY <2>1, FailedTry DEF ChannelOpens
  <2>2. CASE ~FailTry
    <3>1. attempt' = [attempt EXCEPT !.phase = "declaring", !.next = 1]
      BY <2>2 DEF ChannelOpens
    <3>2. attempt' \in Attempts'
      <4>1. 1 \in 0..Len(Topology) /\ opened' = opened
        BY TopologyNotEmpty DEF ChannelOpens
      <4>2. QED
        BY <3>1, <4>1 DEF AttemptInv, Attempts
    <3>3. QED
      BY <3>1, <3>2 DEF AttemptInv, AttemptIsSound, Attempts
  <2>3. QED
    BY <2>1, <2>2
<1>3. ServiceInv'
  BY BoundAssumption
  DEF ChannelOpens, sessions, service, SessionInv, ServiceInv, Fault, Goto,
      Wake, Clients
<1>4. FlagInv'
  BY DEF ChannelOpens, service, FlagInv
<1>5. QED
  BY <1>1, <1>2, <1>3, <1>4

(* Declaring goes through the topology in its range. *)
LEMMA DeclareQueueKeeps ==
  ASSUME SessionInv, AttemptInv, ServiceInv, FlagInv, DeclareQueue
  PROVE  SessionInv' /\ AttemptInv' /\ ServiceInv' /\ FlagInv'
<1>1. SessionInv'
  <2>1. CASE FailTry
    BY <2>1, FailedTry DEF DeclareQueue
  <2>2. CASE ~FailTry
    BY <2>2 DEF DeclareQueue, SessionInv, NoLeak, ChannelIsCurrent,
       ConsumerIsCurrent, SessionsAreReal
  <2>3. QED
    BY <2>1, <2>2
<1>2. AttemptInv'
  <2>1. CASE FailTry
    BY <2>1, FailedTry DEF DeclareQueue
  <2>2. CASE attempt' = NoAttempt
    BY <2>2, NoAttemptSound DEF DeclareQueue
  <2>3. CASE ~FailTry /\ attempt' # NoAttempt
    <3>1. /\ attempt' = [attempt EXCEPT !.next = @ + 1]
          /\ attempt.next < Len(Topology) /\ UNCHANGED <<opened, connection>>
      BY <2>3 DEF DeclareQueue
    <3>2. attempt.next \in 0..Len(Topology)
      BY DEF AttemptInv, Attempts
    <3>3. attempt' \in Attempts'
      BY <3>1, <3>2, TopologyFacts DEF AttemptInv, Attempts
    <3>4. QED
      BY <3>1, <3>2, <3>3, TopologyFacts
      DEF AttemptInv, AttemptIsSound, Attempts
  <2>4. QED
    BY <2>1, <2>2, <2>3
<1>3. ServiceInv'
  <2>1. attempt.next \in 1..Len(Topology)
    BY TopologyFacts DEF DeclareQueue, AttemptInv, AttemptIsSound, Attempts
  <2>2. Topology[attempt.next] \in Queues
    BY <2>1, TopologyFacts
  <2>3. declared' \subseteq Queues
    BY <2>2 DEF DeclareQueue, ServiceInv
  <2>4. at' \in [Clients -> {"idle", "connecting", "connected", "consuming"}]
    BY DEF DeclareQueue, ServiceInv, Wake
  <2>5. QED
    BY <2>3, <2>4 DEF DeclareQueue, ServiceInv
<1>4. FlagInv'
  BY DEF DeclareQueue, service, FlagInv
<1>5. QED
  BY <1>1, <1>2, <1>3, <1>4

(* After cleaning up there is another try only if one is left. *)
LEMMA CleanedKeeps ==
  ASSUME SessionInv, AttemptInv, ServiceInv, FlagInv, Cleaned
  PROVE  SessionInv' /\ AttemptInv' /\ ServiceInv' /\ FlagInv'
<1>1. SessionInv'
  BY DEF Cleaned, sessions, SessionInv, NoLeak, ChannelIsCurrent,
     ConsumerIsCurrent, SessionsAreReal
<1>2. AttemptInv'
  <2>1. UNCHANGED <<opened, connection>> /\ connection = 0 /\ opened \in Nat
    BY DEF Cleaned, sessions, SessionInv, AttemptInv, AttemptIsSound
  <2>2. CASE attempt' = NoAttempt
    BY <2>1, <2>2, NoAttemptSound
  <2>3. CASE attempt' = [attempt EXCEPT !.phase = "connecting",
                                        !.try = 1, !.session = 0]
    <3>1. attempt' \in Attempts'
      <4>1. 1 \in 0..MaxConnectionRetries /\ 0 \in 0..opened
        BY <2>1, BoundAssumption
      <4>2. QED
        BY <2>1, <2>3, <4>1 DEF AttemptInv, Attempts
    <3>2. QED
      BY <2>1, <2>3, <3>1 DEF AttemptInv, AttemptIsSound, Attempts
  <2>4. CASE /\ attempt' = [attempt EXCEPT !.phase = "pausing",
                                           !.next = 0, !.session = 0]
             /\ attempt.try # 0 /\ ~(attempt.try > 0 /\ Exhausted)
    <3>1. attempt.try \in 0..MaxConnectionRetries
      BY DEF AttemptInv, Attempts
    <3>2. attempt.try < MaxConnectionRetries
      BY <2>4, <3>1, BoundAssumption DEF Exhausted
    <3>3. attempt' \in Attempts'
      <4>1. 0 \in 0..Len(Topology) /\ 0 \in 0..opened
        BY <2>1, TopologyFacts
      <4>2. QED
        BY <2>1, <2>4, <4>1 DEF AttemptInv, Attempts
    <3>4. QED
      BY <2>1, <2>4, <3>2, <3>3 DEF AttemptInv, AttemptIsSound, Attempts
  <2>5. QED
    BY <2>2, <2>3, <2>4 DEF Cleaned
<1>3. ServiceInv'
  BY BoundAssumption
  DEF Cleaned, sessions, service, SessionInv, ServiceInv, Fault, Goto, Wake,
      Clients
<1>4. FlagInv'
  BY DEF Cleaned, service, FlagInv
<1>5. QED
  BY <1>1, <1>2, <1>3, <1>4

(* The next try starts without a connection. *)
LEMMA PauseEndsKeeps ==
  ASSUME SessionInv, AttemptInv, ServiceInv, FlagInv, PauseEnds
  PROVE  SessionInv' /\ AttemptInv' /\ ServiceInv' /\ FlagInv'
<1>1. SessionInv'
  BY DEF PauseEnds, sessions, SessionInv, NoLeak, ChannelIsCurrent,
     ConsumerIsCurrent, SessionsAreReal
<1>2. AttemptInv'
  <2>1. UNCHANGED <<opened, connection>> /\ connection = 0
    BY DEF PauseEnds, sessions, AttemptInv, AttemptIsSound
  <2>2. CASE attempt' = NoAttempt
    BY <2>1, <2>2, NoAttemptSound
  <2>3. CASE attempt' = [attempt EXCEPT !.phase = "connecting", !.try = @ + 1]
    <3>1. /\ attempt.try \in 0..MaxConnectionRetries
          /\ attempt.try < MaxConnectionRetries
      BY DEF PauseEnds, AttemptInv, AttemptIsSound, Attempts
    <3>2. attempt.try + 1 \in 0..MaxConnectionRetries
      BY <3>1, BoundAssumption
    <3>3. attempt' \in Attempts'
      BY <2>1, <2>3, <3>2 DEF AttemptInv, Attempts
    <3>4. QED
      BY <2>1, <2>3, <3>3 DEF AttemptInv, AttemptIsSound, Attempts
  <2>4. QED
    BY <2>2, <2>3 DEF PauseEnds
<1>3. ServiceInv'
  BY BoundAssumption
  DEF PauseEnds, sessions, service, SessionInv, ServiceInv, Fault, Goto, Wake,
      Clients
<1>4. FlagInv'
  BY DEF PauseEnds, service, FlagInv
<1>5. QED
  BY <1>1, <1>2, <1>3, <1>4

(* publish() connects. *)
LEMMA StartPublishKeeps ==
  ASSUME SessionInv, AttemptInv, ServiceInv, FlagInv,
         NEW p \in Publishers, StartPublish(p)
  PROVE  SessionInv' /\ AttemptInv' /\ ServiceInv' /\ FlagInv'
<1>1. SessionInv'
  BY ConnectKeeps DEF StartPublish, Clients
<1>2. AttemptInv'
  BY ConnectKeeps DEF StartPublish, Clients
<1>3. ServiceInv'
  <2>1. PICK state \in {"connecting", "connected"} : Goto(p, state)
    BY ConnectKeeps DEF StartPublish, Clients
  <2>2. at' \in [Clients -> {"idle", "connecting", "connected", "consuming"}]
    BY <2>1 DEF ServiceInv, Goto
  <2>3. opened' = opened
    BY ConnectKeeps DEF StartPublish, Clients
  <2>4. QED
    BY <2>2, <2>3 DEF StartPublish, ServiceInv
<1>4. FlagInv'
  BY ConnectKeeps DEF StartPublish, service, FlagInv, Clients
<1>5. QED
  BY <1>1, <1>2, <1>3, <1>4

(* Publishing leaves the sessions alone. *)
LEMMA PublishKeeps ==
  ASSUME SessionInv, AttemptInv, ServiceInv, FlagInv,
         NEW p \in Publishers, Publish(p)
  PROVE  SessionInv' /\ AttemptInv' /\ ServiceInv' /\ FlagInv'
<1>1. SessionInv'
  BY BoundAssumption
  DEF Publish, sessions, SessionInv, NoLeak, ChannelIsCurrent,
      ConsumerIsCurrent, SessionsAreReal, Sessions
<1>2. AttemptInv'
  BY AttemptFrame DEF Publish, sessions, SessionInv
<1>3. ServiceInv'
  BY BoundAssumption
  DEF Publish, sessions, service, SessionInv, ServiceInv, Fault, Goto, Wake,
      Clients
<1>4. FlagInv'
  BY DEF Publish, service, FlagInv
<1>5. QED
  BY <1>1, <1>2, <1>3, <1>4

(* A timeout only marks the attempt. *)
LEMMA PublishTimeoutKeeps ==
  ASSUME SessionInv, AttemptInv, ServiceInv, FlagInv,
         NEW p \in Publishers, PublishTimeout(p)
  PROVE  SessionInv' /\ AttemptInv' /\ ServiceInv' /\ FlagInv'
<1>1. SessionInv'
  BY BoundAssumption
  DEF PublishTimeout, sessions, SessionInv, NoLeak, ChannelIsCurrent,
      ConsumerIsCurrent, SessionsAreReal, Sessions
<1>2. AttemptInv'
  BY DEF PublishTimeout, sessions, AttemptInv, AttemptIsSound, Attempts
<1>3. ServiceInv'
  BY BoundAssumption
  DEF PublishTimeout, sessions, service, SessionInv, ServiceInv, Fault, Goto,
      Wake, Clients
<1>4. FlagInv'
  BY DEF PublishTimeout, service, FlagInv
<1>5. QED
  BY <1>1, <1>2, <1>3, <1>4

(* The supervisor connects. *)
LEMMA CheckKeeps ==
  ASSUME SessionInv, AttemptInv, ServiceInv, FlagInv, Check
  PROVE  SessionInv' /\ AttemptInv' /\ ServiceInv' /\ FlagInv'
<1>1. SessionInv'
  BY ConnectKeeps DEF Check, Clients
<1>2. AttemptInv'
  BY ConnectKeeps DEF Check, Clients
<1>3. ServiceInv'
  <2>1. PICK state \in {"connecting", "connected"} : Goto(Supervisor, state)
    BY ConnectKeeps DEF Check, Clients
  <2>2. at' \in [Clients -> {"idle", "connecting", "connected", "consuming"}]
    BY <2>1 DEF ServiceInv, Goto
  <2>3. opened' = opened
    BY ConnectKeeps DEF Check, Clients
  <2>4. QED
    BY <2>2, <2>3 DEF Check, ServiceInv
<1>4. FlagInv'
  BY ConnectKeeps DEF Check, service, FlagInv, Clients
<1>5. QED
  BY <1>1, <1>2, <1>3, <1>4

(* Subscribing remembers the channel. *)
LEMMA SubscribeKeeps ==
  ASSUME SessionInv, AttemptInv, ServiceInv, FlagInv, Subscribe
  PROVE  SessionInv' /\ AttemptInv' /\ ServiceInv' /\ FlagInv'
<1>1. SessionInv'
  BY BoundAssumption
  DEF Subscribe, sessions, SessionInv, NoLeak, ChannelIsCurrent,
      ConsumerIsCurrent, SessionsAreReal, Sessions
<1>2. AttemptInv'
  BY AttemptFrame DEF Subscribe, sessions, SessionInv
<1>3. ServiceInv'
  BY TopologyAssumption
  DEF Subscribe, sessions, SessionInv, ServiceInv, Goto, Clients
<1>4. FlagInv'
  BY DEF Subscribe, service, FlagInv
<1>5. QED
  BY <1>1, <1>2, <1>3, <1>4

(* The consumer is on the channel only if that is the same as before. *)
LEMMA ConsumeKeeps ==
  ASSUME SessionInv, AttemptInv, ServiceInv, FlagInv, Consume
  PROVE  SessionInv' /\ AttemptInv' /\ ServiceInv' /\ FlagInv'
<1>1. SessionInv'
  BY BoundAssumption
  DEF Consume, sessions, SessionInv, NoLeak, ChannelIsCurrent,
      ConsumerIsCurrent, SessionsAreReal, Sessions
<1>2. AttemptInv'
  BY AttemptFrame DEF Consume, sessions, SessionInv
<1>3. ServiceInv'
  BY BoundAssumption
  DEF Consume, sessions, service, SessionInv, ServiceInv, Fault, Goto, Wake,
      Clients
<1>4. FlagInv'
  <2>1. Ready \in BOOLEAN
    BY DEF Ready
  <2>2. QED
    BY <2>1 DEF Consume, FlagInv
<1>5. QED
  BY <1>1, <1>2, <1>3, <1>4

(* A lost connection is forgotten if it is the current one. *)
LEMMA ConnectionLostKeeps ==
  ASSUME SessionInv, AttemptInv, ServiceInv, FlagInv,
         NEW n \in Sessions, ConnectionLost(n)
  PROVE  SessionInv' /\ AttemptInv' /\ ServiceInv' /\ FlagInv'
<1>1. SessionInv'
  BY CloseEvent DEF ConnectionLost
<1>2. AttemptInv'
  BY AttemptFrame, CloseEvent DEF ConnectionLost, SessionInv
<1>3. ServiceInv'
  BY BoundAssumption
  DEF ConnectionLost, sessions, service, SessionInv, ServiceInv, Fault, Goto,
      Wake, Clients
<1>4. FlagInv'
  BY DEF ConnectionLost, service, FlagInv
<1>5. QED
  BY <1>1, <1>2, <1>3, <1>4

(* The close event of an earlier connection changes nothing else. *)
LEMMA CloseSessionKeeps ==
  ASSUME SessionInv, AttemptInv, ServiceInv, FlagInv,
         NEW n \in Sessions, CloseSession(n)
  PROVE  SessionInv' /\ AttemptInv' /\ ServiceInv' /\ FlagInv'
<1>1. SessionInv'
  BY CloseEvent DEF CloseSession
<1>2. AttemptInv'
  BY AttemptFrame, CloseEvent DEF CloseSession, SessionInv
<1>3. ServiceInv'
  BY BoundAssumption
  DEF CloseSession, sessions, service, SessionInv, ServiceInv, Fault, Goto,
      Wake, Clients
<1>4. FlagInv'
  BY DEF CloseSession, service, FlagInv
<1>5. QED
  BY <1>1, <1>2, <1>3, <1>4

(* A lost channel takes its consumer with it. *)
LEMMA ChannelLostKeeps ==
  ASSUME SessionInv, AttemptInv, ServiceInv, FlagInv, ChannelLost
  PROVE  SessionInv' /\ AttemptInv' /\ ServiceInv' /\ FlagInv'
<1>1. SessionInv'
  BY BoundAssumption
  DEF ChannelLost, sessions, SessionInv, NoLeak, ChannelIsCurrent,
      ConsumerIsCurrent, SessionsAreReal, Sessions
<1>2. AttemptInv'
  BY AttemptFrame DEF ChannelLost, sessions, SessionInv
<1>3. ServiceInv'
  BY BoundAssumption
  DEF ChannelLost, sessions, service, SessionInv, ServiceInv, Fault, Goto,
      Wake, Clients
<1>4. FlagInv'
  BY DEF ChannelLost, service, FlagInv
<1>5. QED
  BY <1>1, <1>2, <1>3, <1>4

(* A cancelled consumer drops channel and connection. *)
LEMMA ConsumerCancelledKeeps ==
  ASSUME SessionInv, AttemptInv, ServiceInv, FlagInv, ConsumerCancelled
  PROVE  SessionInv' /\ AttemptInv' /\ ServiceInv' /\ FlagInv'
<1>1. SessionInv'
  BY Closed DEF ConsumerCancelled
<1>2. AttemptInv'
  BY AttemptFrame, Closed DEF ConsumerCancelled, SessionInv
<1>3. ServiceInv'
  BY BoundAssumption
  DEF ConsumerCancelled, sessions, service, SessionInv, ServiceInv, Fault,
      Goto, Wake, Clients
<1>4. FlagInv'
  BY DEF ConsumerCancelled, service, FlagInv
<1>5. QED
  BY <1>1, <1>2, <1>3, <1>4

(* close() marks the attempt and cancels the consumer. *)
LEMMA CloseKeeps ==
  ASSUME SessionInv, AttemptInv, ServiceInv, FlagInv, Close
  PROVE  SessionInv' /\ AttemptInv' /\ ServiceInv' /\ FlagInv'
<1>1. SessionInv'
  BY BoundAssumption
  DEF Close, sessions, SessionInv, NoLeak, ChannelIsCurrent,
      ConsumerIsCurrent, SessionsAreReal, Sessions
<1>2. AttemptInv'
  BY DEF Close, sessions, AttemptInv, AttemptIsSound, Attempts
<1>3. ServiceInv'
  BY BoundAssumption DEF Close, sessions, service, ServiceInv, Fault
<1>4. FlagInv'
  BY DEF Close, service, FlagInv, CloseCalls
<1>5. QED
  BY <1>1, <1>2, <1>3, <1>4

(* After the drain, the session there is is closed. *)
LEMMA DrainedKeeps ==
  ASSUME SessionInv, AttemptInv, ServiceInv, FlagInv, Drained
  PROVE  SessionInv' /\ AttemptInv' /\ ServiceInv' /\ FlagInv'
<1>1. SessionInv'
  BY Closed DEF Drained
<1>2. AttemptInv'
  BY AttemptFrame, Closed DEF Drained, SessionInv
<1>3. ServiceInv'
  BY DEF Drained, service, ServiceInv
<1>4. FlagInv'
  BY DEF Drained, service, FlagInv, CloseCalls
<1>5. QED
  BY <1>1, <1>2, <1>3, <1>4

(* Nothing changes. *)
LEMMA StutteringKeeps ==
  ASSUME SessionInv, AttemptInv, ServiceInv, FlagInv, UNCHANGED vars
  PROVE  SessionInv' /\ AttemptInv' /\ ServiceInv' /\ FlagInv'
<1>1. SessionInv' /\ ServiceInv'
  BY DEF vars, SessionInv, ServiceInv, NoLeak, ChannelIsCurrent,
     ConsumerIsCurrent, SessionsAreReal
<1>2. AttemptInv'
  BY AttemptFrame DEF vars, SessionInv
<1>3. FlagInv'
  BY DEF vars, FlagInv
<1>4. QED
  BY <1>1, <1>2, <1>3

(* Every step keeps the inductive invariant. *)
LEMMA Inductive == IInv /\ [Next]_vars => IInv'
<1> SUFFICES ASSUME SessionInv, AttemptInv, ServiceInv, FlagInv, [Next]_vars
             PROVE  SessionInv' /\ AttemptInv' /\ ServiceInv' /\ FlagInv'
  BY Parts, PartsNext
<1>1. CASE AttemptStep \/ ConnectionRefused
  BY <1>1, ConnectionOpensKeeps, ConnectionRefusedKeeps, ChannelOpensKeeps,
     DeclareQueueKeeps, CleanedKeeps, PauseEndsKeeps DEF AttemptStep
<1>2. CASE \E p \in Publishers : \/ StartPublish(p) \/ Publish(p)
                                \/ PublishTimeout(p)
  BY <1>2, StartPublishKeeps, PublishKeeps, PublishTimeoutKeeps
<1>3. CASE SupervisorStep
  BY <1>3, CheckKeeps, SubscribeKeeps, ConsumeKeeps DEF SupervisorStep
<1>4. CASE \E n \in Sessions : ConnectionLost(n) \/ CloseSession(n)
  BY <1>4, ConnectionLostKeeps, CloseSessionKeeps
<1>5. CASE ChannelLost \/ ConsumerCancelled
  BY <1>5, ChannelLostKeeps, ConsumerCancelledKeeps
<1>6. CASE Close \/ Drained
  BY <1>6, CloseKeeps, DrainedKeeps
<1>7. CASE UNCHANGED vars
  BY <1>7, StutteringKeeps
<1>8. QED
  BY <1>1, <1>2, <1>3, <1>4, <1>5, <1>6, <1>7 DEF Next
-----------------------------------------------------------------------------
(* close() *)

\* Unless somebody has connected since close() began, the attempt there may be
\* is aborted; and once the connection is closed there is none.
CloseIsSound ==
  closeCall.phase # "none" /\ ~closeCall.late =>
    /\ attempt.phase = "none" \/ attempt.aborted
    /\ closeCall.phase = "closed" => connection = 0

(* The type of the call, for the steps that ask where it is. *)
LEMMA CloseCallTyped ==
  IInv => closeCall \in CloseCalls /\ connection \in Nat
BY DEF IInv, TypeOK, CloseCalls

(* A failed try leaves an attempt that is aborted if it was before. *)
LEMMA FailTryCloses ==
  ASSUME IInv, CloseIsSound, FailTry, attempt.phase # "none",
         closeCall' = closeCall
  PROVE  CloseIsSound'
<1>1. attempt'.aborted = attempt.aborted /\ connection' = 0
  BY DEF FailTry, CloseResources, IInv, TypeOK
<1>2. QED
  BY <1>1 DEF CloseIsSound

(* The steps of an attempt: an aborted one makes no connection. *)
LEMMA AttemptCloses ==
  ASSUME IInv, CloseIsSound, AttemptStep \/ ConnectionRefused
  PROVE  CloseIsSound'
<1>1. CASE ConnectionOpens
  <2>1. attempt'.aborted = attempt.aborted
    BY <1>1 DEF ConnectionOpens, IInv, TypeOK
  <2>2. QED
    BY <1>1, <2>1 DEF ConnectionOpens, CloseIsSound
<1>2. CASE ConnectionRefused
  BY <1>2, FailTryCloses DEF ConnectionRefused
<1>3. CASE ChannelOpens
  <2>1. CASE FailTry
    BY <1>3, <2>1, FailTryCloses DEF ChannelOpens
  <2>2. CASE ~FailTry
    BY <1>3, <2>2 DEF ChannelOpens, CloseIsSound
  <2>3. QED
    BY <2>1, <2>2
<1>4. CASE DeclareQueue
  <2>1. CASE FailTry
    BY <1>4, <2>1, FailTryCloses DEF DeclareQueue
  <2>2. CASE ~FailTry
    BY <1>4, <2>2 DEF DeclareQueue, CloseIsSound
  <2>3. QED
    BY <2>1, <2>2
<1>5. CASE Cleaned
  <2>1. CASE attempt' = NoAttempt
    BY <1>5, <2>1 DEF Cleaned, sessions, CloseIsSound, NoAttempt
  <2>2. CASE attempt' # NoAttempt
    BY <1>5, <2>2 DEF Cleaned, sessions, CloseIsSound
  <2>3. QED
    BY <2>1, <2>2
<1>6. CASE PauseEnds
  <2>1. CASE attempt' = NoAttempt
    BY <1>6, <2>1 DEF PauseEnds, sessions, CloseIsSound, NoAttempt
  <2>2. CASE attempt' # NoAttempt
    BY <1>6, <2>2 DEF PauseEnds, sessions, CloseIsSound
  <2>3. QED
    BY <2>1, <2>2
<1>7. QED
  BY <1>1, <1>2, <1>3, <1>4, <1>5, <1>6 DEF AttemptStep

(* Whoever starts an attempt after close() has begun is noticed. *)
LEMMA ConnectCloses ==
  ASSUME IInv, CloseIsSound, NEW c \in Clients, Connect(c)
  PROVE  CloseIsSound'
<1>1. CASE UseChannel(c) \/ JoinAttempt(c)
  BY <1>1 DEF UseChannel, JoinAttempt, sessions, CloseIsSound
<1>2. CASE StartAttempt(c)
  BY <1>2, CloseCallTyped DEF StartAttempt, CloseIsSound, CloseCalls
<1>3. QED
  BY <1>1, <1>2 DEF Connect

(* What loses or closes sessions makes none. *)
LEMMA SessionsClose ==
  ASSUME IInv, CloseIsSound, attempt' = attempt, closeCall' = closeCall,
         connection' \in {0, connection}
  PROVE  CloseIsSound'
BY DEF CloseIsSound

(* Every step keeps what close() relies on. *)
LEMMA CloseInductive == IInv /\ CloseIsSound /\ [Next]_vars => CloseIsSound'
<1> SUFFICES ASSUME IInv, CloseIsSound, [Next]_vars PROVE CloseIsSound'
  OBVIOUS
<1>1. CASE AttemptStep \/ ConnectionRefused
  BY <1>1, AttemptCloses
<1>2. CASE \E p \in Publishers : StartPublish(p)
  BY <1>2, ConnectCloses DEF StartPublish, Clients
<1>3. CASE \E p \in Publishers : Publish(p)
  BY <1>3, SessionsClose DEF Publish, sessions
<1>4. CASE \E p \in Publishers : PublishTimeout(p)
  <2>1. /\ attempt'.phase = attempt.phase
        /\ attempt.aborted => attempt'.aborted
    BY <1>4 DEF PublishTimeout, IInv, TypeOK
  <2>2. QED
    BY <1>4, <2>1 DEF PublishTimeout, sessions, CloseIsSound
<1>5. CASE Check
  BY <1>5, ConnectCloses DEF Check, Clients
<1>6. CASE Subscribe \/ Consume
  BY <1>6, SessionsClose DEF Subscribe, Consume, sessions
<1>7. CASE \E n \in Sessions : ConnectionLost(n) \/ CloseSession(n)
  BY <1>7, SessionsClose DEF ConnectionLost, CloseSession, OnClose
<1>8. CASE ChannelLost \/ ConsumerCancelled
  BY <1>8, SessionsClose DEF ChannelLost, ConsumerCancelled, CloseResources
<1>9. CASE Close
  <2>1. /\ attempt'.phase = attempt.phase
        /\ attempt'.aborted = (attempt.phase # "none")
        /\ closeCall'.phase = "draining"
    BY <1>9, CloseCallTyped DEF Close, IInv, TypeOK, CloseCalls
  <2>2. QED
    BY <2>1 DEF CloseIsSound
<1>10. CASE Drained
  <2>1. /\ closeCall.phase = "draining" /\ closeCall'.late = closeCall.late
        /\ attempt' = attempt /\ connection' = 0
    BY <1>10, CloseCallTyped DEF Drained, CloseResources, CloseCalls
  <2>2. QED
    BY <2>1 DEF CloseIsSound
<1>11. CASE UNCHANGED vars
  BY <1>11, SessionsClose DEF vars
<1>12. QED
  BY <1>1, <1>2, <1>3, <1>4, <1>5, <1>6, <1>7, <1>8, <1>9, <1>10, <1>11
  DEF Next, SupervisorStep
-----------------------------------------------------------------------------
(* The inductive invariant holds in all reachable states. *)
THEOREM Invariance == Spec => []IInv
<1>1. Init => IInv
  BY Initial
<1>2. IInv /\ [Next]_vars => IInv'
  BY Inductive
<1>3. QED
  BY <1>1, <1>2, PTL DEF Spec

(* All variables keep their types: attempts and tries are bounded. *)
THEOREM TypeCorrect == Spec => []TypeOK
<1>1. IInv => TypeOK
  BY DEF IInv
<1>2. QED
  BY <1>1, Invariance, PTL

(* No connection of connectWithRetry or closeResources is ever forgotten. *)
THEOREM NothingLeaks == Spec => []NoLeak
<1>1. IInv => NoLeak
  BY DEF IInv
<1>2. QED
  BY <1>1, Invariance, PTL

(* What publish() and subscribe() find is open and current, and deliveries
   come on the channel on which they can be acknowledged. *)
THEOREM SessionsAreCurrent == Spec => []SessionIsCurrent
<1>1. IInv => SessionIsCurrent
  BY DEF IInv, SessionIsCurrent
<1>2. QED
  BY <1>1, Invariance, PTL

(* When close() is over and nobody has connected again, the client has no
   connection, every open session is being closed, and an attempt that still
   waits for the broker is aborted (connectWithRetry closes what it opens). *)
THEOREM CloseIsFinal == Spec => []ClosedForGood
<1>1. Init => CloseIsSound
  BY DEF Init, NotClosing, CloseIsSound
<1>2. IInv /\ CloseIsSound /\ [Next]_vars => CloseIsSound'
  BY CloseInductive
<1>3. ASSUME IInv, CloseIsSound, closeCall.phase = "closed", ~closeCall.late
      PROVE  /\ connection = 0 /\ channel = 0 /\ consumer = 0
             /\ up \subseteq closing
             /\ attempt.phase # "none" => attempt.aborted
  <2>1. connection = 0 /\ (attempt.phase # "none" => attempt.aborted)
    BY <1>3 DEF CloseIsSound
  <2>2. channel = 0 /\ consumer = 0
    BY <1>3, <2>1 DEF IInv, ChannelIsCurrent, ConsumerIsCurrent
  <2>3. 0 \notin up
    BY <1>3 DEF IInv, TypeOK, Sessions
  <2>4. up \subseteq closing
    BY <1>3, <2>1, <2>3 DEF IInv, NoLeak
  <2>5. QED
    BY <2>1, <2>2, <2>4
<1>4. IInv /\ CloseIsSound => ClosedForGood
  BY <1>3 DEF ClosedForGood
<1>5. QED
  BY <1>1, <1>2, <1>4, Invariance, PTL DEF Spec
-----------------------------------------------------------------------------
(***************************************************************************)
(* The publications on the channel of this client, for every number of     *)
(* them and of faults: from an invariant that follows each one from the    *)
(* channel through the broker to its confirm.                              *)
(***************************************************************************)
\* Nothing is on the way on a channel that has closed.
ClosedIsEmpty ==
  ~open => toBroker = <<>> /\ fromBroker = <<>> /\ unconfirmed = {}

\* The frames that a client receives.
BrokerFrames == [type : {"return", "ack", "nack"}, id : Ids]

Return(i) == [type |-> "return", id |-> i]

\* The publisher has not heard of the return of i yet.
ReturnComes(i) ==
  \E k \in DOMAIN fromBroker : fromBroker[k] = Return(i)

\* What the confirm of i will find.
IsDecided(i) == i \in routed \/ i \in returned \/ ReturnComes(i)

\* The broker has seen nothing of a message that is on its way to it, and there
\* is one frame with it.
SentIsNew ==
  /\ \A k \in DOMAIN toBroker :
       /\ toBroker[k] = Frame(toBroker[k].id)
       /\ toBroker[k].id \in pending \ (routed \cup returned \cup unconfirmed)
       /\ \A m \in DOMAIN fromBroker : fromBroker[m].id # toBroker[k].id
  /\ \A k, m \in DOMAIN toBroker : toBroker[k].id = toBroker[m].id => k = m

\* A return or a confirm finds its entry, a returned message is in no queue,
\* and the confirm is the last frame about its publication.
AnswersFollow ==
  \A k \in DOMAIN fromBroker :
    /\ fromBroker[k].id \in pending
    /\ fromBroker[k].type = "return" => fromBroker[k].id \notin routed
    /\ fromBroker[k].type # "return" =>
         /\ fromBroker[k].id \notin unconfirmed
         /\ IsDecided(fromBroker[k].id)
         /\ \A m \in DOMAIN fromBroker :
              fromBroker[m].id = fromBroker[k].id => m <= k

\* A message that the broker has taken is in a queue or its return precedes the
\* confirm.
TakenIsDecided == \A i \in unconfirmed : i \in pending /\ IsDecided(i)

\* An entry stands for a caller who has not been answered, or has left.
EntriesAreOpen ==
  /\ returned \cap routed = {}
  /\ \A i \in pending : outcome[i] \in {"waiting", "timedOut"}

\* The inductive invariant of the publications.
PublisherInv ==
  /\ PublisherTypeOK
  /\ ClosedIsEmpty
  /\ SentIsNew
  /\ AnswersFollow
  /\ TakenIsDecided
  /\ EntriesAreOpen
  /\ OutcomesAreTrue

(* Appending. *)
LEMMA AppendFacts ==
  ASSUME NEW S, NEW s \in Seq(S), NEW x \in S
  PROVE  /\ Append(s, x) \in Seq(S)
         /\ DOMAIN Append(s, x) = 1..Len(s) + 1
         /\ Len(Append(s, x)) = Len(s) + 1
         /\ \A k \in DOMAIN s : Append(s, x)[k] = s[k]
         /\ Append(s, x)[Len(s) + 1] = x
         /\ DOMAIN s = 1..Len(s) /\ Len(s) \in Nat
  OBVIOUS

(* Taking the first element away. *)
LEMMA TailFacts ==
  ASSUME NEW S, NEW s \in Seq(S), s # <<>>
  PROVE  /\ Tail(s) \in Seq(S) /\ Head(s) \in S
         /\ Head(s) = s[1] /\ 1 \in DOMAIN s
         /\ DOMAIN Tail(s) = 1..Len(s) - 1 /\ DOMAIN s = 1..Len(s)
         /\ \A k \in DOMAIN Tail(s) :
              Tail(s)[k] = s[k + 1] /\ k + 1 \in DOMAIN s
  OBVIOUS

(* The initial state. *)
LEMMA PublisherInitial == PublisherInit => PublisherInv
<1> SUFFICES ASSUME PublisherInit PROVE PublisherInv
  OBVIOUS
<1>1. /\ Len(event) = 0 /\ Publications = {}
      /\ DOMAIN toBroker = {} /\ DOMAIN fromBroker = {}
  BY DEF PublisherInit, Publications
<1>2. PublisherTypeOK
  BY <1>1, PublisherBounds DEF PublisherInit, PublisherTypeOK
<1> QED
  BY <1>1, <1>2
     DEF PublisherInit, PublisherInv, ClosedIsEmpty, SentIsNew, AnswersFollow,
            TakenIsDecided,
     EntriesAreOpen, OutcomesAreTrue

(* A call of publish() is one publication more. *)
LEMMA PublicationsGrow ==
  ASSUME PublisherTypeOK, NEW e \in Events, event' = Append(event, e)
  PROVE  /\ Publications' = Publications \cup {Len(event) + 1}
         /\ Len(event) + 1 \notin Publications
         /\ Len(event') = Len(event) + 1
         /\ event' \in Seq(Events)
  BY AppendFacts DEF PublisherTypeOK, Publications

(* The answers given before it stay. *)
LEMMA CallFacts ==
  ASSUME PublisherTypeOK, NEW a \in Outcomes, outcome' = Append(outcome, a)
  PROVE  /\ outcome' \in Seq(Outcomes) /\ Len(outcome') = Len(event) + 1
         /\ \A i \in Publications : outcome'[i] = outcome[i]
         /\ outcome'[Len(event) + 1] = a
<1>1. outcome \in Seq(Outcomes) /\ Len(outcome) = Len(event)
  BY DEF PublisherTypeOK
<1> QED
  BY <1>1, AppendFacts DEF Publications

(* Told changes answers only, and only of those who wait. *)
LEMMA ToldFacts ==
  ASSUME PublisherTypeOK, NEW S, NEW a \in Outcomes, Told(S, a)
  PROVE  /\ outcome' \in Seq(Outcomes) /\ Len(outcome') = Len(outcome)
         /\ \A i \in Publications :
              outcome'[i] = IF i \in S /\ outcome[i] = "waiting" THEN a
                                                          ELSE outcome[i]
<1>1. /\ Publications = 1..Len(outcome) /\ DOMAIN outcome = 1..Len(outcome)
      /\ Len(outcome) \in Nat
  BY DEF PublisherTypeOK, Publications
<1> DEFINE f == [i \in 1..Len(outcome) |->
                IF i \in S /\ outcome[i] = "waiting" THEN a ELSE outcome[i]]
<1>2. outcome' = f
  BY <1>1 DEF Told
<1>3. \A i \in 1..Len(outcome) : outcome[i] \in Outcomes
  BY DEF PublisherTypeOK
<1>4. f \in [1..Len(outcome) -> Outcomes]
  BY <1>3
<1>5. f \in Seq(Outcomes) /\ Len(f) = Len(outcome)
  BY <1>1, <1>4
<1> QED
  BY <1>1, <1>2, <1>5

(* The broker routes or returns the publication that is next, which has an
   entry. *)
LEMMA TakeFacts ==
  ASSUME PublisherInv, BrokerTakes
  PROVE  \E i \in pending :
           /\ 1 \in DOMAIN toBroker /\ toBroker[1].id = i /\ i \in Ids
           /\ \/ routed' = routed \cup {i} /\ fromBroker' = fromBroker
              \/ routed' = routed /\ fromBroker' = Append(fromBroker, Return(i))
           /\ unconfirmed' = unconfirmed \cup {i}
           /\ toBroker' = Tail(toBroker)
           /\ UNCHANGED <<event, outcome, pending, returned, open, bound,
                          channelFaults>>
<1>1. PublisherTypeOK /\ SentIsNew
  BY DEF PublisherInv
<1>2. /\ toBroker # <<>>
      /\ toBroker \in Seq([id : Ids, header : Ids, mandatory : BOOLEAN])
  BY <1>1 DEF PublisherTypeOK, BrokerTakes
<1>3. 1 \in DOMAIN toBroker /\ Head(toBroker) = toBroker[1]
  BY <1>2, TailFacts
<1> DEFINE i == toBroker[1].id
<1>4. /\ i \in pending /\ i \in Ids
      /\ Head(toBroker).id = i /\ Head(toBroker).header = i
      /\ Head(toBroker).mandatory
  <2>1. toBroker[1] = Frame(i) /\ i \in pending
    BY <1>1, <1>3 DEF SentIsNew
  <2>2. Head(toBroker) \in [id : Ids, header : Ids, mandatory : BOOLEAN]
    BY <1>2, TailFacts
  <2> QED
    BY <1>3, <2>1, <2>2 DEF Frame
<1>5. \/ routed' = routed \cup {i} /\ fromBroker' = fromBroker
      \/ routed' = routed /\ fromBroker' = Append(fromBroker, Return(i))
  BY <1>4 DEF BrokerTakes, Return
<1> QED
  BY <1>3, <1>4, <1>5 DEF BrokerTakes, publisher

(* What the next frame does to the entry of its publication. *)
LEMMA ReceiveFacts ==
  ASSUME PublisherTypeOK, Receive
  PROVE  /\ 1 \in DOMAIN fromBroker /\ fromBroker[1] \in BrokerFrames
         /\ fromBroker' = Tail(fromBroker)
         /\ UNCHANGED <<event, open, toBroker, unconfirmed, bound, routed,
                        channelFaults>>
         /\ fromBroker[1].type = "return" =>
              /\ returned' = returned \cup ({fromBroker[1].id} \cap pending)
              /\ UNCHANGED <<pending, outcome>>
         /\ fromBroker[1].type # "return" =>
              /\ pending' = pending \ {fromBroker[1].id}
              /\ returned' = returned \ {fromBroker[1].id}
              /\ \E a \in {"failed", "unroutable", "resolved"} :
                   /\ a = "unroutable" => fromBroker[1].id \in returned
                   /\ a = "resolved" => fromBroker[1].id \notin returned
                   /\ Told({fromBroker[1].id}, a)
<1>1. fromBroker # <<>> /\ fromBroker \in Seq(BrokerFrames)
  BY DEF PublisherTypeOK, Receive, BrokerFrames
<1>2. /\ 1 \in DOMAIN fromBroker /\ fromBroker[1] \in BrokerFrames
      /\ Head(fromBroker) = fromBroker[1]
  BY <1>1, TailFacts
<1>3. CASE fromBroker[1].type = "return"
  BY <1>2, <1>3 DEF Receive, OnReturn, broker
<1>4. CASE fromBroker[1].type # "return"
  <2>1. Settle(fromBroker[1].id, fromBroker[1].type = "nack")
    BY <1>2, <1>4 DEF Receive
  <2>2. \E a \in {"failed", "unroutable", "resolved"} :
          /\ a = "unroutable" => fromBroker[1].id \in returned
          /\ a = "resolved" => fromBroker[1].id \notin returned
          /\ Told({fromBroker[1].id}, a)
    BY <2>1 DEF Settle
  <2> QED
    BY <1>2, <1>4, <2>1, <2>2 DEF Receive, Settle, broker
<1> QED
  BY <1>3, <1>4

(* Every step keeps the types. *)
LEMMA PublicationTypesKept ==
  PublisherInv /\ [PublisherNext]_pubVars => PublisherTypeOK'
<1> SUFFICES ASSUME PublisherInv, [PublisherNext]_pubVars PROVE PublisherTypeOK'
  OBVIOUS
<1>0. /\ PublisherTypeOK /\ Len(event) \in Nat
      /\ MaxPublications \in Nat /\ MaxChannelFaults \in Nat
  BY PublisherBounds DEF PublisherInv, PublisherTypeOK
<1>1. ASSUME NEW e \in Events, PublishEvent(e)
      PROVE  PublisherTypeOK'
  <2> DEFINE i == Len(event) + 1
  <2>1. /\ Publications' = Publications \cup {i} /\ Len(event') = i
        /\ event' \in Seq(Events)
    BY <1>0, <1>1, PublicationsGrow DEF PublishEvent
  <2>2. i \in Ids /\ i <= MaxPublications
    BY <1>0, <1>1 DEF PublishEvent, Ids
  <2>3. outcome' \in Seq(Outcomes) /\ Len(outcome') = i
    BY <1>0, <1>1, CallFacts DEF PublishEvent, Outcomes
  <2>4. Frame(i) \in [id : Ids, header : Ids, mandatory : BOOLEAN]
    BY <2>2 DEF Frame
  <2>5. toBroker' \in Seq([id : Ids, header : Ids, mandatory : BOOLEAN])
    BY <1>0, <1>1, <2>4, AppendFacts DEF PublishEvent, PublisherTypeOK
  <2> QED
    BY <1>0, <1>1, <2>1, <2>2, <2>3, <2>5
       DEF PublishEvent, PublisherTypeOK, broker
<1>2. ASSUME NEW e \in Events, PublishThrows(e)
      PROVE  PublisherTypeOK'
  <2> DEFINE i == Len(event) + 1
  <2>1. /\ Publications' = Publications \cup {i} /\ Len(event') = i
        /\ event' \in Seq(Events)
    BY <1>0, <1>2, PublicationsGrow DEF PublishThrows
  <2>2. i <= MaxPublications
    BY <1>0, <1>2 DEF PublishThrows
  <2>3. outcome' \in Seq(Outcomes) /\ Len(outcome') = i
    BY <1>0, <1>2, CallFacts DEF PublishThrows, Outcomes
  <2> QED
    BY <1>0, <1>2, <2>1, <2>2, <2>3
       DEF PublishThrows, PublisherTypeOK, broker, frames, publisher
<1>3. ASSUME NEW i, WaitTimeout(i) PROVE PublisherTypeOK'
  <2>1. outcome' \in Seq(Outcomes) /\ Len(outcome') = Len(outcome)
    BY <1>0, <1>3, ToldFacts DEF WaitTimeout, Outcomes
  <2> QED
    BY <1>0, <1>3, <2>1
       DEF WaitTimeout, PublisherTypeOK, Publications, broker,
              frames, publisher
<1>4. CASE Receive
  <2>1. fromBroker' \in Seq(BrokerFrames)
    BY <1>0, <1>4, TailFacts DEF Receive, PublisherTypeOK, BrokerFrames
  <2>2. /\ outcome' \in Seq(Outcomes) /\ Len(outcome') = Len(outcome)
        /\ pending' \subseteq pending /\ returned' \subseteq pending'
    <3>1. CASE fromBroker[1].type = "return"
      BY <1>0, <1>4, <3>1, ReceiveFacts DEF PublisherTypeOK
    <3>2. CASE fromBroker[1].type # "return"
      <4>1. PICK a \in Outcomes : Told({fromBroker[1].id}, a)
        BY <1>0, <1>4, <3>2, ReceiveFacts DEF Outcomes
      <4> QED
        BY <1>0, <1>4, <3>2, <4>1, ReceiveFacts, ToldFacts DEF PublisherTypeOK
    <3> QED
      BY <3>1, <3>2
  <2>3. UNCHANGED <<event, open, toBroker, unconfirmed, bound, routed,
                    channelFaults>>
    BY <1>4 DEF Receive, broker
  <2>4. /\ Publications' = Publications
        /\ pending' \subseteq Publications'
    BY <1>0, <2>2, <2>3 DEF PublisherTypeOK, Publications
  <2> QED
    BY <1>0, <2>1, <2>2, <2>3, <2>4 DEF PublisherTypeOK, BrokerFrames
<1>5. CASE BrokerTakes
  <2>1. PICK i \in pending \cap Ids :
          /\ \/ routed' = routed \cup {i} /\ fromBroker' = fromBroker
             \/ routed' = routed /\ fromBroker' = Append(fromBroker, Return(i))
          /\ unconfirmed' = unconfirmed \cup {i}
          /\ UNCHANGED <<event, outcome, pending, returned, open, bound,
                         channelFaults>>
    BY <1>5, TakeFacts
  <2>2. Append(fromBroker, Return(i)) \in Seq(BrokerFrames)
    BY <1>0, AppendFacts DEF PublisherTypeOK, BrokerFrames, Return
  <2>3. toBroker' \in Seq([id : Ids, header : Ids, mandatory : BOOLEAN])
    BY <1>0, <1>5, TailFacts DEF BrokerTakes, PublisherTypeOK
  <2> QED
    BY <1>0, <2>1, <2>2, <2>3 DEF PublisherTypeOK, Publications, BrokerFrames
<1>6. ASSUME NEW i \in Ids, NEW type \in {"ack", "nack"},
             Answer(i, type), channelFaults' \in 0..MaxChannelFaults
      PROVE  PublisherTypeOK'
  <2>1. [type |-> type, id |-> i]
          \in [type : {"return", "ack", "nack"}, id : Ids]
    OBVIOUS
  <2>2. fromBroker' \in Seq([type : {"return", "ack", "nack"}, id : Ids])
    BY <1>0, <1>6, <2>1, AppendFacts DEF Answer, PublisherTypeOK
  <2> QED
    BY <1>0, <1>6, <2>2
       DEF Answer, PublisherTypeOK, Publications, publisher
<1>7. ASSUME ChannelFault PROVE channelFaults' \in 0..MaxChannelFaults
  BY <1>0, <1>7 DEF ChannelFault, PublisherTypeOK
<1>8. ASSUME NEW i \in Ids, BrokerConfirms(i) \/ BrokerRefuses(i)
      PROVE  PublisherTypeOK'
  <2>1. channelFaults' \in 0..MaxChannelFaults
    BY <1>0, <1>7, <1>8 DEF BrokerConfirms, BrokerRefuses, PublisherTypeOK
  <2> QED
    BY <1>6, <1>8, <2>1 DEF BrokerConfirms, BrokerRefuses
<1>9. ASSUME NEW e \in Events, BindQueue(e)
      PROVE  PublisherTypeOK'
  BY <1>0, <1>9
     DEF BindQueue, PublisherTypeOK, Publications, frames,
            publisher
<1>10. CASE ChannelCloses
  <2>1. channelFaults' \in 0..MaxChannelFaults
    BY <1>7, <1>10 DEF ChannelCloses
  <2>2. /\ outcome' \in Seq(Outcomes) /\ Len(outcome') = Len(outcome)
        /\ pending' \subseteq pending /\ returned' \subseteq pending'
    BY <1>0, <1>10, ToldFacts
       DEF ChannelCloses, publisher, Outcomes, PublisherTypeOK
  <2>3. UNCHANGED <<event, bound, routed>> /\ open' = FALSE /\ unconfirmed' = {}
        /\ toBroker' = <<>> /\ fromBroker' = <<>>
    BY <1>10 DEF ChannelCloses
  <2>4. /\ Publications' = Publications
        /\ pending' \subseteq Publications'
    BY <1>0, <2>2, <2>3 DEF PublisherTypeOK, Publications
  <2>5. /\ toBroker' \in
             Seq([id : Ids, header : Ids, mandatory : BOOLEAN])
        /\ fromBroker' \in Seq([type : {"return", "ack", "nack"}, id : Ids])
    BY <2>3
  <2> QED
    BY <1>0, <2>1, <2>2, <2>3, <2>4, <2>5 DEF PublisherTypeOK
<1>11. CASE Reopen
  BY <1>0, <1>11
     DEF Reopen, PublisherTypeOK, Publications, frames, broker
<1>12. CASE UNCHANGED pubVars
  BY <1>0, <1>12 DEF pubVars, PublisherTypeOK, Publications
<1> QED
  BY <1>1, <1>2, <1>3, <1>4, <1>5, <1>8, <1>9, <1>10, <1>11, <1>12
     DEF PublisherNext, Progress

(* Only Publish sends, on an open channel. *)
LEMMA ClosedKept == PublisherInv /\ [PublisherNext]_pubVars => ClosedIsEmpty'
<1> SUFFICES ASSUME PublisherInv, [PublisherNext]_pubVars PROVE ClosedIsEmpty'
  OBVIOUS
<1> USE DEF ClosedIsEmpty
<1>0. PublisherTypeOK /\ ClosedIsEmpty
  BY DEF PublisherInv
<1>1. ASSUME NEW e \in Events,
             PublishEvent(e) \/ PublishThrows(e) \/ BindQueue(e)
      PROVE  ClosedIsEmpty'
  BY <1>0, <1>1
     DEF PublishEvent, PublishThrows, BindQueue, broker,
            frames
<1>2. ASSUME NEW i, WaitTimeout(i) PROVE ClosedIsEmpty'
  BY <1>0, <1>2 DEF WaitTimeout, broker, frames
<1>3. CASE Receive
  BY <1>0, <1>3 DEF Receive, broker
<1>4. CASE BrokerTakes
  BY <1>0, <1>4 DEF BrokerTakes
<1>5. ASSUME NEW i \in Ids, BrokerConfirms(i) \/ BrokerRefuses(i)
      PROVE  ClosedIsEmpty'
  BY <1>0, <1>5 DEF BrokerConfirms, BrokerRefuses, Answer
<1>6. CASE ChannelCloses \/ Reopen
  BY <1>6 DEF ChannelCloses, Reopen
<1>7. CASE UNCHANGED pubVars
  BY <1>0, <1>7 DEF pubVars
<1> QED
  BY <1>1, <1>2, <1>3, <1>4, <1>5, <1>6, <1>7 DEF PublisherNext, Progress

(* Numbers are not used twice, and the broker takes a frame off the channel. *)
LEMMA SentKept == PublisherInv /\ [PublisherNext]_pubVars => SentIsNew'
<1> SUFFICES ASSUME PublisherInv, [PublisherNext]_pubVars PROVE SentIsNew'
  OBVIOUS
<1>0. /\ PublisherTypeOK /\ ClosedIsEmpty
      /\ SentIsNew /\ AnswersFollow
  BY DEF PublisherInv
<1>a. toBroker \in Seq([id : Ids, header : Ids, mandatory : BOOLEAN])
      /\ fromBroker \in Seq(BrokerFrames)
  BY <1>0 DEF PublisherTypeOK, BrokerFrames
<1>1. ASSUME NEW e \in Events, PublishEvent(e)
      PROVE  SentIsNew'
  <2> DEFINE i == Len(event) + 1
             n == Len(toBroker) + 1
  <2>1. i \notin Publications
    BY <1>0, <1>1, PublicationsGrow DEF PublishEvent
  <2>2. i \notin pending \cup routed \cup returned \cup unconfirmed
    BY <1>0, <2>1 DEF PublisherTypeOK
  <2>3. i \in Ids
    BY <1>0, <1>1, PublisherBounds DEF PublishEvent, Ids, PublisherTypeOK
  <2>4. /\ DOMAIN toBroker' = DOMAIN toBroker \cup {n}
        /\ n \notin DOMAIN toBroker
        /\ \A k \in DOMAIN toBroker : toBroker'[k] = toBroker[k]
        /\ toBroker'[n] = Frame(i)
    <3>1. Frame(i) \in [id : Ids, header : Ids, mandatory : BOOLEAN]
      BY <2>3 DEF Frame
    <3> QED
      BY <1>1, <1>a, <3>1, AppendFacts DEF PublishEvent
  <2>5. /\ pending' = pending \cup {i}
        /\ UNCHANGED <<returned, fromBroker, unconfirmed, routed>>
    BY <1>1 DEF PublishEvent, broker
  <2>6. Frame(i).id = i /\ Frame(i) = Frame(Frame(i).id)
    BY DEF Frame
  <2>7. \A m \in DOMAIN fromBroker : fromBroker[m].id # i
    BY <1>0, <2>2 DEF AnswersFollow
  <2> QED
    BY <1>0, <2>2, <2>4, <2>5, <2>6, <2>7 DEF SentIsNew
<1>2. CASE Receive
  <2>1. /\ 1 \in DOMAIN fromBroker
        /\ pending \ {fromBroker[1].id} \subseteq pending'
        /\ returned' \subseteq returned \cup {fromBroker[1].id}
        /\ UNCHANGED <<toBroker, unconfirmed, routed>>
    BY <1>0, <1>2, ReceiveFacts
  <2>2. \A k \in DOMAIN fromBroker' :
          \E m \in DOMAIN fromBroker : fromBroker'[k] = fromBroker[m]
    BY <1>2, <1>a, TailFacts DEF Receive
  <2> QED
    BY <1>0, <2>1, <2>2 DEF SentIsNew
<1>3. CASE BrokerTakes
  <2>1. PICK i \in pending :
          /\ 1 \in DOMAIN toBroker /\ toBroker[1].id = i /\ i \in Ids
          /\ \/ routed' = routed \cup {i} /\ fromBroker' = fromBroker
             \/ routed' = routed /\ fromBroker' = Append(fromBroker, Return(i))
          /\ unconfirmed' = unconfirmed \cup {i}
          /\ toBroker' = Tail(toBroker)
          /\ UNCHANGED <<pending, returned>>
    BY <1>3, TakeFacts
  <2>2. \A k \in DOMAIN toBroker' :
          /\ k + 1 \in DOMAIN toBroker /\ k + 1 # 1
          /\ toBroker'[k] = toBroker[k + 1] /\ k \in Nat
    BY <1>a, <2>1, TailFacts
  <2>3. \A k \in DOMAIN toBroker' : toBroker'[k].id # i
    BY <1>0, <2>1, <2>2 DEF SentIsNew
  <2>4. \A m \in DOMAIN fromBroker' :
           \/ m \in DOMAIN fromBroker /\ fromBroker'[m] = fromBroker[m]
           \/ fromBroker'[m].id = i
    <3>1. Return(i) \in BrokerFrames /\ Return(i).id = i
      BY <2>1 DEF Return, BrokerFrames
    <3> QED
      BY <1>a, <2>1, <3>1, AppendFacts
  <2> QED
    BY <1>0, <2>1, <2>2, <2>3, <2>4 DEF SentIsNew
<1>4. ASSUME NEW i \in Ids, BrokerConfirms(i) \/ BrokerRefuses(i)
      PROVE  SentIsNew'
  <2>1. PICK type \in {"ack", "nack"} : Answer(i, type)
    BY <1>4 DEF BrokerConfirms, BrokerRefuses
  <2>2. \A m \in DOMAIN fromBroker' :
           \/ m \in DOMAIN fromBroker /\ fromBroker'[m] = fromBroker[m]
           \/ fromBroker'[m].id = i
    <3>1. [type |-> type, id |-> i] \in BrokerFrames
      BY DEF BrokerFrames
    <3> QED
      BY <1>a, <2>1, <3>1, AppendFacts DEF Answer
  <2>3. /\ i \in unconfirmed /\ unconfirmed' \subseteq unconfirmed
        /\ UNCHANGED <<pending, returned, toBroker, routed>>
    BY <2>1 DEF Answer, publisher
  <2> QED
    BY <1>0, <2>2, <2>3 DEF SentIsNew
<1>5. ASSUME toBroker' = <<>> PROVE SentIsNew'
  <2>1. DOMAIN toBroker' = {}
    BY <1>5
  <2> QED
    BY <2>1 DEF SentIsNew
<1>6. CASE ChannelCloses \/ Reopen
  BY <1>0, <1>5, <1>6
     DEF ChannelCloses, Reopen, ClosedIsEmpty, frames
<1>7. ASSUME UNCHANGED <<pending, returned, frames, unconfirmed, routed>>
      PROVE  SentIsNew'
  BY <1>0, <1>7 DEF SentIsNew, frames
<1>8. ASSUME NEW e \in Events, PublishThrows(e) \/ BindQueue(e)
      PROVE  SentIsNew'
  BY <1>7, <1>8
     DEF PublishThrows, BindQueue, broker, publisher
<1>9. ASSUME NEW i, WaitTimeout(i) PROVE SentIsNew'
  BY <1>7, <1>9 DEF WaitTimeout, broker, publisher
<1>10. CASE UNCHANGED pubVars
  BY <1>7, <1>10 DEF pubVars, frames
<1> QED
  BY <1>1, <1>2, <1>3, <1>4, <1>6, <1>8, <1>9, <1>10 DEF PublisherNext, Progress

(* A return on its way is not overtaken. *)
LEMMA ReturnsKept ==
  ASSUME NEW x \in BrokerFrames, fromBroker \in Seq(BrokerFrames),
         fromBroker' = Append(fromBroker, x), NEW i, ReturnComes(i)
  PROVE  ReturnComes(i)'
<1>1. PICK k \in DOMAIN fromBroker : fromBroker[k] = Return(i)
  BY DEF ReturnComes
<1>2. k \in DOMAIN fromBroker' /\ fromBroker'[k] = fromBroker[k]
  BY <1>1, AppendFacts
<1> QED
  BY <1>1, <1>2 DEF ReturnComes

(* A return is recorded when it arrives, so that its confirm finds it. *)
LEMMA ReceiveKeepsDecided ==
  ASSUME PublisherInv, Receive, NEW i, IsDecided(i),
         fromBroker[1].type # "return" => i # fromBroker[1].id
  PROVE  IsDecided(i)'
<1>0. /\ PublisherTypeOK /\ AnswersFollow
      /\ fromBroker \in Seq(BrokerFrames) /\ fromBroker # <<>>
  BY DEF PublisherInv, PublisherTypeOK, BrokerFrames, Receive
<1>1. CASE i \in routed
  BY <1>0, <1>1, ReceiveFacts DEF IsDecided
<1>2. CASE i \in returned
  <2>1. i \in returned'
    BY <1>0, <1>2, ReceiveFacts
  <2> QED
    BY <2>1 DEF IsDecided
<1>3. CASE ReturnComes(i)
  <2>1. PICK k \in DOMAIN fromBroker : fromBroker[k] = Return(i)
    BY <1>3 DEF ReturnComes
  <2>2. i \in pending
    BY <1>0, <2>1 DEF AnswersFollow, Return
  <2>3. CASE k = 1
    <3>1. i \in returned'
      BY <1>0, <2>1, <2>2, <2>3, ReceiveFacts DEF Return
    <3> QED
      BY <3>1 DEF IsDecided
  <2>4. CASE k # 1
    <3>1. fromBroker' = Tail(fromBroker)
      BY <1>0, ReceiveFacts
    <3>2. k - 1 \in DOMAIN fromBroker' /\ fromBroker'[k - 1] = fromBroker[k]
      BY <1>0, <2>1, <2>4, <3>1, TailFacts
    <3> QED
      BY <2>1, <3>2 DEF IsDecided, ReturnComes
  <2> QED
    BY <2>3, <2>4
<1> QED
  BY <1>1, <1>2, <1>3 DEF IsDecided

(* The broker returns before it confirms, and confirms once. *)
LEMMA AnswersKept ==
  PublisherInv /\ [PublisherNext]_pubVars => AnswersFollow' /\ TakenIsDecided'
<1> SUFFICES ASSUME PublisherInv, [PublisherNext]_pubVars
             PROVE  AnswersFollow' /\ TakenIsDecided'
  OBVIOUS
<1> DEFINE Goal == AnswersFollow' /\ TakenIsDecided'
<1>0. /\ PublisherTypeOK /\ ClosedIsEmpty
      /\ SentIsNew /\ AnswersFollow /\ TakenIsDecided
  BY DEF PublisherInv
<1>a. /\ toBroker \in Seq([id : Ids, header : Ids, mandatory : BOOLEAN])
      /\ fromBroker \in Seq(BrokerFrames)
  BY <1>0 DEF PublisherTypeOK, BrokerFrames
<1>1. ASSUME pending \subseteq pending',
             UNCHANGED <<returned, fromBroker, unconfirmed, routed>>
      PROVE  Goal
  <2>1. \A i : IsDecided(i)' <=> IsDecided(i)
    BY <1>1 DEF IsDecided, ReturnComes
  <2> QED
    BY <1>0, <1>1, <2>1 DEF AnswersFollow, TakenIsDecided
<1>2. ASSUME NEW e \in Events,
             PublishEvent(e) \/ PublishThrows(e) \/ BindQueue(e)
      PROVE  Goal
  BY <1>1, <1>2
     DEF PublishEvent, PublishThrows, BindQueue, broker,
            publisher, frames
<1>3. ASSUME NEW i, WaitTimeout(i) PROVE Goal
  BY <1>1, <1>3 DEF WaitTimeout, broker, publisher, frames
<1>4. CASE Receive
  <2> DEFINE h == fromBroker[1].id
  <2>1. /\ 1 \in DOMAIN fromBroker
        /\ pending' = IF fromBroker[1].type = "return" THEN pending
                                                       ELSE pending \ {h}
        /\ UNCHANGED <<unconfirmed, routed>>
    BY <1>0, <1>4, ReceiveFacts
  <2>2. \A k \in DOMAIN fromBroker' :
          /\ k + 1 \in DOMAIN fromBroker /\ k \in Nat /\ k >= 1
          /\ fromBroker'[k] = fromBroker[k + 1]
    BY <1>4, <1>a, TailFacts DEF Receive
  <2>3. \A i : /\ IsDecided(i)
               /\ fromBroker[1].type # "return" => i # h
               => IsDecided(i)'
    BY <1>4, ReceiveKeepsDecided
  <2>4. \A k \in DOMAIN fromBroker' :
          fromBroker[1].type # "return" => fromBroker'[k].id # h
    BY <1>0, <2>1, <2>2 DEF AnswersFollow
  <2>5. AnswersFollow'
    <3>1. ASSUME NEW k \in DOMAIN fromBroker'
          PROVE  /\ fromBroker'[k].id \in pending'
                 /\ fromBroker'[k].type = "return" =>
                      fromBroker'[k].id \notin routed'
                 /\ fromBroker'[k].type # "return" =>
                      /\ fromBroker'[k].id \notin unconfirmed'
                      /\ \A i : i = fromBroker'[k].id => IsDecided(i)'
                      /\ \A m \in DOMAIN fromBroker' :
                           fromBroker'[m].id = fromBroker'[k].id => m <= k
      <4>1. /\ fromBroker'[k].id \in pending
            /\ fromBroker'[k].type = "return" => fromBroker'[k].id \notin routed
            /\ fromBroker'[k].type # "return" =>
                 /\ fromBroker'[k].id \notin unconfirmed
                 /\ \A i : i = fromBroker'[k].id => IsDecided(i)
                 /\ \A m \in DOMAIN fromBroker' :
                      fromBroker'[m].id = fromBroker'[k].id => m + 1 <= k + 1
        BY <1>0, <2>2 DEF AnswersFollow
      <4> QED
        BY <2>1, <2>2, <2>3, <2>4, <4>1
    <3> QED
      BY <3>1 DEF AnswersFollow
  <2>6. TakenIsDecided'
    <3> SUFFICES ASSUME NEW i \in unconfirmed
                 PROVE  i \in pending' /\ IsDecided(i)'
      BY <2>1 DEF TakenIsDecided
    <3>1. i \in pending /\ IsDecided(i)
      BY <1>0 DEF TakenIsDecided
    <3>2. fromBroker[1].type # "return" => i # h
      BY <1>0, <2>1 DEF AnswersFollow
    <3> QED
      BY <2>1, <2>3, <3>1, <3>2
  <2> QED
    BY <2>5, <2>6
<1>5. CASE BrokerTakes
  <2>1. PICK i \in pending :
          /\ 1 \in DOMAIN toBroker /\ toBroker[1].id = i /\ i \in Ids
          /\ \/ routed' = routed \cup {i} /\ fromBroker' = fromBroker
             \/ routed' = routed /\ fromBroker' = Append(fromBroker, Return(i))
          /\ unconfirmed' = unconfirmed \cup {i}
          /\ toBroker' = Tail(toBroker)
          /\ UNCHANGED <<pending, returned>>
    BY <1>5, TakeFacts
  <2>2. /\ i \notin routed
        /\ \A m \in DOMAIN fromBroker : fromBroker[m].id # i
    BY <1>0, <2>1 DEF SentIsNew
  <2>3. /\ Return(i) \in BrokerFrames
        /\ Return(i).id = i /\ Return(i).type = "return"
    BY <2>1 DEF Return, BrokerFrames
  <2>4. \A j : ReturnComes(j) => ReturnComes(j)'
    BY <1>a, <2>1, <2>3, ReturnsKept DEF ReturnComes
  <2>5. \A j : IsDecided(j) => IsDecided(j)'
    BY <2>1, <2>4 DEF IsDecided
  <2>6. IsDecided(i)'
    <3>1. CASE routed' = routed \cup {i}
      BY <3>1 DEF IsDecided
    <3>2. CASE fromBroker' = Append(fromBroker, Return(i))
      <4>1. Len(fromBroker) + 1 \in DOMAIN fromBroker'
            /\ fromBroker'[Len(fromBroker) + 1] = Return(i)
        BY <1>a, <2>3, <3>2, AppendFacts
      <4> QED
        BY <4>1 DEF IsDecided, ReturnComes, Return
    <3> QED
      BY <2>1, <3>1, <3>2
  <2>7. TakenIsDecided'
    BY <1>0, <2>1, <2>5, <2>6 DEF TakenIsDecided
  <2>8. CASE fromBroker' = fromBroker /\ routed' = routed \cup {i}
    BY <1>0, <2>1, <2>2, <2>5, <2>7, <2>8 DEF AnswersFollow
  <2>9. CASE fromBroker' = Append(fromBroker, Return(i)) /\ routed' = routed
    <3>1. /\ DOMAIN fromBroker' = DOMAIN fromBroker \cup {Len(fromBroker) + 1}
          /\ \A k \in DOMAIN fromBroker : fromBroker'[k] = fromBroker[k]
          /\ fromBroker'[Len(fromBroker) + 1] = Return(i)
      BY <1>a, <2>3, <2>9, AppendFacts
    <3> QED
      BY <1>0, <2>1, <2>2, <2>3, <2>5, <2>7, <2>9, <3>1 DEF AnswersFollow
  <2> QED
    BY <2>1, <2>8, <2>9
<1>6. ASSUME NEW i \in Ids, BrokerConfirms(i) \/ BrokerRefuses(i)
      PROVE  Goal
  <2>1. PICK type \in {"ack", "nack"} : Answer(i, type)
    BY <1>6 DEF BrokerConfirms, BrokerRefuses
  <2> DEFINE x == [type |-> type, id |-> i]
  <2>2. /\ i \in unconfirmed /\ unconfirmed' = unconfirmed \ {i}
        /\ fromBroker' = Append(fromBroker, x)
        /\ UNCHANGED <<pending, returned, routed>>
    BY <2>1 DEF Answer, publisher
  <2>3. x \in BrokerFrames /\ x.id = i /\ x.type # "return"
    BY DEF BrokerFrames
  <2>4. \A j : IsDecided(j) => IsDecided(j)'
    <3>1. \A j : ReturnComes(j) => ReturnComes(j)'
      BY <1>a, <2>2, <2>3, ReturnsKept DEF ReturnComes
    <3> QED
      BY <2>2, <3>1 DEF IsDecided
  <2>5. i \in pending /\ IsDecided(i)
    BY <1>0, <2>2 DEF TakenIsDecided
  <2>6. TakenIsDecided'
    BY <1>0, <2>2, <2>4 DEF TakenIsDecided
  <2>7. /\ DOMAIN fromBroker' = DOMAIN fromBroker \cup {Len(fromBroker) + 1}
        /\ \A k \in DOMAIN fromBroker :
             fromBroker'[k] = fromBroker[k] /\ k <= Len(fromBroker) + 1
        /\ fromBroker'[Len(fromBroker) + 1] = x /\ Len(fromBroker) \in Nat
    BY <1>a, <2>2, <2>3, AppendFacts
  <2> HIDE DEF x
  <2>8. AnswersFollow'
    BY <1>0, <2>2, <2>3, <2>4, <2>5, <2>7 DEF AnswersFollow
  <2> QED
    BY <2>6, <2>8
<1>7. ASSUME fromBroker' = <<>>, unconfirmed' = {} PROVE Goal
  <2>1. DOMAIN fromBroker' = {}
    BY <1>7
  <2> QED
    BY <1>7, <2>1 DEF AnswersFollow, TakenIsDecided
<1>8. CASE ChannelCloses \/ Reopen
  BY <1>0, <1>7, <1>8
     DEF ChannelCloses, Reopen, ClosedIsEmpty, frames, broker
<1>9. CASE UNCHANGED pubVars
  BY <1>1, <1>9 DEF pubVars
<1> QED
  BY <1>2, <1>3, <1>4, <1>5, <1>6, <1>8, <1>9 DEF PublisherNext, Progress

(* An entry goes with the answer to its caller. *)
LEMMA EntriesKept == PublisherInv /\ [PublisherNext]_pubVars => EntriesAreOpen'
<1> SUFFICES ASSUME PublisherInv, [PublisherNext]_pubVars PROVE EntriesAreOpen'
  OBVIOUS
<1>0. PublisherTypeOK /\ SentIsNew /\ AnswersFollow /\ EntriesAreOpen
  BY DEF PublisherInv
<1>a. pending \subseteq Publications /\ DOMAIN outcome = Publications
  BY <1>0 DEF PublisherTypeOK, Publications
<1>1. ASSUME returned' \cap routed' = {}, pending' \subseteq pending,
             outcome' = outcome
      PROVE  EntriesAreOpen'
  BY <1>0, <1>1 DEF EntriesAreOpen
<1>2. ASSUME NEW e \in Events, PublishEvent(e)
      PROVE  EntriesAreOpen'
  <2>1. /\ \A i \in Publications : outcome'[i] = outcome[i]
        /\ outcome'[Len(event) + 1] = "waiting"
    BY <1>0, <1>2, CallFacts DEF PublishEvent, Outcomes
  <2> QED
    BY <1>0, <1>a, <1>2, <2>1 DEF PublishEvent, EntriesAreOpen, broker
<1>3. ASSUME NEW e \in Events, PublishThrows(e)
      PROVE  EntriesAreOpen'
  <2>1. \A i \in Publications : outcome'[i] = outcome[i]
    BY <1>0, <1>3, CallFacts DEF PublishThrows, Outcomes
  <2> QED
    BY <1>0, <1>a, <1>3, <2>1
       DEF PublishThrows, EntriesAreOpen, broker, publisher
<1>4. ASSUME NEW e \in Events, BindQueue(e)
      PROVE  EntriesAreOpen'
  BY <1>0, <1>1, <1>4 DEF BindQueue, publisher, EntriesAreOpen
<1>5. ASSUME NEW i, WaitTimeout(i) PROVE EntriesAreOpen'
  <2>1. \A j \in Publications : outcome'[j] \in {outcome[j], "timedOut"}
    BY <1>0, <1>5, ToldFacts DEF WaitTimeout, Outcomes
  <2> QED
    BY <1>0, <1>a, <1>5, <2>1
       DEF WaitTimeout, EntriesAreOpen, broker, publisher
<1>6. CASE Receive
  <2> DEFINE h == fromBroker[1].id
  <2>1. 1 \in DOMAIN fromBroker /\ routed' = routed
    BY <1>0, <1>6, ReceiveFacts
  <2>2. CASE fromBroker[1].type = "return"
    BY <1>0, <1>1, <1>6, <2>1, <2>2, ReceiveFacts
       DEF EntriesAreOpen, AnswersFollow
  <2>3. CASE fromBroker[1].type # "return"
    <3>1. PICK a \in Outcomes : Told({h}, a)
      BY <1>0, <1>6, <2>3, ReceiveFacts DEF Outcomes
    <3>2. \A j \in Publications : j # h => outcome'[j] = outcome[j]
      BY <1>0, <3>1, ToldFacts
    <3> QED
      BY <1>0, <1>a, <1>6, <2>1, <2>3, <3>2, ReceiveFacts DEF EntriesAreOpen
  <2> QED
    BY <2>2, <2>3
<1>7. CASE BrokerTakes
  <2>1. PICK i \in pending :
          /\ 1 \in DOMAIN toBroker /\ toBroker[1].id = i
          /\ routed' = routed \cup {i} \/ routed' = routed
          /\ UNCHANGED <<outcome, pending, returned>>
    BY <1>7, TakeFacts
  <2>2. i \notin returned
    BY <1>0, <2>1 DEF SentIsNew
  <2> QED
    BY <1>0, <1>1, <2>1, <2>2 DEF EntriesAreOpen
<1>8. ASSUME NEW i \in Ids, BrokerConfirms(i) \/ BrokerRefuses(i)
      PROVE  EntriesAreOpen'
  BY <1>0, <1>1, <1>8
     DEF BrokerConfirms, BrokerRefuses, Answer, publisher,
            EntriesAreOpen
<1>9. CASE ChannelCloses
  BY <1>0, <1>9 DEF ChannelCloses, publisher, EntriesAreOpen
<1>10. CASE Reopen
  BY <1>10 DEF Reopen, EntriesAreOpen
<1>11. CASE UNCHANGED pubVars
  BY <1>0, <1>1, <1>11 DEF pubVars, EntriesAreOpen
<1> QED
  BY <1>2, <1>3, <1>4, <1>5, <1>6, <1>7, <1>8, <1>9, <1>10, <1>11
     DEF PublisherNext, Progress

(* When the confirm comes, the publisher knows of a return exactly if the
   message is in no queue. *)
LEMMA ConfirmIsTrue ==
  ASSUME PublisherInv, Receive, fromBroker[1].type # "return"
  PROVE  fromBroker[1].id \in returned <=> fromBroker[1].id \notin routed
<1> DEFINE h == fromBroker[1].id
<1>0. PublisherTypeOK /\ AnswersFollow /\ EntriesAreOpen
  BY DEF PublisherInv
<1>1. 1 \in DOMAIN fromBroker
  BY <1>0, ReceiveFacts
<1>2. IsDecided(h)
  BY <1>0, <1>1 DEF AnswersFollow
<1>3. ~ReturnComes(h)
  <2> SUFFICES ASSUME NEW k \in DOMAIN fromBroker, fromBroker[k] = Return(h)
               PROVE  FALSE
    BY DEF ReturnComes
  <2>1. k <= 1 /\ k \in 1..Len(fromBroker)
    BY <1>0, <1>1 DEF AnswersFollow, PublisherTypeOK, Return
  <2> QED
    BY <2>1 DEF Return
<1> QED
  BY <1>0, <1>2, <1>3 DEF IsDecided, EntriesAreOpen

(* Every step keeps the answers true. *)
LEMMA OutcomesKept ==
  PublisherInv /\ [PublisherNext]_pubVars => OutcomesAreTrue'
<1> SUFFICES ASSUME PublisherInv, [PublisherNext]_pubVars PROVE OutcomesAreTrue'
  OBVIOUS
<1>0. PublisherTypeOK /\ SentIsNew /\ EntriesAreOpen /\ OutcomesAreTrue
  BY DEF PublisherInv
<1>a. pending \subseteq Publications
  BY <1>0 DEF PublisherTypeOK
<1>1. ASSUME UNCHANGED <<event, routed>>,
             \A i \in Publications :
               outcome'[i] \in {outcome[i], "failed", "timedOut"}
      PROVE  OutcomesAreTrue'
  <2>1. Publications' = Publications
    BY <1>1 DEF Publications
  <2> QED
    BY <1>0, <1>1, <2>1 DEF OutcomesAreTrue
<1>2. ASSUME NEW e \in Events, PublishEvent(e) \/ PublishThrows(e)
      PROVE  OutcomesAreTrue'
  <2>1. PICK a \in {"waiting", "failed"} :
               outcome' = Append(outcome, a) /\ routed' = routed
    BY <1>2 DEF PublishEvent, PublishThrows, broker
  <2>2. /\ \A i \in Publications : outcome'[i] = outcome[i]
        /\ outcome'[Len(event) + 1] = a
    BY <1>0, <2>1, CallFacts DEF Outcomes
  <2>3. Publications' = Publications \cup {Len(event) + 1}
    BY <1>0, <1>2, PublicationsGrow DEF PublishEvent, PublishThrows
  <2> QED
    BY <1>0, <2>1, <2>2, <2>3 DEF OutcomesAreTrue
<1>3. ASSUME NEW e \in Events, BindQueue(e)
      PROVE  OutcomesAreTrue'
  BY <1>1, <1>3 DEF BindQueue
<1>4. ASSUME NEW i, WaitTimeout(i) PROVE OutcomesAreTrue'
  <2>1. \A j \in Publications : outcome'[j] \in {outcome[j], "timedOut"}
    BY <1>0, <1>4, ToldFacts DEF WaitTimeout, Outcomes
  <2> QED
    BY <1>1, <1>4, <2>1 DEF WaitTimeout, broker
<1>5. CASE Receive
  <2> DEFINE h == fromBroker[1].id
  <2>1. UNCHANGED <<event, routed>>
    BY <1>0, <1>5, ReceiveFacts
  <2>2. CASE fromBroker[1].type = "return"
    BY <1>0, <1>1, <1>5, <2>1, <2>2, ReceiveFacts
  <2>3. CASE fromBroker[1].type # "return"
    <3>1. PICK a \in {"failed", "unroutable", "resolved"} :
            /\ a = "unroutable" => h \in returned
            /\ a = "resolved" => h \notin returned
            /\ Told({h}, a)
      BY <1>0, <1>5, <2>3, ReceiveFacts
    <3>2. /\ a = "resolved" => h \in routed
          /\ a = "unroutable" => h \notin routed
      BY <1>5, <2>3, <3>1, ConfirmIsTrue
    <3>3. \A i \in Publications :
            outcome'[i] = IF i \in {h} /\ outcome[i] = "waiting" THEN a
                                                           ELSE outcome[i]
      BY <1>0, <3>1, ToldFacts DEF Outcomes
    <3>4. Publications' = Publications
      BY <2>1 DEF Publications
    <3> QED
      BY <1>0, <2>1, <3>2, <3>3, <3>4 DEF OutcomesAreTrue
  <2> QED
    BY <2>2, <2>3
<1>6. CASE BrokerTakes
  <2>1. PICK i \in pending : /\ routed' = routed \cup {i} \/ routed' = routed
                             /\ UNCHANGED <<event, outcome>>
    BY <1>6, TakeFacts
  <2>2. /\ outcome[i] \in {"waiting", "timedOut"}
        /\ Publications' = Publications
    BY <1>0, <2>1 DEF EntriesAreOpen, Publications
  <2> QED
    BY <1>0, <2>1, <2>2 DEF OutcomesAreTrue
<1>7. ASSUME NEW i \in Ids, BrokerConfirms(i) \/ BrokerRefuses(i)
      PROVE  OutcomesAreTrue'
  BY <1>1, <1>7 DEF BrokerConfirms, BrokerRefuses, Answer
<1>8. CASE ChannelCloses
  <2>1. \A j \in Publications : outcome'[j] \in {outcome[j], "failed"}
    BY <1>0, <1>8, ToldFacts DEF ChannelCloses, Outcomes
  <2> QED
    BY <1>1, <1>8, <2>1 DEF ChannelCloses
<1>9. CASE Reopen
  BY <1>1, <1>9 DEF Reopen, broker
<1>10. CASE UNCHANGED pubVars
  BY <1>1, <1>10 DEF pubVars
<1> QED
  BY <1>2, <1>3, <1>4, <1>5, <1>6, <1>7, <1>8, <1>9, <1>10
     DEF PublisherNext, Progress

(* The invariant holds in all reachable states. *)
LEMMA PublisherInvariance == PublisherSpec => []PublisherInv
<1>1. PublisherInv /\ [PublisherNext]_pubVars => PublisherInv'
  BY PublicationTypesKept, ClosedKept, SentKept, AnswersKept, EntriesKept,
     OutcomesKept
     DEF PublisherInv
<1> QED
  BY PublisherInitial, <1>1, PTL DEF PublisherSpec

LEMMA ToldIsAnswer ==
  ASSUME PublisherTypeOK, NEW S \in SUBSET Publications,
         NEW a \in Outcomes \ {"waiting"},
         Told(S, a), routed' = routed,
         a = "resolved" => S \subseteq routed,
         a = "unroutable" => S \cap routed = {}
  PROVE  Promise!Next
<1> DEFINE W == {i \in S : outcome[i] = "waiting"}
<1>1. W \in SUBSET DOMAIN outcome
  <2>1. DOMAIN outcome = Publications
    BY DEF PublisherTypeOK, Publications
  <2> QED
    BY <2>1
<1>2. a \in Promise!Answers
  BY DEF Outcomes, Promise!Answers
<1>3. Promise!Answer(W, a)
  BY <1>2 DEF Promise!Answer, Promise!Answers, Told
<1> QED
  BY <1>1, <1>2, <1>3 DEF Promise!Next

(* Every step is one of the promise, or invisible to it. *)
LEMMA PublisherStep ==
  PublisherInv /\ [PublisherNext]_pubVars => [Promise!Next]_Promise!vars
<1> SUFFICES ASSUME PublisherInv, [PublisherNext]_pubVars
             PROVE  [Promise!Next]_Promise!vars
  OBVIOUS
<1>0. PublisherTypeOK /\ AnswersFollow /\ EntriesAreOpen
  BY DEF PublisherInv
<1>a. pending \subseteq Publications /\ DOMAIN outcome = Publications
  BY <1>0 DEF PublisherTypeOK, Publications
<1>1. ASSUME UNCHANGED <<outcome, routed>>
      PROVE  [Promise!Next]_Promise!vars
  BY <1>1 DEF Promise!vars
<1>2. ASSUME NEW e \in Events, PublishEvent(e) \/ PublishThrows(e)
      PROVE  Promise!Next
  <2>1. PICK a \in {"waiting", "failed"} :
               outcome' = Append(outcome, a) /\ routed' = routed
    BY <1>2 DEF PublishEvent, PublishThrows, broker
  <2>2. Promise!Call(a)
    BY <2>1 DEF Promise!Call
  <2> QED
    BY <2>2 DEF Promise!Next
<1>3. ASSUME NEW i, WaitTimeout(i) PROVE Promise!Next
  BY <1>0, <1>3, ToldIsAnswer DEF WaitTimeout, broker, Outcomes
<1>4. CASE Receive
  <2> DEFINE h == fromBroker[1].id
  <2>1. routed' = routed /\ 1 \in DOMAIN fromBroker
    BY <1>0, <1>4, ReceiveFacts
  <2>2. CASE fromBroker[1].type = "return"
    BY <1>0, <1>1, <1>4, <2>1, <2>2, ReceiveFacts
  <2>3. CASE fromBroker[1].type # "return"
    <3>1. PICK a \in {"failed", "unroutable", "resolved"} :
            /\ a = "unroutable" => h \in returned
            /\ a = "resolved" => h \notin returned
            /\ Told({h}, a)
      BY <1>0, <1>4, <2>3, ReceiveFacts
    <3>2. /\ a = "resolved" => h \in routed
          /\ a = "unroutable" => h \notin routed
      BY <1>4, <2>3, <3>1, ConfirmIsTrue
    <3>3. h \in Publications
      BY <1>0, <1>a, <2>1 DEF AnswersFollow
    <3> QED
      BY <1>0, <2>1, <3>1, <3>2, <3>3, ToldIsAnswer DEF Outcomes
  <2> QED
    BY <2>2, <2>3
<1>5. CASE BrokerTakes
  <2>1. PICK i \in pending : /\ routed' = routed \cup {i} \/ routed' = routed
                             /\ outcome' = outcome
    BY <1>5, TakeFacts
  <2>2. CASE routed' = routed \cup {i}
    <3>1. outcome[i] # "unroutable" /\ i \in DOMAIN outcome
      BY <1>0, <1>a DEF EntriesAreOpen
    <3>2. Promise!Reach(i)
      BY <2>1, <2>2, <3>1 DEF Promise!Reach
    <3> QED
      BY <3>1, <3>2 DEF Promise!Next
  <2> QED
    BY <1>1, <2>1, <2>2
<1>6. CASE ChannelCloses
  <2>1. routed' = routed /\ (Told(pending, "failed") \/ outcome' = outcome)
    BY <1>6 DEF ChannelCloses
  <2> QED
    BY <1>0, <1>1, <1>a, <2>1, ToldIsAnswer DEF Outcomes
<1>7. ASSUME NEW i \in Ids, BrokerConfirms(i) \/ BrokerRefuses(i)
      PROVE  UNCHANGED <<outcome, routed>>
  BY <1>7 DEF BrokerConfirms, BrokerRefuses, Answer
<1>8. ASSUME NEW e \in Events, BindQueue(e)
      PROVE  UNCHANGED <<outcome, routed>>
  BY <1>8 DEF BindQueue
<1>9. Reopen \/ UNCHANGED pubVars => UNCHANGED <<outcome, routed>>
  BY DEF Reopen, pubVars, broker
<1> QED
  BY <1>1, <1>2, <1>3, <1>4, <1>5, <1>6, <1>7, <1>8, <1>9
     DEF PublisherNext, Progress

(* The publications, entries and frames of a channel keep their types and stay
   within the bounds. *)
THEOREM PublisherTypeCorrect ==
  PublisherSpec => []PublisherTypeOK
<1>1. PublisherInv => PublisherTypeOK
  BY DEF PublisherInv
<1> QED
  BY <1>1, PublisherInvariance, PTL

(* What publish() tells is true of the caller's own copy, however many copies
   of an event are published at once: the return listener charges each return
   to the publication whose confirm will ask for it. *)
THEOREM OutcomesHold ==
  PublisherSpec => []OutcomesAreTrue
<1>1. PublisherInv => OutcomesAreTrue
  BY DEF PublisherInv
<1> QED
  BY <1>1, PublisherInvariance, PTL

(* Each caller is answered once and for good, and no message reaches a queue
   after its caller was told that it is unroutable. *)
THEOREM PublisherImplementation ==
  PublisherSpec => PromiseKept
<1>1. PublisherInit => Promise!Init
  BY DEF PublisherInit, Promise!Init
<1>2. PublisherInv /\ [PublisherNext]_pubVars => [Promise!Next]_Promise!vars
  BY PublisherStep
<1> QED
  BY <1>1, <1>2, PublisherInvariance, PTL
     DEF PublisherSpec, PromiseKept, Promise!Spec
===============================================================================
