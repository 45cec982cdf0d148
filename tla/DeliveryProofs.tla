---------------------------- MODULE DeliveryProofs ----------------------------
(***************************************************************************)
(* Theorems about MessageDelivery, for every set of messages, prefetch     *)
(* count, number of attempts, cache size and number of faults.             *)
(***************************************************************************)
EXTENDS MessageDelivery, TLAPS

\* Channels are replaced because of faults only, which bounds their number.
ChannelsAreCounted ==
  /\ opened <= faults + (IF mode = "running" /\ channel # 0 THEN 1 ELSE 0)
  /\ consuming => channel # 0
  /\ mode \in {"draining", "closed"} => ~consuming
  /\ mode = "closed" => channel = 0

\* A handler that waits for its next attempt has one left.
AttemptsAreLeft ==
  \A d \in Deliveries : task[d] = "waiting" => attempt[d] < MaxAttempts

\* A message is in one place: in the queue, dead, or on its way on one channel.
MessagesAreOnce ==
  /\ queue \cap dead = {}
  /\ \A d \in unacked : d[1] \notin queue /\ d[1] \notin dead
  /\ \A d, e \in unacked : d[1] = e[1] => d = e

\* What runs on the present channel is still unacknowledged, and what is
\* unacknowledged is on the present channel or on one that closes.  Each
\* delivery that is over has one answer at most.
ChannelsAreKnown ==
  /\ channel \notin closing /\ \A c \in closing : c <= opened
  /\ \A d \in Deliveries : task[d] # "none" => d[2] <= opened
  /\ \A d \in Deliveries : Busy(d) /\ d[2] = channel => d \in unacked
  /\ \A d \in unacked : d[2] = channel \/ d[2] \in closing
  /\ \A a \in answers : a.delivery \in unacked /\ task[a.delivery] = "over"
  /\ \A a, b \in answers : a.delivery = b.delivery => a = b

\* The cache and the acknowledgements tell the truth.
AcksAreTrue ==
  /\ \A i \in 1..Len(recent) : recent[i] \in handled
  /\ \A a \in answers : a.outcome = "ack" => EventOf[a.delivery[1]] \in handled
  /\ AckedWasHandled

Hopeless(d) ==
  \/ d[1] \in Malformed
  \/ d \in refused
  \/ attempt[d] = MaxAttempts /\ task[d] = "over"

\* Rejections are of hopeless deliveries, and stay so.
RejectionsAreRight ==
  /\ \A a \in answers : a.outcome = "dead-letter" => Hopeless(a.delivery)
  /\ \A m \in dead : \E c \in Channels : Hopeless(<<m, c>>)

\* close() waits for all handlers that run once nothing is delivered any more.
DrainIsComplete ==
  /\ mode = "draining" => InFlight \subseteq awaited
  /\ ClosedIsQuiet

IInv == /\ TypeOK
        /\ ChannelsAreCounted
        /\ AttemptsAreLeft
        /\ MessagesAreOnce
        /\ ChannelsAreKnown
        /\ AcksAreTrue
        /\ RejectionsAreRight
        /\ NothingStuck
        /\ DrainIsComplete
-----------------------------------------------------------------------------
(* Deliveries are pairs of a message and a channel. *)
LEMMA DeliveryParts ==
  /\ \A d \in Deliveries : d[1] \in Messages /\ d[2] \in Channels
  /\ \A m \in Messages, c \in Channels : /\ <<m, c>> \in Deliveries
                                         /\ <<m, c>>[1] = m /\ <<m, c>>[2] = c
BY DEF Deliveries

(* The cache stays within its size, and only gets the event that is added. *)
LEMMA Remembered ==
  ASSUME recent \in Seq(Events), Len(recent) <= CacheSize, NEW e \in Events
  PROVE  /\ Add(recent, e) \in Seq(Events)
         /\ Len(Add(recent, e)) <= CacheSize
         /\ \A i \in 1..Len(Add(recent, e)) :
              \/ Add(recent, e)[i] = e
              \/ \E j \in 1..Len(recent) : Add(recent, e)[i] = recent[j]
<1>1. CASE CacheSize = 0 \/ Contains(recent, e)
  BY <1>1 DEF Add
<1>2. CASE ~(CacheSize = 0 \/ Contains(recent, e)) /\ Len(recent) = CacheSize
  <2>1. Add(recent, e) = Append(Tail(recent), e) /\ recent # <<>>
    BY <1>2 DEF Add
  <2>2. /\ Tail(recent) \in Seq(Events)
        /\ Len(Tail(recent)) = Len(recent) - 1
        /\ \A i \in 1..Len(Tail(recent)) : Tail(recent)[i] = recent[i + 1]
    BY <2>1
  <2>3. \A i \in 1..Len(Tail(recent)) : i + 1 \in 1..Len(recent)
    BY <2>2
  <2>4. QED
    BY <1>2, <2>1, <2>2, <2>3, OptionAssumption
<1>3. CASE ~(CacheSize = 0 \/ Contains(recent, e)) /\ Len(recent) # CacheSize
  <2>1. Add(recent, e) = Append(recent, e)
    BY <1>3 DEF Add
  <2>2. QED
    BY <1>3, <2>1, OptionAssumption
<1>4. QED
  BY <1>1, <1>2, <1>3

(* The initial state. *)
LEMMA Initial == Init => IInv
<1> SUFFICES ASSUME Init PROVE IInv
  OBVIOUS
<1>1. TypeOK
  <2>1. /\ task \in [Deliveries -> {"none", "handling", "waiting", "over"}]
        /\ attempt \in [Deliveries -> 0..MaxAttempts]
    BY OptionAssumption DEF Init
  <2>2. recent \in Seq(Events) /\ Len(recent) <= CacheSize
    BY OptionAssumption DEF Init
  <2>3. consuming \in BOOLEAN /\ timedOut \in BOOLEAN
    BY DEF Init
  <2>4. QED
    BY <2>1, <2>2, <2>3, BoundAssumption DEF Init, TypeOK
<1>2. AttemptsAreLeft /\ ChannelsAreCounted /\ MessagesAreOnce /\ ChannelsAreKnown
  BY BoundAssumption
  DEF Init, AttemptsAreLeft, ChannelsAreCounted, MessagesAreOnce, ChannelsAreKnown, Busy
<1>3. AcksAreTrue /\ RejectionsAreRight /\ NothingStuck /\ DrainIsComplete
  BY DEF Init, AcksAreTrue, AckedWasHandled, RejectionsAreRight, NothingStuck,
         DrainIsComplete, ClosedIsQuiet
<1>4. QED
  BY <1>1, <1>2, <1>3 DEF IInv
-----------------------------------------------------------------------------
(* The types by kinds. *)
SetsTyped ==
  /\ queue \subseteq Messages /\ dead \subseteq Messages /\ acked \subseteq Messages
  /\ unacked \subseteq Deliveries /\ refused \subseteq Deliveries
  /\ awaited \subseteq Deliveries
  /\ closing \subseteq Channels /\ handled \subseteq Events
  /\ answers \subseteq [delivery : Deliveries, outcome : {"ack", "dead-letter"}]

NumbersTyped == /\ opened \in 0..MaxFaults + 1 /\ channel \in 0..opened
                /\ faults \in 0..MaxFaults

FlagsTyped == /\ consuming \in BOOLEAN /\ timedOut \in BOOLEAN
              /\ mode \in {"running", "cancelling", "draining", "closed"}

TasksTyped == /\ task \in [Deliveries -> {"none", "handling", "waiting", "over"}]
              /\ attempt \in [Deliveries -> 0..MaxAttempts]

CacheTyped == recent \in Seq(Events) /\ Len(recent) <= CacheSize

(* They are all the types. *)
LEMMA Types == /\ TypeOK <=> /\ SetsTyped /\ NumbersTyped /\ FlagsTyped
                             /\ TasksTyped /\ CacheTyped
               /\ TypeOK' <=> /\ SetsTyped' /\ NumbersTyped' /\ FlagsTyped'
                              /\ TasksTyped' /\ CacheTyped'
BY DEF TypeOK, SetsTyped, NumbersTyped, FlagsTyped, TasksTyped, CacheTyped
-----------------------------------------------------------------------------
(* The effects of the handlers. *)

Answer(d, out) == [delivery |-> d, outcome |-> out]

(* The fields of an answer. *)
LEMMA AnswerFields ==
  ASSUME NEW d, NEW out
  PROVE  Answer(d, out).delivery = d /\ Answer(d, out).outcome = out
BY DEF Answer

(* What a delivery changes: a new task, and an answer if it is over at once. *)
LEMMA Delivered ==
  ASSUME IInv, NEW m \in Messages, Deliver(m), NEW d, d = <<m, channel>>
  PROVE  /\ d \in Deliveries /\ d[1] = m /\ d[2] = channel /\ d \notin unacked
         /\ task[d] \in {"none", "over"}
         /\ \A e \in Deliveries \ {d} : task'[e] = task[e] /\ attempt'[e] = attempt[e]
         /\ \/ /\ m \in Malformed /\ task'[d] = "over"
               /\ answers' = answers \cup {Answer(d, "dead-letter")}
               /\ recent' = recent
            \/ /\ Contains(recent, EventOf[m]) /\ task'[d] = "over"
               /\ answers' = answers \cup {Answer(d, "ack")}
               /\ recent' = recent
            \/ /\ task'[d] = "handling" /\ attempt'[d] = 1
               /\ answers' = answers /\ recent' = recent
<1>1. channel \in Channels
  BY BoundAssumption DEF IInv, TypeOK, Deliver, Channels
<1>2. d \in Deliveries /\ d[1] = m /\ d[2] = channel
  BY <1>1, DeliveryParts
<1>3. d \notin unacked
  BY <1>2 DEF IInv, MessagesAreOnce, Deliver
<1>4. task[d] \in {"none", "over"}
  BY <1>2, <1>3 DEF IInv, TypeOK, ChannelsAreKnown, Busy
<1>5. /\ task \in [Deliveries -> {"none", "handling", "waiting", "over"}]
      /\ attempt \in [Deliveries -> 0..MaxAttempts]
  BY DEF IInv, TypeOK
<1>6. CASE RejectMalformed(d)
  BY <1>2, <1>3, <1>4, <1>5, <1>6 DEF RejectMalformed, Settle, Goto, Answer
<1>7. CASE SkipDuplicate(d)
  BY <1>2, <1>3, <1>4, <1>5, <1>7 DEF SkipDuplicate, Settle, Goto, Answer
<1>8. CASE StartHandler(d)
  BY <1>2, <1>3, <1>4, <1>5, <1>8 DEF StartHandler, Goto
<1>9. QED
  BY <1>6, <1>7, <1>8 DEF Deliver

(* What handlers and delays change: they answer if the delivery is over and *)
(* its channel is still there. *)
LEMMA Stepped ==
  ASSUME IInv, NEW d \in Deliveries, DeliveryStep(d)
  PROVE  /\ UNCHANGED <<broker, channel, shutdown, faults>>
         /\ Busy(d) /\ task'[d] \in {"handling", "waiting", "over"}
         /\ \A e \in Deliveries \ {d} : task'[e] = task[e] /\ attempt'[e] = attempt[e]
         /\ refused \subseteq refused'
         /\ \/ /\ answers' = answers
               /\ task'[d] = "over" => mode # "running" \/ channel # d[2]
            \/ /\ d[2] = channel /\ task'[d] = "over"
               /\ \E out \in {"ack", "dead-letter"} :
                    answers' = answers \cup {Answer(d, out)}
<1>1. /\ task \in [Deliveries -> {"none", "handling", "waiting", "over"}]
      /\ attempt \in [Deliveries -> 0..MaxAttempts]
  BY DEF IInv, TypeOK
<1>2. CASE HandlerSucceeds(d)
  BY <1>1, <1>2 DEF HandlerSucceeds, Settle, Finish, Goto, Busy, Answer
<1>3. CASE HandlerRefuses(d)
  BY <1>1, <1>3 DEF HandlerRefuses, Settle, Finish, Goto, Busy, Answer
<1>4. CASE HandlerFails(d)
  BY <1>1, <1>4 DEF HandlerFails, Settle, Goto, Busy, Answer
<1>5. CASE Retry(d)
  BY <1>1, <1>5 DEF Retry, Finish, Goto, Busy, Abandoned
<1>6. QED
  BY <1>2, <1>3, <1>4, <1>5 DEF DeliveryStep

(* A hopeless delivery stays so, as long as its task does. *)
LEMMA HopelessStays ==
  ASSUME NEW d, Hopeless(d), refused \subseteq refused',
         task[d] = "over" => UNCHANGED <<task[d], attempt[d]>>
  PROVE  Hopeless(d)'
BY DEF Hopeless

(* Rejections remain right if nothing but hopeless deliveries is added. *)
LEMMA RejectionFrame ==
  ASSUME RejectionsAreRight, answers' \subseteq answers, dead' = dead,
         refused \subseteq refused',
         \A d \in Deliveries :
           task[d] = "over" => UNCHANGED <<task[d], attempt[d]>>,
         \A a \in answers : a.delivery \in Deliveries,
         dead \subseteq Messages
  PROVE  RejectionsAreRight'
<1>1. \A d \in Deliveries : Hopeless(d) => Hopeless(d)'
  BY HopelessStays
<1>2. \A m \in dead, c \in Channels : <<m, c>> \in Deliveries
  BY DeliveryParts
<1>3. QED
  BY <1>1, <1>2 DEF RejectionsAreRight
-----------------------------------------------------------------------------
(* The steps. *)

(* An answer settles its delivery. *)
LEMMA AnsweredKeeps ==
  ASSUME IInv, NEW a \in answers, Answered(a)
  PROVE  IInv'
<1>0. SetsTyped /\ NumbersTyped /\ FlagsTyped /\ TasksTyped /\ CacheTyped
  BY Types DEF IInv
<1>1. SetsTyped' /\ TasksTyped' /\ CacheTyped'
  <2>1. SetsTyped'
    BY <1>0, DeliveryParts DEF SetsTyped, Answered, work, shutdown
  <2>2. TasksTyped' /\ CacheTyped'
    BY <1>0, OptionAssumption
    DEF TasksTyped, CacheTyped, Answered, work, shutdown
  <2>3. QED
    BY <2>1, <2>2
<1>2. NumbersTyped' /\ FlagsTyped' /\ ChannelsAreCounted'
  BY <1>0, BoundAssumption
  DEF IInv, NumbersTyped, FlagsTyped, ChannelsAreCounted, Answered, work,
      shutdown
<1>3. AttemptsAreLeft' /\ MessagesAreOnce'
  <2>1. a \in answers /\ a.delivery \in unacked /\ unacked' = unacked \ {a.delivery}
    BY DEF IInv, ChannelsAreKnown, Answered
  <2>2. /\ a.delivery[1] \notin queue /\ a.delivery[1] \notin dead
        /\ \A d \in unacked' : d[1] # a.delivery[1]
    BY <2>1 DEF IInv, MessagesAreOnce
  <2>3. QED
    BY <2>1, <2>2
    DEF IInv, AttemptsAreLeft, MessagesAreOnce, Answered, work
<1>4. ChannelsAreKnown'
  <2>1. a.delivery \in unacked /\ task[a.delivery] = "over"
    BY DEF IInv, ChannelsAreKnown, Answered
  <2>2. \A b \in answers' : b.delivery \in unacked'
    <3>1. TAKE b \in answers'
    <3>2. b \in answers /\ b # a
      BY DEF Answered
    <3>3. b.delivery # a.delivery
      BY <3>2 DEF IInv, ChannelsAreKnown, Answered
    <3>4. QED
      BY <3>2, <3>3 DEF IInv, ChannelsAreKnown, Answered
  <2>3. QED
    BY <2>1, <2>2 DEF IInv, ChannelsAreKnown, Busy, Answered, work
<1>5. AcksAreTrue'
  BY <1>0 DEF IInv, AcksAreTrue, AckedWasHandled, Answered, work, shutdown
<1>6. RejectionsAreRight'
  <2>1. a \in answers /\ a.delivery \in Deliveries
    BY <1>0 DEF SetsTyped, Answered
  <2>2. \A d \in Deliveries : Hopeless(d)' <=> Hopeless(d)
    BY DEF Hopeless, Answered, work
  <2>3. \A b \in answers' : b.outcome = "dead-letter" => Hopeless(b.delivery)'
    BY <1>0, <2>2 DEF IInv, RejectionsAreRight, SetsTyped, Answered
  <2>4. \A m \in dead : \E c \in Channels : Hopeless(<<m, c>>)'
    BY <1>0, <2>2, DeliveryParts DEF IInv, RejectionsAreRight, SetsTyped
  <2>5. a.outcome = "dead-letter" =>
          \E c \in Channels : Hopeless(<<a.delivery[1], c>>)'
    <3>1. HAVE a.outcome = "dead-letter"
    <3>2. Hopeless(a.delivery)'
      BY <2>1, <2>2, <3>1 DEF IInv, RejectionsAreRight
    <3>3. /\ a.delivery = <<a.delivery[1], a.delivery[2]>>
          /\ a.delivery[2] \in Channels
      BY <2>1 DEF Deliveries
    <3>4. QED
      BY <3>2, <3>3
  <2>6. \/ dead' = dead
        \/ a.outcome = "dead-letter" /\ dead' = dead \cup {a.delivery[1]}
    <3>1. a.outcome # "ack" => a.outcome = "dead-letter"
      BY <1>0, <2>1 DEF SetsTyped
    <3>2. CASE a.outcome = "ack"
      BY <3>2 DEF Answered
    <3>3. CASE a.outcome # "ack"
      BY <3>1, <3>3 DEF Answered
    <3>4. QED
      BY <3>2, <3>3
  <2>7. \A m \in dead' : \E c \in Channels : Hopeless(<<m, c>>)'
    BY <2>4, <2>5, <2>6
  <2>8. QED
    BY <2>3, <2>7 DEF RejectionsAreRight
<1>7. NothingStuck' /\ DrainIsComplete'
  BY <1>0
  DEF IInv, NumbersTyped, ChannelsAreCounted, ChannelsAreKnown, NothingStuck,
      DrainIsComplete, ClosedIsQuiet, InFlight, Busy, Answered, work, shutdown
<1>8. QED
  BY <1>1, <1>2, <1>3, <1>4, <1>5, <1>6, <1>7, Types DEF IInv

(* A new channel has no deliveries yet. *)
LEMMA SubscribeKeeps ==
  ASSUME IInv, Subscribe
  PROVE  IInv'
<1>0. SetsTyped /\ NumbersTyped /\ FlagsTyped /\ TasksTyped /\ CacheTyped
  BY Types DEF IInv
<1>1. SetsTyped' /\ TasksTyped' /\ CacheTyped'
  BY <1>0, OptionAssumption
  DEF IInv, SetsTyped, TasksTyped, CacheTyped, Subscribe, work, shutdown
<1>2. NumbersTyped' /\ FlagsTyped' /\ ChannelsAreCounted'
  BY <1>0, BoundAssumption
  DEF IInv, NumbersTyped, FlagsTyped, ChannelsAreCounted, Subscribe, work,
      shutdown
<1>3. AttemptsAreLeft' /\ MessagesAreOnce'
  BY <1>0, OptionAssumption
  DEF IInv, TasksTyped, AttemptsAreLeft, MessagesAreOnce, Subscribe, work,
      shutdown
<1>4. ChannelsAreKnown'
  BY <1>0, DeliveryParts, BoundAssumption
  DEF IInv, SetsTyped, NumbersTyped, TasksTyped, ChannelsAreKnown, Busy,
      Channels, Subscribe, work, shutdown
<1>5. AcksAreTrue'
  BY <1>0 DEF IInv, AcksAreTrue, AckedWasHandled, Subscribe, work, shutdown
<1>6. RejectionsAreRight'
  BY <1>0, RejectionFrame DEF IInv, SetsTyped, Subscribe, work, shutdown
<1>7. NothingStuck' /\ DrainIsComplete'
  BY <1>0
  DEF IInv, NumbersTyped, ChannelsAreCounted, ChannelsAreKnown, NothingStuck,
      DrainIsComplete, ClosedIsQuiet, InFlight, Busy, Subscribe, work, shutdown
<1>8. QED
  BY <1>1, <1>2, <1>3, <1>4, <1>5, <1>6, <1>7, Types DEF IInv

(* A lost connection returns its deliveries. *)
LEMMA ConnectionLostKeeps ==
  ASSUME IInv, NEW c \in Channels, ConnectionLost(c)
  PROVE  IInv'
<1>0. SetsTyped /\ NumbersTyped /\ FlagsTyped /\ TasksTyped /\ CacheTyped
  BY Types DEF IInv
<1>1. SetsTyped' /\ TasksTyped' /\ CacheTyped'
  <2>1. SetsTyped'
    BY <1>0, DeliveryParts
    DEF SetsTyped, ConnectionLost, Fault, UnackedOn, Channels, work, shutdown
  <2>2. TasksTyped' /\ CacheTyped'
    BY <1>0, OptionAssumption
    DEF TasksTyped, CacheTyped, ConnectionLost, Fault, UnackedOn, Channels,
        work, shutdown
  <2>3. QED
    BY <2>1, <2>2
<1>2. NumbersTyped' /\ FlagsTyped' /\ ChannelsAreCounted'
  <2>1. NumbersTyped' /\ ChannelsAreCounted'
    BY <1>0, BoundAssumption
    DEF IInv, NumbersTyped, FlagsTyped, ChannelsAreCounted, ConnectionLost,
        Fault, UnackedOn, Channels, work, shutdown
  <2>2. FlagsTyped'
    BY <1>0
    DEF FlagsTyped, ConnectionLost, Fault, UnackedOn, Channels, work, shutdown
  <2>3. QED
    BY <2>1, <2>2
<1>3. AttemptsAreLeft' /\ MessagesAreOnce'
  BY <1>0, OptionAssumption
  DEF IInv, TasksTyped, AttemptsAreLeft, MessagesAreOnce, ConnectionLost,
      Fault, UnackedOn, Channels, work, shutdown
<1>4. ChannelsAreKnown'
  BY <1>0, DeliveryParts, BoundAssumption
  DEF IInv, SetsTyped, NumbersTyped, TasksTyped, ChannelsAreKnown, Busy,
      Channels, ConnectionLost, Fault, UnackedOn, work, shutdown
<1>5. AcksAreTrue'
  BY <1>0
  DEF IInv, AcksAreTrue, AckedWasHandled, ConnectionLost, Fault, UnackedOn,
      Channels, work, shutdown
<1>6. RejectionsAreRight'
  BY <1>0, RejectionFrame
  DEF IInv, SetsTyped, ConnectionLost, Fault, UnackedOn, Channels, work,
      shutdown
<1>7. NothingStuck' /\ DrainIsComplete'
  BY <1>0
  DEF IInv, NumbersTyped, ChannelsAreCounted, ChannelsAreKnown, NothingStuck,
      DrainIsComplete, ClosedIsQuiet, InFlight, Busy, ConnectionLost, Fault,
      UnackedOn, Channels, work, shutdown
<1>8. QED
  BY <1>1, <1>2, <1>3, <1>4, <1>5, <1>6, <1>7, Types DEF IInv

(* A channel that is let go of is closing. *)
LEMMA ConsumerCancelledKeeps ==
  ASSUME IInv, ConsumerCancelled
  PROVE  IInv'
<1>0. SetsTyped /\ NumbersTyped /\ FlagsTyped /\ TasksTyped /\ CacheTyped
  BY Types DEF IInv
<1>1. SetsTyped' /\ TasksTyped' /\ CacheTyped'
  <2>1. SetsTyped'
    <3>1. channel # 0 => channel \in Channels
      BY <1>0, BoundAssumption DEF NumbersTyped, Channels
    <3>2. QED
      BY <1>0, <3>1
      DEF SetsTyped, ConsumerCancelled, Fault, CloseResources, Channels, work,
        shutdown
  <2>2. TasksTyped' /\ CacheTyped'
    BY <1>0, OptionAssumption
    DEF TasksTyped, CacheTyped, ConsumerCancelled, Fault, CloseResources,
        Channels, work, shutdown
  <2>3. QED
    BY <2>1, <2>2
<1>2. NumbersTyped' /\ FlagsTyped' /\ ChannelsAreCounted'
  <2>1. NumbersTyped' /\ ChannelsAreCounted'
    BY <1>0, BoundAssumption
    DEF IInv, NumbersTyped, FlagsTyped, ChannelsAreCounted, ConsumerCancelled,
        Fault, CloseResources, Channels, work, shutdown
  <2>2. FlagsTyped'
    BY <1>0
    DEF FlagsTyped, ConsumerCancelled, Fault, CloseResources, Channels, work,
        shutdown
  <2>3. QED
    BY <2>1, <2>2
<1>3. AttemptsAreLeft' /\ MessagesAreOnce'
  BY <1>0, OptionAssumption
  DEF IInv, TasksTyped, AttemptsAreLeft, MessagesAreOnce, ConsumerCancelled,
      Fault, CloseResources, Channels, work, shutdown
<1>4. ChannelsAreKnown'
  BY <1>0, DeliveryParts, BoundAssumption
  DEF IInv, SetsTyped, NumbersTyped, TasksTyped, ChannelsAreKnown, Busy,
      Channels, ConsumerCancelled, Fault, CloseResources, work, shutdown
<1>5. AcksAreTrue'
  BY <1>0
  DEF IInv, AcksAreTrue, AckedWasHandled, ConsumerCancelled, Fault,
      CloseResources, Channels, work, shutdown
<1>6. RejectionsAreRight'
  BY <1>0, RejectionFrame
  DEF IInv, SetsTyped, ConsumerCancelled, Fault, CloseResources, Channels,
      work, shutdown
<1>7. NothingStuck' /\ DrainIsComplete'
  BY <1>0
  DEF IInv, NumbersTyped, ChannelsAreCounted, ChannelsAreKnown, NothingStuck,
      DrainIsComplete, ClosedIsQuiet, InFlight, Busy, ConsumerCancelled, Fault,
      CloseResources, Channels, work, shutdown
<1>8. QED
  BY <1>1, <1>2, <1>3, <1>4, <1>5, <1>6, <1>7, Types DEF IInv

(* A closed channel returns its deliveries. *)
LEMMA ChannelClosesKeeps ==
  ASSUME IInv, NEW c \in Channels, ChannelCloses(c)
  PROVE  IInv'
<1>0. SetsTyped /\ NumbersTyped /\ FlagsTyped /\ TasksTyped /\ CacheTyped
  BY Types DEF IInv
<1>1. SetsTyped' /\ TasksTyped' /\ CacheTyped'
  <2>1. SetsTyped'
    BY <1>0, DeliveryParts
    DEF SetsTyped, ChannelCloses, UnackedOn, Channels, work, shutdown
  <2>2. TasksTyped' /\ CacheTyped'
    BY <1>0, OptionAssumption
    DEF TasksTyped, CacheTyped, ChannelCloses, UnackedOn, Channels, work,
        shutdown
  <2>3. QED
    BY <2>1, <2>2
<1>2. NumbersTyped' /\ FlagsTyped' /\ ChannelsAreCounted'
  BY <1>0, BoundAssumption
  DEF IInv, NumbersTyped, FlagsTyped, ChannelsAreCounted, ChannelCloses,
      UnackedOn, Channels, work, shutdown
<1>3. AttemptsAreLeft' /\ MessagesAreOnce'
  BY <1>0, OptionAssumption
  DEF IInv, TasksTyped, AttemptsAreLeft, MessagesAreOnce, ChannelCloses,
      UnackedOn, Channels, work, shutdown
<1>4. ChannelsAreKnown'
  <2>1. \A a \in answers' : a.delivery \in unacked' /\ task'[a.delivery] = "over"
    <3>1. TAKE a \in answers'
    <3>2. a \in answers /\ a.delivery[2] # c
      BY DEF ChannelCloses
    <3>3. QED
      BY <3>2 DEF IInv, ChannelsAreKnown, ChannelCloses, UnackedOn, work
  <2>2. QED
    BY <1>0, <2>1, DeliveryParts
    DEF IInv, SetsTyped, ChannelsAreKnown, Busy, ChannelCloses, UnackedOn,
        work, shutdown
<1>5. AcksAreTrue'
  BY <1>0
  DEF IInv, AcksAreTrue, AckedWasHandled, ChannelCloses, UnackedOn, Channels,
      work, shutdown
<1>6. RejectionsAreRight'
  BY <1>0, RejectionFrame
  DEF IInv, SetsTyped, ChannelCloses, UnackedOn, Channels, work, shutdown
<1>7. NothingStuck' /\ DrainIsComplete'
  BY <1>0
  DEF IInv, NumbersTyped, ChannelsAreCounted, ChannelsAreKnown, NothingStuck,
      DrainIsComplete, ClosedIsQuiet, InFlight, Busy, ChannelCloses, UnackedOn,
      Channels, work, shutdown
<1>8. QED
  BY <1>1, <1>2, <1>3, <1>4, <1>5, <1>6, <1>7, Types DEF IInv

(* close() counts as a fault. *)
LEMMA CloseKeeps ==
  ASSUME IInv, Close
  PROVE  IInv'
<1>0. SetsTyped /\ NumbersTyped /\ FlagsTyped /\ TasksTyped /\ CacheTyped
  BY Types DEF IInv
<1>1. SetsTyped' /\ TasksTyped' /\ CacheTyped'
  BY <1>0, OptionAssumption
  DEF IInv, SetsTyped, TasksTyped, CacheTyped, Close, Fault, broker, work
<1>2. NumbersTyped' /\ FlagsTyped' /\ ChannelsAreCounted'
  BY <1>0, BoundAssumption
  DEF IInv, NumbersTyped, FlagsTyped, ChannelsAreCounted, Close, Fault, broker,
      work
<1>3. AttemptsAreLeft' /\ MessagesAreOnce'
  BY <1>0, OptionAssumption
  DEF IInv, TasksTyped, AttemptsAreLeft, MessagesAreOnce, Close, Fault, broker,
      work
<1>4. ChannelsAreKnown'
  BY <1>0
  DEF IInv, SetsTyped, NumbersTyped, TasksTyped, ChannelsAreCounted,
      ChannelsAreKnown, Busy, Close, Fault, broker, work
<1>5. AcksAreTrue'
  BY <1>0 DEF IInv, AcksAreTrue, AckedWasHandled, Close, Fault, broker, work
<1>6. RejectionsAreRight'
  BY <1>0, RejectionFrame DEF IInv, SetsTyped, Close, Fault, broker, work
<1>7. NothingStuck' /\ DrainIsComplete'
  BY <1>0
  DEF IInv, NumbersTyped, ChannelsAreCounted, ChannelsAreKnown, NothingStuck,
      DrainIsComplete, ClosedIsQuiet, InFlight, Busy, Close, Fault, broker,
      work
<1>8. QED
  BY <1>1, <1>2, <1>3, <1>4, <1>5, <1>6, <1>7, Types DEF IInv

(* The snapshot holds all handlers. *)
LEMMA CancelConsumersKeeps ==
  ASSUME IInv, CancelConsumers
  PROVE  IInv'
<1>0. SetsTyped /\ NumbersTyped /\ FlagsTyped /\ TasksTyped /\ CacheTyped
  BY Types DEF IInv
<1>1. SetsTyped' /\ TasksTyped' /\ CacheTyped'
  BY <1>0, OptionAssumption
  DEF IInv, SetsTyped, TasksTyped, CacheTyped, CancelConsumers, InFlight, work
<1>2. NumbersTyped' /\ FlagsTyped' /\ ChannelsAreCounted'
  BY <1>0, BoundAssumption
  DEF IInv, NumbersTyped, FlagsTyped, ChannelsAreCounted, CancelConsumers,
      InFlight, work
<1>3. AttemptsAreLeft' /\ MessagesAreOnce'
  BY <1>0, OptionAssumption
  DEF IInv, TasksTyped, AttemptsAreLeft, MessagesAreOnce, CancelConsumers,
      InFlight, work
<1>4. ChannelsAreKnown'
  BY <1>0
  DEF IInv, SetsTyped, NumbersTyped, TasksTyped, ChannelsAreCounted,
      ChannelsAreKnown, Busy, CancelConsumers, InFlight, work
<1>5. AcksAreTrue'
  BY <1>0
  DEF IInv, AcksAreTrue, AckedWasHandled, CancelConsumers, InFlight, work
<1>6. RejectionsAreRight'
  BY <1>0, RejectionFrame DEF IInv, SetsTyped, CancelConsumers, InFlight, work
<1>7. NothingStuck' /\ DrainIsComplete'
  BY <1>0
  DEF IInv, NumbersTyped, ChannelsAreCounted, ChannelsAreKnown, NothingStuck,
      DrainIsComplete, ClosedIsQuiet, InFlight, Busy, CancelConsumers, work
<1>8. QED
  BY <1>1, <1>2, <1>3, <1>4, <1>5, <1>6, <1>7, Types DEF IInv

(* The handlers are done, or time is over. *)
LEMMA DrainKeeps ==
  ASSUME IInv, Drain
  PROVE  IInv'
<1>0. SetsTyped /\ NumbersTyped /\ FlagsTyped /\ TasksTyped /\ CacheTyped
  BY Types DEF IInv
<1>1. SetsTyped' /\ TasksTyped' /\ CacheTyped'
  <2>1. SetsTyped'
    <3>1. channel # 0 => channel \in Channels
      BY <1>0, BoundAssumption DEF NumbersTyped, Channels
    <3>2. QED
      BY <1>0, <3>1 DEF SetsTyped, Drain, CloseResources, work
  <2>2. TasksTyped' /\ CacheTyped'
    BY <1>0, OptionAssumption
    DEF TasksTyped, CacheTyped, Drain, CloseResources, Channels, work
  <2>3. QED
    BY <2>1, <2>2
<1>2. NumbersTyped' /\ FlagsTyped' /\ ChannelsAreCounted'
  <2>1. NumbersTyped' /\ ChannelsAreCounted'
    BY <1>0, BoundAssumption
    DEF IInv, NumbersTyped, FlagsTyped, ChannelsAreCounted, Drain,
        CloseResources, Channels, work
  <2>2. FlagsTyped'
    BY <1>0 DEF FlagsTyped, Drain, CloseResources, Channels, work
  <2>3. QED
    BY <2>1, <2>2
<1>3. AttemptsAreLeft' /\ MessagesAreOnce'
  BY <1>0, OptionAssumption
  DEF IInv, TasksTyped, AttemptsAreLeft, MessagesAreOnce, Drain,
      CloseResources, Channels, work
<1>4. ChannelsAreKnown'
  BY <1>0, DeliveryParts, BoundAssumption
  DEF IInv, SetsTyped, NumbersTyped, TasksTyped, ChannelsAreKnown, Busy,
      Channels, Drain, CloseResources, work
<1>5. AcksAreTrue'
  BY <1>0
  DEF IInv, AcksAreTrue, AckedWasHandled, Drain, CloseResources, Channels, work
<1>6. RejectionsAreRight'
  BY <1>0, RejectionFrame
  DEF IInv, SetsTyped, Drain, CloseResources, Channels, work
<1>7. NothingStuck' /\ DrainIsComplete'
  BY <1>0
  DEF IInv, NumbersTyped, ChannelsAreCounted, ChannelsAreKnown, NothingStuck,
      DrainIsComplete, ClosedIsQuiet, InFlight, Busy, Drain, CloseResources,
      Channels, work
<1>8. QED
  BY <1>1, <1>2, <1>3, <1>4, <1>5, <1>6, <1>7, Types DEF IInv

(* close() has left no channel. *)
LEMMA ReopenKeeps ==
  ASSUME IInv, Reopen
  PROVE  IInv'
<1>0. SetsTyped /\ NumbersTyped /\ FlagsTyped /\ TasksTyped /\ CacheTyped
  BY Types DEF IInv
<1>1. SetsTyped' /\ TasksTyped' /\ CacheTyped'
  BY <1>0, OptionAssumption
  DEF IInv, SetsTyped, TasksTyped, CacheTyped, Reopen, broker, work
<1>2. NumbersTyped' /\ FlagsTyped' /\ ChannelsAreCounted'
  BY <1>0, BoundAssumption
  DEF IInv, NumbersTyped, FlagsTyped, ChannelsAreCounted, Reopen, broker, work
<1>3. AttemptsAreLeft' /\ MessagesAreOnce'
  BY <1>0, OptionAssumption
  DEF IInv, TasksTyped, AttemptsAreLeft, MessagesAreOnce, Reopen, broker, work
<1>4. ChannelsAreKnown'
  BY <1>0
  DEF IInv, SetsTyped, NumbersTyped, TasksTyped, ChannelsAreCounted,
      ChannelsAreKnown, Busy, Reopen, broker, work
<1>5. AcksAreTrue'
  BY <1>0 DEF IInv, AcksAreTrue, AckedWasHandled, Reopen, broker, work
<1>6. RejectionsAreRight'
  BY <1>0, RejectionFrame DEF IInv, SetsTyped, Reopen, broker, work
<1>7. NothingStuck' /\ DrainIsComplete'
  <2>1. NothingStuck'
    BY <1>0, DeliveryParts
    DEF IInv, SetsTyped, NothingStuck, ChannelsAreCounted, ChannelsAreKnown,
        Channels, Busy, Reopen, broker, work
  <2>2. DrainIsComplete'
    BY DEF DrainIsComplete, ClosedIsQuiet, Reopen
  <2>3. QED
    BY <2>1, <2>2
<1>8. QED
  BY <1>1, <1>2, <1>3, <1>4, <1>5, <1>6, <1>7, Types DEF IInv

(* What was unacknowledged is in the queue again. *)
LEMMA CrashKeeps ==
  ASSUME IInv, Crash
  PROVE  IInv'
<1>0. SetsTyped /\ NumbersTyped /\ FlagsTyped /\ TasksTyped /\ CacheTyped
  BY Types DEF IInv
<1>1. SetsTyped' /\ TasksTyped' /\ CacheTyped'
  <2>1. SetsTyped'
    BY <1>0, DeliveryParts DEF SetsTyped, Crash, Fault, ProcessEnds, Busy
  <2>2. TasksTyped' /\ CacheTyped'
    BY <1>0, OptionAssumption
    DEF TasksTyped, CacheTyped, Crash, Fault, ProcessEnds, Busy
  <2>3. QED
    BY <2>1, <2>2
<1>2. NumbersTyped' /\ FlagsTyped' /\ ChannelsAreCounted'
  <2>1. NumbersTyped' /\ ChannelsAreCounted'
    BY <1>0, BoundAssumption
    DEF IInv, NumbersTyped, FlagsTyped, ChannelsAreCounted, Crash, Fault,
        ProcessEnds, Busy
  <2>2. FlagsTyped'
    BY <1>0 DEF FlagsTyped, Crash, Fault, ProcessEnds, Busy
  <2>3. QED
    BY <2>1, <2>2
<1>3. AttemptsAreLeft' /\ MessagesAreOnce'
  BY <1>0, OptionAssumption
  DEF IInv, TasksTyped, AttemptsAreLeft, MessagesAreOnce, Crash, Fault,
      ProcessEnds, Busy
<1>4. ChannelsAreKnown'
  BY <1>0
  DEF IInv, SetsTyped, NumbersTyped, TasksTyped, ChannelsAreCounted,
      ChannelsAreKnown, Busy, Crash, Fault, ProcessEnds
<1>5. AcksAreTrue'
  BY <1>0
  DEF IInv, AcksAreTrue, AckedWasHandled, Crash, Fault, ProcessEnds, Busy
<1>6. RejectionsAreRight'
  BY <1>0, RejectionFrame DEF IInv, SetsTyped, Crash, Fault, ProcessEnds, Busy
<1>7. NothingStuck' /\ DrainIsComplete'
  BY <1>0
  DEF IInv, NumbersTyped, ChannelsAreCounted, ChannelsAreKnown, NothingStuck,
      DrainIsComplete, ClosedIsQuiet, InFlight, Busy, Crash, Fault, ProcessEnds
<1>8. QED
  BY <1>1, <1>2, <1>3, <1>4, <1>5, <1>6, <1>7, Types DEF IInv

(* The same after close(). *)
LEMMA ExitKeeps ==
  ASSUME IInv, Exit
  PROVE  IInv'
<1>0. SetsTyped /\ NumbersTyped /\ FlagsTyped /\ TasksTyped /\ CacheTyped
  BY Types DEF IInv
<1>1. SetsTyped' /\ TasksTyped' /\ CacheTyped'
  <2>1. SetsTyped'
    BY <1>0, DeliveryParts DEF SetsTyped, Exit, ProcessEnds, Busy
  <2>2. TasksTyped' /\ CacheTyped'
    BY <1>0, OptionAssumption
    DEF TasksTyped, CacheTyped, Exit, ProcessEnds, Busy
  <2>3. QED
    BY <2>1, <2>2
<1>2. NumbersTyped' /\ FlagsTyped' /\ ChannelsAreCounted'
  BY <1>0, BoundAssumption
  DEF IInv, NumbersTyped, FlagsTyped, ChannelsAreCounted, Exit, ProcessEnds,
      Busy
<1>3. AttemptsAreLeft' /\ MessagesAreOnce'
  BY <1>0, OptionAssumption
  DEF IInv, TasksTyped, AttemptsAreLeft, MessagesAreOnce, Exit, ProcessEnds,
      Busy
<1>4. ChannelsAreKnown'
  BY <1>0
  DEF IInv, SetsTyped, NumbersTyped, TasksTyped, ChannelsAreCounted,
      ChannelsAreKnown, Busy, Exit, ProcessEnds
<1>5. AcksAreTrue'
  BY <1>0 DEF IInv, AcksAreTrue, AckedWasHandled, Exit, ProcessEnds, Busy
<1>6. RejectionsAreRight'
  BY <1>0, RejectionFrame DEF IInv, SetsTyped, Exit, ProcessEnds, Busy
<1>7. NothingStuck' /\ DrainIsComplete'
  BY <1>0
  DEF IInv, NumbersTyped, ChannelsAreCounted, ChannelsAreKnown, NothingStuck,
      DrainIsComplete, ClosedIsQuiet, InFlight, Busy, Exit, ProcessEnds
<1>8. QED
  BY <1>1, <1>2, <1>3, <1>4, <1>5, <1>6, <1>7, Types DEF IInv

(* A step of a handler keeps messages where they are. *)
LEMMA PlacesKept ==
  ASSUME IInv, NEW d \in Deliveries, DeliveryStep(d)
  PROVE  /\ NumbersTyped' /\ FlagsTyped' /\ ChannelsAreCounted'
         /\ MessagesAreOnce' /\ ChannelsAreKnown'
         /\ NothingStuck' /\ DrainIsComplete'
<1>1. /\ UNCHANGED <<broker, channel, shutdown, faults>>
      /\ Busy(d) /\ task'[d] # "none"
      /\ \A e \in Deliveries \ {d} : task'[e] = task[e]
  BY Stepped
<1>2. /\ task \in [Deliveries -> {"none", "handling", "waiting", "over"}]
      /\ unacked \subseteq Deliveries
  BY DEF IInv, TypeOK
<1>3. NumbersTyped' /\ FlagsTyped' /\ ChannelsAreCounted' /\ MessagesAreOnce'
  BY <1>1, Types
  DEF IInv, NumbersTyped, FlagsTyped, ChannelsAreCounted, MessagesAreOnce,
      broker, shutdown
<1>4. \A e \in Deliveries : Busy(e)' => Busy(e)
  BY <1>1 DEF Busy
<1>5. ChannelsAreKnown'
  <2>1. /\ channel' \notin closing' /\ \A c \in closing' : c <= opened'
        /\ \A e \in Deliveries : task'[e] # "none" => e[2] <= opened'
        /\ \A e \in Deliveries : Busy(e)' /\ e[2] = channel' => e \in unacked'
        /\ \A e \in unacked' : e[2] = channel' \/ e[2] \in closing'
    BY <1>1, <1>4 DEF IInv, ChannelsAreKnown, broker, Busy
  <2>2. \A a \in answers : a.delivery \in unacked /\ a.delivery # d
                           /\ task'[a.delivery] = "over"
    BY <1>1, <1>2 DEF IInv, ChannelsAreKnown, Busy
  <2>3. CASE answers' = answers
    BY <1>1, <2>1, <2>2, <2>3 DEF IInv, ChannelsAreKnown, broker, Busy
  <2>4. ASSUME NEW out \in {"ack", "dead-letter"},
               answers' = answers \cup {Answer(d, out)},
               task'[d] = "over", d[2] = channel
        PROVE  ChannelsAreKnown'
    <3>1. Answer(d, out).delivery = d /\ d \in unacked'
      BY <1>1, <2>4 DEF Answer, IInv, ChannelsAreKnown, broker
    <3>2. QED
      BY <1>1, <2>1, <2>2, <2>4, <3>1 DEF IInv, ChannelsAreKnown, broker, Busy
  <2>5. QED
    BY <2>3, <2>4, Stepped
<1>6. NothingStuck'
  <2>1. answers \subseteq answers'
    BY Stepped
  <2>2. ASSUME NEW e \in unacked, e # d
        PROVE  \/ Busy(e)'
               \/ \E a \in answers' : a.delivery = e
               \/ e[2] \in closing'
               \/ mode' # "running"
    BY <1>1, <1>2, <2>1, <2>2 DEF IInv, NothingStuck, Busy, broker, shutdown
  <2>3. ASSUME d \in unacked
        PROVE  \/ Busy(d)'
               \/ \E a \in answers' : a.delivery = d
               \/ d[2] \in closing'
               \/ mode' # "running"
    <3>1. CASE task'[d] # "over"
      BY <3>1, Stepped DEF Busy
    <3>2. CASE mode # "running" \/ channel # d[2]
      BY <1>1, <2>3, <3>2 DEF IInv, ChannelsAreKnown, broker, shutdown
    <3>3. ASSUME NEW out \in {"ack", "dead-letter"},
                 answers' = answers \cup {Answer(d, out)}
          PROVE  \E a \in answers' : a.delivery = d
      BY <3>3, AnswerFields
    <3>4. QED
      BY <3>1, <3>2, <3>3, Stepped
  <2>4. QED
    BY <1>1, <2>2, <2>3 DEF NothingStuck, broker
<1>7. DrainIsComplete'
  BY <1>1, <1>4
  DEF IInv, DrainIsComplete, ClosedIsQuiet, InFlight, shutdown
<1>8. QED
  BY <1>3, <1>5, <1>6, <1>7

(* Handlers remember, acknowledge and reject as they should. *)
LEMMA DeliveryStepKeeps ==
  ASSUME IInv, NEW d \in Deliveries, DeliveryStep(d)
  PROVE  IInv'
<1>1. SetsTyped /\ TasksTyped /\ CacheTyped
  BY Types DEF IInv
<1>2. EventOf[d[1]] \in Events
  BY DeliveryParts, MessageAssumption
<1>3. SetsTyped'
  BY <1>1, <1>2
  DEF DeliveryStep, HandlerSucceeds, HandlerRefuses, HandlerFails, Retry,
      Settle, SetsTyped, broker, shutdown
<1>4. TasksTyped' /\ AttemptsAreLeft'
  <2>1. CASE HandlerSucceeds(d) \/ HandlerRefuses(d)
    BY <1>1, <2>1, OptionAssumption
    DEF HandlerSucceeds, HandlerRefuses, Finish, Goto, TasksTyped, IInv,
        AttemptsAreLeft
  <2>2. CASE HandlerFails(d)
    BY <1>1, <2>2, OptionAssumption
    DEF HandlerFails, Exhausted, Goto, TasksTyped, IInv, AttemptsAreLeft
  <2>3. CASE Retry(d)
    <3>1. attempt[d] \in 0..MaxAttempts /\ attempt[d] < MaxAttempts
      BY <1>1, <2>3 DEF Retry, TasksTyped, IInv, AttemptsAreLeft
    <3>2. attempt[d] + 1 \in 0..MaxAttempts /\ 0 \in 0..MaxAttempts
      BY <3>1, OptionAssumption
    <3>3. QED
      BY <1>1, <2>3, <3>2
      DEF Retry, Finish, Goto, TasksTyped, IInv, AttemptsAreLeft
  <2>4. QED
    BY <2>1, <2>2, <2>3 DEF DeliveryStep
<1>5. CacheTyped' /\ AcksAreTrue'
  <2>1. CASE HandlerSucceeds(d)
    <3>1. recent' = Add(recent, EventOf[d[1]])
      BY <2>1 DEF HandlerSucceeds
    <3>2. CacheTyped'
      BY <1>1, <1>2, <3>1, Remembered DEF CacheTyped
    <3>3. \A i \in 1..Len(recent') : \/ recent'[i] = EventOf[d[1]]
                                     \/ \E j \in 1..Len(recent) :
                                          recent'[i] = recent[j]
      BY <1>1, <1>2, <3>1, Remembered DEF CacheTyped
    <3>4. \A i \in 1..Len(recent') : recent'[i] \in handled'
      BY <2>1, <3>3 DEF IInv, AcksAreTrue, HandlerSucceeds
    <3>5. \A a \in answers' : a \in answers \/ a.delivery = d
      BY <2>1 DEF HandlerSucceeds, Settle
    <3>6. handled' = handled \cup {EventOf[d[1]]} /\ acked' = acked
      BY <2>1 DEF HandlerSucceeds, broker
    <3>7. QED
      BY <3>2, <3>4, <3>5, <3>6 DEF IInv, AcksAreTrue, AckedWasHandled
  <2>2. CASE HandlerRefuses(d) \/ HandlerFails(d) \/ Retry(d)
    BY <1>1, <2>2
    DEF HandlerRefuses, HandlerFails, Retry, Settle, broker, CacheTyped,
        IInv, AcksAreTrue, AckedWasHandled
  <2>3. QED
    BY <2>1, <2>2 DEF DeliveryStep
<1>6. RejectionsAreRight'
  <2>1. \A e \in Deliveries : Hopeless(e) => Hopeless(e)'
    BY <1>1, Stepped, HopelessStays DEF Busy
  <2>2. \A a \in answers' : a \in answers \/ a.delivery = d
    BY Stepped DEF Answer
  <2>3. \A a \in answers' \ answers : a.outcome = "dead-letter" => Hopeless(d)'
    <3>1. CASE HandlerSucceeds(d)
      BY <3>1 DEF HandlerSucceeds, Settle
    <3>2. CASE HandlerRefuses(d)
      BY <3>2 DEF HandlerRefuses, Hopeless
    <3>3. CASE HandlerFails(d)
      <4>1. Exhausted(d) => attempt[d] = MaxAttempts
        BY <1>1, OptionAssumption DEF Exhausted, TasksTyped
      <4>2. QED
        BY <1>1, <3>3, <4>1 DEF HandlerFails, Hopeless, Goto, TasksTyped
    <3>4. CASE Retry(d)
      BY <3>4 DEF Retry
    <3>5. QED
      BY <3>1, <3>2, <3>3, <3>4 DEF DeliveryStep
  <2>4. dead' = dead /\ \A m \in dead, c \in Channels : <<m, c>> \in Deliveries
    BY <1>1, DeliveryParts, Stepped DEF broker, SetsTyped
  <2>5. QED
    BY <1>1, <2>1, <2>2, <2>3, <2>4 DEF IInv, RejectionsAreRight, SetsTyped
<1>7. QED
  BY <1>3, <1>4, <1>5, <1>6, PlacesKept, Types DEF IInv

(* The broker delivers only what is in the queue, and on the channel. *)
LEMMA DeliverKeeps ==
  ASSUME IInv, NEW m \in Messages, Deliver(m)
  PROVE  IInv'
<1>0. PICK d : d = <<m, channel>>
  OBVIOUS
<1>1. SetsTyped /\ NumbersTyped /\ FlagsTyped /\ TasksTyped /\ CacheTyped
  BY Types DEF IInv
<1>2. /\ d \in Deliveries /\ d[1] = m /\ d[2] = channel /\ d \notin unacked
      /\ task[d] \in {"none", "over"}
      /\ \A e \in Deliveries \ {d} : task'[e] = task[e] /\ attempt'[e] = attempt[e]
  BY <1>0, Delivered
<1>3. /\ queue' = queue \ {m} /\ m \in queue /\ unacked' = unacked \cup {d}
      /\ UNCHANGED <<dead, acked, closing, opened, channel, consuming, handled,
                     refused, shutdown, faults>>
  BY <1>0 DEF Deliver
<1>4. \/ /\ m \in Malformed /\ task'[d] = "over"
         /\ answers' = answers \cup {Answer(d, "dead-letter")}
      \/ /\ Contains(recent, EventOf[m]) /\ task'[d] = "over"
         /\ answers' = answers \cup {Answer(d, "ack")}
      \/ task'[d] = "handling" /\ answers' = answers
  BY <1>0, Delivered
<1>5. SetsTyped' /\ NumbersTyped' /\ FlagsTyped' /\ ChannelsAreCounted'
  <2>1. \A a \in answers' \ answers :
          a \in [delivery : Deliveries, outcome : {"ack", "dead-letter"}]
    BY <1>2, <1>4 DEF Answer
  <2>2. SetsTyped'
    BY <1>1, <1>2, <1>3, <2>1 DEF SetsTyped, shutdown
  <2>3. NumbersTyped' /\ FlagsTyped' /\ ChannelsAreCounted'
    BY <1>1, <1>3
    DEF NumbersTyped, FlagsTyped, IInv, ChannelsAreCounted, shutdown
  <2>4. QED
    BY <2>2, <2>3
<1>6. TasksTyped' /\ CacheTyped' /\ AttemptsAreLeft'
  <2>1. 1 \in 0..MaxAttempts
    BY OptionAssumption
  <2>2. TasksTyped' /\ CacheTyped'
    BY <1>1, <2>1
    DEF Deliver, RejectMalformed, SkipDuplicate, StartHandler, Goto,
        TasksTyped, CacheTyped
  <2>3. task'[d] # "waiting"
    BY <1>4
  <2>4. QED
    BY <1>2, <2>2, <2>3 DEF IInv, AttemptsAreLeft
<1>7. MessagesAreOnce'
  BY <1>2, <1>3 DEF IInv, MessagesAreOnce
<1>8. ChannelsAreKnown'
  <2>1. \A a \in answers : a.delivery \in unacked /\ a.delivery # d
                           /\ task'[a.delivery] = "over"
    BY <1>1, <1>2 DEF IInv, ChannelsAreKnown, SetsTyped
  <2>2. \A a \in answers' \ answers : a.delivery = d /\ task'[d] = "over"
    BY <1>4, AnswerFields
  <2>3. \A a, b \in answers' \ answers : a = b
    BY <1>4, AnswerFields
  <2>4. \A a, b \in answers' : a.delivery = b.delivery => a = b
    BY <2>1, <2>2, <2>3 DEF IInv, ChannelsAreKnown
  <2>5. \A a \in answers' : a.delivery \in unacked' /\ task'[a.delivery] = "over"
    BY <1>3, <2>1, <2>2
  <2>6. channel <= opened
    BY <1>1, BoundAssumption DEF NumbersTyped
  <2>7. /\ \A e \in Deliveries : task'[e] # "none" => e[2] <= opened'
        /\ \A e \in Deliveries : Busy(e)' /\ e[2] = channel' => e \in unacked'
    BY <1>2, <1>3, <2>6 DEF IInv, ChannelsAreKnown, Busy
  <2>8. QED
    BY <1>2, <1>3, <2>4, <2>5, <2>7 DEF IInv, ChannelsAreKnown
<1>9. AcksAreTrue'
  <2>1. recent' = recent
    BY Delivered
  <2>2. Contains(recent, EventOf[m]) => EventOf[m] \in handled
    BY DEF IInv, AcksAreTrue, Contains
  <2>3. \A a \in answers' \ answers : a.outcome = "ack" =>
          a.delivery = d /\ Contains(recent, EventOf[m])
    BY <1>4, AnswerFields
  <2>4. QED
    BY <1>2, <1>3, <2>1, <2>2, <2>3 DEF IInv, AcksAreTrue, AckedWasHandled
<1>10. RejectionsAreRight'
  <2>1. \A e \in Deliveries \ {d} : Hopeless(e) => Hopeless(e)'
    BY <1>2, <1>3 DEF Hopeless
  <2>2. \A a \in answers : a.delivery \in Deliveries \ {d}
    BY <1>1, <1>2 DEF IInv, ChannelsAreKnown, SetsTyped
  <2>3. \A a \in answers' \ answers : a.outcome = "dead-letter" =>
          a.delivery = d /\ d[1] \in Malformed
    BY <1>2, <1>4, AnswerFields
  <2>4. \A n \in dead, c \in Channels : <<n, c>> \in Deliveries \ {d}
    BY <1>0, <1>1, <1>2, <1>3, DeliveryParts
    DEF IInv, MessagesAreOnce, SetsTyped
  <2>5. \A a \in answers' : a.outcome = "dead-letter" => Hopeless(a.delivery)'
    BY <2>1, <2>2, <2>3 DEF IInv, RejectionsAreRight, Hopeless
  <2>6. \A n \in dead' : \E c \in Channels : Hopeless(<<n, c>>)'
    BY <1>3, <2>1, <2>4 DEF IInv, RejectionsAreRight
  <2>7. QED
    BY <2>5, <2>6 DEF RejectionsAreRight
<1>11. NothingStuck'
  <2>1. Busy(d)' \/ \E a \in answers' : a.delivery = d
    <3>1. CASE task'[d] = "handling"
      BY <3>1 DEF Busy
    <3>2. CASE \E out : answers' = answers \cup {Answer(d, out)}
      BY <3>2, AnswerFields
    <3>3. QED
      BY <1>4, <3>1, <3>2
  <2>2. \A e \in unacked : e \in Deliveries \ {d}
    BY <1>1, <1>2 DEF SetsTyped
  <2>3. answers \subseteq answers'
    BY <1>4
  <2>4. ASSUME NEW e \in unacked
        PROVE  \/ Busy(e)'
               \/ \E a \in answers' : a.delivery = e
               \/ e[2] \in closing'
               \/ mode' # "running"
    BY <1>2, <1>3, <2>2, <2>3 DEF IInv, NothingStuck, Busy, shutdown
  <2>5. QED
    BY <1>3, <2>1, <2>4 DEF NothingStuck, Busy
<1>12. DrainIsComplete'
  <2>1. mode \notin {"draining", "closed"}
    BY DEF Deliver, IInv, ChannelsAreCounted
  <2>2. QED
    BY <1>3, <2>1 DEF DrainIsComplete, ClosedIsQuiet, shutdown
<1>13. QED
  BY <1>5, <1>6, <1>7, <1>8, <1>9, <1>10, <1>11, <1>12, Types DEF IInv

(* Every step keeps the inductive invariant. *)
LEMMA Inductive == IInv /\ [Next]_vars => IInv'
<1> SUFFICES ASSUME IInv, [Next]_vars PROVE IInv'
  OBVIOUS
<1>1. CASE \E d \in Deliveries : DeliveryStep(d)
  BY <1>1, DeliveryStepKeeps
<1>2. CASE BrokerStep
  BY <1>2, DeliverKeeps, AnsweredKeeps, ChannelClosesKeeps DEF BrokerStep
<1>3. CASE Subscribe \/ CancelConsumers \/ Drain \/ Reopen \/ Exit
  BY <1>3, SubscribeKeeps, CancelConsumersKeeps, DrainKeeps, ReopenKeeps,
     ExitKeeps
<1>4. CASE \E c \in Channels : ConnectionLost(c)
  BY <1>4, ConnectionLostKeeps
<1>5. CASE ConsumerCancelled \/ Close \/ Crash
  BY <1>5, ConsumerCancelledKeeps, CloseKeeps, CrashKeeps
<1>6. CASE UNCHANGED vars
  <2>1. TypeOK' /\ AttemptsAreLeft' /\ ChannelsAreCounted' /\ MessagesAreOnce'
    BY <1>6 DEF IInv, TypeOK, AttemptsAreLeft, ChannelsAreCounted,
       MessagesAreOnce, vars
  <2>2. ChannelsAreKnown' /\ NothingStuck' /\ DrainIsComplete'
    BY <1>6 DEF IInv, ChannelsAreKnown, NothingStuck, Busy, DrainIsComplete,
       ClosedIsQuiet, InFlight, vars
  <2>3. AcksAreTrue' /\ RejectionsAreRight'
    BY <1>6 DEF IInv, AcksAreTrue, AckedWasHandled, RejectionsAreRight,
       Hopeless, vars
  <2>4. QED
    BY <2>1, <2>2, <2>3 DEF IInv
<1>7. QED
  BY <1>1, <1>2, <1>3, <1>4, <1>5, <1>6 DEF Next, Progress
-----------------------------------------------------------------------------
(* The inductive invariant holds in all reachable states. *)
THEOREM Invariance == Spec => []IInv
<1>1. IInv /\ [Next]_vars => IInv'
  BY Inductive
<1>2. QED
  BY Initial, <1>1, PTL DEF Spec

(* All variables keep their types: the cache stays within its size, attempts *)
(* within handlerMaxAttempts.                                                *)
THEOREM TypeCorrect == Spec => []TypeOK
<1>1. IInv => TypeOK
  BY DEF IInv
<1>2. QED
  BY <1>1, Invariance, PTL

(* handleDelivery acknowledges nothing whose event no handler completed. *)
THEOREM AcksAreHonest == Spec => []AckedWasHandled
<1>1. IInv => AckedWasHandled
  BY DEF IInv, AcksAreTrue
<1>2. QED
  BY <1>1, Invariance, PTL

(* handleDelivery gives up malformed, refused and exhausted messages only. *)
THEOREM OnlyHopelessAreDead == Spec => []DeadLettersAreHopeless
<1>1. IInv => DeadLettersAreHopeless
  <2>1. SUFFICES ASSUME IInv, NEW m \in dead
                 PROVE  \/ m \in Malformed
                        \/ \E c \in Channels :
                             \/ <<m, c>> \in refused
                             \/ attempt[<<m, c>>] = MaxAttempts
    BY DEF DeadLettersAreHopeless
  <2>2. PICK c \in Channels : Hopeless(<<m, c>>)
    BY <2>1 DEF IInv, RejectionsAreRight
  <2>3. QED
    BY <2>2 DEF Hopeless
<1>2. QED
  BY <1>1, Invariance, PTL

(* No delivery is left without handler, answer or a channel about to close. *)
THEOREM NothingGetsStuck == Spec => []NothingStuck
<1>1. IInv => NothingStuck
  BY DEF IInv
<1>2. QED
  BY <1>1, Invariance, PTL

(* No handler runs once close() has waited for all of them. *)
THEOREM ClosingIsQuiet == Spec => []ClosedIsQuiet
<1>1. IInv => ClosedIsQuiet
  BY DEF IInv, DrainIsComplete
<1>2. QED
  BY <1>1, Invariance, PTL
===============================================================================
