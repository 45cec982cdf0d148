--------------------------- MODULE MessageDelivery ---------------------------
(***************************************************************************)
(* The consuming side of RabbitMqClient: a subscription of one queue, its  *)
(* deliveries, their retries in place, dead letters, the cache of recent   *)
(* event ids, lost and re-established channels, and close().               *)
(*                                                                         *)
(* A delivery is a message on a channel.  Its acknowledgement (or its      *)
(* rejection to the dead-letter queue) travels to the broker and is lost   *)
(* with the channel; what is unacknowledged when a channel closes returns  *)
(* to the queue.  Handlers keep running when their channel is lost.        *)
(*                                                                         *)
(* "faults" counts lost connections, consumers cancelled by the broker,    *)
(* crashes and calls of close(); each may lead to one more channel.        *)
(***************************************************************************)
EXTENDS Naturals, FiniteSets, SequencesExt

CONSTANTS Messages,       \* messages published to the queue
          Events,         \* events they carry
          EventOf,        \* the event of each message
          Malformed,      \* messages that cannot be decoded
          PrefetchCount,  \* unacknowledged deliveries of the consumer
          MaxAttempts,    \* handlerMaxAttempts
          CacheSize,      \* recentEventIdCacheSize
          MaxFaults       \* bound on the faults of a behaviour

ASSUME MessageAssumption == /\ EventOf \in [Messages -> Events]
                            /\ Malformed \subseteq Messages
ASSUME OptionAssumption == /\ PrefetchCount \in Nat \ {0}
                           /\ MaxAttempts \in Nat \ {0}
                           /\ CacheSize \in Nat
ASSUME BoundAssumption == MaxFaults \in Nat

\* Channels are numbered in the order they are opened; 0 is none.
Channels == 1..MaxFaults + 1

Deliveries == Messages \X Channels

VARIABLES
  queue,      \* messages waiting in the queue
  dead,       \* messages in the dead-letter queue
  acked,      \* messages that were acknowledged
  unacked,    \* deliveries the broker has no answer to
  closing,    \* channels that are being closed
  opened,     \* number of channels opened so far
  channel,    \* the client's channel, or 0
  consuming,  \* the broker has a consumer on it
  answers,    \* answers on their way: [delivery, outcome]
  task,       \* what the client does with each delivery
  attempt,    \* attempts of the handler on each delivery
  recent,     \* recently processed event ids, oldest first
  handled,    \* events for which the handler has returned
  refused,    \* deliveries whose handler threw a PermanentMessageError
  mode,       \* how far close() has got
  awaited,    \* deliveries close() waits for
  timedOut,   \* close() did not wait for all handlers
  faults      \* faults so far

broker == <<queue, dead, acked, unacked, closing, opened, consuming>>
work == <<task, attempt, recent, handled, refused>>
shutdown == <<mode, awaited, timedOut>>
vars == <<queue, dead, acked, unacked, closing, opened, channel, consuming,
          answers, task, attempt, recent, handled, refused, mode, awaited,
          timedOut, faults>>

TypeOK ==
  /\ queue \subseteq Messages
  /\ dead \subseteq Messages
  /\ acked \subseteq Messages
  /\ unacked \subseteq Deliveries
  /\ closing \subseteq Channels
  /\ opened \in 0..MaxFaults + 1
  /\ channel \in 0..opened
  /\ consuming \in BOOLEAN
  /\ answers \subseteq [delivery : Deliveries, outcome : {"ack", "dead-letter"}]
  /\ task \in [Deliveries -> {"none", "handling", "waiting", "over"}]
  /\ attempt \in [Deliveries -> 0..MaxAttempts]
  /\ recent \in Seq(Events) /\ Len(recent) <= CacheSize
  /\ handled \subseteq Events
  /\ refused \subseteq Deliveries
  /\ mode \in {"running", "cancelling", "draining", "closed"}
  /\ awaited \subseteq Deliveries
  /\ timedOut \in BOOLEAN
  /\ faults \in 0..MaxFaults

Init ==
  /\ queue = Messages
  /\ dead = {} /\ acked = {} /\ unacked = {} /\ closing = {}
  /\ opened = 0 /\ channel = 0 /\ consuming = FALSE /\ answers = {}
  /\ task = [d \in Deliveries |-> "none"]
  /\ attempt = [d \in Deliveries |-> 0]
  /\ recent = <<>> /\ handled = {} /\ refused = {}
  /\ mode = "running" /\ awaited = {} /\ timedOut = FALSE
  /\ faults = 0
-----------------------------------------------------------------------------
(* Helpers. *)

\* A fault is one more of a bounded number of things that go wrong.
Fault == faults < MaxFaults /\ faults' = faults + 1

Busy(d) == task[d] \in {"handling", "waiting"}

\* inFlightDeliveries
InFlight == {d \in Deliveries : Busy(d)}

\* What a lost or closed channel leaves unanswered.
UnackedOn(channels) == {d \in unacked : d[2] \in channels}

Goto(d, state) == task' = [task EXCEPT ![d] = state]

\* The delivery is over, and how often it was attempted does not matter.
Finish(d) == Goto(d, "over") /\ attempt' = [attempt EXCEPT ![d] = 0]

\* Faulty variant: a rejection is forgotten.
AnswerAcksOnly(d, out) ==
  answers' = IF d[2] = channel /\ out = "ack"
               THEN answers \cup {[delivery |-> d, outcome |-> out]}
               ELSE answers

\* settle: on a closed channel ack and nack throw, which is logged.
Settle(d, out) ==
  answers' = IF d[2] = channel
               THEN answers \cup {[delivery |-> d, outcome |-> out]}
               ELSE answers

\* RecentEventIds.add
Add(ids, e) ==
  IF CacheSize = 0 \/ Contains(ids, e) THEN ids
  ELSE IF Len(ids) = CacheSize THEN Append(Tail(ids), e)
  ELSE Append(ids, e)

\* Faulty variant: one attempt too few.
ExhaustedEarly(d) == attempt[d] >= MaxAttempts - 1

\* attempt >= maxAttempts
Exhausted(d) == attempt[d] >= MaxAttempts

\* The shutdown signal is aborted, or the client has another channel or none.
Abandoned(d) == mode \in {"cancelling", "draining"} \/ channel # d[2]
-----------------------------------------------------------------------------
(* handleDelivery *)

\* A message that cannot be decoded.
RejectMalformed(d) ==
  /\ d[1] \in Malformed
  /\ Settle(d, "dead-letter")
  /\ Goto(d, "over")
  /\ UNCHANGED <<attempt, recent>>

\* Faulty variant: a duplicate is skipped and not acknowledged.
SkipSilently(d) ==
  /\ d[1] \notin Malformed /\ Contains(recent, EventOf[d[1]])
  /\ Goto(d, "over")
  /\ UNCHANGED <<answers, attempt, recent>>

\* A duplicate of a recent event is acknowledged without reprocessing.
SkipDuplicate(d) ==
  /\ d[1] \notin Malformed /\ Contains(recent, EventOf[d[1]])
  /\ Settle(d, "ack")
  /\ Goto(d, "over")
  /\ UNCHANGED <<attempt, recent>>

\* Faulty variant: the event counts as recent when its handler is called.
StartAndRemember(d) ==
  /\ d[1] \notin Malformed /\ ~Contains(recent, EventOf[d[1]])
  /\ attempt' = [attempt EXCEPT ![d] = 1]
  /\ Goto(d, "handling")
  /\ recent' = Add(recent, EventOf[d[1]])
  /\ UNCHANGED answers

\* The first attempt.
StartHandler(d) ==
  /\ d[1] \notin Malformed /\ ~Contains(recent, EventOf[d[1]])
  /\ attempt' = [attempt EXCEPT ![d] = 1]
  /\ Goto(d, "handling")
  /\ UNCHANGED <<answers, recent>>

\* The broker delivers a message, and the client does all it can do at once.
Deliver(m) ==
  /\ m \in queue
  /\ consuming /\ channel # 0
  /\ Cardinality(UnackedOn({channel})) < PrefetchCount
  /\ queue' = queue \ {m}
  /\ unacked' = unacked \cup {<<m, channel>>}
  /\ \/ RejectMalformed(<<m, channel>>)
     \/ SkipDuplicate(<<m, channel>>)
     \/ StartHandler(<<m, channel>>)
  /\ UNCHANGED <<dead, acked, closing, opened, channel, consuming, handled,
                 refused, shutdown, faults>>

\* The handler returns.
HandlerSucceeds(d) ==
  /\ task[d] = "handling"
  /\ handled' = handled \cup {EventOf[d[1]]}
  /\ recent' = Add(recent, EventOf[d[1]])
  /\ Settle(d, "ack")
  /\ Finish(d)
  /\ UNCHANGED <<broker, channel, refused, shutdown, faults>>

\* The handler throws a PermanentMessageError.
HandlerRefuses(d) ==
  /\ task[d] = "handling"
  /\ refused' = refused \cup {d}
  /\ Settle(d, "dead-letter")
  /\ Finish(d)
  /\ UNCHANGED <<broker, channel, recent, handled, shutdown, faults>>

\* The handler throws another error: a later attempt, or none is left.
HandlerFails(d) ==
  /\ task[d] = "handling"
  /\ IF Exhausted(d)
       THEN Settle(d, "dead-letter") /\ Goto(d, "over")
       ELSE UNCHANGED answers /\ Goto(d, "waiting")
  /\ UNCHANGED <<broker, channel, attempt, recent, handled, refused,
                 shutdown, faults>>

\* The delay before the next attempt is over, or was aborted.
Retry(d) ==
  /\ task[d] = "waiting"
  /\ IF Abandoned(d)
       THEN Finish(d)
       ELSE Goto(d, "handling") /\ attempt' = [attempt EXCEPT ![d] = @ + 1]
  /\ UNCHANGED <<broker, channel, answers, recent, handled, refused,
                 shutdown, faults>>
-----------------------------------------------------------------------------
(* The broker and the channel. *)

\* An answer arrives at the broker.
Answered(a) ==
  /\ a \in answers
  /\ answers' = answers \ {a}
  /\ unacked' = unacked \ {a.delivery}
  /\ IF a.outcome = "ack"
       THEN acked' = acked \cup {a.delivery[1]} /\ UNCHANGED dead
       ELSE dead' = dead \cup {a.delivery[1]} /\ UNCHANGED acked
  /\ UNCHANGED <<queue, closing, opened, channel, consuming, work,
                 shutdown, faults>>

\* The supervisor has connected and subscribed.
Subscribe ==
  /\ mode = "running" /\ channel = 0
  /\ opened' = opened + 1
  /\ channel' = opened + 1
  /\ consuming' = TRUE
  /\ UNCHANGED <<queue, dead, acked, unacked, closing, answers, work,
                 shutdown, faults>>

\* A connection is lost, with everything that was on its way.
ConnectionLost(c) ==
  /\ c = channel \/ c \in closing
  /\ Fault
  /\ queue' = queue \cup {d[1] : d \in UnackedOn({c})}
  /\ unacked' = unacked \ UnackedOn({c})
  /\ answers' = {a \in answers : a.delivery[2] # c}
  /\ closing' = closing \ {c}
  /\ IF c = channel
       THEN channel' = 0 /\ consuming' = FALSE
       ELSE UNCHANGED <<channel, consuming>>
  /\ UNCHANGED <<dead, acked, opened, work, shutdown>>

\* closeResources: the client lets go of its channel and asks to close it.
CloseResources ==
  /\ closing' = IF channel = 0 THEN closing ELSE closing \cup {channel}
  /\ channel' = 0
  /\ consuming' = FALSE

\* handleConsumerCancelledByBroker
ConsumerCancelled ==
  /\ consuming /\ Fault
  /\ CloseResources
  /\ UNCHANGED <<queue, dead, acked, unacked, opened, answers, work, shutdown>>

\* The broker closes a channel, having read what was sent on it before.
ChannelCloses(c) ==
  /\ c \in closing
  /\ \A a \in answers : a.delivery[2] # c
  /\ closing' = closing \ {c}
  /\ queue' = queue \cup {d[1] : d \in UnackedOn({c})}
  /\ unacked' = unacked \ UnackedOn({c})
  /\ UNCHANGED <<dead, acked, opened, channel, consuming, answers, work,
                 shutdown, faults>>
-----------------------------------------------------------------------------
(* close(), crashes and restarts. *)

\* The shutdown signal is aborted; the cancellation of the consumer is sent.
Close ==
  /\ mode = "running" /\ Fault
  /\ mode' = "cancelling"
  /\ UNCHANGED <<broker, channel, answers, work, awaited, timedOut>>

\* Faulty variant: handlers are awaited while messages are still delivered.
SkipCancel ==
  /\ mode = "cancelling"
  /\ mode' = "draining"
  /\ awaited' = InFlight
  /\ UNCHANGED <<queue, dead, acked, unacked, closing, opened, channel,
                 consuming, answers, work, timedOut, faults>>

\* The broker has cancelled the consumer (or it is gone with its channel), and
\* the handlers to wait for are known.
CancelConsumers ==
  /\ mode = "cancelling"
  /\ consuming' = FALSE
  /\ mode' = "draining"
  /\ awaited' = InFlight
  /\ UNCHANGED <<queue, dead, acked, unacked, closing, opened, channel,
                 answers, work, timedOut, faults>>

\* These handlers have finished, or drainTimeoutInMs is over; the channel is
\* closed and the next shutdown signal is not aborted.
Drain ==
  /\ mode = "draining"
  /\ mode' = "closed"
  /\ timedOut' = (awaited \cap InFlight # {})
  /\ awaited' = {}
  /\ CloseResources
  /\ UNCHANGED <<queue, dead, acked, unacked, opened, answers, work, faults>>

\* The client is connected again.
Reopen ==
  /\ mode = "closed"
  /\ mode' = "running" /\ timedOut' = FALSE
  /\ UNCHANGED <<broker, channel, answers, work, awaited, faults>>

\* What is left when the process has ended: the broker's side.
ProcessEnds ==
  /\ queue' = queue \cup {d[1] : d \in unacked}
  /\ unacked' = {} /\ closing' = {} /\ answers' = {}
  /\ channel' = 0 /\ consuming' = FALSE
  /\ task' = [d \in Deliveries |-> IF task[d] = "none" THEN "none" ELSE "over"]
  /\ attempt' = [d \in Deliveries |-> IF Busy(d) THEN 0 ELSE attempt[d]]
  /\ recent' = <<>>
  /\ mode' = "running" /\ awaited' = {} /\ timedOut' = FALSE
  /\ UNCHANGED <<dead, acked, opened, handled, refused>>

\* The process crashes and is started again.
Crash == mode # "closed" /\ Fault /\ ProcessEnds

\* The process exits after close() and is started again.
Exit == mode = "closed" /\ ProcessEnds /\ UNCHANGED faults
-----------------------------------------------------------------------------
DeliveryStep(d) ==
  HandlerSucceeds(d) \/ HandlerRefuses(d) \/ HandlerFails(d) \/ Retry(d)

BrokerStep ==
  \/ \E m \in Messages : Deliver(m)
  \/ \E a \in answers : Answered(a)
  \/ \E c \in Channels : ChannelCloses(c)

\* What goes on by itself, without any fault.
Progress ==
  \/ \E d \in Deliveries : DeliveryStep(d)
  \/ BrokerStep
  \/ Subscribe \/ CancelConsumers \/ Drain \/ Reopen \/ Exit

Next ==
  \/ Progress
  \/ \E c \in Channels : ConnectionLost(c)
  \/ ConsumerCancelled \/ Close \/ Crash

Spec == Init /\ [][Next]_vars

\* As long as anything can go on, something does: handlers return or throw,
\* timers fire, the broker reads and delivers, the supervisor reconnects, and
\* close() ends because its drain is bounded.  All of these come to an end, so
\* none of them can keep another one waiting for ever.
Fairness == WF_vars(Progress)

FairSpec == Spec /\ Fairness
-----------------------------------------------------------------------------
(* Properties. *)

\* An acknowledged message is one whose event a handler has completed, by
\* itself or through a duplicate, before or after any number of reconnections.
AckedWasHandled == \A m \in acked : EventOf[m] \in handled

\* Only hopeless messages are dead-lettered: those that cannot be decoded,
\* those a handler refused, and those that failed maxAttempts times in a row.
DeadLettersAreHopeless ==
  \A m \in dead :
    \/ m \in Malformed
    \/ \E c \in Channels :
         <<m, c>> \in refused \/ attempt[<<m, c>>] = MaxAttempts

\* Nothing gets stuck: a delivery the broker waits for is being worked on, or
\* answered, or its channel is about to close and return it to the queue.
NothingStuck ==
  \A d \in unacked :
    \/ Busy(d)
    \/ \E a \in answers : a.delivery = d
    \/ d[2] \in closing
    \/ mode # "running"

\* Once close() has waited for the handlers, none runs, so that what they use
\* can be closed as well.  A close() that gives up waiting promises nothing here;
\* what its handlers leave is the matter of AckedWasHandled and of
\* EveryMessageSettles.
ClosedIsQuiet == mode = "closed" /\ ~timedOut => InFlight = {}

\* Every message is acknowledged or dead-lettered in the end.
EveryMessageSettles == \A m \in Messages : <>(m \in acked \cup dead)
=============================================================================
