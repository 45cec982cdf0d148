-------------------------- MODULE ConfirmedPublisher --------------------------
(***************************************************************************)
(* The publications of one RabbitMqClient on its channel: publish() of the *)
(* client with its timeout, and the ConfirmedPublisher of the channel,     *)
(* which charges each basic.return to the publication it belongs to and    *)
(* settles a publication when its confirm comes.                           *)
(*                                                                         *)
(* Publications are numbered in the order of the calls; the number is the  *)
(* unique x-publication-id.  The same event may be published any number of *)
(* times at once: by a relay that timed out, by a redelivered handler.     *)
(* Frames travel in order in both directions and are lost when the channel *)
(* closes.  The broker is external: it routes a message to the queues      *)
(* bound at that moment, returns a mandatory one that has none, and        *)
(* confirms or refuses in any order, but after the return.                 *)
(***************************************************************************)
EXTENDS Naturals, Sequences, FiniteSets

CONSTANTS Events,            \* events, each with a routing key of its own
          MaxPublications,   \* bound on the calls of publish()
          MaxChannelFaults   \* bound on refusals and lost channels

ASSUME PublisherBounds == MaxPublications \in Nat /\ MaxChannelFaults \in Nat

VARIABLES
  event,         \* the event of each publication: its messageId
  outcome,       \* what the caller of publish() was told, or "waiting"
  pending,       \* the keys of the publisher's map
  returned,      \* those whose value is set: a return has arrived
  open,          \* the client's channel is open
  toBroker,      \* frames on their way to the broker
  unconfirmed,   \* publications the broker has taken and not confirmed
  fromBroker,    \* frames on their way back
  bound,         \* events whose routing key has a queue
  routed,        \* publications that were put into a queue
  channelFaults  \* refusals and lost channels so far

publisher == <<pending, returned>>
broker == <<unconfirmed, bound, routed>>
frames == <<toBroker, fromBroker>>
pubVars == <<event, outcome, pending, returned, open, toBroker, unconfirmed,
             fromBroker, bound, routed, channelFaults>>

Ids == 1..MaxPublications
Publications == 1..Len(event)

Outcomes == {"waiting", "resolved", "unroutable", "failed", "timedOut"}

PublisherTypeOK ==
  /\ event \in Seq(Events) /\ Len(event) <= MaxPublications
  /\ outcome \in Seq(Outcomes) /\ Len(outcome) = Len(event)
  /\ pending \subseteq Publications /\ returned \subseteq pending
  /\ open \in BOOLEAN
  /\ toBroker \in Seq([id : Ids, header : Ids, mandatory : BOOLEAN])
  /\ fromBroker \in Seq([type : {"return", "ack", "nack"}, id : Ids])
  /\ unconfirmed \subseteq Publications
  /\ bound \subseteq Events
  /\ routed \subseteq Publications
  /\ channelFaults \in 0..MaxChannelFaults

\* The client is connected and some queues do not exist yet.
PublisherInit ==
  /\ event = <<>> /\ outcome = <<>>
  /\ pending = {} /\ returned = {} /\ open = TRUE
  /\ toBroker = <<>> /\ unconfirmed = {} /\ fromBroker = <<>>
  /\ bound = {} /\ routed = {}
  /\ channelFaults = 0
-----------------------------------------------------------------------------
(* Helpers. *)

ChannelFault ==
  channelFaults < MaxChannelFaults /\ channelFaults' = channelFaults + 1

\* Faulty variant: an unroutable message is dropped and confirmed.
FrameNotMandatory(i) == [id |-> i, header |-> i, mandatory |-> FALSE]

\* What publish() sends: mandatory, with the publication's id as a header.
Frame(i) == [id |-> i, header |-> i, mandatory |-> TRUE]

\* Faulty variant: a caller that has left is told all the same.
ToldLate(S, answer) ==
  outcome' = [i \in DOMAIN outcome |-> IF i \in S THEN answer ELSE outcome[i]]

\* The promises of S are settled; who has left already does not hear of it.
Told(S, answer) ==
  outcome' = [i \in DOMAIN outcome |->
                IF i \in S /\ outcome[i] = "waiting" THEN answer
                                                     ELSE outcome[i]]

\* Faulty variant: the return is charged to the latest publication of its event.
ReturnOfLatest(h) ==
  returned' = returned \cup {i \in pending : /\ event[i] = event[h]
                                             /\ \A j \in pending :
                                                  event[j] = event[h] => j <= i}

\* The "return" listener: a publication that is not pending is ignored.
OnReturn(h) == returned' = returned \cup ({h} \cap pending)

\* Faulty variant: the entry of a returned publication is left behind.
SettleKeeping(i, error) ==
  /\ IF i \in returned THEN UNCHANGED pending ELSE pending' = pending \ {i}
  /\ returned' = returned \ {i}
  /\ Told({i}, IF error THEN "failed"
               ELSE IF i \in returned THEN "unroutable" ELSE "resolved")

\* settle(), the confirm callback of a publication.
Settle(i, error) ==
  /\ pending' = pending \ {i}
  /\ returned' = returned \ {i}
  /\ Told({i}, IF error THEN "failed"
               ELSE IF i \in returned THEN "unroutable" ELSE "resolved")
-----------------------------------------------------------------------------
(* publish() *)

\* The entry is made and the message sent.
PublishEvent(e) ==
  /\ open /\ Len(event) < MaxPublications
  /\ LET i == Len(event) + 1 IN
       /\ event' = Append(event, e)
       /\ outcome' = Append(outcome, "waiting")
       /\ pending' = pending \cup {i}
       /\ toBroker' = Append(toBroker, Frame(i))
  /\ UNCHANGED <<returned, open, fromBroker, broker, channelFaults>>

\* The channel has closed: channel.publish throws, and the entry goes.
PublishThrows(e) ==
  /\ ~open /\ Len(event) < MaxPublications
  /\ event' = Append(event, e)
  /\ outcome' = Append(outcome, "failed")
  /\ UNCHANGED <<publisher, open, frames, broker, channelFaults>>

\* publishTimeoutInMs is over, or the caller aborts: it leaves with an error,
\* the entry stays until its confirm comes.
WaitTimeout(i) ==
  /\ i \in Publications /\ outcome[i] = "waiting"
  /\ Told({i}, "timedOut")
  /\ UNCHANGED <<event, publisher, open, frames, broker, channelFaults>>

\* The next frame from the broker is handled.
Receive ==
  /\ fromBroker # <<>>
  /\ LET frame == Head(fromBroker) IN
       IF frame.type = "return"
         THEN OnReturn(frame.id) /\ UNCHANGED <<pending, outcome>>
         ELSE Settle(frame.id, frame.type = "nack")
  /\ fromBroker' = Tail(fromBroker)
  /\ UNCHANGED <<event, open, toBroker, broker, channelFaults>>
-----------------------------------------------------------------------------
(* The broker (external). *)

\* The next message is routed, or returned, or dropped.
BrokerTakes ==
  /\ toBroker # <<>>
  /\ LET frame == Head(toBroker) IN
       /\ IF event[frame.id] \in bound
            THEN routed' = routed \cup {frame.id} /\ UNCHANGED fromBroker
            ELSE /\ fromBroker' = IF frame.mandatory
                       THEN Append(fromBroker,
                                   [type |-> "return", id |-> frame.header])
                       ELSE fromBroker
                 /\ UNCHANGED routed
       /\ unconfirmed' = unconfirmed \cup {frame.id}
  /\ toBroker' = Tail(toBroker)
  /\ UNCHANGED <<event, outcome, publisher, open, bound, channelFaults>>

Answer(i, type) ==
  /\ i \in unconfirmed
  /\ unconfirmed' = unconfirmed \ {i}
  /\ fromBroker' = Append(fromBroker, [type |-> type, id |-> i])
  /\ UNCHANGED <<event, outcome, publisher, open, toBroker, bound, routed>>

BrokerConfirms(i) == Answer(i, "ack") /\ UNCHANGED channelFaults

BrokerRefuses(i) == Answer(i, "nack") /\ ChannelFault

\* Some service declares the queue of an event.
BindQueue(e) ==
  /\ e \notin bound
  /\ bound' = bound \cup {e}
  /\ UNCHANGED <<event, outcome, publisher, open, frames, unconfirmed, routed,
                 channelFaults>>
-----------------------------------------------------------------------------
(* The channel. *)

\* The channel is lost, with what was on the way.  The library calls the
\* outstanding callbacks back with an error, or it does not.
ChannelCloses ==
  /\ open /\ ChannelFault
  /\ open' = FALSE
  /\ toBroker' = <<>> /\ fromBroker' = <<>> /\ unconfirmed' = {}
  /\ \/ pending' = {} /\ returned' = {} /\ Told(pending, "failed")
     \/ UNCHANGED <<publisher, outcome>>
  /\ UNCHANGED <<event, bound, routed>>

\* createChannel: the new channel has a publisher of its own.
Reopen ==
  /\ ~open
  /\ open' = TRUE
  /\ pending' = {} /\ returned' = {}
  /\ UNCHANGED <<event, outcome, frames, broker, channelFaults>>
-----------------------------------------------------------------------------
\* What the client and the broker do in the course of things.
Progress ==
  \/ Receive \/ BrokerTakes \/ Reopen
  \/ \E i \in Ids : BrokerConfirms(i) \/ WaitTimeout(i)

PublisherNext ==
  \/ Progress
  \/ \E e \in Events : PublishEvent(e) \/ PublishThrows(e) \/ BindQueue(e)
  \/ \E i \in Ids : BrokerRefuses(i)
  \/ ChannelCloses

PublisherSpec == PublisherInit /\ [][PublisherNext]_pubVars

\* The timer fires, the broker answers and the client reconnects; each happens
\* finitely often, so that none of them keeps another from happening.
FairPublisherSpec == PublisherSpec /\ WF_pubVars(Progress)
-----------------------------------------------------------------------------
(* Properties. *)

\* The answers of publish() are about the caller's own copy, however many
\* publications of its event are under way: who is told of success has a copy
\* in a queue, and who is told that the message was unroutable has none.
OutcomesAreTrue ==
  \A i \in Publications :
    /\ outcome[i] = "resolved" => i \in routed
    /\ outcome[i] = "unroutable" => i \notin routed

Promise == INSTANCE PublisherPromise

\* The caller of publish() is answered once, and for good: a confirm, a return
\* or a lost channel that comes after the timeout changes no answer, and a
\* message that was told to be unroutable never reaches a queue later.
PromiseKept == Promise!Spec

UnderWay(i) ==
  i \in pending \/ (i \in Publications /\ outcome[i] = "waiting")

\* A caller is not kept waiting and the publisher's map does not leak: each
\* publication leaves both, whether it is confirmed, returned, refused, too
\* late or lost with its channel.
EveryPublicationEnds == \A i \in Ids : []<>~UnderWay(i)
===============================================================================
