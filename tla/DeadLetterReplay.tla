--------------------------- MODULE DeadLetterReplay ---------------------------
(***************************************************************************)
(* replayDeadLetters: an operator's tool moves the dead letters of a queue *)
(* back to it, one by one, and acknowledges each after the broker has      *)
(* confirmed its copy.                                                     *)
(* Source: src/tools/cli/src/deadLetters.ts.                               *)
(***************************************************************************)
EXTENDS EventRouting, FiniteSetsExt

CONSTANT None  \* no queue, no message

ASSUME NoneAssumption == None \notin Queues \cup Messages

VARIABLES
  source,   \* the queue whose dead letters are replayed
  left,     \* maximum - replayed
  letter,   \* the dead letter the tool has fetched
  confirmed \* its copy is published and confirmed

tool == <<source, left, letter, confirmed>>

ToolInit == source = None /\ left = 0 /\ letter = None /\ confirmed = FALSE

\* messageCount
DeadLetters(q) ==
  MapThenSumSet(LAMBDA m : dead[m], {m \in Messages : m.queue = q})
-----------------------------------------------------------------------------
\* The tool counts the dead letters; --limit may ask for fewer.
StartReplay(q) ==
  /\ source = None
  /\ \E n \in 1..DeadLetters(q) : left' = n
  /\ source' = q
  /\ UNCHANGED <<letter, confirmed, sent, queue, dead>>

\* channel.get
GetLetter(m) ==
  /\ source = m.queue /\ letter = None
  /\ left > 0 /\ dead[m] > 0
  /\ letter' = m
  /\ dead' = Moved(dead, {}, {m})
  /\ UNCHANGED <<source, left, confirmed, sent, queue>>

\* Published to the queue itself, not to the others with its routing key.
Republish ==
  /\ letter # None /\ ~confirmed
  /\ queue' = Moved(queue, {letter}, {})
  /\ confirmed' = TRUE
  /\ UNCHANGED <<source, left, letter, sent, dead>>

\* Faulty variant: whatever there is is replayed.
AckAndGoOn ==
  /\ confirmed
  /\ letter' = None /\ confirmed' = FALSE
  /\ UNCHANGED <<source, left, sent, queue, dead>>

AckLetter ==
  /\ confirmed
  /\ letter' = None /\ confirmed' = FALSE
  /\ left' = left - 1
  /\ UNCHANGED <<source, sent, queue, dead>>

EndReplay ==
  /\ source # None /\ letter = None
  /\ left = 0 \/ DeadLetters(source) = 0
  /\ source' = None /\ left' = 0
  /\ UNCHANGED <<letter, confirmed, sent, queue, dead>>

\* Faulty variant: the dead letter was fetched without acknowledgement.
LetterLost ==
  /\ source # None
  /\ source' = None /\ left' = 0
  /\ letter' = None /\ confirmed' = FALSE
  /\ UNCHANGED <<sent, queue, dead>>

\* The tool or its channel ends: what it has not acknowledged is put back.
ReplayFails ==
  /\ source # None
  /\ dead' = Moved(dead, {letter}, {})
  /\ source' = None /\ left' = 0
  /\ letter' = None /\ confirmed' = FALSE
  /\ UNCHANGED <<sent, queue>>

ReplayStep ==
  Republish \/ AckLetter \/ EndReplay \/ \E m \in Messages : GetLetter(m)
=============================================================================
