-------------------------- MODULE PublisherPromise --------------------------
(***************************************************************************)
(* What publish() promises to its callers, independently of channels,      *)
(* returns and confirms: each call is answered once; success means that    *)
(* the message is in a queue, and "unroutable" that it is in none and      *)
(* never will be.  Of any other answer nothing follows.                    *)
(***************************************************************************)
EXTENDS Sequences

VARIABLES outcome,  \* what the caller of each publication was told, or "waiting"
          routed    \* the publications whose message was put into a queue

vars == <<outcome, routed>>

Init == outcome = <<>> /\ routed = {}

\* A call of publish(), which may be refused at once.
Call(answer) ==
  /\ outcome' = Append(outcome, answer)
  /\ UNCHANGED routed

\* A message reaches a queue, perhaps after its caller has given up.
Reach(i) ==
  /\ outcome[i] # "unroutable"
  /\ routed' = routed \cup {i}
  /\ UNCHANGED outcome

\* The callers in S are answered; all of them were waiting.
Answer(S, answer) ==
  /\ \A i \in S : outcome[i] = "waiting"
  /\ \/ answer \in {"failed", "timedOut"}
     \/ answer = "resolved" /\ S \subseteq routed
     \/ answer = "unroutable" /\ S \cap routed = {}
  /\ outcome' = [i \in DOMAIN outcome |-> IF i \in S THEN answer ELSE outcome[i]]
  /\ UNCHANGED routed

Answers == {"resolved", "unroutable", "failed", "timedOut"}

Next ==
  \/ \E answer \in {"waiting", "failed"} : Call(answer)
  \/ \E i \in DOMAIN outcome : Reach(i)
  \/ \E S \in SUBSET DOMAIN outcome, answer \in Answers : Answer(S, answer)

Spec == Init /\ [][Next]_vars
=============================================================================
