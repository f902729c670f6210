--------------------------- MODULE ResourceSearch ---------------------------
(***************************************************************************)
(* What a job manager is promised by the search nodes: a discovery that it *)
(* launches collects the answers of nodes that have the resources, each of *)
(* them once, and when it is closed, what it collected stays as it is.     *)
(***************************************************************************)
EXTENDS Sequences, Functions

CONSTANTS
  Nodes, Searches,
  Fits    \* the sets of nodes that may have the resources asked for

VARIABLES
  fitting,    \* the nodes that have the resources asked for
  answers,    \* answers[s]: the nodes found by s, in the order of their answers
  open        \* the discoveries that collect answers

vars == <<fitting, answers, open>>

Init ==
  /\ fitting \in Fits
  /\ answers = [s \in Searches |-> <<>>]
  /\ open = {}

Launch(s) ==
  /\ s \notin open /\ answers[s] = <<>>
  /\ open' = open \cup {s}
  /\ UNCHANGED <<fitting, answers>>

Answer(s, n) ==
  /\ s \in open
  /\ n \in fitting \ Range(answers[s])
  /\ answers' = [answers EXCEPT ![s] = Append(@, n)]
  /\ UNCHANGED <<fitting, open>>

Close(s) ==
  /\ s \in open
  /\ open' = open \ {s}
  /\ UNCHANGED <<fitting, answers>>

Next == \E s \in Searches : Launch(s) \/ Close(s) \/ \E n \in Nodes : Answer(s, n)

Spec == Init /\ [][Next]_vars
=============================================================================
