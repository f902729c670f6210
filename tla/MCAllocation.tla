----------------------------- MODULE MCAllocation -----------------------------
(* Instances of Allocation: nodes "m" and "n", calls 1 and 2.              *)
EXTENDS Allocation

TwoNodes   == {"m", "n"}
OneNode    == {"m"}
TwoCalls   == {1, 2}
OneCall    == {1}
OneCpu     == [n \in Nodes |-> 1]
TwoCpus    == [n \in Nodes |-> 2]
OneApp     == {"a"}
TwoApps    == {"a", "b"}
AllAt      == [c \in Calls |-> "m"]
OwnNodes   == [c \in Calls |-> IF c = 1 THEN "m" ELSE "n"]
OfA        == [c \in Calls |-> "a"]
OwnApps    == [c \in Calls |-> IF c = 1 THEN "a" ELSE "b"]
AllOne     == [c \in Calls |-> 1]
Two        == [c \in Calls |-> 2]
OneEach    == [c \in Calls |-> 1]
OneThenTwo == [c \in Calls |-> c]
Searching  == [c \in Calls |-> TRUE]
Local      == [c \in Calls |-> FALSE]
FirstLocal == [c \in Calls |-> c = 1]
Nobody     == {}
=============================================================================
