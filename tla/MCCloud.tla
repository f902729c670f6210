------------------------------ MODULE MCCloud ------------------------------
(* Instances of Cloud.  The operators are "A" and "B".                     *)
EXTENDS Cloud

One        == {"A"}
Two        == {"A", "B"}
SameBlock  == [k \in Confs |-> "block"]
OwnBlocks  == [k \in Confs |-> k]
AllFit     == Confs \X Confs
NoneFits   == {<<k, k>> : k \in Confs}
TwoMachines == [k \in Confs |-> {1, 2}]
OneMachine == [k \in Confs |-> IF k = "A" THEN {1} ELSE {2}]
First      == [k \in Confs |-> CHOOSE ip \in Ips[k] : \A jp \in Ips[k] : ip <= jp]
OwnDirs    == [k \in Confs |-> k]
=============================================================================
