------------------------------ MODULE MCBroker ------------------------------
(* Small instances of Broker for TLC.                                      *)
EXTENDS Broker

CONSTANTS r1, r2, c1, c2, k1, k2, x1, s1, probe, ctor

(* Comboxes, clients and calls of one kind are interchangeable.            *)
Symmetric == Permutations(Receivers) \cup Permutations(Conns) \cup Permutations(ConcReqs)
=============================================================================
