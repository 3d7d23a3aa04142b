----------------------------- MODULE MCGossip ------------------------------
(* Instances of Gossip: a cycle of three nodes, all of which may talk.     *)
EXTENDS Gossip

CONSTANTS a, b, c

Cycle == {{a, b}, {b, c}, {a, c}}
TwoFromA == [n \in Node |-> IF n = a THEN 2 ELSE 0]
=============================================================================
