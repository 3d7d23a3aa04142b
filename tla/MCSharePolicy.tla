--------------------------- MODULE MCSharePolicy ---------------------------
(* Instances of SharePolicy: all connections lead to the same peer, and    *)
(* messages come in on the first of them, or on none.                      *)
EXTENDS SharePolicy

CONSTANTS c1, p1

OnePeer == [c \in Conn |-> p1]
FirstSends == [c \in Conn |-> IF c = c1 THEN 2 ELSE 0]
=============================================================================
