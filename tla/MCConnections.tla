--------------------------- MODULE MCConnections ---------------------------
(* Instances of Connections: a dialer that may connect twice.              *)
EXTENDS Connections

Awaited == {[kind |-> "established"], [kind |-> "when", side |-> "out"],
            [kind |-> "finished", end |-> <<"out", 1>>],
            [kind |-> "handshake", end |-> <<"in", 1>>]}

(* Nobody in particular is expected, or the listener expects another.      *)
MayMismatch == {[out |-> Anyone, in |-> Anyone], [out |-> "in", in |-> "in"]}
=============================================================================
