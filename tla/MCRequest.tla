----------------------------- MODULE MCRequest -----------------------------
(* Instances of Request: three nodes in a row.                             *)
EXTENDS Request

CONSTANTS n1, n2, n3, x, y

Row == {{n1, n2}, {n2, n3}}
Pair == {{n1, n2}}

Announce == [access |-> "write", announce |-> TRUE]
Silent == [access |-> "write", announce |-> FALSE]
Deny == [access |-> "none", announce |-> FALSE]
ReadOnly == [access |-> "read", announce |-> TRUE]

Nothing == [n \in Node |-> {}]
LastStores == [n \in Node |-> IF n = n3 THEN {x} ELSE {}]

(* Between n2 and n3 all is announced; n1 and n2 may have other opinions   *)
(* of each other, and change them.                                         *)
AllAnnounce == [e \in End |-> {Announce}]
AtTheFirst == [e \in End |-> CASE e = <<n1, n2>> -> {Announce, ReadOnly}
                              [] e = <<n2, n1>> -> {Announce, Deny}
                              [] OTHER -> {Announce}]
FirstMayChange == [e \in End |-> IF n3 \in {e[1], e[2]} THEN {} ELSE {Announce, Silent, Deny}]
NobodyChanges == [e \in End |-> {}]
=============================================================================
