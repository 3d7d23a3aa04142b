------------------------------ MODULE MCFiles ------------------------------
(* An instance of Files: one document whose second change depends on its   *)
(* first.                                                                  *)
EXTENDS Files

CONSTANTS c1, c2

Chain == [c \in Change |-> IF c = c1 THEN {} ELSE {c1}]

\* Puts that fail.
None == [b \in BackEnds |-> 0]
GioFails == [b \in BackEnds |-> IF b = "gio" THEN 1 ELSE 0]
=============================================================================
