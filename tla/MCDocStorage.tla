---------------------------- MODULE MCDocStorage ----------------------------
(* Instances of DocStorage: the first change is what the others depend on, *)
(* or every change depends on those before it.                             *)
EXTENDS DocStorage, TLC

CONSTANTS c1, c2, c3, c4

Fork == [c \in Change |-> IF c = c1 THEN {} ELSE {c1}]
Chain == [c \in Change |-> CASE c = c1 -> {}
                             [] c = c2 -> {c1}
                             [] c = c3 -> {c1, c2}
                             [] c = c4 -> {c1, c2, c3}]

\* Changes that Before does not tell apart are interchangeable.
ForkSymmetry == Permutations({c2, c3})

\* Bounds of the run with two repos: they only open the document and crash
\* (the runs with one repo also create and stop it), and changes come in
\* pairs, except for what a load may find of a pair.
OpenOrCrash == \A r \in Repo : actor[r].run \in {"Down", "Running"} /\ actor[r].creating = {}
InPairs == \A r \in Repo : LET held == actor[r].held IN
             /\ c1 \in held <=> c2 \in held
             /\ c3 \in held => {c1, c4} \subseteq held
TwoPairs == OpenOrCrash /\ InPairs
=============================================================================
