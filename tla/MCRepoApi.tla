----------------------------- MODULE MCRepoApi -----------------------------
(* Instances of RepoApi: a document that is searched for and one that is   *)
(* created, a dialer that dials twice.                                     *)
EXTENDS RepoApi

CONSTANTS x, y, find, watch

DocX == [u \in {find, watch} |-> x]
=============================================================================
