---------------------------- MODULE MCActiveSet ----------------------------
(* A small instance of ActiveSet for TLC.                                   *)
EXTENDS ActiveSet, TLC

CONSTANTS j1, j2, j3, j4, a, b

\* One alias that two journeys share, and one that belongs to a single journey.
SharedAlias == j1 :> {a} @@ j2 :> {a} @@ j3 :> {b} @@ j4 :> {}

\* Everything resolves, or one journey does not.
AllButOne == {S \in SUBSET Journey : Cardinality(S) >= Cardinality(Journey) - 1}
============================================================================
