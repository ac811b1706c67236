----------------------------- MODULE MCRollout -----------------------------
(* Small instances of Rollout for TLC.                                     *)
EXTENDS Rollout

CONSTANTS d1, d2, d3, a1, a2, a3, a4

\* Three releases, each with a set of its own.
EachItsOwn ==
  [a \in Activation |-> IF a = a1 THEN d1 ELSE IF a = a2 THEN d2 ELSE d3]
Forward == [a \in Activation |-> FALSE]

\* A release and two pods of its successor; the first one is given --rollback.
TwoPods == [a \in Activation |-> IF a = a1 THEN d1 ELSE d2]
FirstGoesBack == [a \in Activation |-> a = a1]

\* Every binary compiles every set.
CompilesAll == [p \in Replica \cup Activation |-> Digest]

\* The last release no longer compiles the first set, those that serve do not compile the
\* last one yet, and one bundle does not compile at all.
FirstAndLastDropped ==
  [p \in Replica \cup Activation |->
     IF p \in Replica THEN Digest \ {d3}
     ELSE IF p = a3 THEN Digest \ {d1}
     ELSE IF p = a4 THEN {} ELSE Digest]
============================================================================
