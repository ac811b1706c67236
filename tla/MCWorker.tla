------------------------------ MODULE MCWorker ------------------------------
(* Small instances of Worker for TLC.                                       *)
EXTENDS Worker, TLC

\* No command names a journey.
Untargeted == [c \in Command |-> None]

Symmetry == Permutations(Command) \cup Permutations(Call)
=============================================================================
