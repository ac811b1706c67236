----------------------------- MODULE MCJournal -----------------------------
(* Small instances of Journal for TLC.                                      *)
EXTENDS Journal, TLC

\* No command names a journey.
Untargeted == [c \in Command |-> None]

\* All commands but one name a journey, not all the same one when there are two.
Targeted ==
  LET plain == CHOOSE c \in Command : TRUE
      other == CHOOSE c \in Command \ {plain} : TRUE
      first == CHOOSE j \in Journey : TRUE
      last == CHOOSE j \in Journey : Journey = {first} \/ j # first
  IN [c \in Command |-> IF c = plain THEN None ELSE IF c = other THEN last ELSE first]

Symmetry == Permutations(Command) \cup Permutations(Call)
============================================================================
