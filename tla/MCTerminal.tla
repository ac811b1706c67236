---------------------------- MODULE MCTerminal ----------------------------
(* A small instance of Terminal for TLC.                                     *)
EXTENDS Terminal

\* No command names a journey.
Untargeted == [c \in Command |-> None]
============================================================================
