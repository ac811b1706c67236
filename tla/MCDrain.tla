------------------------------ MODULE MCDrain ------------------------------
(* A small instance of Drain for TLC.                                       *)
EXTENDS Drain
============================================================================
