--------------------------- MODULE ApprovedAction ---------------------------
(***************************************************************************)
(* What the platform promises a user about an effectful tool call: it      *)
(* takes effect at most once, only by the user's own decision, and what    *)
(* the conversation records about it is true, for good.                    *)
(***************************************************************************)
CONSTANT Call

VARIABLES
  decision,   \* what the user has decided about the call
  effects,    \* how often it has taken effect
  told        \* what the conversation records about it

avars == <<decision, effects, told>>

AInit ==
  /\ decision = [k \in Call |-> "none"]
  /\ effects = [k \in Call |-> 0]
  /\ told = [k \in Call |-> "nothing"]

\* The user approves the call.
Approve(k) ==
  /\ decision[k] = "none"
  /\ decision' = [decision EXCEPT ![k] = "approved"]
  /\ UNCHANGED <<effects, told>>

\* The approval turns out to be for something that has changed since.
Withdraw(k) ==
  /\ decision[k] = "approved"
  /\ effects[k] = 0
  /\ told[k] = "nothing"
  /\ decision' = [decision EXCEPT ![k] = "withdrawn"]
  /\ UNCHANGED <<effects, told>>

\* The call takes effect, unless the user was told that it did not.
Act(k) ==
  /\ decision[k] = "approved"
  /\ effects[k] = 0
  /\ told[k] \in {"nothing", "unknown"}
  /\ effects' = [effects EXCEPT ![k] = 1]
  /\ UNCHANGED <<decision, told>>

Tell(k) ==
  /\ told[k] = "nothing"
  /\ \/ told' = [told EXCEPT ![k] = "unknown"]
     \/ effects[k] = 1 /\ told' = [told EXCEPT ![k] = "done"]
     \/ effects[k] = 0 /\ told' = [told EXCEPT ![k] = "not done"]
  /\ UNCHANGED <<decision, effects>>

ANext == \E k \in Call : Approve(k) \/ Withdraw(k) \/ Act(k) \/ Tell(k)

ASpec == AInit /\ [][ANext]_avars
=============================================================================
