--------------------------- MODULE MCRolloutChurn ---------------------------
(* Rollout with a count of what moved while a binding or an activation ran.  *)
EXTENDS MCRollout

\* How often, since a binding or an activation began, current moved or (for an activation)
\* a further set came to be referenced.
VARIABLE moves

hvars == <<vars, moves>>

CountedInit == Init /\ moves = [p \in Thread \cup Activation |-> 0]

CountedNext ==
  /\ Next
  /\ LET moved == current' # current
         more == moved \/ ~(referencedDigests' \subseteq referencedDigests)
     IN moves' =
          [p \in Thread \cup Activation |->
             IF p \in Thread
             THEN IF threads'[p].phase = "bound" \/ threads'[p].run = "none" THEN 0
                  ELSE IF moved /\ moves[p] < BindingAttempts THEN moves[p] + 1 ELSE moves[p]
             ELSE IF activations'[p].pc \in {"put", "current"} /\ activations'[p].attempt = 0 THEN 0
                  ELSE IF activations'[p].pc = "done" /\ activations'[p].verdict # "exhausted" THEN 0
                  ELSE IF more /\ moves[p] < ActivateAttempts THEN moves[p] + 1 ELSE moves[p]]

CountedSpec == CountedInit /\ [][CountedNext]_hvars

\* Retries are used up only by what they are for.  A run whose replica compiles the set it
\* wants fails to bind only after current moved at each attempt but the last (Runner.Binding,
\* bindingAttempts).  An activation whose binary compiles every set fails only after current
\* moved, or a further set came to be referenced, during each attempt (defstore.Activate).
GivesUpOnChurn ==
  /\ \A t \in Thread :
       InPhase(t, "resolve") /\ threads[t].attempt >= BindingAttempts
         /\ current # None /\ Wanted(t) \notin served[threads[t].on]
       => moves[t] >= BindingAttempts - 1
  /\ \A a \in Activation :
       /\ activations[a].verdict = "exhausted" => moves[a] >= ActivateAttempts
       /\ activations[a].verdict = "unservable" => Compiles[a] # Digest
============================================================================
