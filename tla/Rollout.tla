------------------------------ MODULE Rollout ------------------------------
(***************************************************************************)
(* The rollout of definition sets: the `activate` command that every pod   *)
(* runs as an init container (internal/defstore), the definition tables    *)
(* (internal/journal/definitions.go), the loader cache of each replica,    *)
(* the binding of a run to a set, and the readiness probe                  *)
(* (internal/runtime, internal/service).                                   *)
(*                                                                         *)
(* One store call is one action; an `activate` process makes several and   *)
(* remembers what it read.  Of a conversation only what the definition     *)
(* tables look at is kept: whether a run is live and continues a wait,     *)
(* whether it waits, whether it has an unresolved call.  Module Journal    *)
(* has the conversation itself.                                            *)
(***************************************************************************)
EXTENDS Integers, FiniteSets

CONSTANTS
  Digest,            \* digests of definition sets
  Thread,            \* conversations
  Replica,           \* serving processes
  Activation,        \* `agent-platform activate` processes
  Candidate,         \* the digest of the bundle each of them was given
  Rollback,          \* whether --rollback was given
  Compiles,          \* the digests whose stored files each binary compiles to that digest
  Recreated,         \* the activations that may be started again (a bound)
  BindingAttempts,   \* bindingAttempts
  ActivateAttempts,  \* activateAttempts
  None

ASSUME DigestAssumption == None \notin Digest
ASSUME ReplicaAssumption == None \notin Replica
ASSUME CandidateAssumption == Candidate \in [Activation -> Digest]
ASSUME RollbackAssumption == Rollback \in [Activation -> BOOLEAN]
ASSUME CompilesAssumption == Compiles \in [Replica \cup Activation -> SUBSET Digest]
ASSUME RecreatedAssumption == Recreated \subseteq Activation
ASSUME AttemptsAssumption ==
  BindingAttempts \in Nat \ {0} /\ ActivateAttempts \in Nat \ {0}

VARIABLES
  stored,        \* agent_definition_sets
  activated,     \* ... of which activated_at is set
  current,       \* agent_definition_current
  threads,       \* conversations, as the definition queries see them
  served,        \* the Loader cache of each replica
  probes,        \* the /readyz handler of each replica
  activations    \* the `activate` processes

vars == <<stored, activated, current, threads, served, probes, activations>>

\* A run resolves its set, loads what was missing and tries again, until it is bound.
ThreadState ==
  [pin: Digest \cup {None}, run: {"none", "plain", "reply"}, phase: {"resolve", "load", "bound"},
   on: Replica \cup {None}, missing: Digest \cup {None}, attempt: 0..BindingAttempts,
   waiting: BOOLEAN, call: {"none", "dispatching", "unknown"}]

NoThread ==
  [pin |-> None, run |-> "none", phase |-> "resolve", on |-> None, missing |-> None,
   attempt |-> 0, waiting |-> FALSE, call |-> "none"]

ProbeAnswer == {"none", "ready", "unready"}
ProbeState == [phase: {"load", "check"}, answer: ProbeAnswer]

Verdict == {"", "activated", "already current", "superseded", "bundle", "unservable", "exhausted"}
ActivationState ==
  [pc: {"put", "current", "history", "referenced", "commit", "again", "done"},
   expected: Digest \cup {None}, attempt: 0..(ActivateAttempts - 1), loaded: SUBSET Digest,
   verdict: Verdict]

NewActivation ==
  [pc |-> "put", expected |-> None, attempt |-> 0, loaded |-> {},
   verdict |-> ""]

RTypeOK ==
  /\ stored \subseteq Digest
  /\ activated \subseteq Digest
  /\ current \in Digest \cup {None}
  /\ threads \in [Thread -> ThreadState]
  /\ served \in [Replica -> SUBSET Digest]
  /\ probes \in [Replica -> ProbeState]
  /\ activations \in [Activation -> ActivationState]

Init ==
  /\ stored = {}
  /\ activated = {}
  /\ current = None
  /\ threads = [t \in Thread |-> NoThread]
  /\ served = [r \in Replica |-> {}]
  /\ probes = [r \in Replica |-> [phase |-> "load", answer |-> "none"]]
  /\ activations = [a \in Activation |-> NewActivation]

----------------------------------------------------------------------------
(* The store and the loader.                                               *)

\* A conversation whose pin must stay loadable.
Held(t) == threads[t].waiting \/ threads[t].run = "reply" \/ threads[t].call # "none"

\* Mutant: the continuation of a wait that was answered is forgotten.
ReferencedByWaits ==
  ({current} \cup {threads[t].pin : t \in {t \in Thread : threads[t].waiting}}) \ {None}

referencedDigests ==
  ({current} \cup {threads[t].pin : t \in {t \in Thread : Held(t)}}) \ {None}

\* Load finds the files and they compile to the digest; only successes are cached.
Loads(p, d) == d \in stored /\ d \in Compiles[p]

\* Mutant: a reply's run may re-pin like any other.
IdleUnlessWaiting(t) == ~threads[t].waiting /\ threads[t].call = "none"

conversationIdle(t) ==
  threads[t].run # "reply" /\ ~threads[t].waiting /\ threads[t].call = "none"

\* The set ResolveDefinition would use for thread t: its pin, or current when it may re-pin.
Wanted(t) ==
  IF threads[t].pin = None \/ (current # None /\ conversationIdle(t))
  THEN current
  ELSE threads[t].pin

----------------------------------------------------------------------------
(* `agent-platform activate`.                                              *)

At(a, pc) == activations[a].pc = pc
Exited(verdict) == [NewActivation EXCEPT !.pc = "done", !.verdict = verdict]
Sent(row, pc) == [row EXCEPT !.pc = pc]
Expecting(row, d, pc) == [row EXCEPT !.expected = d, !.pc = pc]
Loaded(row, D) == [row EXCEPT !.pc = "commit", !.loaded = @ \cup D]
Repeated(row) == [row EXCEPT !.pc = "current", !.attempt = @ + 1]

Exit(a, verdict) == activations' = [activations EXCEPT ![a] = Exited(verdict)]
Goto(a, pc) == activations' = [activations EXCEPT ![a] = Sent(@, pc)]

\* ReadBundle, CompileBundle and PutDefinitionSet.
PutDefinitionSet(a) ==
  /\ At(a, "put")
  /\ \/ Candidate[a] \in Compiles[a] /\ stored' = stored \cup {Candidate[a]} /\ Goto(a, "current")
     \/ Candidate[a] \notin Compiles[a] /\ UNCHANGED stored /\ Exit(a, "bundle")
  /\ UNCHANGED <<activated, current, threads, served, probes>>

AfterCurrent(a) == IF Rollback[a] THEN "referenced" ELSE "history"

\* Mutant: current is read before the loop, not in it.
ReadCurrentOnce(a) ==
  /\ At(a, "current")
  /\ LET seen == IF activations[a].attempt = 0 THEN current ELSE activations[a].expected
     IN \/ seen = Candidate[a] /\ Exit(a, "already current")
        \/ /\ seen # Candidate[a]
           /\ activations' = [activations EXCEPT ![a] = Expecting(@, seen, AfterCurrent(a))]
  /\ UNCHANGED <<stored, activated, current, threads, served, probes>>

CurrentDefinition(a) ==
  /\ At(a, "current")
  /\ \/ current = Candidate[a] /\ Exit(a, "already current")
     \/ /\ current # Candidate[a]
        /\ activations' = [activations EXCEPT ![a] = Expecting(@, current, AfterCurrent(a))]
  /\ UNCHANGED <<stored, activated, current, threads, served, probes>>

DefinitionActivated(a) ==
  /\ At(a, "history")
  /\ \/ Candidate[a] \in activated /\ Exit(a, "superseded")
     \/ Candidate[a] \notin activated /\ Goto(a, "referenced")
  /\ UNCHANGED <<stored, activated, current, threads, served, probes>>

\* ReferencedDefinitions, and a Load of each and of the candidate.  Stored sets
\* stay, so the loads need no steps of their own.
ReferencedDefinitions(a) ==
  /\ At(a, "referenced")
  /\ LET needed == referencedDigests \cup {Candidate[a]}
     IN \/ /\ \A d \in needed : Loads(a, d)
           /\ activations' = [activations EXCEPT ![a] = Loaded(@, needed)]
        \/ /\ \E d \in needed : ~Loads(a, d)
           /\ Exit(a, "unservable")
  /\ UNCHANGED <<stored, activated, current, threads, served, probes>>

\* ErrDefinition: current moved or a new digest became referenced.
TryAgain(a) ==
  \/ activations[a].attempt + 1 = ActivateAttempts /\ Exit(a, "exhausted")
  \/ /\ activations[a].attempt + 1 # ActivateAttempts
     /\ activations' = [activations EXCEPT ![a] = Repeated(@)]

\* Mutant: the forward-only rule was only looked at before the transaction.
NeverBefore(a) == FALSE

ActivatedBefore(a) == ~Rollback[a] /\ Candidate[a] \in activated

\* Mutant: the first activation is not recorded.
LeaveUnmarked(a) == UNCHANGED activated

markActivated(a) == activated' = activated \cup ({Candidate[a]} \cap stored)

Unmoved(a) ==
  referencedDigests \subseteq activations[a].loaded /\ current = activations[a].expected

\* ActivateDefinition or RollbackDefinition, under the definition lock.
activate(a) ==
  /\ At(a, "commit")
  /\ \/ /\ current = Candidate[a]
        /\ markActivated(a) /\ UNCHANGED current /\ Exit(a, "activated")
     \/ /\ current # Candidate[a] /\ ActivatedBefore(a)
        /\ UNCHANGED <<activated, current>> /\ Goto(a, "again")
     \/ /\ current # Candidate[a] /\ ~ActivatedBefore(a) /\ Unmoved(a)
        /\ markActivated(a) /\ current' = Candidate[a] /\ Exit(a, "activated")
     \/ /\ current # Candidate[a] /\ ~ActivatedBefore(a) /\ ~Unmoved(a)
        /\ UNCHANGED <<activated, current>> /\ TryAgain(a)
  /\ UNCHANGED <<stored, threads, served, probes>>

\* ErrDefinitionSuperseded: current is read once more, for the report.
ReadAgain(a) ==
  /\ At(a, "again")
  /\ Exit(a, "superseded")
  /\ UNCHANGED <<stored, activated, current, threads, served, probes>>

\* The init container is killed or its pod is recreated; it starts with an empty loader.
Restart(a) ==
  /\ a \in Recreated /\ activations[a].pc # "put"
  /\ activations' = [activations EXCEPT ![a] = NewActivation]
  /\ UNCHANGED <<stored, activated, current, threads, served, probes>>

----------------------------------------------------------------------------
(* Runs: Runner.Binding, and the journal steps that hold or release a pin. *)

Begun(thread, run, r) ==
  [thread EXCEPT !.run = run, !.phase = "resolve", !.on = r, !.missing = None,
                 !.attempt = 1, !.waiting = FALSE]
Bound(thread, d) ==
  [thread EXCEPT !.pin = d, !.phase = "bound", !.attempt = 0]
Lacking(thread, d) == [thread EXCEPT !.missing = d, !.phase = "load"]
Retrying(thread) == [thread EXCEPT !.missing = None, !.phase = "resolve", !.attempt = @ + 1]
Over(thread) ==
  [thread EXCEPT !.run = "none", !.phase = "resolve", !.on = None, !.missing = None, !.attempt = 0]

Calling(thread, call) == [thread EXCEPT !.call = call]
markUnknown(call) == IF call = "dispatching" THEN "unknown" ELSE call
Asking(thread, waiting) == [thread EXCEPT !.waiting = waiting]

\* A message to a conversation without a run is admitted and claimed by replica r.
Message(t, r) ==
  /\ threads[t].run = "none" /\ ~threads[t].waiting
  /\ threads' = [threads EXCEPT ![t] = Begun(@, "plain", r)]
  /\ UNCHANGED <<stored, activated, current, served, probes, activations>>

\* A reply continues the wait, on any replica.
Reply(t, r) ==
  /\ threads[t].waiting
  /\ threads' = [threads EXCEPT ![t] = Begun(@, "reply", r)]
  /\ UNCHANGED <<stored, activated, current, served, probes, activations>>

InPhase(t, phase) ==
  threads[t].run # "none" /\ threads[t].on # None /\ threads[t].phase = phase

\* One attempt of Binding: a set that is not cached is loaded before the next attempt,
\* and the run fails when there is none to use or the attempts are used up.
ResolveDefinition(t) ==
  /\ InPhase(t, "resolve")
  /\ \/ /\ Wanted(t) \in served[threads[t].on]
        /\ threads' = [threads EXCEPT ![t] = Bound(@, Wanted(t))]
     \/ /\ Wanted(t) \notin served[threads[t].on]
        /\ Wanted(t) = None \/ threads[t].attempt >= BindingAttempts
        /\ threads' = [threads EXCEPT ![t] = Over(@)]
     \/ /\ Wanted(t) \notin served[threads[t].on]
        /\ Wanted(t) # None /\ threads[t].attempt < BindingAttempts
        /\ threads' = [threads EXCEPT ![t] = Lacking(@, Wanted(t))]
  /\ UNCHANGED <<stored, activated, current, served, probes, activations>>

\* Mutant: what was loaded is not cached.
CacheNothing(r, D) == UNCHANGED served

Cache(r, D) == served' = [served EXCEPT ![r] = @ \cup D]

LoadMissing(t) ==
  /\ InPhase(t, "load")
  /\ \/ /\ Loads(threads[t].on, threads[t].missing)
        /\ Cache(threads[t].on, {threads[t].missing})
        /\ threads' = [threads EXCEPT ![t] = Retrying(@)]
     \/ /\ ~Loads(threads[t].on, threads[t].missing)
        /\ UNCHANGED served
        /\ threads' = [threads EXCEPT ![t] = Over(@)]
  /\ UNCHANGED <<stored, activated, current, probes, activations>>

\* A call that was left unresolved stops the thread: Start refuses the next run.
BeginAttempt(t) ==
  /\ InPhase(t, "bound") /\ threads[t].call = "none"
  /\ threads' = [threads EXCEPT ![t] = Calling(@, "dispatching")]
  /\ UNCHANGED <<stored, activated, current, served, probes, activations>>

EndAttempt(t) ==
  /\ InPhase(t, "bound") /\ threads[t].call = "dispatching"
  /\ \E call \in {"none", "unknown"} : threads' = [threads EXCEPT ![t] = Calling(@, call)]
  /\ UNCHANGED <<stored, activated, current, served, probes, activations>>

Wait(t) ==
  /\ InPhase(t, "bound") /\ threads[t].call = "none"
  /\ threads' = [threads EXCEPT ![t] = Asking(Over(@), TRUE)]
  /\ UNCHANGED <<stored, activated, current, served, probes, activations>>

\* The run is finished or reaped, or its wait expires; a call in flight becomes unknown.
EndRun(t) ==
  /\ threads[t].run # "none" \/ threads[t].waiting
  /\ threads' = [threads EXCEPT ![t] = Calling(Asking(Over(@), FALSE), markUnknown(@.call))]
  /\ UNCHANGED <<stored, activated, current, served, probes, activations>>

----------------------------------------------------------------------------
(* Replicas.                                                               *)

\* Runner.Ready, first half: every referenced set is loaded, up to one that does not load.
ReadyLoads(r) ==
  /\ probes[r].phase = "load"
  /\ \/ /\ \A d \in referencedDigests : Loads(r, d)
        /\ Cache(r, referencedDigests)
        /\ probes' = [probes EXCEPT ![r].phase = "check"]
     \/ \E d \in referencedDigests :
          /\ ~Loads(r, d)
          /\ \E S \in SUBSET {e \in referencedDigests : Loads(r, e)} :
               Cache(r, S)
          /\ probes' = [probes EXCEPT ![r].answer = "unready"]
  /\ UNCHANGED <<stored, activated, current, threads, activations>>

\* DefinitionsReady: what is referenced now is looked up in the cache.
DefinitionsReady(r) ==
  /\ probes[r].phase = "check"
  /\ probes' =
       [probes EXCEPT ![r] =
          [phase |-> "load",
           answer |-> IF current # None /\ referencedDigests \subseteq served[r]
                      THEN "ready" ELSE "unready"]]
  /\ UNCHANGED <<stored, activated, current, threads, served, activations>>

\* A pod is replaced: its cache is empty and its runs are nobody's until the reaper ends them.
Replace(r) ==
  /\ served' = [served EXCEPT ![r] = {}]
  /\ probes' = [probes EXCEPT ![r] = [phase |-> "load", answer |-> "none"]]
  /\ threads' =
       [t \in Thread |-> IF threads[t].on = r THEN [threads[t] EXCEPT !.on = None] ELSE threads[t]]
  /\ UNCHANGED <<stored, activated, current, activations>>

----------------------------------------------------------------------------
Activate(a) ==
  \/ PutDefinitionSet(a) \/ CurrentDefinition(a) \/ DefinitionActivated(a)
  \/ ReferencedDefinitions(a) \/ activate(a) \/ ReadAgain(a)

Converse(t) ==
  \/ \E r \in Replica : Message(t, r) \/ Reply(t, r)
  \/ ResolveDefinition(t) \/ LoadMissing(t) \/ BeginAttempt(t) \/ EndAttempt(t)
  \/ Wait(t) \/ EndRun(t)

Ready(r) == ReadyLoads(r) \/ DefinitionsReady(r)

Next ==
  \/ \E a \in Activation : Activate(a) \/ Restart(a)
  \/ \E t \in Thread : Converse(t)
  \/ \E r \in Replica : Ready(r) \/ Replace(r)

Spec == Init /\ [][Next]_vars

----------------------------------------------------------------------------
(* Properties.                                                             *)

\* A conversation is only ever pinned to a set that was activated, what was activated is
\* stored, current is one of the activated sets, and no process has compiled anything
\* else: whatever a run or a replica is asked to load can be read back from the store.
AllStored ==
  /\ activated \subseteq stored
  /\ current # None => current \in activated
  /\ \A t \in Thread : threads[t].pin # None => threads[t].pin \in activated
  /\ \A r \in Replica : served[r] \subseteq stored \cap Compiles[r]
  /\ \A a \in Activation : activations[a].loaded \subseteq stored \cap Compiles[a]

\* What the steps of a binding and of an activation rely on; with the two above it is
\* preserved by every step.
StepsGrounded ==
  /\ \A a \in Activation : At(a, "commit") => Candidate[a] \in activations[a].loaded
  /\ \A t \in Thread :
       /\ threads[t].phase = "load" => threads[t].attempt < BindingAttempts
       /\ threads[t].phase = "bound" \/ Held(t) => threads[t].pin # None

Grounded == RTypeOK /\ AllStored /\ StepsGrounded

\* A set that once was current becomes current again only by an activation with --rollback,
\* whatever stale pods start again meanwhile (ActivateDefinition, forward-only).
ForwardOnly ==
  [][current' # current /\ current' \in activated =>
       \E a \in Activation : Rollback[a] /\ At(a, "commit") /\ activations'[a].pc = "done"]_vars

\* A wait, the continuation of a wait and a run with a call in flight keep their set: the
\* approvals they gave or asked for are bound to it (ResolveDefinition, conversationIdle).
PinKept ==
  [][\A t \in Thread : Held(t) => threads'[t].pin = threads[t].pin]_vars

\* A process activates a set only when its own binary can serve every conversation that is
\* waiting, being continued or stopped by an unresolved call, and the set it replaces:
\* what the pods of the new release are going to be asked for (activate, referencedDigests).
MoveServable ==
  [][current' # current =>
       \E a \in Activation :
         /\ activations'[a].verdict = "activated" /\ Candidate[a] = current'
         /\ \A t \in Thread : Held(t) /\ threads[t].pin # None => threads[t].pin \in Compiles[a]
         /\ current \in Compiles[a] \cup {None}]_vars

----------------------------------------------------------------------------
(* Progress.                                                               *)

\* The kubelet goes on probing; nothing else has to happen.
Fairness == \A r \in Replica : WF_vars(Ready(r))
FairSpec == Spec /\ Fairness

\* When what is referenced stays the same, a replica whose binary compiles it stops
\* answering unready (Runner.Ready loads what is missing before it looks).
ReadyAgain ==
  \A r \in Replica : \A D \in SUBSET Compiles[r] :
    <>[](current # None /\ referencedDigests = D) => <>[](probes[r].answer # "unready")
============================================================================
