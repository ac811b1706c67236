------------------------------ MODULE Journal ------------------------------
(***************************************************************************)
(* The PostgreSQL journal of one conversation (internal/journal).          *)
(*                                                                         *)
(* Every Store method is one transaction that first locks the conversation *)
(* row, so each is one atomic action here; a method that returns an error  *)
(* rolls its transaction back and is no step at all, except the two error  *)
(* paths that commit (a reply to an expired wait, a superseded approval).  *)
(* Callers are unconstrained: an owner token, once granted by Claim, may   *)
(* be used at any later time, by a worker that is slow, cut off or stopped.*)
(*                                                                         *)
(* A command and the run it may start share one identity (agent_commands   *)
(* has UNIQUE(run_id)), and a run waits at most once, so commands, runs    *)
(* and interactions are tables indexed by Command.  The unique indexes     *)
(* agent_one_live_run and agent_one_pending_interaction are NOT guards of  *)
(* the actions: that the code never runs into them is a property below.    *)
(***************************************************************************)
EXTENDS Integers, FiniteSets, Sequences

CONSTANTS
  Command,        \* communication IDs of one thread, and the run IDs they carry
  Replica,        \* owner IDs of the platform processes
  Call,           \* tool call IDs
  Product,        \* product versions a run may be scoped to
  Digest,         \* definition-set digests
  Journey,        \* journey IDs
  Shape,          \* remote tool name, schema and arguments, as the binding digests them
  Target,         \* the TargetJourney of each command, or None
  FailureStates,  \* terminal run states other than completed and interrupted
  Lease,          \* lease duration, in ticks
  Observed,       \* the event types this instance keeps in the event log
  None

ASSUME NoneAssumption ==
  None \notin Command \cup Replica \cup Call \cup Product \cup Digest \cup Journey
ASSUME LeaseAssumption == Lease \in Nat \ {0}
ASSUME TargetAssumption == Target \in [Command -> Journey \cup {None}]
ASSUME FailureAssumption ==
  FailureStates \subseteq
    {"failed", "auth_required", "dependency_unavailable", "limit_exceeded"}

VARIABLES
  runs,           \* agent_runs
  commands,       \* agent_commands
  interactions,   \* agent_interactions, by the run that waits
  operations,     \* agent_operations
  attempts,       \* agent_attempts
  epoch,          \* agent_conversations.owner_epoch
  pin,            \* agent_conversations.definition_digest
  events,         \* agent_events, projected on Observed
  owners          \* the Owner values Claim has returned

vars == <<runs, commands, interactions, operations, attempts, epoch, pin, events, owners>>

----------------------------------------------------------------------------
(* Row types.                                                              *)

Live == {"pending", "running"}
Terminal == {"completed", "interrupted"} \cup FailureStates \cup {"failed"}
RunState == {"absent", "awaiting_input"} \cup Live \cup Terminal

RunRow ==
  [state: RunState, owner: Replica \cup {None}, epoch: Nat, lease: 0..Lease,
   product: Product \cup {None}, digest: Digest \cup {None}, journey: Journey \cup {None}]

\* A command that is neither included nor has a terminal_reason is still to be drained.
CommandRow ==
  [exec: Command \cup {None}, reply: Command \cup {None}, included: BOOLEAN,
   reason: {"", "consumed", "interrupted"} \cup FailureStates]

Binding ==
  (Product \cup {None}) \X (Digest \cup {None}) \X (Journey \cup {None}) \X (Shape \cup {None})

Marker == {"", "requested", "decided", "denied", "dispatched", "superseded"}

InteractionRow ==
  [state: {"absent", "pending", "consumed", "expired"},
   kind: {"approval", "clarification"}, call: Call \cup {None}, binding: Binding,
   journey: Journey \cup {None}, digest: Digest \cup {None}, valid: BOOLEAN,
   cont: Command \cup {None}, marker: Marker]

Policy == {"read_only", "idempotent", "effectful"}
Outcome == {"none", "dispatching", "completed", "rejected", "auth_required", "outcome_unknown"}

OperationRow ==
  [run: Command \cup {None}, policy: Policy, approval: BOOLEAN, binding: Binding, outcome: Outcome]

NoBinding == <<None, None, None, None>>
NoRun ==
  [state |-> "absent", owner |-> None, epoch |-> 0, lease |-> 0,
   product |-> None, digest |-> None, journey |-> None]
NoCommand == [exec |-> None, reply |-> None, included |-> FALSE, reason |-> ""]
NoInteraction ==
  [state |-> "absent", kind |-> "clarification", call |-> None, binding |-> NoBinding,
   journey |-> None, digest |-> None, valid |-> FALSE, cont |-> None, marker |-> ""]
NoOperation ==
  [run |-> None, policy |-> "read_only", approval |-> FALSE, binding |-> NoBinding,
   outcome |-> "none"]

Owner == [run: Command, id: Replica, epoch: Nat]

TypeOK ==
  /\ runs \in [Command -> RunRow]
  /\ commands \in [Command -> CommandRow]
  /\ interactions \in [Command -> InteractionRow]
  /\ operations \in [Call -> OperationRow]
  /\ attempts \in [Call -> [1..2 -> Outcome]]
  /\ epoch \in Nat
  /\ pin \in Digest \cup {None}
  /\ owners \subseteq Owner

\* The event type that reports an outcome, and the one that ends a run.
ToolEvent ==
  [completed |-> "tool.completed", rejected |-> "tool.rejected",
   auth_required |-> "tool.auth_required", outcome_unknown |-> "tool.outcome_unknown"]
RunEvent ==
  [completed |-> "run.completed", interrupted |-> "run.interrupted", failed |-> "run.failed",
   auth_required |-> "auth_required", dependency_unavailable |-> "run.dependency_unavailable",
   limit_exceeded |-> "run.limit_exceeded"]

----------------------------------------------------------------------------
(* What the UPDATE statements do to one row.                               *)

FreshRun(j, d) ==
  [state |-> "pending", owner |-> None, epoch |-> 0, lease |-> Lease,
   product |-> None, digest |-> d, journey |-> j]
Claimed(run, p, e) ==
  [run EXCEPT !.state = "running", !.owner = p, !.epoch = e, !.lease = Lease]
Leased(run, n) == [run EXCEPT !.lease = n]
Scoped(run, v) == [run EXCEPT !.product = v]
Started(run, j, d) == [run EXCEPT !.digest = d, !.journey = IF j = None THEN @ ELSE j]
Suspended(run) == [run EXCEPT !.state = "awaiting_input", !.owner = None, !.lease = 0]
Ended(run, state) == [run EXCEPT !.state = state]

Disposed(command, reason) == [command EXCEPT !.reason = reason]
InRequest(command) == [command EXCEPT !.included = TRUE]

Marked(wait, marker) == [wait EXCEPT !.marker = marker]
TimedOut(wait) == [wait EXCEPT !.valid = FALSE]
Consumed(wait, c, approved) ==
  [wait EXCEPT !.state = "consumed", !.cont = c,
               !.marker = IF wait.kind # "approval" THEN ""
                          ELSE IF approved THEN "decided" ELSE "denied"]
Expired(wait) ==
  [wait EXCEPT !.state = "expired", !.marker = IF wait.kind = "approval" THEN "denied" ELSE ""]

Reported(op, outcome) == [op EXCEPT !.outcome = outcome]

----------------------------------------------------------------------------
(* Queries and updates shared by several methods.                          *)

\* appendEvent.  Consecutive events of one type in one transaction are one
\* entry with the set of commands or calls they are about.
Ev(type, r, about) ==
  IF type \in Observed /\ about # {}
  THEN <<[type |-> type, run |-> r, about |-> about]>>
  ELSE <<>>

\* lockOwner: the fence of every owned operation.
lockOwner(o) ==
  /\ runs[o.run].state = "running"
  /\ runs[o.run].owner = o.id
  /\ runs[o.run].epoch = o.epoch
  /\ runs[o.run].lease > 0

\* NOT included AND terminal_reason=''
Undrained(r) ==
  {c \in Command : commands[c].exec = r /\ ~commands[c].included /\ commands[c].reason = ""}

Unresolved(k) == operations[k].outcome \in {"dispatching", "outcome_unknown"}

Continuation(r) ==
  \E i \in Command : interactions[i].cont = r /\ interactions[i].state = "consumed"

\* The runs interruptExpired would interrupt: live, lease run out, and not a
\* reply continuation that nobody has claimed yet.
Lost ==
  {r \in Command : /\ runs[r].state \in Live
                   /\ runs[r].lease = 0
                   /\ ~(runs[r].state = "pending" /\ runs[r].epoch = 0 /\ Continuation(r))}

\* The waits expireInteractions would expire.
Overdue == {i \in Command : interactions[i].state = "pending" /\ ~interactions[i].valid}

\* Mutant of disposePending: nothing is disposed of.
KeepPending(R, reason) == commands

disposePending(R, reason) ==
  [c \in Command |-> IF \E r \in R : c \in Undrained(r)
                     THEN Disposed(commands[c], reason)
                     ELSE commands[c]]

Dispatching(R) == {k \in Call : operations[k].run \in R /\ operations[k].outcome = "dispatching"}

\* Mutant of markOperationsUnknown: nothing is marked.
MarkNothing(R) == UNCHANGED <<operations, attempts>>

\* Mutant of markOperationsUnknown: agent_attempts is not updated.
MarkOperationsOnly(R) ==
  /\ operations' = [k \in Call |-> IF k \in Dispatching(R)
                                   THEN Reported(operations[k], "outcome_unknown")
                                   ELSE operations[k]]
  /\ UNCHANGED attempts

markOperationsUnknown(R) ==
  /\ operations' = [k \in Call |-> IF k \in Dispatching(R)
                                   THEN Reported(operations[k], "outcome_unknown")
                                   ELSE operations[k]]
  /\ attempts' = [k \in Call |-> IF operations[k].run \in R
                                 THEN [n \in 1..2 |-> IF attempts[k][n] = "dispatching"
                                                      THEN "outcome_unknown"
                                                      ELSE attempts[k][n]]
                                 ELSE attempts[k]]

\* Mutant of RunsSwept: an expired wait leaves its run waiting.
RunsInterrupted(R) ==
  [r \in Command |-> IF r \in R THEN Ended(runs[r], "interrupted") ELSE runs[r]]

\* agent_runs after interruptExpired(R) and expireInteractions.
RunsSwept(R) ==
  [r \in Command |->
     IF r \in R THEN Ended(runs[r], "interrupted")
     ELSE IF r \in Overdue /\ runs[r].state = "awaiting_input"
          THEN Ended(runs[r], "failed")
          ELSE runs[r]]

expireInteractions ==
  [i \in Command |-> IF i \in Overdue THEN Expired(interactions[i]) ELSE interactions[i]]

\* R and Overdue have at most one member between them (Exclusive below).
SweepEvents(R) ==
  LET r == CHOOSE x \in R : TRUE
      i == CHOOSE x \in Overdue : TRUE
  IN (IF R = {} THEN <<>>
      ELSE Ev("tool.outcome_unknown", r, Dispatching({r}))
             \o Ev("command.interrupted", r, Undrained(r))
             \o Ev("run.interrupted", r, {r}))
     \o (IF Overdue = {} THEN <<>>
         ELSE Ev("interaction.expired", i, {i}) \o Ev("run.failed", i, {i}))

----------------------------------------------------------------------------
(* Time.                                                                   *)

\* A live run's lease runs down; only the owner's Renew sets it back.
LeaseTick(r) ==
  /\ runs[r].state \in Live
  /\ runs[r].lease > 0
  /\ runs' = [runs EXCEPT ![r] = Leased(@, @.lease - 1)]
  /\ UNCHANGED <<commands, interactions, operations, attempts, epoch, pin, events, owners>>

\* expires_at passes.  After the wait is consumed only an undispatched approval reads it.
InteractionTimeout(i) ==
  /\ interactions[i].state = "pending" \/ interactions[i].marker = "decided"
  /\ interactions[i].valid
  /\ interactions' = [interactions EXCEPT ![i] = TimedOut(@)]
  /\ UNCHANGED <<runs, commands, operations, attempts, epoch, pin, events, owners>>

----------------------------------------------------------------------------
(* Admission: commands.go and the reply half of interactions.go.           *)

Accepted(r, i, reason) == [exec |-> r, reply |-> i, included |-> FALSE, reason |-> reason]

\* Mutant of Admit: an open wait does not refuse the message.
AdmitDespiteWait(c) ==
  LET swept == RunsSwept(Lost)
  IN /\ commands[c].exec = None
     /\ \A r \in Command : swept[r].state \notin Live
     /\ runs' = [swept EXCEPT ![c] = FreshRun(None, None)]
     /\ commands' = [disposePending(Lost, "interrupted") EXCEPT ![c] = Accepted(c, None, "")]
     /\ events' = events \o SweepEvents(Lost) \o Ev("command.accepted", c, {c})
     /\ interactions' = expireInteractions
     /\ markOperationsUnknown(Lost)
     /\ UNCHANGED <<epoch, pin, owners>>

\* A message.  Interruption and expiry of what has timed out come first, in the
\* same transaction; then the message joins the live run's inbox or starts a run.
Admit(c) ==
  LET swept == RunsSwept(Lost)
      live == {r \in Command : swept[r].state \in Live}
      accept(r) == [disposePending(Lost, "interrupted") EXCEPT ![c] = Accepted(r, None, "")]
  IN /\ commands[c].exec = None
     /\ \A i \in Command : interactions[i].state = "pending" => i \in Overdue
     /\ \/ /\ live = {}
           /\ runs' = [swept EXCEPT ![c] = FreshRun(None, None)]
           /\ commands' = accept(c)
           /\ events' = events \o SweepEvents(Lost) \o Ev("command.accepted", c, {c})
        \/ \E r \in live :
             /\ Target[c] \in {None, runs[r].journey, Target[r]}
             /\ runs' = swept
             /\ commands' = accept(r)
             /\ events' = events \o SweepEvents(Lost) \o Ev("command.accepted", r, {c})
     /\ interactions' = expireInteractions
     /\ markOperationsUnknown(Lost)
     /\ UNCHANGED <<epoch, pin, owners>>

\* A reply to a wait that has run out expires it, and that commits.
ReplyTooLate(c, i) ==
  /\ commands[c].exec = None
  /\ i \in Overdue
  /\ runs' = RunsSwept({})
  /\ interactions' = expireInteractions
  /\ events' = events \o SweepEvents({})
  /\ UNCHANGED <<commands, operations, attempts, epoch, pin, owners>>

\* A reply consumes the wait, ends the waiting run and admits its continuation.
ReplyInTime(c, i, approve) ==
  LET approved == approve /\ interactions[i].kind = "approval"
  IN /\ commands[c].exec = None
     /\ interactions[i].state = "pending"
     /\ interactions[i].valid
     /\ Target[c] = None \/ interactions[i].journey = None \/ Target[c] = interactions[i].journey
     /\ commands' = [commands EXCEPT ![c] = Accepted(c, i, IF approved THEN "consumed" ELSE "")]
     /\ interactions' = [interactions EXCEPT ![i] = Consumed(@, c, approved)]
     /\ runs' = [r \in Command |->
                   IF r = c THEN FreshRun(interactions[i].journey, interactions[i].digest)
                   ELSE IF r = i /\ runs[r].state = "awaiting_input"
                        THEN Ended(runs[r], "completed")
                        ELSE runs[r]]
     /\ events' = events \o Ev("interaction.consumed", i, {i}) \o Ev("command.accepted", c, {c})
                         \o (IF approved THEN Ev("command.consumed", c, {c}) ELSE <<>>)
     /\ UNCHANGED <<operations, attempts, epoch, pin, owners>>

reply(c, i, approve) == ReplyTooLate(c, i) \/ ReplyInTime(c, i, approve)

----------------------------------------------------------------------------
(* Ownership: owners.go.                                                   *)

\* Mutant of Claim: the conversation's epoch is not written back.
ClaimUncounted(c, p) ==
  /\ commands[c].exec = c
  /\ runs[c].state = "pending"
  /\ \/ runs[c].lease > 0
     \/ /\ runs[c].epoch = 0
        /\ commands[c].reply # None
        /\ interactions[commands[c].reply].cont = c
        /\ interactions[commands[c].reply].state = "consumed"
  /\ runs' = [runs EXCEPT ![c] = Claimed(@, p, epoch + 1)]
  /\ owners' = owners \cup {[run |-> c, id |-> p, epoch |-> epoch + 1]}
  /\ events' = events \o Ev("run.started", c, {c})
  /\ UNCHANGED <<commands, interactions, operations, attempts, epoch, pin>>

\* recoverable: an unclaimed continuation may be claimed after its lease ran out.
Claim(c, p) ==
  /\ commands[c].exec = c
  /\ runs[c].state = "pending"
  /\ \/ runs[c].lease > 0
     \/ /\ runs[c].epoch = 0
        /\ commands[c].reply # None
        /\ interactions[commands[c].reply].cont = c
        /\ interactions[commands[c].reply].state = "consumed"
  /\ epoch' = epoch + 1
  /\ runs' = [runs EXCEPT ![c] = Claimed(@, p, epoch + 1)]
  /\ owners' = owners \cup {[run |-> c, id |-> p, epoch |-> epoch + 1]}
  /\ events' = events \o Ev("run.started", c, {c})
  /\ UNCHANGED <<commands, interactions, operations, attempts, pin>>

Renew(o) ==
  /\ lockOwner(o)
  /\ runs' = [runs EXCEPT ![o.run] = Leased(@, Lease)]
  /\ UNCHANGED <<commands, interactions, operations, attempts, epoch, pin, events, owners>>

\* One candidate of Reap.  The candidate list is read without the lock; a
\* candidate that is no longer due when its transaction runs changes nothing.
Reap(r) ==
  LET R == {r} \cap Lost
  IN /\ R # {} \/ Overdue # {}
     /\ runs' = RunsSwept(R)
     /\ commands' = disposePending(R, "interrupted")
     /\ interactions' = expireInteractions
     /\ markOperationsUnknown(R)
     /\ events' = events \o SweepEvents(R)
     /\ UNCHANGED <<epoch, pin, owners>>

----------------------------------------------------------------------------
(* Run start: scope.go, definitions.go, sessions.go.                       *)

\* Write-once-or-equal.
RecordRunScope(o, v) ==
  /\ lockOwner(o)
  /\ runs[o.run].product = None
  /\ runs' = [runs EXCEPT ![o.run] = Scoped(@, v)]
  /\ UNCHANGED <<commands, interactions, operations, attempts, epoch, pin, events, owners>>

conversationIdle(o) ==
  /\ commands[o.run].reply = None
  /\ \A i \in Command : interactions[i].state # "pending"
  /\ \A k \in Call : ~Unresolved(k)

\* d is the current definition set when the transaction runs; a replica that
\* cannot serve the set it would need gets ErrDefinition and writes nothing.
ResolveDefinition(o, d) ==
  /\ lockOwner(o)
  /\ pin # d
  /\ pin = None \/ conversationIdle(o)
  /\ pin' = d
  /\ events' = events \o (IF pin = None THEN <<>> ELSE Ev("definition_changed", o.run, {o.run}))
  /\ UNCHANGED <<runs, commands, interactions, operations, attempts, epoch, owners>>

Start(o, j, d) ==
  /\ lockOwner(o)
  /\ \A k \in Call : ~Unresolved(k)
  /\ pin \in {None, d}
  /\ j = None \/ runs[o.run].journey \in {None, j}
  /\ pin' = d
  /\ runs' = [runs EXCEPT ![o.run] = Started(@, j, d)]
  /\ UNCHANGED <<commands, interactions, operations, attempts, epoch, events, owners>>

----------------------------------------------------------------------------
(* The inbox: inbox.go.                                                    *)

\* Mutant of Included: commands that are no longer undrained are accepted.
IncludedAgain(o, S) ==
  /\ lockOwner(o)
  /\ S # {}
  /\ S \subseteq {c \in Command : commands[c].exec = o.run}
  /\ commands' = [c \in Command |-> IF c \in S THEN InRequest(commands[c]) ELSE commands[c]]
  /\ events' = events \o Ev("command.included", o.run, S)
  /\ UNCHANGED <<runs, interactions, operations, attempts, epoch, pin, owners>>

\* S is what an earlier Pending returned; one command that is no longer
\* undrained makes the whole call ErrState.
Included(o, S) ==
  /\ lockOwner(o)
  /\ S # {}
  /\ S \subseteq Undrained(o.run)
  /\ commands' = [c \in Command |-> IF c \in S THEN InRequest(commands[c]) ELSE commands[c]]
  /\ events' = events \o Ev("command.included", o.run, S)
  /\ UNCHANGED <<runs, interactions, operations, attempts, epoch, pin, owners>>

----------------------------------------------------------------------------
(* Human waits: interactions.go.                                           *)

BindCall(r, j, s) == <<runs[r].product, runs[r].digest, j, s>>

\* Commits the wait and releases the owner in one transaction.
Wait(o, kind, k, j, s) ==
  /\ lockOwner(o)
  /\ Undrained(o.run) = {}
  /\ kind = "approval" => j # None
  /\ runs[o.run].product # None
  /\ runs[o.run].digest # None
  /\ interactions' = [interactions EXCEPT ![o.run] =
       [state |-> "pending", kind |-> kind, call |-> k, binding |-> BindCall(o.run, j, s),
        journey |-> IF j = None THEN runs[o.run].journey ELSE j,
        digest |-> runs[o.run].digest, valid |-> TRUE, cont |-> None,
        marker |-> IF kind = "approval" THEN "requested" ELSE ""]]
  /\ runs' = [runs EXCEPT ![o.run] = Suspended(@)]
  /\ events' = events \o Ev("run.awaiting_input", o.run, {o.run})
  /\ UNCHANGED <<commands, operations, attempts, epoch, pin, owners>>

\* Mutant of Decided: the marker is not checked.
DecidedOnce(r, i) ==
  /\ interactions[i].cont = r
  /\ interactions[i].kind = "approval"
  /\ interactions[i].state = "consumed"

\* An approval this run was admitted to carry out, decided and not yet used.
Decided(r, i) ==
  /\ interactions[i].cont = r
  /\ interactions[i].kind = "approval"
  /\ interactions[i].state = "consumed"
  /\ interactions[i].marker = "decided"

Supersede(o, i) ==
  /\ lockOwner(o)
  /\ Decided(o.run, i)
  /\ interactions' = [interactions EXCEPT ![i] = Marked(@, "superseded")]
  /\ events' = events \o Ev("interaction.superseded", o.run, {i})
  /\ UNCHANGED <<runs, commands, operations, attempts, epoch, pin, owners>>

----------------------------------------------------------------------------
(* Tool calls: operations.go.                                              *)

\* What every BeginAttempt requires: the fence, a scoped and pinned run, and
\* no other unresolved operation of the thread.
MayAttempt(o, k) ==
  /\ lockOwner(o)
  /\ runs[o.run].product # None
  /\ runs[o.run].digest # None
  /\ \A x \in Call \ {k} : ~Unresolved(x)

Insert(o, k, policy, approval, b) ==
  /\ operations[k].outcome = "none"
  /\ operations' = [operations EXCEPT ![k] = [run |-> o.run, policy |-> policy,
                      approval |-> approval, binding |-> b, outcome |-> "dispatching"]]
  /\ attempts' = [attempts EXCEPT ![k][1] = "dispatching"]
  /\ events' = events \o Ev("tool.started", o.run, {k})

\* Attempt 1 of a read_only call that needs no approval.
BeginUnapproved(o, k, j, s) ==
  /\ MayAttempt(o, k)
  /\ Insert(o, k, "read_only", FALSE, BindCall(o.run, j, s))
  /\ UNCHANGED <<runs, commands, interactions, epoch, pin, owners>>

\* Mutant of BeginApproved: the binding is not compared with the approved one.
BeginApprovedUnbound(o, k, policy, i, j, s) ==
  /\ MayAttempt(o, k)
  /\ Decided(o.run, i)
  /\ interactions[i].valid
  /\ interactions[i].call = k
  /\ Insert(o, k, policy, TRUE, BindCall(o.run, j, s))
  /\ interactions' = [interactions EXCEPT ![i] = Marked(@, "dispatched")]
  /\ UNCHANGED <<runs, commands, epoch, pin, owners>>

\* Attempt 1 of an approved call: it goes out once, for the binding that was
\* approved; a call that has changed since supersedes the approval instead.
BeginApproved(o, k, policy, i, j, s) ==
  /\ MayAttempt(o, k)
  /\ Decided(o.run, i)
  /\ interactions[i].valid
  /\ interactions[i].call = k
  /\ IF interactions[i].binding = BindCall(o.run, j, s)
     THEN /\ Insert(o, k, policy, TRUE, BindCall(o.run, j, s))
          /\ interactions' = [interactions EXCEPT ![i] = Marked(@, "dispatched")]
     ELSE /\ interactions' = [interactions EXCEPT ![i] = Marked(@, "superseded")]
          /\ events' = events \o Ev("interaction.superseded", o.run, {i})
          /\ UNCHANGED <<operations, attempts>>
  /\ UNCHANGED <<runs, commands, epoch, pin, owners>>

\* Mutant of BeginRetry: the call may belong to another run.
BeginRetryAnyRun(o, k, j, s) ==
  /\ MayAttempt(o, k)
  /\ operations[k].binding = BindCall(o.run, j, s)
  /\ operations[k].policy # "effectful"
  /\ operations[k].outcome \in {"rejected", "outcome_unknown"}
  /\ attempts[k][2] = "none"
  /\ operations' = [operations EXCEPT ![k] = Reported(@, "dispatching")]
  /\ attempts' = [attempts EXCEPT ![k][2] = "dispatching"]
  /\ events' = events \o Ev("tool.started", o.run, {k})
  /\ UNCHANGED <<runs, commands, interactions, epoch, pin, owners>>

\* Attempt 2: the same call again, unless it is effectful.
BeginRetry(o, k, j, s) ==
  /\ MayAttempt(o, k)
  /\ operations[k].run = o.run
  /\ operations[k].binding = BindCall(o.run, j, s)
  /\ operations[k].policy # "effectful"
  /\ operations[k].outcome \in {"rejected", "outcome_unknown"}
  /\ attempts[k][2] = "none"
  /\ operations' = [operations EXCEPT ![k] = Reported(@, "dispatching")]
  /\ attempts' = [attempts EXCEPT ![k][2] = "dispatching"]
  /\ events' = events \o Ev("tool.started", o.run, {k})
  /\ UNCHANGED <<runs, commands, interactions, epoch, pin, owners>>

BeginAttempt(o, k, j, s) ==
  \/ BeginUnapproved(o, k, j, s)
  \/ \E policy \in Policy, i \in Command : BeginApproved(o, k, policy, i, j, s)
  \/ BeginRetry(o, k, j, s)

EndAttempt(o, k, n, outcome) ==
  /\ lockOwner(o)
  /\ operations[k].run = o.run
  /\ operations[k].outcome = "dispatching"
  /\ attempts[k][n] = "dispatching"
  /\ operations' = [operations EXCEPT ![k] = Reported(@, outcome)]
  /\ attempts' = [attempts EXCEPT ![k][n] = outcome]
  /\ events' = events \o Ev(ToolEvent[outcome], o.run, {k})
  /\ UNCHANGED <<runs, commands, interactions, epoch, pin, owners>>

----------------------------------------------------------------------------
(* Run end: sessions.go, usage.go.                                         *)

\* Mutant of Complete: the inbox is not checked.
CompleteRegardless(o) ==
  /\ lockOwner(o)
  /\ runs' = [runs EXCEPT ![o.run] = Ended(@, "completed")]
  /\ events' = events \o Ev("message.completed", o.run, {o.run})
                      \o Ev("run.completed", o.run, {o.run})
  /\ UNCHANGED <<commands, interactions, operations, attempts, epoch, pin, owners>>

Complete(o) ==
  /\ lockOwner(o)
  /\ Undrained(o.run) = {}
  /\ runs' = [runs EXCEPT ![o.run] = Ended(@, "completed")]
  /\ events' = events \o Ev("message.completed", o.run, {o.run})
                      \o Ev("run.completed", o.run, {o.run})
  /\ UNCHANGED <<commands, interactions, operations, attempts, epoch, pin, owners>>

\* finish for every other state, FinishFailed and FinishLimitExceeded included.
Fail(o, state) ==
  /\ lockOwner(o)
  /\ markOperationsUnknown({o.run})
  /\ commands' = disposePending({o.run}, state)
  /\ runs' = [runs EXCEPT ![o.run] = Ended(@, state)]
  /\ events' = events \o Ev("tool.outcome_unknown", o.run, Dispatching({o.run}))
                      \o Ev("command.rejected", o.run, Undrained(o.run))
                      \o Ev(RunEvent[state], o.run, {o.run})
  /\ UNCHANGED <<interactions, epoch, pin, owners>>

finish(o) == Complete(o) \/ \E state \in FailureStates : Fail(o, state)

----------------------------------------------------------------------------
Init ==
  /\ runs = [r \in Command |-> NoRun]
  /\ commands = [c \in Command |-> NoCommand]
  /\ interactions = [i \in Command |-> NoInteraction]
  /\ operations = [k \in Call |-> NoOperation]
  /\ attempts = [k \in Call |-> [n \in 1..2 |-> "none"]]
  /\ epoch = 0
  /\ pin = None
  /\ events = <<>>
  /\ owners = {}

\* What the holder of token o may ask for.
Owned(o) ==
  \/ Renew(o)
  \/ \E v \in Product : RecordRunScope(o, v)
  \/ \E d \in Digest : ResolveDefinition(o, d)
  \/ \E j \in Journey \cup {None}, d \in Digest : Start(o, j, d)
  \/ \E S \in SUBSET Command : Included(o, S)
  \/ Wait(o, "clarification", None, None, None)
  \/ \E k \in Call, j \in Journey, s \in Shape :
       Wait(o, "approval", k, j, s) \/ BeginAttempt(o, k, j, s)
  \/ \E i \in Command : Supersede(o, i)
  \/ \E k \in Call, n \in 1..2, outcome \in Outcome \ {"none", "dispatching"} :
       EndAttempt(o, k, n, outcome)
  \/ finish(o)

\* What needs no token: clients, the claiming replica, the reaper and the clock.
Unowned(c) ==
  \/ Admit(c)
  \/ \E i \in Command, approve \in BOOLEAN : reply(c, i, approve)
  \/ \E p \in Replica : Claim(c, p)
  \/ Reap(c)
  \/ LeaseTick(c)
  \/ InteractionTimeout(c)

Next == (\E c \in Command : Unowned(c)) \/ (\E o \in owners : Owned(o))

Spec == Init /\ [][Next]_vars

----------------------------------------------------------------------------
(* Properties.                                                             *)

\* One thing at a time: the thread has at most one live run or open wait, and
\* never both.  The unique indexes agent_one_live_run and
\* agent_one_pending_interaction are thus never hit by Admit, reply or Wait.
Busy(r) == runs[r].state \in Live \/ interactions[r].state = "pending"
Exclusive == \A r1, r2 \in Command : Busy(r1) /\ Busy(r2) => r1 = r2

\* A run awaits input exactly while its wait is open: no reply or expiry leaves
\* a run waiting for an answer nobody can give any more.
WaitsMatch ==
  \A r \in Command : runs[r].state = "awaiting_input" <=> interactions[r].state = "pending"

\* A thread does one thing at a time, and knows which: it is free, has one live
\* run, or has one open wait that its run awaits.
OneThing == Exclusive /\ WaitsMatch

\* Fencing: of all owner tokens ever handed out, at most one passes lockOwner,
\* and it carries the conversation's latest epoch.
Fenced ==
  \A o1 \in owners : lockOwner(o1) =>
    /\ o1.epoch = epoch
    /\ \A o2 \in owners : lockOwner(o2) => o1 = o2

\* The accept/run race: an accepted command that is still to be drained belongs
\* to a run that can still drain it, never to one that waits or has ended.
NoneStranded ==
  \A r, c \in Command : c \in Undrained(r) => runs[r].state \in Live

\* An approval is used at most once, by the run its reply admitted, for the very
\* call, arguments and versions that were approved.
UsedAsApproved ==
  \A i \in Command : interactions[i].marker = "dispatched" =>
    LET op == operations[interactions[i].call]
    IN /\ interactions[i].call # None
       /\ op.approval
       /\ op.run = interactions[i].cont
       /\ op.binding = interactions[i].binding
       /\ \A j \in Command : interactions[j].marker = "dispatched"
                             /\ interactions[j].call = interactions[i].call => i = j

\* No call that may have an effect goes out without such an approval.
NothingUnapproved ==
  \A k \in Call : operations[k].outcome # "none" /\ operations[k].policy # "read_only" =>
    \E i \in Command : interactions[i].marker = "dispatched" /\ interactions[i].call = k

\* Approvals and calls match one another: each approval is used for its call
\* only, and each call that may have an effect used one.
ApprovalsKept == UsedAsApproved /\ NothingUnapproved

\* agent_operations and agent_attempts tell the same story: an operation's
\* outcome is that of its last attempt, a second attempt follows a rejected or
\* unknown first one, and an effectful call has no second attempt.
AttemptsAgree ==
  \A k \in Call :
    IF attempts[k][2] = "none" THEN operations[k].outcome = attempts[k][1]
    ELSE /\ operations[k].outcome = attempts[k][2]
         /\ attempts[k][1] \in {"rejected", "outcome_unknown"}
         /\ operations[k].policy # "effectful"

\* The thread never has two tool calls whose outcome is open.
OneUnresolved == \A k1, k2 \in Call : Unresolved(k1) /\ Unresolved(k2) => k1 = k2

\* The strengthenings that make the above inductive.  A row that was never
\* inserted is blank; a run that has not started to wait has no interaction; a
\* run is claimed at most once, and the running one holds the latest epoch.
RunsConsistent ==
  \A x \in Command :
    /\ commands[x].exec = None => runs[x].state = "absent"
    /\ runs[x].state \in {"absent"} \cup Live => interactions[x] = NoInteraction
    /\ runs[x].state \in {"absent", "pending"} => runs[x].epoch = 0
    /\ runs[x].state = "running" => runs[x].epoch = epoch

\* A wait's marker follows its state.
MarkersConsistent ==
  \A x \in Command :
    /\ interactions[x].marker \in {"decided", "dispatched", "superseded"} =>
         interactions[x].state = "consumed" /\ interactions[x].kind = "approval"
    /\ interactions[x].marker = "denied" => interactions[x].state # "pending"

CallsConsistent ==
  \A k \in Call : IF operations[k].outcome = "none" THEN ~operations[k].approval
                                                    ELSE operations[k].run # None

Lifecycle == TypeOK /\ RunsConsistent /\ Exclusive /\ WaitsMatch /\ NoneStranded
Calls == CallsConsistent /\ AttemptsAgree /\ OneUnresolved
Approvals == MarkersConsistent /\ UsedAsApproved /\ NothingUnapproved

IInv == Lifecycle /\ Calls /\ Approvals

\* What is decided stays decided, whoever calls late: ended runs, included or
\* disposed commands, closed waits, used or refused approvals.
RunKept(r) ==
  /\ runs[r].state \in Terminal => runs'[r].state = runs[r].state
  /\ runs[r].epoch # 0 => runs'[r].epoch = runs[r].epoch
CommandKept(c) ==
  commands[c].exec # None =>
    /\ commands'[c].exec = commands[c].exec
    /\ commands[c].included \/ commands[c].reason # "" => commands'[c] = commands[c]
WaitKept(i) ==
  /\ interactions[i].state \in {"consumed", "expired"} =>
       /\ interactions'[i].state = interactions[i].state
       /\ interactions'[i].cont = interactions[i].cont
  /\ interactions[i].marker \in {"denied", "dispatched", "superseded"} =>
       interactions'[i].marker = interactions[i].marker
Irrevocable == [][\A x \in Command : RunKept(x) /\ CommandKept(x) /\ WaitKept(x)]_vars

\* The thread-level stop: once a run has ended with a tool call unresolved, no
\* tool call of the thread is started, repeated or closed any more.
ThreadStop ==
  [][(\E k \in Call : Unresolved(k) /\ runs[operations[k].run].state \notin Live)
       => operations' = operations]_vars

\* The log never goes on about a run after the event that ended it, so a reader
\* that stops at that event misses nothing about the run.
EndTypes == {RunEvent[s] : s \in DOMAIN RunEvent}
NoNewsAfterEnd ==
  \A m, n \in DOMAIN events :
    m < n /\ events[m].type \in EndTypes => events[n].run # events[m].run

\* What the tables say became of a command.
Fate(c) ==
  IF commands[c].included THEN {"command.included"}
  ELSE IF commands[c].reason = "" THEN {}
  ELSE IF commands[c].reason = "consumed" THEN {"command.consumed"}
  ELSE IF commands[c].reason = "interrupted" THEN {"command.interrupted"}
  ELSE {"command.rejected"}
FateTypes == {"command.included", "command.consumed", "command.interrupted", "command.rejected"}

\* With every type observed, the log and the tables agree: nothing is said about
\* a run after its end, a run has ended exactly if an event says how, and each
\* accepted command is reported exactly once as what became of it, and not before.
LogFaithful ==
  /\ NoNewsAfterEnd
  /\ \A r \in Command :
       LET told == {n \in DOMAIN events : events[n].run = r
                      /\ events[n].type \in EndTypes \cup {"interaction.consumed"}}
       IN /\ runs[r].state \in Terminal <=> told # {}
          /\ \A m, n \in told : m = n
          /\ \A n \in told : \/ events[n].type = RunEvent[runs[r].state]
                             \/ events[n].type = "interaction.consumed"
                                /\ runs[r].state = "completed"
  /\ \A c \in Command :
       LET told == {n \in DOMAIN events : events[n].type \in FateTypes /\ c \in events[n].about}
       IN (\A m, n \in told : m = n) /\ {events[n].type : n \in told} = Fate(c)
============================================================================
