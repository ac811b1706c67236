------------------------------- MODULE Worker -------------------------------
(***************************************************************************)
(* The platform process around the journal: Submit and execute             *)
(* (internal/platform) and the conversation loop they run                  *)
(* (internal/runtime), composed with the journal of one conversation.      *)
(*                                                                         *)
(* A run is claimed at most once, so there is at most one worker per run   *)
(* and the table of workers is indexed by Command like the tables of the  *)
(* journal.  A worker moves from one journal transaction to the next;      *)
(* what it does in memory in between is part of the step that follows.     *)
(* Messages are abstracted to what the properties tell apart: a history is *)
(* the number of tool proposals in it that have no result yet, and the     *)
(* commands whose text is in it.  The model and the tools are external:    *)
(* they answer anything, late, or not at all.                              *)
(***************************************************************************)
EXTENDS Journal

CONSTANTS
  MaxRounds,      \* provider rounds of one runHarness (16 in the code)
  MaxCalls        \* bound on the calls proposed in one round

ASSUME BudgetAssumption == MaxRounds \in Nat /\ MaxCalls \in Nat
ASSUME EndsAssumption == {"failed", "auth_required"} \subseteq FailureStates

VARIABLES
  claiming,       \* Submits between their Admit and their Claim: <<command, replica>>
  workers,        \* the worker of each run
  history,        \* agent_conversations.history
  saved,          \* agent_interactions.history and checkpoint, by the run that waits
  remote          \* what the tool server did with each attempt

wvars == <<claiming, workers, history, saved, remote>>
allvars == <<vars, wvars>>

History == [open: Nat, texts: SUBSET Command]
Checkpoint == [open: Nat, texts: SUBSET Command, repairs: 0..1]

\* Where a worker is.  The first four are steps of execute, before there is a
\* history in memory whose open proposals a failure would close.
Starting == {"scope", "bind", "start", "open"}
Harness == {"approved", "rewait", "invoke", "request", "model", "calls", "call", "retry"}
Working == Starting \cup Harness \cup {"finish"}

\* pending: what the last Pending returned.  plan: the proposals of this round
\* still to be handled.  kept: whether a failing run has a history to store.
WorkerState ==
  [pc: {"none", "done", "gone"} \cup Working, digest: Digest \cup {None},
   first: BOOLEAN, open: Nat, texts: SUBSET Command, pending: SUBSET Command,
   round: 0..MaxRounds, plan: 0..MaxCalls, repairs: 0..1,
   call: Call \cup {None}, attempt: 1..2, end: Terminal, kept: BOOLEAN]

NoWorker ==
  [pc |-> "none", digest |-> None, first |-> TRUE, open |-> 0, texts |-> {}, pending |-> {},
   round |-> 0, plan |-> 0, repairs |-> 1, call |-> None, attempt |-> 1,
   end |-> "failed", kept |-> FALSE]
Gone == [NoWorker EXCEPT !.pc = "gone"]
Done == [NoWorker EXCEPT !.pc = "done"]

Remote == {"none", "sent", "executed", "refused"}

WTypeOK ==
  /\ claiming \subseteq Command \X Replica
  /\ workers \in [Command -> WorkerState]
  /\ history \in History
  /\ saved \in [Command -> Checkpoint]
  /\ remote \in [Call -> [1..2 -> Remote]]

WInit ==
  /\ Init
  /\ claiming = {}
  /\ workers = [r \in Command |-> NoWorker]
  /\ history = [open |-> 0, texts |-> {}]
  /\ saved = [r \in Command |-> [open |-> 0, texts |-> {}, repairs |-> 1]]
  /\ remote = [k \in Call |-> [n \in 1..2 |-> "none"]]

----------------------------------------------------------------------------
(* Submit, and what happens without a worker.                              *)

\* expireInteractions closes the wait's proposal in the conversation's history.
HistorySwept ==
  IF Overdue = {} THEN history
  ELSE LET i == CHOOSE x \in Overdue : TRUE
       IN [open |-> saved[i].open - 1, texts |-> saved[i].texts]

Submit(c, p) ==
  /\ Admit(c)
  /\ history' = HistorySwept
  /\ claiming' = IF commands'[c].exec = c THEN claiming \cup {<<c, p>>} ELSE claiming
  /\ UNCHANGED <<workers, saved, remote>>

SubmitReply(c, p, i, approve) ==
  /\ \/ ReplyInTime(c, i, approve) /\ claiming' = claiming \cup {<<c, p>>} /\ UNCHANGED history
     \/ ReplyTooLate(c, i) /\ history' = HistorySwept /\ UNCHANGED claiming
  /\ UNCHANGED <<workers, saved, remote>>

\* A reply sent again, to any replica, claims its continuation if nobody has.
Resubmit(c, p) ==
  /\ commands[c].exec = c
  /\ commands[c].reply # None
  /\ runs[c].state = "pending"
  /\ claiming' = claiming \cup {<<c, p>>}
  /\ UNCHANGED <<vars, workers, history, saved, remote>>

\* Submit ends before its Claim commits: the client went away, the process
\* stopped, or Claim refused.
Abandon(c, p) ==
  /\ <<c, p>> \in claiming
  /\ claiming' = claiming \ {<<c, p>>}
  /\ UNCHANGED <<vars, workers, history, saved, remote>>

StartWorker(c, p) ==
  /\ <<c, p>> \in claiming
  /\ Claim(c, p)
  /\ claiming' = claiming \ {<<c, p>>}
  /\ workers' = [workers EXCEPT ![c] = [NoWorker EXCEPT !.pc = "scope"]]
  /\ UNCHANGED <<history, saved, remote>>

Reaper(r) ==
  /\ Reap(r)
  /\ history' = HistorySwept
  /\ UNCHANGED <<claiming, workers, saved, remote>>

Clock(x) ==
  /\ LeaseTick(x) \/ InteractionTimeout(x)
  /\ UNCHANGED wvars

\* The tool server carries out or refuses a request, however late.
Tool(k, n) ==
  /\ remote[k][n] = "sent"
  /\ \E verdict \in {"executed", "refused"} : remote' = [remote EXCEPT ![k][n] = verdict]
  /\ UNCHANGED <<vars, claiming, workers, history, saved>>

----------------------------------------------------------------------------
(* execute, up to the conversation loop.  o is the worker's owner token.    *)

At(o, pc) == workers[o.run].pc = pc
Become(o, w) == workers' = [workers EXCEPT ![o.run] = w]

Scope(o) ==
  /\ At(o, "scope")
  /\ \E v \in Product : RecordRunScope(o, v)
  /\ Become(o, [workers[o.run] EXCEPT !.pc = "bind"])
  /\ UNCHANGED <<claiming, history, saved, remote>>

\* Binding: the conversation is re-pinned, or its pin is what the run will use.
Bind(o) ==
  /\ At(o, "bind")
  /\ \/ \E d \in Digest : ResolveDefinition(o, d)
     \/ lockOwner(o) /\ pin # None /\ UNCHANGED vars
  /\ Become(o, [workers[o.run] EXCEPT !.pc = "start", !.digest = pin'])
  /\ UNCHANGED <<claiming, history, saved, remote>>

\* Submit's target: a reply's run continues in the journey it was admitted with.
TargetJourney(r) == IF commands[r].reply # None THEN runs[r].journey ELSE Target[r]

\* The cost gate, then Start, which also reads the conversation's history.
StartRun(o) ==
  /\ At(o, "start")
  /\ Start(o, TargetJourney(o.run), workers[o.run].digest)
  /\ Become(o, [workers[o.run] EXCEPT !.pc = "open", !.open = history.open,
                                      !.texts = history.texts])
  /\ UNCHANGED <<claiming, history, saved, remote>>

\* Run, up to the first provider round.  The first time, a continuation goes on
\* from the history its wait saved: an approved call is still to be made, any
\* other answer closes the proposal.
Open(o) ==
  LET w == workers[o.run]
      i == commands[o.run].reply
      resumes == w.first /\ i # None
      approved == commands[o.run].reason = "consumed"
  IN /\ At(o, "open")
     /\ lockOwner(o)
     /\ Become(o, IF resumes
                  THEN [w EXCEPT !.pc = IF approved THEN "approved" ELSE "invoke", !.round = 0,
                                 !.open = IF approved THEN saved[i].open ELSE saved[i].open - 1,
                                 !.texts = saved[i].texts, !.repairs = saved[i].repairs]
                  ELSE [w EXCEPT !.pc = "invoke", !.round = 0, !.repairs = 1])
     /\ UNCHANGED <<vars, claiming, history, saved, remote>>

----------------------------------------------------------------------------
(* runHarness: provider rounds.                                            *)

\* invoke: drain the inbox into the request.
Invoke(o) ==
  /\ At(o, "invoke")
  /\ workers[o.run].round < MaxRounds
  /\ lockOwner(o)
  /\ Become(o, [workers[o.run] EXCEPT !.pc = "request", !.pending = Undrained(o.run),
                                      !.round = @ + 1])
  /\ UNCHANGED <<vars, claiming, history, saved, remote>>

\* OnDispatch, at the boundary of the provider's transport.
OnDispatch(o) ==
  LET S == workers[o.run].pending
  IN /\ At(o, "request")
     /\ IF S = {} THEN lockOwner(o) /\ UNCHANGED vars ELSE Included(o, S)
     /\ Become(o, [workers[o.run] EXCEPT !.pc = "model"])
     /\ UNCHANGED <<claiming, history, saved, remote>>

\* The model answers, or proposes calls; only now is the drained text part of
\* the history (a failed request leaves it as it was before the request).
Respond(o) ==
  LET w == workers[o.run]
      heard == [w EXCEPT !.texts = @ \cup {c \in w.pending : commands[c].reply = None},
                         !.pending = {}]
  IN /\ At(o, "model")
     /\ lockOwner(o)
     /\ \/ Become(o, [heard EXCEPT !.pc = "finish", !.end = "completed"])
        \/ \E n \in 1..MaxCalls :
             Become(o, [heard EXCEPT !.pc = "calls", !.plan = n, !.open = @ + n])
     /\ UNCHANGED <<vars, claiming, history, saved, remote>>

\* A result is appended for the proposal at hand.
Settled(w) ==
  [w EXCEPT !.pc = IF w.plan > 1 THEN "calls" ELSE "invoke", !.open = @ - 1,
            !.plan = IF w.plan > 0 THEN w.plan - 1 ELSE 0, !.call = None, !.attempt = 1]
\* The run fails and the deferred function closes every open proposal.
Failing(w, state) == [NoWorker EXCEPT !.pc = "finish", !.end = state, !.kept = TRUE,
                                      !.texts = w.texts]

\* A proposal that is answered in the process: activation, a supporting file,
\* an alias that is not active.
AnswerLocally(o) ==
  /\ At(o, "calls")
  /\ Become(o, Settled(workers[o.run]))
  /\ UNCHANGED <<vars, claiming, history, saved, remote>>

Fresh(k) == operations[k].outcome = "none" /\ \A i \in Command : interactions[i].call # k

\* The attempt is committed, then sent; it may never arrive.
Send(o, k, n, w) ==
  /\ Become(o, [w EXCEPT !.pc = "call", !.call = k, !.attempt = n])
  /\ remote' = [remote EXCEPT ![k][n] = "sent"]
  /\ UNCHANGED <<claiming, history, saved>>

CallTool(o) ==
  /\ At(o, "calls")
  /\ \E k \in Call, j \in Journey, s \in Shape :
       Fresh(k) /\ BeginUnapproved(o, k, j, s) /\ Send(o, k, 1, workers[o.run])

\* wait: the proposal at hand stays open, and is all the conversation shows.
Checkpointed(o, open) ==
  /\ history' = [open |-> open, texts |-> workers[o.run].texts]
  /\ saved' = [saved EXCEPT ![o.run] = [open |-> open, texts |-> workers[o.run].texts,
                                        repairs |-> workers[o.run].repairs]]
  /\ Become(o, Done)
  /\ UNCHANGED <<claiming, remote>>

\* A question, or a call that needs approval.  The calls after it are closed first.
Ask(o) ==
  /\ At(o, "calls")
  /\ \/ Wait(o, "clarification", None, None, None)
     \/ \E k \in Call, j \in Journey, s \in Shape : Fresh(k) /\ Wait(o, "approval", k, j, s)
  /\ Checkpointed(o, workers[o.run].open - (workers[o.run].plan - 1))

\* Mutant of AskSteered: the calls after the one at hand are left open.
AskSteeredAlone(o) ==
  /\ At(o, "calls")
  /\ lockOwner(o)
  /\ Undrained(o.run) # {}
  /\ Become(o, [workers[o.run] EXCEPT !.pc = "invoke", !.open = @ - 1, !.plan = 0])
  /\ UNCHANGED <<vars, claiming, history, saved, remote>>

\* Steering arrived before the wait: superseded_by_steering closes the proposal.
AskSteered(o) ==
  /\ At(o, "calls")
  /\ lockOwner(o)
  /\ Undrained(o.run) # {}
  /\ Become(o, [workers[o.run] EXCEPT !.pc = "invoke", !.open = @ - workers[o.run].plan,
                                      !.plan = 0])
  /\ UNCHANGED <<vars, claiming, history, saved, remote>>

----------------------------------------------------------------------------
(* runHarness: carrying out an approved call.                              *)

\* The approved tool no longer resolves.
ApprovedVanished(o) ==
  /\ At(o, "approved")
  /\ Supersede(o, commands[o.run].reply)
  /\ Become(o, Settled(workers[o.run]))
  /\ UNCHANGED <<claiming, history, saved, remote>>

\* It resolves to something else than what was approved: ask again.
ApprovedChanged(o) ==
  LET i == commands[o.run].reply
  IN /\ At(o, "approved")
     /\ \E s \in Shape : BindCall(o.run, interactions[i].journey, s) # interactions[i].binding
     /\ Supersede(o, i)
     /\ Become(o, [workers[o.run] EXCEPT !.pc = "rewait"])
     /\ UNCHANGED <<claiming, history, saved, remote>>

AskAgain(o) ==
  LET i == commands[o.run].reply
  IN /\ At(o, "rewait")
     /\ \E k \in Call, s \in Shape :
          /\ Fresh(k)
          /\ BindCall(o.run, interactions[i].journey, s) # interactions[i].binding
          /\ Wait(o, "approval", k, interactions[i].journey, s)
     /\ Checkpointed(o, workers[o.run].open)

AskAgainSteered(o) ==
  /\ At(o, "rewait")
  /\ lockOwner(o)
  /\ Undrained(o.run) # {}
  /\ Become(o, Settled(workers[o.run]))
  /\ UNCHANGED <<vars, claiming, history, saved, remote>>

CallApproved(o) ==
  LET i == commands[o.run].reply
      b == interactions[i].binding
  IN /\ At(o, "approved")
     /\ b = BindCall(o.run, interactions[i].journey, b[4])
     /\ \E policy \in Policy :
          BeginApproved(o, interactions[i].call, policy, i, interactions[i].journey, b[4])
     /\ Send(o, interactions[i].call, 1, workers[o.run])

----------------------------------------------------------------------------
(* guardedCall: after an attempt.                                          *)

\* Mutant of Reports: no answer is taken for a refusal.
ReportsSilence(verdict, outcome) ==
  CASE outcome = "completed" -> verdict = "executed"
    [] outcome \in {"rejected", "auth_required"} -> verdict # "executed"
    [] outcome = "outcome_unknown" -> TRUE

\* The outcome the worker records.  A transport error or the deadline says
\* nothing about what the server did or is still going to do.
Reports(verdict, outcome) ==
  CASE outcome = "completed" -> verdict = "executed"
    [] outcome \in {"rejected", "auth_required"} -> verdict = "refused"
    [] outcome = "outcome_unknown" -> TRUE

\* read_only and idempotent calls are repeated once; a 403 (forbidden) never.
AfterAttempt(w, policy, outcome, forbidden) ==
  CASE outcome = "completed" \/ forbidden -> Settled(w)
    [] outcome = "auth_required" -> Failing(w, "auth_required")
    [] policy # "effectful" /\ w.attempt = 1 -> [w EXCEPT !.pc = "retry"]
    [] outcome = "outcome_unknown" -> Failing(w, "failed")
    [] w.repairs = 0 -> Failing(w, "failed")
    [] OTHER -> [Settled(w) EXCEPT !.repairs = @ - 1]

Return(o) ==
  LET w == workers[o.run]
  IN /\ At(o, "call")
     /\ \E outcome \in DOMAIN ToolEvent, forbidden \in BOOLEAN :
          /\ Reports(remote[w.call][w.attempt], outcome)
          /\ forbidden => outcome = "rejected"
          /\ EndAttempt(o, w.call, w.attempt, outcome)
          /\ Become(o, AfterAttempt(w, operations[w.call].policy, outcome, forbidden))
     /\ UNCHANGED <<claiming, history, saved, remote>>

Repeat(o) ==
  LET w == workers[o.run]
      b == operations[w.call].binding
  IN /\ At(o, "retry")
     /\ BeginRetry(o, w.call, b[3], b[4])
     /\ Send(o, w.call, 2, w)

----------------------------------------------------------------------------
(* execute: how a run ends.                                                *)

\* The terminal states an error can lead to, by where it happens.
Failures(pc) ==
  FailureStates \cap
    ({"failed"} \cup (IF pc \in {"scope", "start", "open"} THEN {"dependency_unavailable"} ELSE {})
                \cup (IF pc \in {"start", "request", "model"} THEN {"limit_exceeded"} ELSE {})
                \cup (IF pc = "open" THEN {"auth_required"} ELSE {}))

\* Any other error: a refused or failed transaction, an exhausted budget, an
\* unusable answer, an unavailable dependency.
Stumble(o) ==
  LET w == workers[o.run]
  IN /\ w.pc \in Starting \cup Harness
     /\ \E state \in Failures(w.pc) :
          Become(o, [Failing(w, state) EXCEPT !.kept = w.pc \in Harness])
     /\ UNCHANGED <<vars, claiming, history, saved, remote>>

\* Mutant of FinishCompleted: the inbox is not checked.
FinishRegardless(o) ==
  /\ At(o, "finish")
  /\ workers[o.run].end = "completed"
  /\ CompleteRegardless(o)
  /\ history' = [open |-> workers[o.run].open, texts |-> workers[o.run].texts]
  /\ Become(o, Done)
  /\ UNCHANGED <<claiming, saved, remote>>

FinishCompleted(o) ==
  /\ At(o, "finish")
  /\ workers[o.run].end = "completed"
  /\ Complete(o)
  /\ history' = [open |-> workers[o.run].open, texts |-> workers[o.run].texts]
  /\ Become(o, Done)
  /\ UNCHANGED <<claiming, saved, remote>>

\* Mutant of FollowUp: the next iteration starts from the stored history.
FollowUpReloaded(o) ==
  /\ At(o, "finish")
  /\ workers[o.run].end = "completed"
  /\ lockOwner(o)
  /\ Undrained(o.run) # {}
  /\ Become(o, [workers[o.run] EXCEPT !.pc = "open", !.first = FALSE,
                                      !.open = history.open, !.texts = history.texts])
  /\ UNCHANGED <<vars, claiming, history, saved, remote>>

\* ErrPending: admission won the final-drain race; the same worker goes on.
FollowUp(o) ==
  /\ At(o, "finish")
  /\ workers[o.run].end = "completed"
  /\ lockOwner(o)
  /\ Undrained(o.run) # {}
  /\ Become(o, [workers[o.run] EXCEPT !.pc = "open", !.first = FALSE])
  /\ UNCHANGED <<vars, claiming, history, saved, remote>>

\* The history is stored if the harness returned one and the run has started.
FinishFailed(o) ==
  /\ At(o, "finish")
  /\ workers[o.run].end # "completed"
  /\ Fail(o, workers[o.run].end)
  /\ history' = IF workers[o.run].kept /\ runs[o.run].digest # None
                THEN [open |-> 0, texts |-> workers[o.run].texts]
                ELSE history
  /\ Become(o, Done)
  /\ UNCHANGED <<claiming, saved, remote>>

Heartbeat(o) ==
  /\ workers[o.run].pc \in Working
  /\ Renew(o)
  /\ UNCHANGED wvars

\* The worker stops without a word: the process died or was shut down, a
\* renewal failed, or a transaction found that ownership is lost.
Lose(o) ==
  /\ workers[o.run].pc \in Working
  /\ Become(o, Gone)
  /\ UNCHANGED <<vars, claiming, history, saved, remote>>

----------------------------------------------------------------------------
Step(o) ==
  \/ Scope(o) \/ Bind(o) \/ StartRun(o) \/ Open(o)
  \/ Invoke(o) \/ OnDispatch(o) \/ Respond(o)
  \/ AnswerLocally(o) \/ CallTool(o) \/ Ask(o) \/ AskSteered(o)
  \/ ApprovedVanished(o) \/ ApprovedChanged(o) \/ AskAgain(o) \/ AskAgainSteered(o)
  \/ CallApproved(o) \/ Return(o) \/ Repeat(o)
  \/ Stumble(o) \/ FinishCompleted(o) \/ FollowUp(o) \/ FinishFailed(o)

Server(x) == Reaper(x) \/ Clock(x)

Client(c, p) ==
  \/ Submit(c, p)
  \/ \E i \in Command, approve \in BOOLEAN : SubmitReply(c, p, i, approve)
  \/ Resubmit(c, p)
  \/ Abandon(c, p)
  \/ StartWorker(c, p)

WNext ==
  \/ \E c \in Command, p \in Replica : Client(c, p)
  \/ \E x \in Command : Server(x)
  \/ \E k \in Call, n \in 1..2 : Tool(k, n)
  \/ \E o \in owners : Step(o) \/ Heartbeat(o) \/ Lose(o)

WSpec == WInit /\ [][WNext]_allvars

\* The clock and the reaper run on, and a worker whose ownership stands goes on
\* to its next transaction: provider and tool calls return or time out.
\* Nothing is assumed of clients, of Submit between Admit and Claim, of
\* renewals, or that a worker survives.
Fairness ==
  /\ \A x \in Command : WF_allvars(Reaper(x)) /\ WF_allvars(Clock(x))
  /\ \A r \in Command : WF_allvars(\E o \in owners : o.run = r /\ Step(o))

FairSpec == WSpec /\ Fairness

----------------------------------------------------------------------------
(* Properties.                                                             *)

\* The composed system is a behaviour of the journal: what is proved of Journal
\* for owners and clients that call in any order holds of the program.
JournalKept == Spec

\* The strengthening that makes it provable: where a worker is tells what it has
\* in hand for the journal's next transaction.
Slots == DOMAIN NoWorker
Placed(r) ==
  /\ DOMAIN workers[r] = Slots
  /\ workers[r].pending \subseteq Command
  /\ workers[r].attempt \in 1..2
  /\ workers[r].end \in FailureStates \cup {"completed"}
  /\ workers[r].pc = "start" => workers[r].digest \in Digest
  /\ workers[r].pc \in {"call", "retry"} => workers[r].call \in Call
  /\ workers[r].pc \in {"approved", "rewait"} => commands[r].reply \in Command
\* And what the journal's rows hold once they are written.
Written ==
  /\ \A c \in Command : commands[c].exec = None => commands[c].reply = None
  /\ \A i \in Command : interactions[i].kind = "approval" =>
       /\ interactions[i].call \in Call
       /\ interactions[i].journey \in Journey
       /\ interactions[i].binding[4] \in Shape
  /\ \A k \in Call : operations[k].outcome # "none" =>
       operations[k].binding[3] \in Journey /\ operations[k].binding[4] \in Shape
WInv == DOMAIN workers = Command /\ Written /\ \A r \in Command : Placed(r)

\* A tool call is in flight only while its run is running: although finish
\* does not look at operations when a run completes, no completed or waiting
\* run leaves a call behind that nobody will ever report on.
NoneInFlight ==
  \A k \in Call : operations[k].outcome = "dispatching" =>
    runs[operations[k].run].state = "running"

\* Every proposal that is open in the stored history has a wait that is
\* unanswered, or whose continuation did not complete; nothing else leaves one.
Unanswered(i) ==
  \/ interactions[i].state = "pending"
  \/ interactions[i].state = "consumed" /\ runs[interactions[i].cont].state # "completed"
ProposalsAccounted == history.open <= Cardinality({i \in Command : Unanswered(i)})

\* The stored history has the text of every message that a completed or waiting
\* run was given, and of no message that was never part of a request.
RunsRemembered ==
  /\ history.texts \subseteq {c \in Command : commands[c].included}
  /\ \A c \in Command :
       /\ commands[c].included
       /\ commands[c].reply = None
       /\ runs[commands[c].exec].state \in {"completed", "awaiting_input"}
       => c \in history.texts

\* The strengthening that makes the last three provable.  A call in flight is the one
\* its run's worker waits for, unless that worker is gone or about to fail.
Awaits(w, k) ==
  \/ w.pc = "call" /\ w.call = k
  \/ w.pc = "gone"
  \/ w.pc = "finish" /\ w.end # "completed"
CallsInHand ==
  \A k \in Call : operations[k].outcome = "dispatching" =>
    runs[operations[k].run].state = "running" /\ Awaits(workers[operations[k].run], k)

\* A reply and the wait it answered name each other.
RepliesMatch ==
  /\ \A c \in Command :
       /\ commands[c].exec = None => ~commands[c].included
       /\ commands[c].reply # None =>
            commands[c].exec = c /\ interactions[commands[c].reply].cont = c
  /\ \A i \in Command :
       IF interactions[i].state = "consumed"
       THEN interactions[i].cont \in Command /\ commands[interactions[i].cont].reply = i
       ELSE interactions[i].cont = None

\* The messages that were part of a request, those of run r, and those that a later
\* turn must know of; replies are results, not messages.
InRequests == {c \in Command : commands[c].included}
Heard(r) == {c \in InRequests : commands[c].reply = None /\ commands[c].exec = r}
ToRemember ==
  {c \in InRequests : /\ commands[c].reply = None
                      /\ runs[commands[c].exec].state \in {"completed", "awaiting_input"}}
\* The proposals that may be open whatever run r does about its own: the one it
\* waits for, and the one whose answer it carries, are not among them.
Besides(r) == {i \in Command \ {r} : Unanswered(i) /\ interactions[i].cont # r}

\* What a busy thread has stored: a wait, and the run that continues it, find what
\* the wait saved.
Resumes(i) == history.open = saved[i].open /\ history.texts = saved[i].texts
Stored(r) ==
  /\ runs[r].state \in {"absent", "pending"} => Heard(r) = {}
  /\ interactions[r].state = "pending" =>
       Resumes(r) /\ history.open <= Cardinality(Besides(r)) + 1
  /\ runs[r].state \in Live =>
       IF commands[r].reply = None THEN history.open <= Cardinality(Besides(r))
       ELSE Resumes(commands[r].reply) /\ history.open <= Cardinality(Besides(r)) + 1

\* What the worker of a running run has in memory.
Opened(w) == \/ w.pc = "open" /\ ~w.first
             \/ w.pc \in Harness
             \/ w.pc = "finish" /\ w.end = "completed"
AtHand(w) == IF w.pc \in {"calls", "call", "retry"} /\ w.plan > 0 THEN w.plan
             ELSE IF w.pc \in {"approved", "rewait", "call", "retry"} THEN 1 ELSE 0
Knows(w) == w.texts \cup (IF w.pc = "model" THEN w.pending ELSE {})
Carries(r, w) ==
  /\ w.open \in Int /\ w.plan \in Nat
  /\ Knows(w) \subseteq InRequests
  /\ w.pc = "calls" => w.plan > 0
  /\ w.pc \notin {"calls", "call", "retry"} => w.plan = 0
  /\ w.pc \in {"scope", "bind", "start"} => w.first
  /\ w.pc \in Starting /\ w.first => Heard(r) = {}
  /\ w.pc = "open" /\ w.first => w.open = history.open /\ w.texts = history.texts
  /\ Opened(w) => /\ w.open - AtHand(w) <= Cardinality(Besides(r))
                  /\ Heard(r) \subseteq Knows(w)
                  /\ ToRemember \subseteq w.texts
  /\ w.pc = "finish" /\ w.kept => ToRemember \subseteq w.texts

MInv ==
  /\ history.open \in Int
  /\ DOMAIN saved = Command
  /\ IsFiniteSet({i \in Command : interactions[i].state # "absent"})
  /\ RepliesMatch
  /\ ProposalsAccounted
  /\ RunsRemembered
  /\ \A r \in Command :
       /\ saved[r].open \in Int
       /\ Stored(r)
       /\ runs[r].state = "running" => Carries(r, workers[r])

\* What the tables and the tool server hold of a call, in the terms of ApprovedAction.
Effectful(k) == operations[k].policy = "effectful"
Ruled(k, M) == \E i \in Command : interactions[i].call = k /\ interactions[i].marker \in M
Decision(k) ==
  IF Ruled(k, {"decided", "dispatched"}) THEN "approved"
  ELSE IF Ruled(k, {"superseded"}) THEN "withdrawn" ELSE "none"
Effects(k) ==
  IF Effectful(k) THEN Cardinality({n \in 1..2 : remote[k][n] = "executed"}) ELSE 0
Told(k) ==
  IF ~Effectful(k) \/ operations[k].outcome \in {"none", "dispatching"} THEN "nothing"
  ELSE IF operations[k].outcome = "completed" THEN "done"
  ELSE IF operations[k].outcome = "outcome_unknown" THEN "unknown" ELSE "not done"

\* Effectful calls keep the promise of ApprovedAction.
Promise == INSTANCE ApprovedAction WITH
  decision <- [k \in Call |-> Decision(k)],
  effects <- [k \in Call |-> Effects(k)],
  told <- [k \in Call |-> Told(k)]
KeepsPromise == Promise!ASpec

\* The strengthening that makes it provable: each call is asked about by one wait at
\* most, which is used once the call has gone out ...
AskedOnce ==
  \A i \in Command : interactions[i].call # None =>
    /\ \A x \in Command : interactions[x].call = interactions[i].call => x = i
    /\ operations[interactions[i].call].outcome # "none" => interactions[i].marker = "dispatched"
\* ... and what is recorded of an attempt is what the tool server did with it.
RecordedTruly ==
  \A k \in Call, n \in 1..2 :
    /\ attempts[k][n] = "none" => remote[k][n] = "none"
    /\ attempts[k][n] = "completed" => remote[k][n] = "executed"
    /\ attempts[k][n] \in {"rejected", "auth_required"} => remote[k][n] = "refused"
PInv == remote \in [Call -> [1..2 -> Remote]] /\ AskedOnce /\ RecordedTruly

\* Every accepted command is eventually part of a request or disposed of, unless
\* its run is a reply's continuation that nobody has claimed: only the client's
\* retry of the reply starts that one.
Unclaimed(r) == runs[r].state = "pending" /\ Continuation(r)
AllSettled ==
  \A c \in Command :
    commands[c].exec # None ~> \/ commands[c].included
                               \/ commands[c].reason # ""
                               \/ commands[c].exec # None /\ Unclaimed(commands[c].exec)

\* Every run that was claimed ends or waits, and every wait ends.
RunsEnd ==
  \A r \in Command :
    /\ runs[r].state = "running" ~> runs[r].state \notin Live
    /\ runs[r].state = "awaiting_input" ~> runs[r].state \in Terminal

\* internal/runtime/interactions.go:232, "close any unexecuted proposal before a
\* later user turn": when a conversation is free for the next message and no run
\* was interrupted, the stored history has no open proposal.
ClosedBeforeNextTurn ==
  (\A r \in Command : ~Busy(r) /\ runs[r].state # "interrupted") => history.open = 0
=============================================================================
