------------------------------- MODULE Drain -------------------------------
(***************************************************************************)
(* How one replica stops: the admission gate and the wait group of         *)
(* internal/platform, Shutdown of internal/service, and the end of the     *)
(* command's run with its deferred calls, of which pool.Close waits for    *)
(* every connection to the database that is in use.                        *)
(*                                                                         *)
(* A job is one submission with the run that it may start.  A database     *)
(* call is in progress between two actions and may take for ever, fail, or *)
(* commit; a call that is in progress when its context is cancelled may    *)
(* still commit, but no new one begins.  Remote stands for a run of        *)
(* another replica that is followed here.                                  *)
(***************************************************************************)
EXTENDS Naturals, FiniteSets

CONSTANTS
  Job,
  Remote

ASSUME DrainAssumption == IsFiniteSet(Job) /\ Remote \notin Job

VARIABLES
  submits,        \* how far each submission is in this process
  run,            \* what the journal has of the run of each job
  runs,           \* Platform.runs: the count of the wait group
  draining, cancelled,   \* Platform.draining, Platform.ctx
  reaping,        \* the reaper is in a call of Reap
  streams,        \* the runs that responses in progress follow
  reads,          \* those of them that are in a database call
  cut,            \* http.Server.Close has cancelled the contexts of all responses
  server,         \* http.Server: serving, in Shutdown, or returned from it
  main,           \* the command's run
  drained,        \* what Drain returned
  expired         \* the grace period is over

responses == <<streams, reads, cut>>
process == <<server, main, drained, expired>>
dvars == <<submits, run, runs, draining, cancelled, reaping, responses, process>>

Working == {k \in Job : submits[k] \in {"admitting", "claiming", "running", "writing"}}
Handlers == {k \in Job : submits[k] \in {"resolving", "admitting", "claiming"}}

\* The database calls in progress: of responses, whose context ends with the connection
\* of the client, and of submissions, workers and the reaper, whose context the platform ends.
Reading == reads \cup {k \in Job : submits[k] = "resolving"}
Writing == {k \in Job : submits[k] \in {"admitting", "claiming", "writing"}}

\* The wait group counts exactly the submissions and workers that are still going on: it is
\* handed over from Submit to the worker, and let go once on every other way out.
DTypeOK ==
  /\ submits \in [Job -> {"new", "resolving", "rejected", "admitting", "claiming", "running",
                         "writing", "over"}]
  /\ run \in [Job -> {"none", "pending", "running", "ended"}]
  /\ draining \in BOOLEAN /\ cancelled \in BOOLEAN /\ reaping \in BOOLEAN /\ expired \in BOOLEAN
  /\ streams \subseteq Job \cup {Remote} /\ reads \subseteq streams /\ cut \in BOOLEAN
  /\ server \in {"serving", "stopping", "stopped", "late"}
  /\ main \in {"serving", "draining", "reaper", "closing", "joining", "pool", "returned"}
  /\ drained \in {"", "ok", "late"}
  /\ runs = Cardinality(Working)

DInit ==
  /\ submits = [k \in Job |-> "new"]
  /\ run = [k \in Job |-> "none"]
  /\ runs = 0
  /\ draining = FALSE /\ cancelled = FALSE /\ reaping = FALSE /\ expired = FALSE
  /\ streams = {} /\ reads = {} /\ cut = FALSE
  /\ server = "serving" /\ main = "serving" /\ drained = ""

Alive == main # "returned"
PoolOpen == main \notin {"pool", "returned"}

----------------------------------------------------------------------------
(* A response.                                                             *)

\* A request can still come in on a connection that the server knows.
Accepting == PoolOpen /\ server # "stopped" /\ ~cut

\* A POST begins with ids.resolve, before the gate and without being counted.
Arrive(k) ==
  /\ Accepting /\ submits[k] = "new"
  /\ submits' = [submits EXCEPT ![k] = "resolving"]
  /\ UNCHANGED <<run, runs, draining, cancelled, reaping, responses, process>>

ResolveFails(k) ==
  /\ Alive /\ submits[k] = "resolving"
  /\ submits' = [submits EXCEPT ![k] = "rejected"]
  /\ UNCHANGED <<run, runs, draining, cancelled, reaping, responses, process>>

\* A GET follows a run, and begins with a database call too.
Follow ==
  /\ Accepting /\ Remote \notin streams
  /\ streams' = streams \cup {Remote} /\ reads' = reads \cup {Remote}
  /\ UNCHANGED <<submits, run, runs, draining, cancelled, reaping, cut, process>>

\* The snapshot and the polls of a response.  A closed pool gives out no connection.
Poll(x) ==
  /\ PoolOpen /\ ~cut /\ x \in streams \ reads
  /\ reads' = reads \cup {x}
  /\ UNCHANGED <<submits, run, runs, draining, cancelled, reaping, streams, cut, process>>

PollReturns(x) ==
  /\ Alive /\ x \in reads
  /\ reads' = reads \ {x}
  /\ UNCHANGED <<submits, run, runs, draining, cancelled, reaping, streams, cut, process>>

\* It ends with the run or with its connection, which cancels its poll.
StreamEnds(x) ==
  /\ Alive /\ x \in streams
  /\ streams' = streams \ {x} /\ reads' = reads \ {x}
  /\ UNCHANGED <<submits, run, runs, draining, cancelled, reaping, cut, process>>

----------------------------------------------------------------------------
(* Submit and execute.                                                     *)

\* Mutant: the gate is not looked at.
GateOpen(k) ==
  /\ submits' = [submits EXCEPT ![k] = "admitting"]
  /\ runs' = runs + 1

\* Under the mutex: the check and the count are one step.
Gate(k) ==
  IF draining
  THEN submits' = [submits EXCEPT ![k] = "rejected"] /\ UNCHANGED runs
  ELSE /\ submits' = [submits EXCEPT ![k] = "admitting"]
       /\ runs' = runs + 1

\* The identifiers are resolved, and the handler calls Submit.
Submit(k) ==
  /\ Alive /\ submits[k] = "resolving"
  /\ Gate(k)
  /\ UNCHANGED <<run, draining, cancelled, reaping, responses, process>>

Done(k) ==
  /\ submits' = [submits EXCEPT ![k] = "over"]
  /\ runs' = runs - 1

\* Submit returned its receipt: the response follows the run, if it was not cut off.
Following(k) == IF cut THEN streams ELSE streams \cup {k}

\* Admit commits.  A command that is fresh is claimed next, unless the context is cancelled;
\* one that joined a run or was admitted before is not.
AdmitCommits(k) ==
  /\ Alive /\ submits[k] = "admitting"
  /\ run' = [run EXCEPT ![k] = "pending"]
  /\ \/ Done(k) /\ streams' = Following(k)
     \/ cancelled /\ Done(k) /\ UNCHANGED streams
     \/ ~cancelled /\ submits' = [submits EXCEPT ![k] = "claiming"] /\ UNCHANGED <<runs, streams>>
  /\ UNCHANGED <<draining, cancelled, reaping, reads, cut, process>>

\* Claim commits: the worker takes over the count.
ClaimCommits(k) ==
  /\ Alive /\ submits[k] = "claiming"
  /\ run' = [run EXCEPT ![k] = "running"]
  /\ submits' = [submits EXCEPT ![k] = "running"]
  /\ streams' = Following(k)
  /\ UNCHANGED <<runs, draining, cancelled, reaping, reads, cut, process>>

\* A call of Submit fails, or its client goes away.
CallFails(k) ==
  /\ Alive /\ submits[k] \in {"admitting", "claiming"}
  /\ Done(k)
  /\ UNCHANGED <<run, draining, cancelled, reaping, responses, process>>

\* A worker is in the model or in a tool, or in a call of the journal.
WorkerCalls(k) ==
  /\ Alive /\ submits[k] = "running" /\ ~cancelled
  /\ submits' = [submits EXCEPT ![k] = "writing"]
  /\ UNCHANGED <<run, runs, draining, cancelled, reaping, responses, process>>

WorkerReturns(k) ==
  /\ Alive /\ submits[k] = "writing"
  /\ submits' = [submits EXCEPT ![k] = "running"]
  /\ UNCHANGED <<run, runs, draining, cancelled, reaping, responses, process>>

\* execute ends the run, or leaves it to its lease.
WorkerEnds(k) ==
  /\ Alive
  /\ \/ submits[k] = "writing" /\ run' = [run EXCEPT ![k] = "ended"]
     \/ submits[k] = "running" /\ UNCHANGED run
  /\ Done(k)
  /\ UNCHANGED <<draining, cancelled, reaping, responses, process>>

\* The reaper's ticker, and the end of its call.
ReapTick ==
  /\ Alive
  /\ \/ ~reaping /\ ~cancelled /\ reaping' = TRUE
     \/ reaping /\ reaping' = FALSE
  /\ UNCHANGED <<submits, run, runs, draining, cancelled, responses, process>>

----------------------------------------------------------------------------
(* Shutdown.                                                               *)

\* SIGTERM: the gate closes, the HTTP server stops to listen, Drain starts to wait.
BeginDrain ==
  /\ main = "serving"
  /\ draining' = TRUE /\ server' = "stopping" /\ main' = "draining"
  /\ UNCHANGED <<submits, run, runs, cancelled, reaping, responses, drained, expired>>

GraceOver ==
  /\ Alive /\ server # "serving" /\ ~expired
  /\ expired' = TRUE
  /\ UNCHANGED <<submits, run, runs, draining, cancelled, reaping, responses, server, main, drained>>

\* Drain: the wait group is empty, and then the reaper has stopped.
DrainDone ==
  /\ main = "draining" /\ runs = 0
  /\ cancelled' = TRUE /\ main' = "reaper"
  /\ UNCHANGED <<submits, run, runs, draining, reaping, responses, server, drained, expired>>

DrainReaper ==
  /\ main = "reaper" /\ ~reaping
  /\ drained' = "ok" /\ main' = "closing"
  /\ UNCHANGED <<submits, run, runs, draining, cancelled, reaping, responses, server, expired>>

\* Mutant: the work that was cancelled is waited for all the same.
DrainWaits ==
  /\ main = "draining" /\ expired /\ runs = 0
  /\ cancelled' = TRUE /\ drained' = "late" /\ main' = "closing"
  /\ UNCHANGED <<submits, run, runs, draining, reaping, responses, server, expired>>

\* Drain: the grace period is over first.
DrainLate ==
  /\ main = "draining" /\ expired
  /\ cancelled' = TRUE /\ drained' = "late" /\ main' = "closing"
  /\ UNCHANGED <<submits, run, runs, draining, reaping, responses, server, expired>>

\* Connections are closed if the grace period is over by now, and only then.
CloseServer ==
  /\ main = "closing"
  /\ cut' = expired
  /\ main' = "joining"
  /\ UNCHANGED <<submits, run, runs, draining, cancelled, reaping, streams, reads, server, drained,
                 expired>>

\* http.Server.Shutdown waits for the responses in progress, or for its context, whose end
\* does not end the responses.
ServerShutdown ==
  /\ Alive /\ server = "stopping"
  /\ \/ streams = {} /\ Handlers = {} /\ server' = "stopped"
     \/ expired /\ server' = "late"
  /\ UNCHANGED <<submits, run, runs, draining, cancelled, reaping, responses, main, drained, expired>>

\* The deferred calls of run: app.Close closes the gate and cancels, and pool.Close begins.
Return ==
  /\ draining' = TRUE /\ cancelled' = TRUE /\ main' = "pool"
  /\ UNCHANGED <<submits, run, runs, reaping, responses, server, drained, expired>>

\* Shutdown has joined the HTTP server.
Joined == main = "joining" /\ server \in {"stopped", "late"} /\ Return

\* Serve returned before any signal.
ServeFails == main = "serving" /\ Return

\* pool.Close has every connection back, and the process exits.
MainReturns ==
  /\ main = "pool"
  /\ Reading = {} /\ Writing = {} /\ ~reaping
  /\ main' = "returned"
  /\ UNCHANGED <<submits, run, runs, draining, cancelled, reaping, responses, server, drained, expired>>

----------------------------------------------------------------------------
Response(x) == Poll(x) \/ PollReturns(x) \/ StreamEnds(x)
Submission(k) ==
  Arrive(k) \/ ResolveFails(k) \/ Submit(k) \/ AdmitCommits(k) \/ ClaimCommits(k) \/ CallFails(k)
Work(k) == WorkerCalls(k) \/ WorkerReturns(k) \/ WorkerEnds(k)
Shutdown ==
  DrainDone \/ DrainReaper \/ DrainLate \/ CloseServer \/ ServerShutdown \/ GraceOver
    \/ Joined \/ MainReturns

DrainNext ==
  \/ \E k \in Job : Submission(k) \/ Work(k)
  \/ \E x \in Job \cup {Remote} : Response(x)
  \/ Follow \/ ReapTick \/ BeginDrain \/ ServeFails \/ Shutdown

DrainSpec == DInit /\ [][DrainNext]_dvars

----------------------------------------------------------------------------
(* Properties.                                                             *)

\* A drain that ends in time means what it says: nothing of this replica is at work any
\* more, and it writes nothing to the journal from then on.
QuietOnceDrained ==
  [][drained = "ok" => Working = {} /\ ~reaping /\ UNCHANGED <<run, reaping>>]_dvars

\* The strengthening that makes it provable: once the wait group was found empty, with
\* the gate closed, it stays so, and a reaper that was cancelled does not start again.
DInv ==
  /\ DTypeOK
  /\ main \in {"draining", "reaper"} => draining
  /\ main = "reaper" => Working = {} /\ cancelled
  /\ drained = "ok" => /\ main \in {"closing", "joining", "pool", "returned"}
                       /\ draining /\ cancelled /\ Working = {} /\ ~reaping

\* The clock goes on, the shutdown goes on, and a call whose context is cancelled returns.
\* Nothing is assumed of the database, the runs and the clients.
DrainFairness ==
  /\ WF_dvars(Shutdown /\ main' # main) /\ WF_dvars(ServerShutdown) /\ WF_dvars(GraceOver)
  /\ WF_dvars(cancelled /\ ReapTick)
  /\ \A k \in Job :
       /\ WF_dvars(cancelled /\ (AdmitCommits(k) \/ ClaimCommits(k) \/ CallFails(k)))
       /\ WF_dvars(cancelled /\ (WorkerReturns(k) \/ (submits[k] = "writing" /\ WorkerEnds(k))))
       /\ WF_dvars(cut /\ (Submit(k) \/ ResolveFails(k)))
  /\ \A x \in Job \cup {Remote} : WF_dvars(cut /\ PollReturns(x))
FairDrainSpec == DrainSpec /\ DrainFairness

\* pool.Close waits for a response that is in a database call and that nobody has cancelled,
\* after a drain that ended well, or with none.
HeldByReader == main = "pool" /\ drained # "late" /\ ~cut /\ Reading # {}

\* "Drain owns the grace-period cancellation [...], so a SIGTERM cannot be held behind a row
\* lock" (platform.BeginDrain): whatever the database does to submissions, workers and the
\* reaper, and whatever the runs and the clients do, the process returns.  What can hold it
\* for ever is a database call that a response made, where the connections were not closed
\* because the drain ended within its grace period, or because serving failed.
Terminates == main # "serving" ~> (main = "returned" \/ []HeldByReader)
============================================================================
