# A verification model of the agent platform

These TLA+ modules model the parts of the repository where several actors meet:
the journal in PostgreSQL, the workers that execute runs, the rollout of
definition sets, the event streams, the terminal client, the active journeys of a
conversation, what a provider request is made of, the cache of signing keys and
the shutdown of a replica. TLC checks them on small instances. TLAPS proves the
main properties of the journal, the event streams and the terminal, the rollout, the
active journeys, the key cache and the drain for every instance, and that the workers
use the journal as it was proved.

Paths below are relative to the repository (`internal/...`, `docs/...`).

## 1. Inventory

### The system

A user sends messages to a conversation (a *thread*) through `internal/chat`.
`internal/platform` writes each message to the journal, claims its run and
starts a worker. The worker asks a model what to do and calls tools on a tenant's
tool server. Several replicas share one database; nothing else is shared.

| Part | State | Operations that change it | What is hard |
|---|---|---|---|
| `journal`: runs, commands, waits, operations | rows of a conversation under one row lock | `Admit`, `reply`, `Claim`, `Renew`, `Reap`, `Start`, `Pending`, `Included`, `Wait`, `Supersede`, `BeginAttempt`, `EndAttempt`, `Finish*`, `RecordRunScope` | late owners, admission against completion, reply against expiry, approval used twice or for something else |
| `journal/definitions.go`, `defstore` | current set, stored sets, conversation pins, each replica's cache | `ResolveDefinition`, `ActivateDefinition`, `RollbackDefinition`, `PutDefinitionSet`, the loader, `defstore.Activate` | pods of two releases at once, restarts, checks and writes in different transactions |
| `journal/observe.go`, `chat` | open responses, what each has sent | POST, GET, snapshot, poll, terminal events | snapshot against replay, a wait that is answered while it is announced |
| `platform`, `runtime` | a worker's position, its history in memory, requests in flight | `Submit`, `execute`, `Run`, `runHarness`, `guardedCall` | crash between any two steps, answers that are lost or late, steering in the middle of a round |
| `devtui` | last request, its run, the pending question | send, `/retry`, `/new`, apply an event | retry after a cut stream |
| `catalog`, `definitions` | the resolved tools of a binding | `Resolve`, `CheckPolicies`, `open`, `Call` | tool lists that grow, aliases that collide |
| `runtime/history.go` | the history, and what of it a request carries | `invoke`, `trimHistory` | calls whose result lies turns later, protected calls, the edge of the budget |
| `chat/keycloak_auth.go` | cached keys, expiry, cooldown, the fetch gate | `key`, `fetchKeys` | a fetch against expiry, rotation and clients that leave |
| `service`, `cmd/agent-platform` | drain gate, wait group, server, streams | `BeginDrain`, `Drain`, `Shutdown`, `Close` | a signal between gate and claim, waiting on one another |
| `journeys`, `journal/active.go`, `runtime` | the active journeys, in memory and persisted | `converse`, `activate`, `touch`, `flush`, `Activate`, `Touch`, `Fit`, `Remove` | an order that is written once per round, late writers, pins and limits that change |
| `journal/catalog.go` | catalog snapshots and the conversation's pin | `CommitSnapshot`, `RecordRunCatalog` | age, revalidation, a stale owner |
| `cost`, `settings`, `tenantdir`, `provider`, `skills`, `credential`, `telemetry` | none that others read | pure functions, lookups, wire formats | boundaries of parsing |

`PROJECT.json` lists every component with its files and status, and every hazard
with its line and the properties that would catch it.

### What should hold, by component

* Journal: one thing at a time per thread; nothing accepted is lost; a late owner
  changes nothing; an approval is used once, for what was shown; what is decided
  stays decided; a call of unknown outcome stops the thread.
* Worker: the journal is used in an order that keeps its promises; effects happen
  at most once and by approval; every proposal of the model gets its result;
  everything ends.
* Rollout: what is pinned can be loaded; an old release does not come back by
  accident; a waiting conversation keeps its set; retries are bounded; a replica
  becomes ready again.
* Streams and terminal: no event is lost or told falsely; streams end; a question
  is shown while it can be answered; a retry tells the outcome.
* Resolution: a call reaches the tool that was checked; a call goes without
  approval only where every selector that matches its tool waives it.
* History: a request never has a call without its result, and drops no more than
  the oldest turns that have to go.
* Active journeys: what is evicted was used longest ago; a journey with an open
  approval stays; memory and database agree when it matters.
* Key cache: retired keys go, new keys come, the issuer is not flooded, and every
  request is answered.
* Shutdown: it ends, whatever the submissions and runs of the replica are doing, and
  nothing is written once the drain reported success.

## 2. Modules

| Module | Models | State |
|---|---|---|
| `Journal` | one conversation of `internal/journal`; each transaction is an action | state = the tables |
| `Worker` | EXTENDS `Journal`: `platform.Submit`/`execute`, `runtime.Run`/`runHarness`, the tool server | adds worker positions, stored history, wait checkpoints, remote calls |
| `ApprovedAction` | the abstract promise about an effectful call | refined by `Worker` |
| `Rollout` | definition tables, `defstore`, `Runner.Binding`, `Runner.Ready`, `activate` processes | stands alone |
| `Chat` | EXTENDS `Journal`: `platform.Observe`, the handler of `internal/chat` | adds the requests in progress |
| `Terminal` | EXTENDS `Chat`: `internal/devtui` | adds one terminal, other clients and cut connections |
| `Resolution` | `internal/catalog` resolution and its use | a growing `tools/list` |
| `Trimming` | `trimHistory` and its use by `invoke` | a growing history and the request |
| `ActiveSet` | `internal/journeys`, `journal/active.go`, `converse` and `runHarness` as far as they change the active set | stored order, the live run's copy, a late write, what is pinned |
| `KeyCache` | `KeycloakAuthenticator.key` and `fetchKeys` | the cache, the gate, the requests, the issuer's keys |
| `Drain` | `platform.BeginDrain`/`Drain`/`Close`, `service.Shutdown`, the command's `run` | stands alone |
| `MC*` | the instances: constants, symmetry | `MCRolloutChurn` adds counters; `MCRequest` has `Resolution` and `Trimming` side by side |
| `*Proofs` | theorems and lemmas | none |

### Journal

`runs`, `commands`, `interactions`, `operations` and `attempts` are the tables of
the same names, `epoch` and `pin` the columns `owner_epoch` and
`definition_digest` of the conversation, `events` the event log, and `owners` the
set of every `Owner` value that `Claim` has returned. A token in `owners` may call
any owned operation at any later time, so a paused or dead worker is any token
that is used late or never.

Every transaction takes the conversation's row lock first (`lockConversation`), so
one action per transaction loses no interleaving. The guard of an action is the
list of the code's early returns; a refused call changes nothing and has no
action. What an operation does on the way (expiring interactions, interrupting an
expired run, disposing of pending commands, marking operations unknown, appending
events) is part of its action.

Abstractions: a command is its identity, which is also the run's, as in the code;
a payload that differs from the accepted one is left out, it is refused. Time is
a countdown `Lease` for each live run and the step `InteractionTimeout` for waits.
A call's digest is the tuple of what it is computed from (product version,
definition set, journey, shape of the call). `events` keeps only the types in
`Observed`; no guard reads the log, so leaving types out loses no behaviour.

### Worker

A worker's `pc` is its position between two transactions, and the rest of its
record is what the code holds in memory. `history` is what the conversation
stores: the number of proposals without a result and the messages whose text it
has. A worker may be cut off at every position (`Lose`), and the tool server may carry
out a request long after its sender gave up. `MaxRounds` and `MaxCalls` bound the
rounds of a run and the proposals of a round; the code's bounds are 16 rounds and
no limit.

### ApprovedAction

Per call: what the user decided, how often it took effect, and what the
conversation records. `Worker` refines it with a mapping from the interaction's
marker, the remote side and the operation's outcome. The approval is needed
before the effect, there is one effect at most, and the record says "done" or
"not done" only when that is true for good.

### Rollout

A thread is reduced to what the definition tables look at: its pin, whether it
has a live run, whether this continues a wait, whether it waits, and whether a call
is unresolved. An activation is a process with a program counter, since it
uses several transactions. `Compiles` says which stored sets each binary
compiles to the same digest. `Recreated` bounds which pods start again.

### Chat and Terminal

A request is one HTTP response in progress: the submit, the snapshot, the tail.
The log positions it has sent are kept, so that they can be compared with the
journal's log. `Chat` has the steps of a request and no specification of its own:
`Terminal` says who makes requests. It adds what the terminal remembers, `Fault`,
which cuts a connection anywhere (`MaxFaults` bounds the cuts), and `Elsewhere`, the
requests of other clients and cut ones that the server still carries out. The handler
takes any `Last-Event-ID` that is not negative; `Observe` takes cursors up to the end
of the log, those that a client can have got from a stream. A larger one makes the
handler skip the events up to it and is left out; the terminal sends none. `Elsewhere`
does not carry on the terminal's own request that was cut while its `/retry` is under
way: both admit the same command, and the second one finds the first one's receipt.

### Resolution

`Resolve`, `CheckPolicies`, the alias table and the lookup of a call are
operators on a set of journeys and a list of tools. The list grows one tool at a
time, so that each state is one input and each step compares two inputs.
`AliasFor` is the result of normalising a tool's key; it need not be injective.

### Trimming

A message is its role, its calls, its result and its size. The history grows as the
code lets it: by commands that a request admits, by answers with calls, by results
that come at once or several turns later. `trimHistory` is a recursive function on it,
and the properties restate its comment without its algorithm: `Together` says which
turns a pair holds together by looking at every boundary between them, where the
code merges units.

### ActiveSet

`stored` is the column, `conv` the copy that the live run works on, and `late` the
write that a run which lost its ownership may still make. Each `pc` is a position
between two transactions; `planned` is the order in which `planCalls` looked owners
up. Of an approval, a wait and a call only the journey is kept, since that is what
pins. The limit and the available journeys are chosen anew where the code resolves
them. `recency` and `recent` are ghosts: the true order of last uses.

### KeyCache

Clock readings are kept as the time that is left (`cacheExpiry`, `nextRefresh`) or has
passed (`age`, `last`), up to the largest value that anything tells apart. A request
holds the gate from the start of its fetch to its end; without a fetch it passes
through the gate in one step. The issuer publishes and retires keys at any time and
answers with the keys of that moment.

### Drain

A database call is in progress between two actions, and may commit, fail, or
take for ever. The wait group is a number. There are two kinds of calls. Those of
submissions past the gate, of workers and of the reaper (`Writing`, `reaping`) are
cancelled through the platform's context. Those of responses (`Reading`: resolving the
identifiers before the gate, snapshots and polls) have the context of their request,
which ends with the client or with `http.Server.Close` (`cut`). The end of `run` is
modelled with its deferred calls: `Return` is `app.Close` and the start of `pool.Close`,
after which no call begins, and `MainReturns` waits until no call is in progress.
Flushing telemetry has a deadline and is left out.

## 3. Runs

Deadlock is not checked where the bounded instance really stops (all commands are
used, the process has returned). The rollout's runs do check it.

| Run | Question | Bounds |
|---|---|---|
| `journal_steering` | One thing at a time, no command stranded, waits match runs, the log tells the truth and says nothing after the end | 3 commands with targets, 1 replica, no calls, 13 types of events |
| `journal_calls` | Approvals are used as given; operations and attempts agree; an unresolved call stops the thread; one token at most passes the fence; nothing decided is undone | 2 commands, 2 calls, 2 product versions |
| `worker_safety` | Every proposal has a result or a wait; what completed is remembered; no call is left in flight; the worker refines `ApprovedAction` and is a behaviour of `Journal` | 2 commands, 1 call, 2 sets, 2 rounds of 2 proposals, all failure states |
| `worker_progress` | Commands settle, runs end, waits end | 2 commands, 1 call; fair |
| `rollout_rollback` | Pins are stored, no release comes back without `--rollback`, waits keep their set, a replica becomes ready again | 2 sets; an activation with `--rollback` that may start again, two pods of the other release; fair probe |
| `rollout_releases` | Binding and activation give up only after their attempts, and an activation leaves nobody unserved | 3 releases, a bundle that does not compile, binaries that do not know every set |
| `terminal` | Each stream has sent what is in the log after its snapshot, what it tells is true, and it ends with its run; the terminal asks the question that is open; retrying tells how the request ended | 2 commands, 2 cut requests, any requests of others; fair |
| `provider_request` | A call reaches the tool that was checked; approval is waived only where every matching selector waives it; a request has whole turns, no half pairs, and no less than it could | 3 keys of which two share an alias, lists of 2; histories of 7 messages with 2 calls, 2 sizes, 2 commands per request, budgets 0, 3 and 5 |
| `active_set` | Memory and database agree; pinned journeys stay; the limit holds; no activation is refused; the oldest goes | 4 journeys of which two share an alias, limits 1 and 2, at most one journey unavailable |
| `key_cache` | Keys that are given out are recent; new keys are found; fetches are rare; every request is answered | 2 keys, 2 requests; timeout 1, interval 2, lifetime 3, ordered as in the code; fair |
| `drain_stop` | The process ends unless a call of a response holds the pool, and is quiet once drained | 2 submissions, 1 remote run; fair |

Two commands are enough for every race of two parties at one run: a message and
its steering message, a wait and its reply, a run and the run after it.
`journal_steering` adds a third party to these, such as a message between a wait
and its reply. Two owner tokens of one conversation, one of them late, exist with
one replica; a second replica changes only whose name the token has. Two calls
make one that is unresolved meet another. Four journeys and two places make an
eviction choose among two with a third one new and a fourth that comes back. Seven
messages hold three turns with two pairs that overlap. In the rollout, two pods of one release
and a third of another cover every pair of concurrent processes.

### Disagreements with the documentation

`worker_next_turn` is expected to find a counterexample. It states
`internal/runtime/interactions.go:232`, which says that proposals are closed "before a
later user turn". A continuation that fails before `runHarness` leaves the wait's
proposal open in the stored history, and the next message starts from it.

Others were met while modelling and have no run of their own:

* `internal/journal/definitions.go:16` says that idle conversations "re-pin to the
  current set at their next run start, so their pins need not stay loadable". The
  query counts a conversation whose plain run is at work as idle. TLC finds the
  consequence in the instance of `rollout_releases`: a run is bound to the first set,
  the second and then the third release are activated (the third does not compile the
  first set, and nothing that is referenced stops it), and then the run starts a
  call or a wait. It is held by a set that the pods of the current release cannot
  load. `MoveServable` is what the check does guarantee.
* `docs/design.md:515` says that an included command "stays in history for every later
  round and run". `OnDispatch` commits the inclusion before the request is sent, and
  a request that then fails takes the text out of the history again.
* The same line and `docs/design.md:231`: with two corrections admitted at once and a
  tight budget, `trimHistory` may drop the first of them, since each user message
  starts a turn, while both are recorded as included in the request.
* `docs/design.md:343` says that an oddly named tool "cannot disable unrelated journeys".
  `open` builds one alias table for all journeys and fails when an alias is two
  tools, so two journeys whose tags match tools with the same derived alias take a third
  one down.
* `CONTEXT.md:32` says that a journey with an open approval "stays active". `converse`
  removes unavailable journeys before it looks at pins, so a pinned journey that no
  longer resolves goes; `PinnedActive` states the rest.
* The design and the root `README.md` describe refused activations. `NoneRefused` shows that
  nothing but a run's own target is pinned whenever journeys are activated, so the
  refusal in `converse` and `activate` is not reached.
* `docs/task-6-auth.md` lets a new key ID refresh the key set. A request that comes while
  another one fetches is refused as unknown instead of waiting, because the cooldown
  starts with the fetch; a client that leaves during its fetch leaves the cooldown
  behind. `TrustedSoon` names both exceptions.
* `docs/design.md:212` says that a command committed before the process stops
  "stays pending". Only a reply's continuation does; the run of a message is
  interrupted when the lease that `Admit` gave it is over.
* `internal/defstore/activate.go:24` says that superseded means "not current".
  There are two reads, and another pod may activate the candidate in between.
* `docs/design.md:463` says that old pods stay ready while current moves. A probe
  that overlaps the move answers 503 once; `ReadyAgain` is what holds.
* `internal/service/service.go:84` says that expiry of the context closes streams.
  `Shutdown` looks at the context only when `Drain` returns. After a drain that ended
  in time, the server's `Shutdown` gives up at the deadline and the streams go on.
* `internal/platform/platform.go:103` says that "a SIGTERM cannot be held behind a row
  lock", and `docs/task-6-process.md:19` that "The service then closes long-lived HTTP
  streams". That holds for work that is registered when the grace period ends. A handler
  in `ids.resolve`, which upserts rows before the gate, or a stream in a poll is not
  registered. If the drain ends in time, nobody cancels its call, and the deferred
  `pool.Close` (`cmd/agent-platform/main.go:119`) waits for it: behind a row lock, or on
  a database that does not answer, for as long as that lasts. The same goes for a process
  whose `Serve` failed. `Terminates` names this exception; without it TLC finds the
  behaviour `Follow`, `BeginDrain`, `DrainDone`, `DrainReaper`, `CloseServer`, `GraceOver`,
  `ServerShutdown`, `Joined`, and then nothing.

### Fairness

* `Worker`: the clock ticks and the reaper runs (a ticker in `platform.New`), and a
  worker that holds its lease goes on to its next transaction. Provider and tool
  calls return: tool calls have a deadline, and a model call that hangs is a
  worker that renews for ever, which this assumption excludes. Nothing is assumed
  of clients, of the gap between `Admit` and `Claim`, or that a worker survives.
* `Rollout`: the kubelet goes on probing.
* `Terminal`: the handler goes on while its connection stands, the user goes on typing
  `/retry`, and the server answers.
* `KeyCache`: a request that waits at the gate gets its turn again and again (a Go
  channel serves its senders in order; strong fairness, since others take the gate
  meanwhile), and a fetch ends (it has a timeout). Nothing is assumed of the issuer.
* `Drain`: the shutdown goes on, its clock runs, and a call whose context is cancelled
  returns (pgx closes the connection): the calls of submissions, workers and the reaper
  once the platform has cancelled, those of responses once the server was closed. Nothing
  is assumed of other calls, of the database, the runs or the clients, which is why
  `Terminates` has its exception.

## 4. Proofs

`JournalProofs` proves, for all sets of commands, replicas,
calls, versions, sets and journeys, and every lease length, from the assumptions
of `Journal` (`None` is none of the constants' members, `Lease` is positive,
targets are journeys, failure states are the code's):

* `TypeCorrect`: `TypeOK`.
* `OneThingAtATime`, `NoCommandStranded`, `FencingWorks`: `OneThing`, `NoneStranded`,
  `Fenced`.
* `ApprovalsHold`, `CallRecordsAgree`: `ApprovalsKept`, `AttemptsAgree`.
* `ThreadStops`, `NothingUndone`: the action properties `ThreadStop`, `Irrevocable`.

The inductive invariant is `IInv == Lifecycle /\ Calls /\ Approvals`. None of the
properties is inductive alone.
`RunsConsistent` adds that a run has an epoch only once it was claimed, that the
running run has the conversation's epoch, and that a live run has no wait yet:
without it, a claim could repeat an epoch and a late token would pass the fence.
`CallsConsistent` adds where an operation's run and attempts can be, and
`MarkersConsistent` that the marker follows the state of its wait: without it, an
approval that was superseded could still be used. Each operator that transforms a
row has one lemma about what it keeps, and is opaque afterwards. Each action has
one lemma per part of the invariant that it can disturb. The action properties
follow from `IInv` step by step.

`LogProofs` proves `LogIsFaithful` (`LogFaithful`) with the same assumptions and one
hypothesis, `AllObserved`: `Observed`, the event types that an instance keeps in its log,
has those that end a run or tell what became of a command. The code logs every type;
`Observed` only bounds the log for TLC, and `JournalSteering.cfg` satisfies `AllObserved`.
The proof reads the log against two functions of the tables: what ended each run
(`EndsIn`) and what became of each command (`FatesIn`). `LInv` says that the log is
faithful to both, and that nothing about a run follows its end. One lemma per kind of
entry says what appending it does to that: it is neutral, it ends a run (`EvCloses`), or
it tells of a command (`EvTells`). The transactions that log several entries, such as
the sweep and the end of a run that drops its commands, are composed of these. What
`LogFaithful` lacks to be inductive is `IInv` (an owner whose token holds has not ended,
so its end was not logged) and `BlankFates` (a command that was not accepted has
no fate yet).

`ChatProofs` proves, for any number of commands, clients, replicas and faults, what the
handler and the terminal promise: `StreamsLoseNothing` (`NothingLost`), `ClientsToldTrue`
(`ToldTrue`) and `TerminalAsksWhatIsOpen` (`AsksWhatIsOpen`). `AllObserved` is not needed
here: a type that is left out of the log is not told. The inductive invariant, proved as
`ChatInvariance`, is `TInv`:

* `IInv`, as above;
* `LogSound` (in `LogProofs`): every entry of the log is so by the tables as they are
  now, and names accepted commands only. A stream may read an entry long after it
  was written, so it has to stay true;
* `CInv`: each request is `Sane`. While it tails, it has handed over what the log says of
  its run between the watermark and its cursor (`Heard`), and the run is the one that
  carries the command, or one that does not exist yet. `RepliesOwn` and `AllMapped`
  say that a reply has a run of its own and that a command is accepted only after its
  identifier was mapped: without them, a terminal could hold a question that its own
  last command has answered;
* `ShowsStream`: what the terminal shows comes from the stream of its last command, and
  once it is informed the run that carries this command is over or waits.

The lemmas about `Heard` say what a poll, an event of the run and an event of another run
do to it. `ObserveTurn`, `AskTurn`, `PollTurn` and `DeliverTurn` show that a
step of the handler keeps its request `Sane`; `RequestsStep` that the others stay so when
the journal moves on. `ToldTrue` is shown with each step (`Holds`).

`WorkerProofs` proves `WorkerImplementsJournal`: every behaviour of `Worker` is one of
`Journal`, and so, in `ProgramSafe`, that the whole program keeps `OneThing`,
`NoneStranded`, `Fenced` and `ApprovalsKept`, for any number of replicas, commands,
calls, rounds and sets. What the proof has to show of a step is that the journal
allows its transaction with the arguments the worker has in hand: `Journal` lets an
owner call with any member of its sets, in any order, so those arguments must be
members. `WInv` says so for each position of a worker (`Placed`: its call, its set,
its final state, the interaction it continues) and for the rows they were read from
(`Written`: the journey and shape in a binding). `PlacedStep` and `WrittenStep` show
that every action preserves it; `StepsImplement` maps each action to one of `Journal` or
to a stutter, and the journal's own invariants follow.

It also proves `NoCallLeftInFlight` (`NoneInFlight`). `Complete` does not look at the
operations, so the property is about where workers are: `CallsInHand` says that a call in
flight belongs to a running run whose worker waits for it, or is gone, or is about to
fail the run. `InHandKept` shows that every action keeps this.

`MemoryProofs` proves `ProposalsAreAccounted` (`ProposalsAccounted`) and
`NothingForgotten` (`RunsRemembered`). The history is stored only when a run waits or
completes, and loaded by the next one, so both properties depend on what workers have
in memory in between. `MInv` adds:

* `RepliesMatch`: a reply and the wait that it consumed name each other;
* `Stored`: a wait, and the run that continues it, find the history as the wait saved
  it, and no run starts with more open proposals than the other waits account for
  (`Besides`);
* `Carries`: a running worker's open proposals, less those it is working on (`AtHand`),
  are accounted for by other waits, and it knows every message that its run
  and the earlier ones took into a request.

Steps are sorted into kinds: those after which the tables say the same (`Quiet`), one run
stops (`Stops`), what has timed out is swept and a message may be admitted (`Sweeps`), and
a reply is accepted. The lemmas take what they need about cardinalities as the hypothesis
`Counting`, which `CountingHolds` derives from the library's theorems on finite sets, so the
two theorems do not have it.

`PromiseProofs` proves `PromiseKept`: every behaviour of `Worker` is one of
`ApprovedAction` (`KeepsPromise`). The mapping is `Decision`, `Effects` and `Told`. The
invariant adds `PInv` to `IInv` and `WInv`. `AskedOnce` says that one wait at most is about
a call, and is used once the call has gone out: without it, an approval could be
withdrawn after its effect. `RecordedTruly` says that the outcome of each attempt is
what the tool server did with it: without it, a request that was recorded as refused
could still be carried out. That there is one effect rests on `AttemptsAgree` (an
effectful call has one attempt), that it was approved on `NothingUnapproved`, and that a
run that ends changes the record of one call only on `OneUnresolved`, all proved of
`Journal`. The proof first sorts the program's actions into nine kinds (`Kind`), by
what they do to the waits, the calls and the requests; the invariant and the mapping are
then shown kind by kind.

`ActiveSetProofs` proves all five properties of `ActiveSet`, for any finite set of
journeys, any aliases and any limits:

* `MemoryIsStored` (`SavedOrder`) needs that a late write is refused, that `converse` and
  `activate` leave memory and database equal, and that touches happen only in a round
  of calls, which ends with a flush.
* `ActivationsSucceed` (`NoneRefused`) rests on `OnePin`: a run has one thing at most that
  pins, the approval it continues or the call it is in, and neither is there when the
  model activates.
* `PinnedStays` (`PinnedActive`), `LimitKept` (`WithinLimit`) and `LeastRecentlyUsedGo`
  (`EvictsOldest`) follow from `AInv`, which adds `InOrder` and `OpenActive` to these two.
  `InOrder` says that every set, stored, in memory or about to be written, is in the order
  of last use and within the limit, and that what the next write drops is older than what
  it keeps (`DropsOldest`). `OpenActive` follows the journey of an approval from the
  plan of the round that asked for it to the wait, and from the reply to the call.

The lemmas before them are about orders: `Kept` (filtering keeps what it should, in
order), `VictimsOldest` (victims are a prefix of what is unpinned), `FitWithin` and
`ActivateWithin` (the limit holds with one pinned journey at most).

`ProcessProofs` holds the proofs of three modules that stand alone.

`Rollout`: it proves `PinsLoadable` (`AllStored`), `NeverBack` (`ForwardOnly`),
`ActivatedServable` (`MoveServable`) and `PinsHold` (`PinKept`) for any fleet,
bundles and restarts. Its inductive invariant is `Grounded`: `RTypeOK`, `AllStored`
and `StepsGrounded`, which says what a process that is between two transactions
has already made sure of. Without that, the commit of an activation could refer
to a set that nobody stored.

`KeyCache`: it proves `KeysAreRecent` (`NoneStale`), `NewKeysAreFound` (`TrustedSoon`)
and `FetchesAreRare` (`FetchRate`) for any keys, requests and times with timeout <
interval < lifetime. The inductive invariant is `KInv`. `GateHeld` ties the gate to
the fetch and its age; `OncePublished` bounds the age of what is cached or in transit;
`NothingMissed` says that a fetch that succeeded brought all that was published
before it; `CooldownRuns` relates the cooldown to the last two fetches, which is what
`FetchRate` needs where a fetch ends the cooldown early.

`Drain`: it proves `DrainIsQuiet` (`QuietOnceDrained`) for any number of calls. Its
invariant `DInv` says that the wait group counts the submissions and workers that are
under way (in `DTypeOK`), that the gate is closed before the drain waits, and that the
drain goes on to the reaper, and reports success, only when none is left.

Only model-checked:

* every liveness property (`AllSettled`, `RunsEnd`, `ReadyAgain`, `StreamsEnd`,
  `RetryTells`, `Answered`, `Terminates`): fairness is beyond the prover;
* `CallsWhatWasChecked`, `OnlyNarrows` and `TrimsAsSaid`: `Resolution` and `Trimming` are
  recursive, and what they compute would have to be shown by induction over data;
* `GivesUpOnChurn`, which is about counters of its instance.

`WTypeOK`, `TTypeOK`, `CTypeOK` and `TrimTypeOK` document
the types of their modules' variables, as `ATypeOK` does; `TypeOK`, `RTypeOK`,
`KTypeOK` and `DTypeOK` are parts of the invariants that are proved.

## 5. Not modelled

* Catalog pins (`journal/catalog.go`, the age of a pin in `catalog.open`): they are
  written by one owner after the other under the fence that `Fenced` covers, and
  decide only whether the tools are listed again. `Resolution` takes any list.
* Usage totals, version comparison, limit classification, merging of settings: pure
  functions of one call's data. Tables of cases test them well.
* Verification of tokens and claims, credentials, wire formats, telemetry, prompts,
  migrations: input, output or text, with no state that others read.
* Two conversations at once: they share no row. `Rollout` has the definition
  tables, the one place where they meet.
* A GET of a run that no POST has created yet (`chat/http.go:154`): the terminal client
  does not send one, and other clients are not part of the repository.
* A failure of PostgreSQL is a transaction that does not commit, which every module
  allows. Loss of committed data is not considered.

## 6. Further work

* `Worker` composed with `Rollout`, so that a run that starts to wait after an
  activation has looked is followed to the failure of its reply.
