--------------------------- MODULE JournalProofs ---------------------------
(* Proofs about Journal, for any sets of commands, replicas and calls.     *)
EXTENDS Journal, TLAPS

----------------------------------------------------------------------------
(* Rows: what each UPDATE changes and what it leaves alone.                *)

\* The default rows and the rows that are inserted are well typed.
LEMMA BlankRows ==
  /\ NoRun \in RunRow
  /\ NoCommand \in CommandRow
  /\ NoInteraction \in InteractionRow
  /\ NoOperation \in OperationRow
  /\ NoInteraction.state = "absent" /\ NoInteraction.marker = "" /\ NoInteraction.cont = None
  /\ NoOperation.outcome = "none" /\ ~NoOperation.approval
<1>1. NoRun \in RunRow
  BY LeaseAssumption DEF NoRun, RunRow, RunState
<1>2. NoCommand \in CommandRow
  BY Zenon DEF NoCommand, CommandRow
<1>3. NoBinding \in Binding
  BY Zenon DEF NoBinding, Binding
<1>4. NoInteraction \in InteractionRow
  BY <1>3, Zenon DEF NoInteraction, InteractionRow, Marker
<1>5. NoOperation \in OperationRow
  BY <1>3, Zenon DEF NoOperation, OperationRow, Policy, Outcome
<1>6. NoInteraction.state = "absent" /\ NoInteraction.marker = "" /\ NoInteraction.cont = None
  BY Zenon DEF NoInteraction
<1>7. NoOperation.outcome = "none" /\ ~NoOperation.approval
  BY Zenon DEF NoOperation
<1> QED BY <1>1, <1>2, <1>4, <1>5, <1>6, <1>7, Zenon

\* A run row Admit or reply inserts.
LEMMA FreshRunRow ==
  ASSUME NEW j \in Journey \cup {None}, NEW d \in Digest \cup {None}
  PROVE  /\ FreshRun(j, d) \in RunRow
         /\ FreshRun(j, d).state = "pending"
         /\ FreshRun(j, d).epoch = 0
BY LeaseAssumption DEF FreshRun, RunRow, RunState, Live

\* Claim's row update.
LEMMA ClaimedRow ==
  ASSUME NEW run \in RunRow, NEW p \in Replica, NEW e \in Nat
  PROVE  /\ Claimed(run, p, e) \in RunRow
         /\ Claimed(run, p, e).state = "running"
         /\ Claimed(run, p, e).owner = p
         /\ Claimed(run, p, e).epoch = e
<1> DEFINE r1 == [run EXCEPT !.state = "running"]
           r2 == [r1 EXCEPT !.owner = p]
           r3 == [r2 EXCEPT !.epoch = e]
           r4 == [r3 EXCEPT !.lease = Lease]
<1>1. r1 \in RunRow /\ r1.state = "running"
  BY Zenon DEF RunRow, RunState, Live
<1> HIDE DEF r1
<1>2. r2 \in RunRow /\ r2.state = "running" /\ r2.owner = p
  BY <1>1, Zenon DEF RunRow
<1> HIDE DEF r2
<1>3. r3 \in RunRow /\ r3.state = "running" /\ r3.owner = p /\ r3.epoch = e
  BY <1>2, Zenon DEF RunRow
<1> HIDE DEF r3
<1>4. r4 \in RunRow /\ r4.state = "running" /\ r4.owner = p /\ r4.epoch = e
  BY <1>3, LeaseAssumption DEF RunRow
<1>5. Claimed(run, p, e) = r4
  BY Zenon DEF Claimed, r3, r2, r1
<1> QED BY <1>4, <1>5, Zenon

\* Renew's and the clock's row update.
LEMMA LeasedRow ==
  ASSUME NEW run \in RunRow, NEW n \in 0..Lease
  PROVE  /\ Leased(run, n) \in RunRow
         /\ Leased(run, n).state = run.state
         /\ Leased(run, n).epoch = run.epoch
BY Zenon DEF Leased, RunRow

\* RecordRunScope's row update.
LEMMA ScopedRow ==
  ASSUME NEW run \in RunRow, NEW v \in Product
  PROVE  /\ Scoped(run, v) \in RunRow
         /\ Scoped(run, v).state = run.state
         /\ Scoped(run, v).epoch = run.epoch
BY Zenon DEF Scoped, RunRow

\* Start's row update.
LEMMA StartedRow ==
  ASSUME NEW run \in RunRow, NEW j \in Journey \cup {None}, NEW d \in Digest
  PROVE  /\ Started(run, j, d) \in RunRow
         /\ Started(run, j, d).state = run.state
         /\ Started(run, j, d).epoch = run.epoch
<1> DEFINE r1 == [run EXCEPT !.digest = d]
           to == IF j = None THEN r1.journey ELSE j
           r2 == [r1 EXCEPT !.journey = to]
<1>1. r1 \in RunRow /\ r1.state = run.state /\ r1.epoch = run.epoch
  BY Zenon DEF RunRow
<1>2. Started(run, j, d) = r2
  BY Zenon DEF Started
<1> HIDE DEF r1
<1>3. to \in Journey \cup {None}
  BY <1>1, Zenon DEF RunRow
<1> HIDE DEF to
<1>4. r2 \in RunRow /\ r2.state = run.state /\ r2.epoch = run.epoch
  BY <1>1, <1>3, Zenon DEF RunRow
<1> QED BY <1>2, <1>4, Zenon

\* A write of one run row that keeps its state.
LEMMA SameState ==
  ASSUME TypeOK, NEW r \in Command, NEW row, row.state = runs[r].state,
         runs' = [runs EXCEPT ![r] = row]
  PROVE  \A x \in Command : runs'[x].state = runs[x].state
BY DEF TypeOK

\* LeaseTick's and Heartbeat's writes of a run row.
LEMMA LeaseStates ==
  ASSUME TypeOK, NEW r \in Command, NEW n \in 0..Lease,
         runs' = [runs EXCEPT ![r] = Leased(runs[r], n)]
  PROVE  \A x \in Command : runs'[x].state = runs[x].state /\ runs'[x].epoch = runs[x].epoch
<1>1. runs[r] \in RunRow
  BY DEF TypeOK
<1>2. Leased(runs[r], n).state = runs[r].state /\ Leased(runs[r], n).epoch = runs[r].epoch
  BY <1>1, LeasedRow, Zenon
<1> QED BY <1>2 DEF TypeOK

\* The lease LeaseTick writes.
LEMMA LeaseTicked ==
  ASSUME TypeOK, NEW r \in Command, LeaseTick(r)
  PROVE  runs[r].lease - 1 \in 0..Lease
<1>1. runs[r].lease \in 0..Lease /\ runs[r].lease > 0
  BY DEF TypeOK, RunRow, LeaseTick
<1> QED BY <1>1, LeaseAssumption

\* Wait's update of the run.
LEMMA SuspendedRow ==
  ASSUME NEW run \in RunRow
  PROVE  /\ Suspended(run) \in RunRow
         /\ Suspended(run).state = "awaiting_input"
         /\ Suspended(run).epoch = run.epoch
<1> DEFINE r1 == [run EXCEPT !.state = "awaiting_input"]
           r2 == [r1 EXCEPT !.owner = None]
           r3 == [r2 EXCEPT !.lease = 0]
<1>1. r1 \in RunRow /\ r1.state = "awaiting_input" /\ r1.epoch = run.epoch
  BY Zenon DEF RunRow, RunState
<1>5. Suspended(run) = r3
  BY Zenon DEF Suspended
<1> HIDE DEF r1
<1>2. r2 \in RunRow /\ r2.state = "awaiting_input" /\ r2.epoch = run.epoch
  BY <1>1, Zenon DEF RunRow
<1> HIDE DEF r2
<1>3. r3 \in RunRow /\ r3.state = "awaiting_input" /\ r3.epoch = run.epoch
  BY <1>2, LeaseAssumption DEF RunRow
<1> QED BY <1>3, <1>5, Zenon

\* The row update of every way a run ends.
LEMMA EndedRow ==
  ASSUME NEW run \in RunRow, NEW state \in Terminal
  PROVE  /\ Ended(run, state) \in RunRow
         /\ Ended(run, state).state = state
         /\ Ended(run, state).epoch = run.epoch
BY Zenon DEF Ended, RunRow, RunState

\* disposePending's row update.
LEMMA DisposedRow ==
  ASSUME NEW command \in CommandRow, NEW why \in {"interrupted"} \cup FailureStates
  PROVE  /\ Disposed(command, why) \in CommandRow
         /\ Disposed(command, why).exec = command.exec
         /\ Disposed(command, why).reply = command.reply
         /\ Disposed(command, why).reason = why
BY Zenon DEF Disposed, CommandRow

\* Included's row update.
LEMMA InRequestRow ==
  ASSUME NEW command \in CommandRow
  PROVE  /\ InRequest(command) \in CommandRow
         /\ InRequest(command).exec = command.exec
         /\ InRequest(command).reply = command.reply
         /\ InRequest(command).included
BY Zenon DEF InRequest, CommandRow

\* A command row Admit or reply inserts.
LEMMA AcceptedRow ==
  ASSUME NEW r \in Command, NEW i \in Command \cup {None}, NEW why \in {"", "consumed"}
  PROVE  /\ Accepted(r, i, why) \in CommandRow
         /\ Accepted(r, i, why).exec = r
BY Zenon DEF Accepted, CommandRow

\* The marker update of supersede and BeginAttempt.
LEMMA MarkedRow ==
  ASSUME NEW wait \in InteractionRow, NEW marker \in Marker
  PROVE  /\ Marked(wait, marker) \in InteractionRow
         /\ Marked(wait, marker).marker = marker
         /\ Marked(wait, marker).state = wait.state
         /\ Marked(wait, marker).kind = wait.kind
         /\ Marked(wait, marker).call = wait.call
         /\ Marked(wait, marker).binding = wait.binding
         /\ Marked(wait, marker).cont = wait.cont
BY Zenon DEF Marked, InteractionRow

\* Only valid changes when a wait times out.
LEMMA TimedOutRow ==
  ASSUME NEW wait \in InteractionRow
  PROVE  /\ TimedOut(wait) \in InteractionRow
         /\ TimedOut(wait).marker = wait.marker
         /\ TimedOut(wait).state = wait.state
         /\ TimedOut(wait).kind = wait.kind
         /\ TimedOut(wait).call = wait.call
         /\ TimedOut(wait).binding = wait.binding
         /\ TimedOut(wait).cont = wait.cont
BY Zenon DEF TimedOut, InteractionRow

\* expireInteractions' row update.
LEMMA ExpiredRow ==
  ASSUME NEW wait \in InteractionRow
  PROVE  /\ Expired(wait) \in InteractionRow
         /\ Expired(wait).marker \in {"", "denied"}
         /\ Expired(wait).state = "expired"
         /\ Expired(wait).cont = wait.cont
<1> DEFINE w1 == [wait EXCEPT !.state = "expired"]
           m == IF wait.kind = "approval" THEN "denied" ELSE ""
           w2 == [w1 EXCEPT !.marker = m]
<1>1. w1 \in InteractionRow /\ w1.state = "expired" /\ w1.cont = wait.cont
  BY Zenon DEF InteractionRow
<1>2. m \in {"", "denied"}
  BY Zenon
<1>3. Expired(wait) = w2
  BY Zenon DEF Expired
<1> HIDE DEF w1, m
<1>4. w2 \in InteractionRow /\ w2.marker = m /\ w2.state = "expired" /\ w2.cont = wait.cont
  BY <1>1, <1>2, ZenonT(40) DEF InteractionRow, Marker
<1> QED BY <1>2, <1>3, <1>4, Zenon

\* reply's update of the wait.
LEMMA ConsumedRow ==
  ASSUME NEW wait \in InteractionRow, NEW c \in Command, NEW approved \in BOOLEAN
  PROVE  /\ Consumed(wait, c, approved) \in InteractionRow
         /\ Consumed(wait, c, approved).marker \in {"", "decided", "denied"}
         /\ Consumed(wait, c, approved).marker = "decided" => wait.kind = "approval"
         /\ Consumed(wait, c, approved).state = "consumed"
         /\ Consumed(wait, c, approved).kind = wait.kind
<1> DEFINE w1 == [wait EXCEPT !.state = "consumed"]
           w2 == [w1 EXCEPT !.cont = c]
           m == IF wait.kind # "approval" THEN "" ELSE IF approved THEN "decided" ELSE "denied"
           w3 == [w2 EXCEPT !.marker = m]
<1>1. w1 \in InteractionRow /\ w1.state = "consumed" /\ w1.kind = wait.kind
  BY Zenon DEF InteractionRow
<1>2. m \in {"", "decided", "denied"} /\ (m = "decided" => wait.kind = "approval")
  BY Zenon
<1>3. Consumed(wait, c, approved) = w3
  BY Zenon DEF Consumed
<1>6. m \in Marker
  BY <1>2, Zenon DEF Marker
<1> HIDE DEF w1, m
<1>4. w2 \in InteractionRow /\ w2.state = "consumed" /\ w2.kind = wait.kind
  BY <1>1, Zenon DEF InteractionRow
<1> HIDE DEF w2
<1>5. w3 \in InteractionRow /\ w3.marker = m /\ w3.state = "consumed" /\ w3.kind = wait.kind
  BY <1>4, <1>6 DEF InteractionRow
<1> QED BY <1>2, <1>3, <1>5, Zenon

\* The outcome update of markOperationsUnknown, BeginAttempt and EndAttempt.
LEMMA ReportedRow ==
  ASSUME NEW op \in OperationRow, NEW outcome \in Outcome
  PROVE  /\ Reported(op, outcome) \in OperationRow
         /\ Reported(op, outcome).outcome = outcome
         /\ Reported(op, outcome).run = op.run
         /\ Reported(op, outcome).policy = op.policy
         /\ Reported(op, outcome).approval = op.approval
         /\ Reported(op, outcome).binding = op.binding
BY Zenon DEF Reported, OperationRow

----------------------------------------------------------------------------
(* Type correctness.                                                       *)

\* The tables a sweep writes keep their types.
LEMMA SweepTypes ==
  ASSUME TypeOK, NEW R \in SUBSET Command
  PROVE  /\ RunsSwept(R) \in [Command -> RunRow]
         /\ \A why \in {"interrupted"} \cup FailureStates :
              disposePending(R, why) \in [Command -> CommandRow]
         /\ expireInteractions \in [Command -> InteractionRow]
         /\ markOperationsUnknown(R) => /\ operations' \in [Call -> OperationRow]
                                        /\ attempts' \in [Call -> [1..2 -> Outcome]]
<1>1. RunsSwept(R) \in [Command -> RunRow]
  BY EndedRow, Zenon DEF TypeOK, RunsSwept, Terminal
<1>2. ASSUME NEW why \in {"interrupted"} \cup FailureStates
      PROVE  disposePending(R, why) \in [Command -> CommandRow]
  BY DisposedRow, Zenon DEF TypeOK, disposePending
<1>3. expireInteractions \in [Command -> InteractionRow]
  BY ExpiredRow, Zenon DEF TypeOK, expireInteractions
<1>4. ASSUME markOperationsUnknown(R)
      PROVE  /\ operations' \in [Call -> OperationRow]
             /\ attempts' \in [Call -> [1..2 -> Outcome]]
  <2>1. "outcome_unknown" \in Outcome
    BY Zenon DEF Outcome
  <2> QED BY <1>4, <2>1, ReportedRow DEF TypeOK, markOperationsUnknown
<1> QED BY <1>1, <1>2, <1>3, <1>4, Zenon

\* BindCall digests the run's versions and the call into a binding.
LEMMA BindCallType ==
  ASSUME TypeOK, NEW r \in Command, NEW j \in Journey \cup {None}, NEW s \in Shape \cup {None}
  PROVE  BindCall(r, j, s) \in Binding
<1> runs[r] \in RunRow
  BY Zenon DEF TypeOK
<1> QED BY Zenon DEF BindCall, Binding, RunRow

\* What needs no owner token keeps the types.
LEMMA UnownedTypes ==
  ASSUME TypeOK, NEW c \in Command, Unowned(c)
  PROVE  TypeOK'
<1> Lost \in SUBSET Command
  BY Zenon DEF Lost
<1> "interrupted" \in {"interrupted"} \cup FailureStates
  BY Zenon
<1>1. CASE Admit(c)
  <2>1. ASSUME NEW r \in Command
        PROVE  [disposePending(Lost, "interrupted") EXCEPT ![c] = Accepted(r, None, "")]
                 \in [Command -> CommandRow]
    BY SweepTypes, AcceptedRow, Zenon
  <2>2. [RunsSwept(Lost) EXCEPT ![c] = FreshRun(None, None)] \in [Command -> RunRow]
    BY SweepTypes, FreshRunRow, Zenon
  <2>3. commands' \in [Command -> CommandRow]
    BY <1>1, <2>1, Zenon DEF Admit
  <2>4. \/ runs' = RunsSwept(Lost)
        \/ runs' = [RunsSwept(Lost) EXCEPT ![c] = FreshRun(None, None)]
    BY <1>1, Zenon DEF Admit
  <2>5. runs' \in [Command -> RunRow]
    BY <2>2, <2>4, SweepTypes, Zenon
  <2> QED BY <1>1, <2>3, <2>5, SweepTypes, Zenon DEF Admit, TypeOK
<1>2. ASSUME NEW i \in Command, ReplyTooLate(c, i)
      PROVE  TypeOK'
  BY <1>2, SweepTypes, Zenon DEF ReplyTooLate, TypeOK
<1>3. ASSUME NEW i \in Command, NEW approve \in BOOLEAN, ReplyInTime(c, i, approve)
      PROVE  TypeOK'
  <2> DEFINE approved == approve /\ interactions[i].kind = "approval"
  <2>1. commands' = [commands EXCEPT ![c] = Accepted(c, i, IF approved THEN "consumed" ELSE "")]
        /\ interactions' = [interactions EXCEPT ![i] = Consumed(@, c, approved)]
    BY <1>3, Zenon DEF ReplyInTime
  <2>2. approved \in BOOLEAN /\ (IF approved THEN "consumed" ELSE "") \in {"", "consumed"}
    BY Zenon
  <2>3. interactions[i] \in InteractionRow
    BY Zenon DEF TypeOK
  <2>4. interactions[i].journey \in Journey \cup {None} /\ interactions[i].digest \in Digest \cup {None}
    BY <2>3, Zenon DEF InteractionRow
  <2>5. FreshRun(interactions[i].journey, interactions[i].digest) \in RunRow
    BY <2>4, FreshRunRow, Zenon
  <2>6. runs' \in [Command -> RunRow]
    BY <1>3, <2>5, EndedRow, Zenon DEF ReplyInTime, TypeOK, Terminal
  <2> HIDE DEF approved
  <2>7. commands' \in [Command -> CommandRow]
    BY <2>1, <2>2, AcceptedRow, Zenon DEF TypeOK
  <2>8. interactions' \in [Command -> InteractionRow]
    BY <2>1, <2>2, <2>3, ConsumedRow, Zenon DEF TypeOK
  <2> QED BY <1>3, <2>6, <2>7, <2>8, Zenon DEF ReplyInTime, TypeOK
<1>4. ASSUME NEW p \in Replica, Claim(c, p)
      PROVE  TypeOK'
  <2>1. epoch + 1 \in Nat /\ [run |-> c, id |-> p, epoch |-> epoch + 1] \in Owner
    BY DEF TypeOK, Owner
  <2>2. runs[c] \in RunRow /\ Claimed(runs[c], p, epoch + 1) \in RunRow
    BY <2>1, ClaimedRow, Zenon DEF TypeOK
  <2> QED BY <1>4, <2>1, <2>2 DEF Claim, TypeOK
<1>5. CASE Reap(c)
  BY <1>5, SweepTypes, Zenon DEF Reap, TypeOK
<1>6. CASE LeaseTick(c)
  <2>1. runs[c] \in RunRow
    BY Zenon DEF TypeOK
  <2>2. runs[c].lease - 1 \in 0..Lease
    BY <1>6, <2>1, LeaseAssumption DEF LeaseTick, RunRow
  <2> QED BY <1>6, <2>1, <2>2, LeasedRow, Zenon DEF LeaseTick, TypeOK
<1>7. CASE InteractionTimeout(c)
  BY <1>7, TimedOutRow, Zenon DEF InteractionTimeout, TypeOK
<1> QED BY <1>1, <1>2, <1>3, <1>4, <1>5, <1>6, <1>7, Zenon DEF Unowned, reply

\* The row Wait inserts.
LEMMA WaitRow ==
  ASSUME TypeOK, NEW o \in Owner, NEW kind \in {"approval", "clarification"},
         NEW k \in Call \cup {None}, NEW j \in Journey \cup {None}, NEW s \in Shape \cup {None},
         Wait(o, kind, k, j, s)
  PROVE  /\ interactions' \in [Command -> InteractionRow]
         /\ \A i \in Command \ {o.run} : interactions'[i] = interactions[i]
         /\ interactions'[o.run].state = "pending"
         /\ interactions'[o.run].marker \in {"", "requested"}
         /\ interactions'[o.run].cont = None
<1> DEFINE row == [state |-> "pending", kind |-> kind, call |-> k, binding |-> BindCall(o.run, j, s),
                   journey |-> IF j = None THEN runs[o.run].journey ELSE j,
                   digest |-> runs[o.run].digest, valid |-> TRUE, cont |-> None,
                   marker |-> IF kind = "approval" THEN "requested" ELSE ""]
<1>1. o.run \in Command
  BY Zenon DEF Owner
<1>2. runs[o.run] \in RunRow
  BY <1>1, Zenon DEF TypeOK
<1>3. runs[o.run].journey \in Journey \cup {None} /\ runs[o.run].digest \in Digest \cup {None}
  BY <1>2, Zenon DEF RunRow
<1>4. BindCall(o.run, j, s) \in Binding
  BY <1>1, BindCallType, Zenon
<1>5. row \in InteractionRow
  BY <1>3, <1>4, Zenon DEF InteractionRow, Marker
<1>6. interactions' = [interactions EXCEPT ![o.run] = row]
  BY Zenon DEF Wait
<1>7. row.state = "pending" /\ row.marker \in {"", "requested"} /\ row.cont = None
  BY Zenon
<1> HIDE DEF row
<1> QED BY <1>1, <1>5, <1>6, <1>7, Zenon DEF TypeOK

\* The operation row and attempt that a first BeginAttempt inserts.
LEMMA InsertRow ==
  ASSUME TypeOK, NEW o \in Owner, NEW k \in Call, NEW policy \in Policy,
         NEW approval \in BOOLEAN, NEW b \in Binding, Insert(o, k, policy, approval, b)
  PROVE  /\ operations' \in [Call -> OperationRow]
         /\ attempts' \in [Call -> [1..2 -> Outcome]]
         /\ \A x \in Call \ {k} : operations'[x] = operations[x] /\ attempts'[x] = attempts[x]
         /\ operations'[k].outcome = "dispatching"
         /\ operations'[k].run = o.run
         /\ operations'[k].policy = policy
         /\ operations'[k].approval = approval
         /\ operations'[k].binding = b
         /\ attempts'[k][1] = "dispatching"
         /\ attempts'[k][2] = attempts[k][2]
<1> DEFINE row == [run |-> o.run, policy |-> policy, approval |-> approval, binding |-> b,
                   outcome |-> "dispatching"]
<1>1. o.run \in Command
  BY Zenon DEF Owner
<1>2. row \in OperationRow
  BY <1>1, Zenon DEF OperationRow, Outcome
<1>3. operations' = [operations EXCEPT ![k] = row] /\ attempts' = [attempts EXCEPT ![k][1] = "dispatching"]
  BY Zenon DEF Insert
<1>4. /\ row.outcome = "dispatching" /\ row.run = o.run /\ row.policy = policy
      /\ row.approval = approval /\ row.binding = b
  BY Zenon
<1> HIDE DEF row
<1>5. "dispatching" \in Outcome
  BY Zenon DEF Outcome
<1>6. attempts' \in [Call -> [1..2 -> Outcome]]
  BY <1>3, <1>5, Zenon DEF TypeOK
<1>7. operations' \in [Call -> OperationRow]
  BY <1>2, <1>3, Zenon DEF TypeOK
<1>8. /\ attempts'[k][1] = "dispatching" /\ attempts'[k][2] = attempts[k][2]
      /\ \A x \in Call \ {k} : attempts'[x] = attempts[x]
  BY <1>3 DEF TypeOK
<1>9. operations'[k] = row /\ \A x \in Call \ {k} : operations'[x] = operations[x]
  BY <1>3, Zenon DEF TypeOK
<1> QED BY <1>4, <1>6, <1>7, <1>8, <1>9, Zenon

\* What the holder of a token may do keeps the types.
LEMMA OwnedTypes ==
  ASSUME TypeOK, NEW o \in owners, Owned(o)
  PROVE  TypeOK'
<1> o \in Owner /\ o.run \in Command
  BY Zenon DEF TypeOK, Owner
<1>1. CASE Renew(o)
  <2>1. Lease \in 0..Lease
    BY LeaseAssumption
  <2> QED BY <1>1, <2>1, LeasedRow, Zenon DEF Renew, TypeOK
<1>2. ASSUME NEW v \in Product, RecordRunScope(o, v)
      PROVE  TypeOK'
  BY <1>2, ScopedRow, Zenon DEF RecordRunScope, TypeOK
<1>3. ASSUME NEW d \in Digest, ResolveDefinition(o, d)
      PROVE  TypeOK'
  BY <1>3, Zenon DEF ResolveDefinition, TypeOK
<1>4. ASSUME NEW j \in Journey \cup {None}, NEW d \in Digest, Start(o, j, d)
      PROVE  TypeOK'
  BY <1>4, StartedRow, Zenon DEF Start, TypeOK
<1>5. ASSUME NEW S \in SUBSET Command, Included(o, S)
      PROVE  TypeOK'
  BY <1>5, InRequestRow, Zenon DEF Included, TypeOK
<1>6. ASSUME NEW kind \in {"approval", "clarification"}, NEW k \in Call \cup {None},
             NEW j \in Journey \cup {None}, NEW s \in Shape \cup {None}, Wait(o, kind, k, j, s)
      PROVE  TypeOK'
  BY <1>6, WaitRow, SuspendedRow, ZenonT(40) DEF Wait, TypeOK
<1>7. ASSUME NEW i \in Command, Supersede(o, i)
      PROVE  TypeOK'
  BY <1>7, MarkedRow, Zenon DEF Supersede, TypeOK, Marker
<1>8. ASSUME NEW k \in Call, NEW j \in Journey, NEW s \in Shape, BeginAttempt(o, k, j, s)
      PROVE  TypeOK'
  <2>1. BindCall(o.run, j, s) \in Binding
    BY BindCallType, Zenon
  <2>2. "read_only" \in Policy /\ "dispatched" \in Marker /\ "superseded" \in Marker
        /\ "dispatching" \in Outcome
    BY Zenon DEF Policy, Marker, Outcome
  <2>3. CASE BeginUnapproved(o, k, j, s)
    BY <2>1, <2>2, <2>3, InsertRow, Zenon DEF BeginUnapproved, TypeOK
  <2>4. ASSUME NEW policy \in Policy, NEW i \in Command, BeginApproved(o, k, policy, i, j, s)
        PROVE  TypeOK'
    <3>1. \E m \in {"dispatched", "superseded"} :
             interactions' = [interactions EXCEPT ![i] = Marked(@, m)]
      BY <2>4, Zenon DEF BeginApproved
    <3>2. interactions' \in [Command -> InteractionRow]
      BY <2>2, <3>1, MarkedRow DEF TypeOK
    <3>3. Insert(o, k, policy, TRUE, BindCall(o.run, j, s)) \/ UNCHANGED <<operations, attempts>>
      BY <2>4, Zenon DEF BeginApproved
    <3>4. operations' \in [Call -> OperationRow] /\ attempts' \in [Call -> [1..2 -> Outcome]]
      BY <2>1, <3>3, InsertRow, Zenon DEF TypeOK
    <3> QED BY <2>4, <3>2, <3>4, Zenon DEF BeginApproved, TypeOK
  <2>5. CASE BeginRetry(o, k, j, s)
    BY <2>2, <2>5, ReportedRow, Zenon DEF BeginRetry, TypeOK
  <2> QED BY <1>8, <2>3, <2>4, <2>5, Zenon DEF BeginAttempt
<1>9. ASSUME NEW k \in Call, NEW n \in 1..2, NEW outcome \in Outcome, EndAttempt(o, k, n, outcome)
      PROVE  TypeOK'
  BY <1>9, ReportedRow, Zenon DEF EndAttempt, TypeOK
<1>10. CASE Complete(o)
  BY <1>10, EndedRow, Zenon DEF Complete, TypeOK, Terminal
<1>11. ASSUME NEW state \in FailureStates, Fail(o, state)
       PROVE  TypeOK'
  <2>1. state \in Terminal
    BY Zenon DEF Terminal
  <2> QED BY <1>11, <2>1, SweepTypes, EndedRow, Zenon DEF Fail, TypeOK
<1> QED
  BY <1>1, <1>2, <1>3, <1>4, <1>5, <1>6, <1>7, <1>8, <1>9, <1>10, <1>11, Zenon DEF Owned, finish

\* The journal's tables always hold rows of their declared types.
THEOREM TypeCorrect == Spec => []TypeOK
<1>1. Init => TypeOK
  <2> SUFFICES ASSUME Init PROVE TypeOK
    BY Zenon
  <2>1. "none" \in Outcome
    BY Zenon DEF Outcome
  <2> QED BY <2>1, BlankRows, Zenon DEF Init, TypeOK
<1>2. TypeOK /\ [Next]_vars => TypeOK'
  <2> SUFFICES ASSUME TypeOK, [Next]_vars PROVE TypeOK'
    BY Zenon
  <2>1. CASE Next
    BY <2>1, UnownedTypes, OwnedTypes, Zenon DEF Next
  <2>2. CASE UNCHANGED vars
    BY <2>2, Zenon DEF vars, TypeOK
  <2> QED BY <2>1, <2>2, Zenon
<1> QED BY <1>1, <1>2, PTL DEF Spec

----------------------------------------------------------------------------
(* The life of runs, waits and commands.                                   *)

\* interruptExpired and expireInteractions, row by row: they end exactly the
\* runs and waits that are due, and touch nothing else.
LEMMA SweepRows ==
  ASSUME Lifecycle, NEW R \in SUBSET Lost, NEW x \in Command
  PROVE  /\ x \in R => RunsSwept(R)[x].state = "interrupted"
         /\ x \in Overdue => /\ RunsSwept(R)[x].state = "failed"
                             /\ runs[x].state = "awaiting_input"
                             /\ expireInteractions[x].state = "expired"
         /\ x \notin R /\ x \notin Overdue => RunsSwept(R)[x] = runs[x]
         /\ x \notin Overdue => expireInteractions[x] = interactions[x]
         /\ x \in R => x \notin Overdue
         /\ RunsSwept(R)[x].epoch = runs[x].epoch
<1> runs[x] \in RunRow /\ interactions[x] \in InteractionRow
  BY Zenon DEF Lifecycle, TypeOK
<1>1. x \in R => runs[x].state \in Live
  BY Zenon DEF Lost
<1>2. x \in Overdue => runs[x].state = "awaiting_input"
  BY Zenon DEF Overdue, Lifecycle, WaitsMatch
<1>3. x \in R => x \notin Overdue
  BY <1>1, <1>2, Zenon DEF Live
<1>4. "interrupted" \in Terminal /\ "failed" \in Terminal
  BY Zenon DEF Terminal
<1>5. /\ x \in R => RunsSwept(R)[x] = Ended(runs[x], "interrupted")
      /\ x \in Overdue => RunsSwept(R)[x] = Ended(runs[x], "failed")
      /\ x \notin R /\ x \notin Overdue => RunsSwept(R)[x] = runs[x]
  BY <1>2, <1>3, Zenon DEF RunsSwept
<1>6. /\ x \in R => RunsSwept(R)[x].state = "interrupted"
      /\ x \in Overdue => RunsSwept(R)[x].state = "failed"
      /\ RunsSwept(R)[x].epoch = runs[x].epoch
  BY <1>4, <1>5, EndedRow
<1>7. /\ x \in Overdue => expireInteractions[x].state = "expired"
      /\ x \notin Overdue => expireInteractions[x] = interactions[x]
  BY ExpiredRow, Zenon DEF expireInteractions
<1> QED BY <1>2, <1>3, <1>5, <1>6, <1>7, Zenon

\* disposePending, row by row: it takes every command of R out of the inboxes.
LEMMA DisposeRows ==
  ASSUME TypeOK, NEW R \in SUBSET Command, NEW why \in {"interrupted"} \cup FailureStates,
         NEW x \in Command
  PROVE  /\ disposePending(R, why)[x].exec = commands[x].exec
         /\ disposePending(R, why)[x].reply = commands[x].reply
         /\ \/ disposePending(R, why)[x] = commands[x] /\ \A r \in R : x \notin Undrained(r)
            \/ disposePending(R, why)[x].reason = why /\ \E r \in R : x \in Undrained(r)
<1> commands[x] \in CommandRow
  BY Zenon DEF TypeOK
<1> QED BY DisposedRow, Zenon DEF disposePending

\* A step that moves no run or wait to another state and only takes commands
\* out of the inboxes keeps the invariant.
LEMMA LifecycleFrame ==
  ASSUME Lifecycle, TypeOK', epoch' = epoch,
         \A x \in Command :
           /\ runs'[x].state = runs[x].state
           /\ runs'[x].epoch = runs[x].epoch
           /\ commands'[x].exec = commands[x].exec
           /\ \A r \in Command : (x \in Undrained(r))' => x \in Undrained(r)
           /\ interactions'[x].state = interactions[x].state
           /\ interactions[x] = NoInteraction => interactions'[x] = NoInteraction
  PROVE  Lifecycle'
<1>1. RunsConsistent'
  BY DEF Lifecycle, RunsConsistent
<1>2. Exclusive'
  BY DEF Lifecycle, Exclusive, Busy
<1>3. WaitsMatch'
  BY Zenon DEF Lifecycle, WaitsMatch
<1>4. NoneStranded'
  BY Zenon DEF Lifecycle, NoneStranded
<1> QED BY <1>1, <1>2, <1>3, <1>4, Zenon DEF Lifecycle

\* Reap, and with R = {} the reply that comes too late.
LEMMA LifecycleSweep ==
  ASSUME Lifecycle, TypeOK', NEW R \in SUBSET Lost, epoch' = epoch,
         runs' = RunsSwept(R), interactions' = expireInteractions,
         commands' = disposePending(R, "interrupted")
  PROVE  Lifecycle'
<1> R \in SUBSET Command /\ TypeOK
  BY Zenon DEF Lost, Lifecycle
<1>1. \A x \in Command :
        /\ runs'[x].epoch = runs[x].epoch
        /\ x \in R => runs'[x].state = "interrupted" /\ interactions'[x] = interactions[x]
                      /\ runs[x].state \in Live
        /\ x \in Overdue => runs'[x].state = "failed" /\ interactions'[x].state = "expired"
                            /\ runs[x].state = "awaiting_input"
        /\ x \notin R /\ x \notin Overdue => runs'[x] = runs[x] /\ interactions'[x] = interactions[x]
  BY SweepRows DEF Lost
<1>2. \A x \in Command :
        /\ commands'[x].exec = commands[x].exec
        /\ \/ commands'[x] = commands[x] /\ \A r \in R : x \notin Undrained(r)
           \/ commands'[x].reason = "interrupted"
  BY DisposeRows
<1>3. RunsConsistent'
  BY <1>1, <1>2 DEF Lifecycle, RunsConsistent, Live
<1>4. WaitsMatch'
  BY <1>1 DEF Lifecycle, WaitsMatch, Live
<1>5. Exclusive'
  BY <1>1 DEF Lifecycle, Exclusive, Busy, Live
<1>6. NoneStranded'
  <2> SUFFICES ASSUME NEW r \in Command, NEW c \in Command, (c \in Undrained(r))'
               PROVE  (runs[r].state \in Live)'
    BY Zenon DEF NoneStranded
  <2>1. c \in Undrained(r) /\ r \notin R
    BY <1>2, Zenon DEF Undrained
  <2>2. runs[r].state \in Live
    BY <2>1, Zenon DEF Lifecycle, NoneStranded
  <2> QED BY <1>1, <2>1, <2>2, Zenon DEF Live
<1> QED BY <1>3, <1>4, <1>5, <1>6, Zenon DEF Lifecycle

\* Admit: what has timed out is swept, then the message gets a run of its own
\* or joins the one live run that is left.
LEMMA LifecycleAdmit ==
  ASSUME Lifecycle, TypeOK', NEW c \in Command, Admit(c)
  PROVE  Lifecycle'
<1> DEFINE swept == RunsSwept(Lost)
           disposed == disposePending(Lost, "interrupted")
           live == {r \in Command : swept[r].state \in Live}
<1> Lost \in SUBSET Command /\ Lost \in SUBSET Lost /\ TypeOK
  BY Zenon DEF Lost, Lifecycle
<1>1. /\ commands[c].exec = None /\ epoch' = epoch /\ interactions' = expireInteractions
      /\ \A i \in Command : interactions[i].state = "pending" => i \in Overdue
  BY Zenon DEF Admit
<1>2. \/ live = {} /\ runs' = [swept EXCEPT ![c] = FreshRun(None, None)]
        /\ commands' = [disposed EXCEPT ![c] = Accepted(c, None, "")]
      \/ \E r \in live : runs' = swept
        /\ commands' = [disposed EXCEPT ![c] = Accepted(r, None, "")]
  BY Zenon DEF Admit
<1>3. swept \in [Command -> RunRow] /\ disposed \in [Command -> CommandRow]
  BY SweepTypes, Zenon
<1>4. \A x \in Command :
        /\ swept[x].epoch = runs[x].epoch
        /\ x \in Lost => swept[x].state = "interrupted" /\ runs[x].state \in Live
        /\ x \in Overdue => swept[x].state = "failed" /\ interactions'[x].state = "expired"
                            /\ runs[x].state = "awaiting_input"
        /\ x \notin Lost /\ x \notin Overdue => swept[x] = runs[x]
        /\ x \notin Overdue => interactions'[x] = interactions[x]
  BY <1>1, SweepRows, SMTT(40) DEF Lost
<1>5. \A x \in Command :
        /\ disposed[x].exec = commands[x].exec
        /\ \/ disposed[x] = commands[x] /\ \A r \in Lost : x \notin Undrained(r)
           \/ disposed[x].reason = "interrupted"
  BY DisposeRows
<1>6. \A x \in Command : x \in live <=> swept[x].state \in Live
  BY Zenon
<1> HIDE DEF swept, disposed, live
<1>7. runs[c].state = "absent" /\ interactions[c] = NoInteraction
  BY <1>1, Zenon DEF Lifecycle, RunsConsistent
<1>8. c \notin Lost /\ c \notin Overdue
  BY <1>4, <1>7, Zenon DEF Live
<1>9. swept[c] = runs[c] /\ interactions'[c] = NoInteraction
  BY <1>4, <1>7, <1>8, Zenon
<1>10. \A i \in Command : interactions'[i].state # "pending"
  BY <1>1, <1>4, Zenon
<1>11. \A x \in Command : swept[x].state \in {"absent"} \cup Live \/ runs[x].state = "absent"
        => swept[x] = runs[x] /\ interactions'[x] = interactions[x]
  BY <1>4, Zenon DEF Live
<1>12. \A x \in Command : x # c => commands'[x] = disposed[x]
  BY <1>2, <1>3, Zenon
<1>13. ASSUME NEW x \in Command, NEW r \in Command, x # c, (x \in Undrained(r))'
       PROVE  r \in live
  <2>1. x \in Undrained(r) /\ r \notin Lost
    BY <1>5, <1>12, <1>13, Zenon DEF Undrained
  <2>2. runs[r].state \in Live
    BY <2>1, Zenon DEF Lifecycle, NoneStranded
  <2> QED BY <1>4, <1>6, <2>1, <2>2, Zenon DEF Live
<1>14. \A x \in Command : swept[x].state # "awaiting_input"
  <2> SUFFICES ASSUME NEW x \in Command, swept[x].state = "awaiting_input" PROVE FALSE
    BY Zenon
  <2>1. runs[x].state = "awaiting_input" /\ x \notin Overdue
    BY <1>4, Zenon
  <2> QED BY <1>1, <2>1, Zenon DEF Lifecycle, WaitsMatch
<1>15. CASE live = {} /\ runs' = [swept EXCEPT ![c] = FreshRun(None, None)]
        /\ commands' = [disposed EXCEPT ![c] = Accepted(c, None, "")]
  <2>1. runs'[c].state = "pending" /\ runs'[c].epoch = 0 /\ commands'[c].exec = c
    BY <1>3, <1>15, FreshRunRow, AcceptedRow, Zenon
  <2>2. \A x \in Command : x # c => runs'[x] = swept[x] /\ runs'[x].state \notin Live
    BY <1>3, <1>6, <1>15, Zenon
  <2>3. RunsConsistent'
    BY <1>1, <1>5, <1>9, <1>11, <1>12, <2>1, <2>2, NoneAssumption
    DEF Lifecycle, RunsConsistent, Live
  <2>4. Exclusive'
    BY <1>10, <2>1, <2>2, Zenon DEF Exclusive, Busy
  <2>5. WaitsMatch'
    BY <1>10, <1>14, <2>1, <2>2, Zenon DEF WaitsMatch
  <2>6. NoneStranded'
    BY <1>13, <1>15, <2>1, Zenon DEF NoneStranded, Undrained, Live
  <2> QED BY <2>3, <2>4, <2>5, <2>6, Zenon DEF Lifecycle
<1>16. ASSUME NEW r \in live, runs' = swept,
              commands' = [disposed EXCEPT ![c] = Accepted(r, None, "")]
       PROVE  Lifecycle'
  <2>1. r \in Command
    BY Zenon DEF live
  <2>2. commands'[c].exec = r
    BY <1>3, <1>16, <2>1, AcceptedRow, Zenon
  <2>3. \A x \in Command : runs'[x].state \in Live => x \in live /\ runs[x].state \in Live
    BY <1>6, <1>11, <1>16, Zenon
  <2>4. RunsConsistent'
    <3>1. \A x \in Command : commands'[x].exec = None => commands[x].exec = None
      BY <1>5, <1>12, <2>1, <2>2, NoneAssumption
    <3>2. \A x \in Command : runs'[x] = swept[x]
      BY <1>16, Zenon
    <3> QED BY <1>1, <1>11, <3>1, <3>2 DEF Lifecycle, RunsConsistent, Live
  <2>5. Exclusive'
    BY <1>10, <2>3, Zenon DEF Lifecycle, Exclusive, Busy
  <2>6. WaitsMatch'
    BY <1>10, <1>14, <1>16, Zenon DEF WaitsMatch
  <2>7. NoneStranded'
    BY <1>6, <1>13, <1>16, <2>2, Zenon DEF NoneStranded, Undrained
  <2> QED BY <2>4, <2>5, <2>6, <2>7, Zenon DEF Lifecycle
<1> QED BY <1>2, <1>15, <1>16, Zenon

\* A reply closes the wait it answers and opens the only live run.
LEMMA LifecycleReply ==
  ASSUME Lifecycle, TypeOK', NEW c \in Command, NEW i \in Command, NEW approve \in BOOLEAN,
         ReplyInTime(c, i, approve)
  PROVE  Lifecycle'
<1> DEFINE approved == approve /\ interactions[i].kind = "approval"
           reason == IF approved THEN "consumed" ELSE ""
           fresh == FreshRun(interactions[i].journey, interactions[i].digest)
<1> TypeOK
  BY Zenon DEF Lifecycle
<1>1. /\ commands[c].exec = None /\ interactions[i].state = "pending" /\ epoch' = epoch
      /\ commands' = [commands EXCEPT ![c] = Accepted(c, i, reason)]
      /\ interactions' = [interactions EXCEPT ![i] = Consumed(@, c, approved)]
  BY Zenon DEF ReplyInTime
<1>2. approved \in BOOLEAN /\ reason \in {"", "consumed"}
  BY Zenon
<1>3. interactions[i] \in InteractionRow
  BY Zenon DEF TypeOK
<1>4. fresh.state = "pending" /\ fresh.epoch = 0
  BY <1>3, FreshRunRow, Zenon DEF InteractionRow
<1>5. runs[i].state = "awaiting_input"
  BY <1>1, Zenon DEF Lifecycle, WaitsMatch
<1>6. runs[c].state = "absent" /\ interactions[c] = NoInteraction /\ c # i
  BY <1>1, <1>5, Zenon DEF Lifecycle, RunsConsistent
<1>7. runs'[c] = fresh /\ runs'[i] = Ended(runs[i], "completed")
      /\ \A x \in Command \ {c, i} : runs'[x] = runs[x]
  BY <1>5, <1>6, Zenon DEF ReplyInTime
<1> HIDE DEF approved, reason, fresh
<1>8. runs'[i].state = "completed"
  BY <1>7, EndedRow DEF TypeOK, Terminal
<1>9. interactions'[i].state = "consumed" /\ \A x \in Command \ {i} : interactions'[x] = interactions[x]
  <2>1. Consumed(interactions[i], c, approved).state = "consumed"
    BY <1>2, <1>3, ConsumedRow, Zenon
  <2> QED BY <1>1, <2>1, Zenon DEF TypeOK
<1>10. commands'[c].exec = c /\ \A x \in Command \ {c} : commands'[x] = commands[x]
  <2>1. Accepted(c, i, reason).exec = c
    BY <1>2, AcceptedRow, Zenon
  <2>2. commands \in [Command -> CommandRow]
    BY Zenon DEF TypeOK
  <2> QED BY <1>1, <2>1, <2>2, Zenon
<1>11. \A x \in Command \ {i} : runs[x].state \notin Live /\ interactions[x].state # "pending"
  BY <1>1, Zenon DEF Lifecycle, Exclusive, Busy
<1>12. RunsConsistent'
  <2> SUFFICES ASSUME NEW x \in Command
               PROVE  (/\ commands[x].exec = None => runs[x].state = "absent"
                       /\ runs[x].state \in {"absent"} \cup Live => interactions[x] = NoInteraction
                       /\ runs[x].state \in {"absent", "pending"} => runs[x].epoch = 0
                       /\ runs[x].state = "running" => runs[x].epoch = epoch)'
    BY Zenon DEF RunsConsistent
  <2>1. CASE x = c
    BY <1>4, <1>6, <1>7, <1>9, <1>10, <2>1, NoneAssumption, Zenon
  <2>2. CASE x = i
    BY <1>1, <1>5, <1>6, <1>8, <1>10, <2>2, ZenonT(30) DEF Lifecycle, RunsConsistent, Live
  <2>3. CASE x \notin {c, i}
    BY <1>1, <1>7, <1>9, <1>10, <2>3 DEF Lifecycle, RunsConsistent
  <2> QED BY <2>1, <2>2, <2>3, Zenon
<1>13. Exclusive'
  BY <1>7, <1>8, <1>9, <1>11, Zenon DEF Exclusive, Busy, Live
<1>14. WaitsMatch'
  BY <1>1, <1>4, <1>6, <1>7, <1>8, <1>9, SMTT(40) DEF Lifecycle, WaitsMatch
<1>15. NoneStranded'
  <2> SUFFICES ASSUME NEW r \in Command, NEW x \in Command, (x \in Undrained(r))'
               PROVE  (runs[r].state \in Live)'
    BY Zenon DEF NoneStranded
  <2>1. CASE x = c
    BY <1>4, <1>7, <1>10, <2>1, Zenon DEF Undrained, Live
  <2>2. CASE x # c
    <3>1. runs[r].state \in Live
      BY <1>10, <2>2, Zenon DEF Undrained, Lifecycle, NoneStranded
    <3> QED BY <1>5, <1>11, <3>1, Zenon DEF Live
  <2> QED BY <2>1, <2>2, Zenon
<1> QED BY <1>12, <1>13, <1>14, <1>15, Zenon DEF Lifecycle

\* Claim makes the one live run the running one, under a new epoch.
LEMMA LifecycleClaim ==
  ASSUME Lifecycle, TypeOK', NEW c \in Command, NEW p \in Replica, Claim(c, p)
  PROVE  Lifecycle'
<1>1. /\ commands' = commands /\ interactions' = interactions /\ epoch' = epoch + 1
      /\ runs[c].state = "pending" /\ epoch + 1 \in Nat
      /\ runs' = [runs EXCEPT ![c] = Claimed(@, p, epoch + 1)]
  BY Zenon DEF Claim, Lifecycle, TypeOK
<1>2. /\ runs'[c].state = "running" /\ runs'[c].epoch = epoch'
      /\ \A x \in Command \ {c} : runs'[x] = runs[x]
  BY <1>1, ClaimedRow DEF Lifecycle, TypeOK
<1>3. \A x \in Command \ {c} : runs[x].state \notin Live
  BY <1>1, Zenon DEF Lifecycle, Exclusive, Busy, Live
<1>4. RunsConsistent'
  BY <1>1, <1>2, <1>3, SMTT(40) DEF Lifecycle, RunsConsistent, Live
<1>5. Exclusive'
  BY <1>1, <1>2 DEF Lifecycle, Exclusive, Busy, Live
<1>6. WaitsMatch'
  BY <1>1, <1>2 DEF Lifecycle, WaitsMatch
<1>7. NoneStranded'
  BY <1>1, <1>2, Zenon DEF Lifecycle, NoneStranded, Undrained, Live
<1> QED BY <1>4, <1>5, <1>6, <1>7, Zenon DEF Lifecycle

\* A run that stops (to wait, done or failed) leaves no live run and no
\* undrained command behind.
LEMMA LifecycleStop ==
  ASSUME Lifecycle, TypeOK', NEW r \in Command, runs[r].state = "running", epoch' = epoch,
         \A x \in Command \ {r} : runs'[x] = runs[x] /\ interactions'[x] = interactions[x],
         \/ runs'[r].state \in Terminal /\ interactions'[r] = interactions[r]
         \/ runs'[r].state = "awaiting_input" /\ interactions'[r].state = "pending",
         \A x \in Command : commands'[x].exec = commands[x].exec,
         \A x, s \in Command : (x \in Undrained(s))' => x \in Undrained(s) /\ s # r
  PROVE  Lifecycle'
<1>1. \A x \in Command \ {r} : runs[x].state \notin Live /\ interactions[x].state # "pending"
  BY Zenon DEF Lifecycle, Exclusive, Busy, Live
<1>2. interactions[r] = NoInteraction /\ interactions[r].state # "pending"
  BY Zenon DEF Lifecycle, RunsConsistent, WaitsMatch, Live
<1>3. runs'[r].state \notin {"absent", "pending", "running"}
  BY FailureAssumption, Zenon DEF Terminal
<1>4. "awaiting_input" \notin Terminal
  BY FailureAssumption, Zenon DEF Terminal
<1>5. RunsConsistent'
  BY <1>3 DEF Lifecycle, RunsConsistent, Live
<1>6. Exclusive'
  BY <1>1, <1>3, Zenon DEF Exclusive, Busy, Live
<1>7. WaitsMatch'
  BY <1>2, <1>4 DEF Lifecycle, WaitsMatch
<1>8. NoneStranded'
  BY <1>1, Zenon DEF Lifecycle, NoneStranded
<1> QED BY <1>5, <1>6, <1>7, <1>8, Zenon DEF Lifecycle

\* Every step of the journal keeps the life of runs, waits and commands in order.
LEMMA LifecycleStep ==
  ASSUME Lifecycle, [Next]_vars
  PROVE  Lifecycle'
<1> TypeOK
  BY Zenon DEF Lifecycle
<1> TypeOK'
  BY UnownedTypes, OwnedTypes, Zenon DEF Next, vars, TypeOK
<1>1. ASSUME NEW c \in Command, Unowned(c)
      PROVE  Lifecycle'
  <2>1. CASE Admit(c)
    BY <2>1, LifecycleAdmit, Zenon
  <2>2. ASSUME NEW i \in Command, ReplyTooLate(c, i)
        PROVE  Lifecycle'
    <3>1. disposePending({}, "interrupted") = commands
      BY Zenon DEF disposePending, TypeOK
    <3>2. commands' = disposePending({}, "interrupted")
      BY <2>2, <3>1, Zenon DEF ReplyTooLate
    <3> QED BY <2>2, <3>2, LifecycleSweep, Zenon DEF ReplyTooLate
  <2>3. ASSUME NEW i \in Command, NEW approve \in BOOLEAN, ReplyInTime(c, i, approve)
        PROVE  Lifecycle'
    BY <2>3, LifecycleReply, Zenon
  <2>4. ASSUME NEW p \in Replica, Claim(c, p)
        PROVE  Lifecycle'
    BY <2>4, LifecycleClaim, Zenon
  <2>5. CASE Reap(c)
    <3>1. {c} \cap Lost \in SUBSET Lost
      BY Zenon
    <3> QED BY <2>5, <3>1, LifecycleSweep, Zenon DEF Reap
  <2>6. CASE LeaseTick(c)
    <3>1. runs[c].lease - 1 \in 0..Lease /\ runs[c] \in RunRow
      BY <2>6, LeaseAssumption, SMTT(40) DEF LeaseTick, TypeOK, RunRow
    <3>2. \A x \in Command : runs'[x].state = runs[x].state /\ runs'[x].epoch = runs[x].epoch
      BY <2>6, <3>1, LeaseStates, Zenon DEF LeaseTick
    <3> QED BY <2>6, <3>2, LifecycleFrame, Zenon DEF LeaseTick, Undrained
  <2>7. CASE InteractionTimeout(c)
    <3>1. interactions[c] # NoInteraction
      BY <2>7, BlankRows, Zenon DEF InteractionTimeout
    <3>2. \A x \in Command : /\ interactions'[x].state = interactions[x].state
                             /\ interactions[x] = NoInteraction => interactions'[x] = NoInteraction
      BY <2>7, <3>1, TimedOutRow DEF InteractionTimeout, TypeOK
    <3> QED BY <2>7, <3>2, LifecycleFrame, Zenon DEF InteractionTimeout, Undrained
  <2> QED BY <1>1, <2>1, <2>2, <2>3, <2>4, <2>5, <2>6, <2>7, Zenon DEF Unowned, reply
<1>2. ASSUME NEW o \in owners, Owned(o)
      PROVE  Lifecycle'
  <2> o \in Owner /\ o.run \in Command
    BY Zenon DEF TypeOK, Owner
  <2>1. CASE Renew(o)
    <3>1. Lease \in 0..Lease
      BY LeaseAssumption
    <3>2. \A x \in Command : runs'[x].state = runs[x].state /\ runs'[x].epoch = runs[x].epoch
      BY <2>1, <3>1, LeaseStates, Zenon DEF Renew, TypeOK, Owner
    <3> QED BY <2>1, <3>2, LifecycleFrame, Zenon DEF Renew, Undrained
  <2>2. ASSUME NEW v \in Product, RecordRunScope(o, v)
        PROVE  Lifecycle'
    <3>1. \A x \in Command : runs'[x].state = runs[x].state /\ runs'[x].epoch = runs[x].epoch
      BY <2>2, ScopedRow DEF RecordRunScope, TypeOK
    <3> QED BY <2>2, <3>1, LifecycleFrame, Zenon DEF RecordRunScope, Undrained
  <2>3. ASSUME NEW d \in Digest, ResolveDefinition(o, d)
        PROVE  Lifecycle'
    BY <2>3, LifecycleFrame, Zenon DEF ResolveDefinition, Undrained
  <2>4. ASSUME NEW j \in Journey \cup {None}, NEW d \in Digest, Start(o, j, d)
        PROVE  Lifecycle'
    <3>1. \A x \in Command : runs'[x].state = runs[x].state /\ runs'[x].epoch = runs[x].epoch
      <4>1. runs' = [runs EXCEPT ![o.run] = Started(runs[o.run], j, d)]
        BY <2>4, Zenon DEF Start
      <4>2. runs[o.run] \in RunRow
        BY Zenon DEF TypeOK
      <4>3. /\ Started(runs[o.run], j, d).state = runs[o.run].state
            /\ Started(runs[o.run], j, d).epoch = runs[o.run].epoch
        BY <4>2, StartedRow, Zenon
      <4> QED BY <4>1, <4>3, Zenon DEF TypeOK
    <3> QED BY <2>4, <3>1, LifecycleFrame, Zenon DEF Start, Undrained
  <2>5. ASSUME NEW S \in SUBSET Command, Included(o, S)
        PROVE  Lifecycle'
    <3>1. \A x \in Command : /\ commands'[x].exec = commands[x].exec
                             /\ commands'[x] = commands[x] \/ commands'[x].included
      BY <2>5, InRequestRow, Zenon DEF Included, TypeOK
    <3>2. \A x, r \in Command : (x \in Undrained(r))' => x \in Undrained(r)
      BY <3>1, Zenon DEF Undrained
    <3> QED BY <2>5, <3>1, <3>2, LifecycleFrame, Zenon DEF Included
  <2>6. ASSUME NEW kind \in {"approval", "clarification"}, NEW k \in Call \cup {None},
               NEW j \in Journey \cup {None}, NEW s \in Shape \cup {None}, Wait(o, kind, k, j, s)
        PROVE  Lifecycle'
    <3>1. /\ runs'[o.run].state = "awaiting_input"
          /\ \A x \in Command \ {o.run} : runs'[x] = runs[x]
      BY <2>6, SuspendedRow, Zenon DEF Wait, TypeOK
    <3>2. /\ interactions'[o.run].state = "pending"
          /\ \A x \in Command \ {o.run} : interactions'[x] = interactions[x]
      BY <2>6, WaitRow, Zenon
    <3>3. \A x, s1 \in Command : (x \in Undrained(s1))' => x \in Undrained(s1) /\ s1 # o.run
      BY <2>6, Zenon DEF Wait, Undrained
    <3> QED BY <2>6, <3>1, <3>2, <3>3, LifecycleStop, Zenon DEF Wait, lockOwner
  <2>7. ASSUME NEW i \in Command, NEW m \in {"superseded", "dispatched"}, Decided(o.run, i),
               interactions' = [interactions EXCEPT ![i] = Marked(@, m)],
               UNCHANGED <<runs, commands, epoch>>
        PROVE  Lifecycle'
    <3>1. interactions[i] # NoInteraction /\ m \in Marker
      BY <2>7, BlankRows, Zenon DEF Decided, Marker
    <3>2. \A x \in Command : /\ interactions'[x].state = interactions[x].state
                             /\ interactions[x] = NoInteraction => interactions'[x] = NoInteraction
      BY <2>7, <3>1, MarkedRow DEF TypeOK
    <3> QED BY <2>7, <3>2, LifecycleFrame, Zenon DEF Undrained
  <2>8. ASSUME NEW i \in Command, Supersede(o, i)
        PROVE  Lifecycle'
    BY <2>7, <2>8, Zenon DEF Supersede
  <2>9. ASSUME NEW k \in Call, NEW j \in Journey, NEW s \in Shape, BeginAttempt(o, k, j, s)
        PROVE  Lifecycle'
    <3>1. ASSUME NEW policy \in Policy, NEW i \in Command, BeginApproved(o, k, policy, i, j, s)
          PROVE  Lifecycle'
      <4>1. \E m \in {"dispatched", "superseded"} :
               interactions' = [interactions EXCEPT ![i] = Marked(@, m)]
        BY <3>1, Zenon DEF BeginApproved
      <4> QED BY <2>7, <3>1, <4>1, Zenon DEF BeginApproved
    <3>2. CASE BeginUnapproved(o, k, j, s) \/ BeginRetry(o, k, j, s)
      BY <3>2, LifecycleFrame, Zenon DEF BeginUnapproved, BeginRetry, Undrained
    <3> QED BY <2>9, <3>1, <3>2, Zenon DEF BeginAttempt
  <2>10. ASSUME NEW k \in Call, NEW n \in 1..2, NEW outcome \in Outcome, EndAttempt(o, k, n, outcome)
         PROVE  Lifecycle'
    BY <2>10, LifecycleFrame, Zenon DEF EndAttempt, Undrained
  <2>11. CASE Complete(o)
    <3>1. runs'[o.run].state \in Terminal /\ \A x \in Command \ {o.run} : runs'[x] = runs[x]
      BY <2>11, EndedRow DEF Complete, TypeOK, Terminal
    <3>2. \A x, s \in Command : (x \in Undrained(s))' => x \in Undrained(s) /\ s # o.run
      BY <2>11, Zenon DEF Complete, Undrained
    <3> QED BY <2>11, <3>1, <3>2, LifecycleStop, Zenon DEF Complete, lockOwner
  <2>12. ASSUME NEW state \in FailureStates, Fail(o, state)
         PROVE  Lifecycle'
    <3>1. state \in Terminal /\ state # ""
      BY FailureAssumption, Zenon DEF Terminal
    <3>2. /\ runs' = [runs EXCEPT ![o.run] = Ended(runs[o.run], state)]
          /\ commands' = disposePending({o.run}, state)
          /\ {o.run} \in SUBSET Command
      BY <2>12, Zenon DEF Fail
    <3>3. runs'[o.run].state \in Terminal /\ \A x \in Command \ {o.run} : runs'[x] = runs[x]
      <4>1. runs[o.run] \in RunRow
        BY Zenon DEF TypeOK
      <4>2. Ended(runs[o.run], state).state = state
        BY <3>1, <4>1, EndedRow, Zenon
      <4> QED BY <3>1, <3>2, <4>2, Zenon DEF TypeOK
    <3>4. \A x \in Command :
            /\ commands'[x].exec = commands[x].exec
            /\ \/ commands'[x] = commands[x] /\ x \notin Undrained(o.run)
               \/ commands'[x].reason = state
      <4> TAKE x \in Command
      <4>1. state \in {"interrupted"} \cup FailureStates
        BY Zenon
      <4>2. /\ disposePending({o.run}, state)[x].exec = commands[x].exec
            /\ \/ /\ disposePending({o.run}, state)[x] = commands[x]
                  /\ \A r \in {o.run} : x \notin Undrained(r)
               \/ disposePending({o.run}, state)[x].reason = state
        BY <3>2, <4>1, DisposeRows
      <4>3. commands'[x] = disposePending({o.run}, state)[x]
        BY <3>2, Zenon
      <4> QED BY <4>2, <4>3, Zenon
    <3>5. \A x, s \in Command : (x \in Undrained(s))' => x \in Undrained(s) /\ s # o.run
      BY <3>1, <3>4, Zenon DEF Undrained
    <3> QED BY <2>12, <3>3, <3>4, <3>5, LifecycleStop, Zenon DEF Fail, lockOwner
  <2> QED
    BY <1>2, <2>1, <2>2, <2>3, <2>4, <2>5, <2>6, <2>8, <2>9, <2>10, <2>11, <2>12, Zenon
    DEF Owned, finish
<1>3. CASE UNCHANGED vars
  BY <1>3, LifecycleFrame, Zenon DEF vars, Undrained
<1> QED BY <1>1, <1>2, <1>3, Zenon DEF Next

\* An empty journal is in order.
LEMMA LifecycleInit == Init => Lifecycle
<1> SUFFICES ASSUME Init PROVE Lifecycle
  BY Zenon
<1>1. TypeOK
  <2>1. "none" \in Outcome
    BY Zenon DEF Outcome
  <2> QED BY <2>1, BlankRows, Zenon DEF Init, TypeOK
<1>2. \A x \in Command : /\ runs[x].state = "absent" /\ runs[x].epoch = 0
                         /\ interactions[x] = NoInteraction /\ commands[x].exec = None
  BY Zenon DEF Init, NoRun, NoCommand
<1> QED BY <1>1, <1>2, BlankRows, NoneAssumption, Zenon
        DEF Lifecycle, RunsConsistent, Exclusive, Busy, WaitsMatch, NoneStranded, Undrained, Live

\* The life of runs, waits and commands is always in order.
THEOREM LifecycleInvariant == Spec => []Lifecycle
<1>1. Init => Lifecycle
  BY LifecycleInit, Zenon
<1>2. Lifecycle /\ [Next]_vars => Lifecycle'
  BY LifecycleStep, Zenon
<1> QED BY <1>1, <1>2, PTL DEF Spec

\* The unique indexes on live runs and open waits are never hit, under any
\* interleaving of admissions, replies, claims, expiries and stale owners.
THEOREM OneThingAtATime == Spec => []OneThing
<1>1. Lifecycle => OneThing
  BY Zenon DEF Lifecycle, OneThing
<1> QED BY <1>1, LifecycleInvariant, PTL

\* No command is accepted into an inbox that nobody will drain or dispose of.
THEOREM NoCommandStranded == Spec => []NoneStranded
<1>1. Lifecycle => NoneStranded
  BY Zenon DEF Lifecycle
<1> QED BY <1>1, LifecycleInvariant, PTL

\* lockOwner admits at most one of all the tokens ever granted.
THEOREM FencingWorks == Spec => []Fenced
<1>1. Lifecycle => Fenced
  <2> SUFFICES ASSUME Lifecycle, NEW o1 \in owners, lockOwner(o1)
               PROVE  /\ o1.epoch = epoch
                      /\ \A o2 \in owners : lockOwner(o2) => o1 = o2
    BY Zenon DEF Fenced
  <2>1. \A o \in owners : o \in Owner /\ o.run \in Command
    BY Zenon DEF Lifecycle, TypeOK, Owner
  <2>2. o1.epoch = epoch
    BY <2>1, Zenon DEF Lifecycle, RunsConsistent, lockOwner
  <2>3. ASSUME NEW o2 \in owners, lockOwner(o2)
        PROVE  o1 = o2
    <3>1. o1.run = o2.run
      BY <2>1, <2>3, Zenon DEF Lifecycle, Exclusive, Busy, Live, lockOwner
    <3>2. o1.id = o2.id /\ o1.epoch = o2.epoch
      BY <2>3, <3>1, Zenon DEF lockOwner
    <3> QED BY <2>1, <3>1, <3>2 DEF Owner
  <2> QED BY <2>2, <2>3, Zenon
<1> QED BY <1>1, LifecycleInvariant, PTL



----------------------------------------------------------------------------
(* Operations and attempts.                                                *)

\* markOperationsUnknown, row by row.
LEMMA UnknownRows ==
  ASSUME TypeOK, NEW R \in SUBSET Command, markOperationsUnknown(R), NEW k \in Call
  PROVE  /\ operations'[k].run = operations[k].run
         /\ operations'[k].policy = operations[k].policy
         /\ operations'[k].approval = operations[k].approval
         /\ operations'[k].binding = operations[k].binding
         /\ IF k \in Dispatching(R) THEN operations'[k].outcome = "outcome_unknown"
                                    ELSE operations'[k] = operations[k]
         /\ \A n \in 1..2 :
              IF operations[k].run \in R /\ attempts[k][n] = "dispatching"
              THEN attempts'[k][n] = "outcome_unknown"
              ELSE attempts'[k][n] = attempts[k][n]
<1>1. operations[k] \in OperationRow /\ "outcome_unknown" \in Outcome
  BY Zenon DEF TypeOK, Outcome
<1>2. operations'[k] = IF k \in Dispatching(R) THEN Reported(operations[k], "outcome_unknown")
                                               ELSE operations[k]
  BY Zenon DEF markOperationsUnknown
<1>3. \A n \in 1..2 :
        IF operations[k].run \in R /\ attempts[k][n] = "dispatching"
        THEN attempts'[k][n] = "outcome_unknown"
        ELSE attempts'[k][n] = attempts[k][n]
  BY Zenon DEF markOperationsUnknown, TypeOK
<1> QED BY <1>1, <1>2, <1>3, ReportedRow

\* Giving up on the calls in flight closes them in both tables.
LEMMA CallsUnknown ==
  ASSUME TypeOK, Calls, NEW R \in SUBSET Command, markOperationsUnknown(R)
  PROVE  Calls'
<1>1. ASSUME NEW k \in Call
      PROVE  /\ operations'[k].run = operations[k].run
             /\ operations'[k].policy = operations[k].policy
             /\ operations'[k].approval = operations[k].approval
             /\ \/ operations'[k].outcome = operations[k].outcome
                   /\ (operations[k].run \notin R \/ operations[k].outcome # "dispatching")
                \/ operations'[k].outcome = "outcome_unknown" /\ operations[k].outcome = "dispatching"
                   /\ operations[k].run \in R
  BY <1>1, UnknownRows, Zenon DEF Dispatching
<1>2. ASSUME NEW k \in Call, NEW n \in 1..2
      PROVE  IF operations[k].run \in R /\ attempts[k][n] = "dispatching"
             THEN attempts'[k][n] = "outcome_unknown"
             ELSE attempts'[k][n] = attempts[k][n]
  BY <1>2, UnknownRows
<1>3. CallsConsistent'
  BY <1>1 DEF Calls, CallsConsistent
<1>4. AttemptsAgree'
  BY <1>1, <1>2 DEF Calls, AttemptsAgree
<1>5. OneUnresolved'
  BY <1>1 DEF Calls, OneUnresolved, Unresolved
<1> QED BY <1>3, <1>4, <1>5, Zenon DEF Calls

\* A first attempt opens the only unresolved call of the thread.
LEMMA CallsInsert ==
  ASSUME TypeOK, Calls, NEW o \in Owner, NEW k \in Call, NEW policy \in Policy,
         NEW approval \in BOOLEAN, NEW b \in Binding, MayAttempt(o, k),
         Insert(o, k, policy, approval, b)
  PROVE  Calls'
<1>1. operations[k].outcome = "none" /\ o.run \in Command /\ o.run # None
  BY NoneAssumption, Zenon DEF Insert, Owner
<1>2. attempts[k][2] = "none"
  BY <1>1, Zenon DEF Calls, AttemptsAgree
<1>3. /\ operations'[k].outcome = "dispatching" /\ operations'[k].run = o.run
      /\ attempts'[k][1] = "dispatching" /\ attempts'[k][2] = "none"
      /\ \A x \in Call \ {k} : operations'[x] = operations[x] /\ attempts'[x] = attempts[x]
  BY <1>2, InsertRow
<1>4. CallsConsistent'
  BY <1>1, <1>3, Zenon DEF Calls, CallsConsistent
<1>5. AttemptsAgree'
  BY <1>3 DEF Calls, AttemptsAgree
<1>6. OneUnresolved'
  BY <1>3 DEF MayAttempt, OneUnresolved, Unresolved
<1> QED BY <1>4, <1>5, <1>6, Zenon DEF Calls

\* A second attempt reopens the call, and only after the first one is closed.
LEMMA CallsRetry ==
  ASSUME TypeOK, Calls, NEW o \in Owner, NEW k \in Call, NEW j \in Journey, NEW s \in Shape,
         BeginRetry(o, k, j, s)
  PROVE  Calls'
<1>1. operations[k] \in OperationRow /\ "dispatching" \in Outcome
  BY Zenon DEF TypeOK, Outcome
<1>2. /\ MayAttempt(o, k) /\ attempts[k][2] = "none" /\ operations[k].policy # "effectful"
      /\ operations[k].outcome \in {"rejected", "outcome_unknown"}
  BY Zenon DEF BeginRetry
<1>3. attempts[k][1] = operations[k].outcome
  BY <1>2, Zenon DEF Calls, AttemptsAgree
<1>4. /\ operations'[k].outcome = "dispatching" /\ operations'[k].run = operations[k].run
      /\ operations'[k].policy = operations[k].policy
      /\ \A x \in Call \ {k} : operations'[x] = operations[x]
  BY <1>1, ReportedRow DEF BeginRetry, TypeOK
<1>5. /\ attempts'[k][2] = "dispatching" /\ attempts'[k][1] = attempts[k][1]
      /\ \A x \in Call \ {k} : attempts'[x] = attempts[x]
  BY DEF BeginRetry, TypeOK
<1>6. CallsConsistent'
  BY <1>2, <1>4, Zenon DEF Calls, CallsConsistent
<1>7. AttemptsAgree'
  BY <1>2, <1>3, <1>4, <1>5, ZenonT(40) DEF Calls, AttemptsAgree
<1>8. OneUnresolved'
  BY <1>2, <1>4, Zenon DEF MayAttempt, OneUnresolved, Unresolved
<1> QED BY <1>6, <1>7, <1>8, Zenon DEF Calls

\* EndAttempt closes the attempt that is open.
LEMMA CallsEnd ==
  ASSUME TypeOK, Calls, NEW o \in Owner, NEW k \in Call, NEW n \in 1..2,
         NEW outcome \in Outcome \ {"none", "dispatching"}, EndAttempt(o, k, n, outcome)
  PROVE  Calls'
<1>1. operations[k] \in OperationRow
  BY Zenon DEF TypeOK
<1>2. operations[k].outcome = "dispatching" /\ attempts[k][n] = "dispatching"
  BY Zenon DEF EndAttempt
<1>3. /\ operations'[k].outcome = outcome /\ operations'[k].run = operations[k].run
      /\ operations'[k].policy = operations[k].policy
      /\ \A x \in Call \ {k} : operations'[x] = operations[x]
  BY <1>1, ReportedRow, Zenon DEF EndAttempt, TypeOK
<1>4. /\ attempts'[k][n] = outcome /\ \A m \in 1..2 : m # n => attempts'[k][m] = attempts[k][m]
      /\ \A x \in Call \ {k} : attempts'[x] = attempts[x]
  BY Zenon DEF EndAttempt, TypeOK
<1>5. n = 1 => attempts[k][2] = "none"
  BY <1>2, Zenon DEF Calls, AttemptsAgree
<1>6. CallsConsistent'
  BY <1>2, <1>3, Zenon DEF Calls, CallsConsistent
<1>7. AttemptsAgree'
  BY <1>2, <1>3, <1>4, <1>5 DEF Calls, AttemptsAgree
<1>8. OneUnresolved'
  BY <1>2, <1>3, Zenon DEF Calls, OneUnresolved, Unresolved
<1> QED BY <1>6, <1>7, <1>8, Zenon DEF Calls

----------------------------------------------------------------------------
(* Approvals.                                                              *)

\* A step that sends nothing out and uses no approval keeps the invariant.
LEMMA ApprovalsFrame ==
  ASSUME TypeOK, Approvals, MarkersConsistent',
         \A k \in Call :
           /\ operations'[k].run = operations[k].run
           /\ operations'[k].policy = operations[k].policy
           /\ operations'[k].approval = operations[k].approval
           /\ operations'[k].binding = operations[k].binding
           /\ operations[k].outcome = "none" => operations'[k].outcome = "none",
         \A x \in Command :
           /\ interactions'[x].marker = "dispatched" <=> interactions[x].marker = "dispatched"
           /\ interactions[x].marker = "dispatched" =>
                /\ interactions'[x].call = interactions[x].call
                /\ interactions'[x].cont = interactions[x].cont
                /\ interactions'[x].binding = interactions[x].binding
  PROVE  Approvals'
<1>1. \A x \in Command : interactions[x].call \in Call \cup {None}
  BY Zenon DEF TypeOK, InteractionRow
<1>2. UsedAsApproved'
  <2> SUFFICES ASSUME NEW x \in Command, interactions'[x].marker = "dispatched"
               PROVE  /\ interactions'[x].call # None
                      /\ operations'[interactions'[x].call].approval
                      /\ operations'[interactions'[x].call].run = interactions'[x].cont
                      /\ operations'[interactions'[x].call].binding = interactions'[x].binding
                      /\ \A y \in Command : interactions'[y].marker = "dispatched"
                           /\ interactions'[y].call = interactions'[x].call => x = y
    BY Zenon DEF UsedAsApproved
  <2>1. /\ interactions[x].marker = "dispatched" /\ interactions'[x].call = interactions[x].call
        /\ interactions'[x].cont = interactions[x].cont
        /\ interactions'[x].binding = interactions[x].binding
    BY Zenon
  <2>2. /\ interactions[x].call \in Call /\ interactions[x].call # None
        /\ operations[interactions[x].call].approval
        /\ operations[interactions[x].call].run = interactions[x].cont
        /\ operations[interactions[x].call].binding = interactions[x].binding
        /\ \A y \in Command : interactions[y].marker = "dispatched"
             /\ interactions[y].call = interactions[x].call => x = y
    BY <1>1, <2>1, Zenon DEF Approvals, UsedAsApproved
  <2>3. operations'[interactions[x].call].approval = operations[interactions[x].call].approval
    BY <2>2, Zenon
  <2> QED BY <2>1, <2>2, <2>3
<1>3. NothingUnapproved'
  BY DEF Approvals, NothingUnapproved
<1> QED BY <1>2, <1>3, Zenon DEF Approvals

\* An approval that is used or superseded was decided before.
LEMMA MarkedApproval ==
  ASSUME TypeOK, MarkersConsistent, NEW r \in Command, NEW i \in Command, Decided(r, i),
         NEW m \in {"dispatched", "superseded"},
         interactions' = [interactions EXCEPT ![i] = Marked(@, m)]
  PROVE  /\ MarkersConsistent'
         /\ interactions[i].marker = "decided" /\ interactions[i].cont = r
         /\ interactions'[i].marker = m
         /\ interactions'[i].call = interactions[i].call
         /\ interactions'[i].cont = interactions[i].cont
         /\ interactions'[i].binding = interactions[i].binding
         /\ \A x \in Command \ {i} : interactions'[x] = interactions[x]
<1>1. interactions[i] \in InteractionRow /\ m \in Marker
  BY Zenon DEF TypeOK, Marker
<1>2. /\ interactions'[i] = Marked(interactions[i], m)
      /\ \A x \in Command \ {i} : interactions'[x] = interactions[x]
  BY Zenon DEF TypeOK
<1>3. /\ interactions'[i].marker = m
      /\ interactions'[i].state = interactions[i].state
      /\ interactions'[i].kind = interactions[i].kind
      /\ interactions'[i].call = interactions[i].call
      /\ interactions'[i].cont = interactions[i].cont
      /\ interactions'[i].binding = interactions[i].binding
  BY <1>1, <1>2, MarkedRow
<1>4. /\ interactions[i].marker = "decided" /\ interactions[i].cont = r
      /\ interactions[i].state = "consumed" /\ interactions[i].kind = "approval"
  BY Zenon DEF Decided
<1>5. MarkersConsistent'
  BY <1>2, <1>3, <1>4 DEF MarkersConsistent
<1> QED BY <1>2, <1>3, <1>4, <1>5, Zenon

\* A read-only call goes out without an approval.
LEMMA ApprovalsUnapproved ==
  ASSUME TypeOK, Calls, Approvals, NEW o \in Owner, NEW k \in Call, NEW b \in Binding,
         Insert(o, k, "read_only", FALSE, b), interactions' = interactions
  PROVE  Approvals'
<1>1. "read_only" \in Policy /\ operations[k].outcome = "none" /\ ~operations[k].approval
  BY Zenon DEF Policy, Insert, Calls, CallsConsistent
<1>2. /\ operations'[k].policy = "read_only"
      /\ \A x \in Call \ {k} : operations'[x] = operations[x]
  BY Zenon DEF Insert, TypeOK
<1>3. \A i \in Command : interactions[i].marker = "dispatched" =>
        interactions[i].call # k /\ interactions[i].call \in Call
  BY <1>1 DEF Approvals, UsedAsApproved, TypeOK, InteractionRow
<1>4. MarkersConsistent'
  BY Zenon DEF Approvals, MarkersConsistent
<1>5. UsedAsApproved'
  BY <1>2, <1>3, ZenonT(30) DEF Approvals, UsedAsApproved
<1>6. NothingUnapproved'
  BY <1>2, Zenon DEF Approvals, NothingUnapproved
<1> QED BY <1>4, <1>5, <1>6, Zenon DEF Approvals

\* An approved call goes out, for the binding that was approved.
LEMMA ApprovalsUsed ==
  ASSUME TypeOK, Calls, Approvals, NEW o \in Owner, NEW k \in Call, NEW policy \in Policy,
         NEW i \in Command, NEW b \in Binding, Decided(o.run, i), interactions[i].call = k,
         interactions[i].binding = b, Insert(o, k, policy, TRUE, b),
         interactions' = [interactions EXCEPT ![i] = Marked(@, "dispatched")]
  PROVE  Approvals'
<1>1. operations[k].outcome = "none" /\ ~operations[k].approval /\ o.run \in Command
  BY Zenon DEF Insert, Calls, CallsConsistent, Owner
<1>2. /\ operations'[k].run = o.run /\ operations'[k].approval /\ operations'[k].binding = b
      /\ \A x \in Call \ {k} : operations'[x] = operations[x]
  BY Zenon DEF Insert, TypeOK
<1>3. /\ MarkersConsistent'
      /\ interactions[i].cont = o.run
      /\ interactions'[i].marker = "dispatched"
      /\ interactions'[i].call = k
      /\ interactions'[i].cont = o.run
      /\ interactions'[i].binding = b
      /\ \A x \in Command \ {i} : interactions'[x] = interactions[x]
  BY <1>1, MarkedApproval, ZenonT(40) DEF Approvals
<1>4. \A x \in Command \ {i} : interactions[x].marker = "dispatched" =>
        interactions[x].call # k /\ interactions[x].call \in Call
  <2>1. \A x \in Command : interactions[x].call \in Call \cup {None}
    BY Zenon DEF TypeOK, InteractionRow
  <2>2. \A x \in Command : interactions[x].marker = "dispatched" =>
          interactions[x].call # None /\ operations[interactions[x].call].approval
    BY Zenon DEF Approvals, UsedAsApproved
  <2> QED BY <1>1, <2>1, <2>2, Zenon
<1>5. UsedAsApproved'
  <2> SUFFICES ASSUME NEW x \in Command, interactions'[x].marker = "dispatched"
               PROVE  /\ interactions'[x].call # None
                      /\ operations'[interactions'[x].call].approval
                      /\ operations'[interactions'[x].call].run = interactions'[x].cont
                      /\ operations'[interactions'[x].call].binding = interactions'[x].binding
                      /\ \A y \in Command : interactions'[y].marker = "dispatched"
                           /\ interactions'[y].call = interactions'[x].call => x = y
    BY Zenon DEF UsedAsApproved
  <2>1. k # None
    BY NoneAssumption, Zenon
  <2>2. CASE x = i
    BY <1>2, <1>3, <1>4, <2>1, <2>2, Zenon
  <2>3. CASE x # i
    <3>1. interactions'[x] = interactions[x] /\ interactions[x].marker = "dispatched"
          /\ interactions[x].call # k /\ interactions[x].call \in Call
      BY <1>3, <1>4, <2>3, Zenon
    <3>2. /\ interactions[x].call # None
          /\ operations[interactions[x].call].approval
          /\ operations[interactions[x].call].run = interactions[x].cont
          /\ operations[interactions[x].call].binding = interactions[x].binding
          /\ \A y \in Command : interactions[y].marker = "dispatched"
               /\ interactions[y].call = interactions[x].call => x = y
      BY <3>1, Zenon DEF Approvals, UsedAsApproved
    <3>3. operations'[interactions[x].call] = operations[interactions[x].call]
      BY <1>2, <3>1, Zenon
    <3>4. \A y \in Command : interactions'[y].marker = "dispatched"
            /\ interactions'[y].call = interactions[x].call => x = y
      <4> TAKE y \in Command
      <4>1. CASE y = i
        BY <1>3, <3>1, <4>1, Zenon
      <4>2. CASE y # i
        BY <1>3, <3>2, <4>2
      <4> QED BY <4>1, <4>2, Zenon
    <3> QED BY <3>1, <3>2, <3>3, <3>4, Zenon
  <2> QED BY <2>2, <2>3, Zenon
<1>6. NothingUnapproved'
  <2> SUFFICES ASSUME NEW x \in Call, operations'[x].outcome # "none", operations'[x].policy # "read_only"
               PROVE  \E y \in Command : interactions'[y].marker = "dispatched" /\ interactions'[y].call = x
    BY Zenon DEF NothingUnapproved
  <2>1. CASE x = k
    BY <1>3, <2>1, Zenon
  <2>2. CASE x # k
    <3>1. PICK y \in Command : interactions[y].marker = "dispatched" /\ interactions[y].call = x
      BY <1>2, <2>2 DEF Approvals, NothingUnapproved
    <3> QED BY <1>3, <2>2, <3>1, Zenon
  <2> QED BY <2>1, <2>2, Zenon
<1> QED BY <1>3, <1>5, <1>6, Zenon DEF Approvals

\* The inductive invariant holds of every step.
LEMMA InvariantStep ==
  ASSUME IInv, [Next]_vars
  PROVE  IInv'
<1> /\ TypeOK /\ Lifecycle /\ Calls /\ Approvals
  BY Zenon DEF IInv, Lifecycle
<1>1. Lifecycle' /\ TypeOK'
  BY LifecycleStep, Zenon DEF Lifecycle
<1>2. \A x \in Command : interactions[x] \in InteractionRow
  BY Zenon DEF TypeOK
<1>3. ASSUME UNCHANGED <<operations, attempts>>
      PROVE  Calls'
  BY <1>3, Zenon DEF Calls, CallsConsistent, AttemptsAgree, OneUnresolved, Unresolved
<1>4. ASSUME UNCHANGED <<operations, interactions>>
      PROVE  Approvals'
  BY <1>4 DEF Approvals, MarkersConsistent, UsedAsApproved, NothingUnapproved
<1>5. ASSUME \A k \in Call :
               /\ operations'[k].run = operations[k].run
               /\ operations'[k].policy = operations[k].policy
               /\ operations'[k].approval = operations[k].approval
               /\ operations'[k].binding = operations[k].binding
               /\ operations[k].outcome = "none" => operations'[k].outcome = "none",
             interactions' = interactions \/ interactions' = expireInteractions
      PROVE  Approvals'
  <2>1. \A x \in Command :
          \/ interactions'[x] = interactions[x]
          \/ /\ interactions[x].marker \notin {"decided", "dispatched", "superseded"}
             /\ interactions'[x].state = "expired"
             /\ interactions'[x].marker \in {"", "denied"}
    <3> SUFFICES ASSUME NEW x \in Command, interactions' = expireInteractions, x \in Overdue
                 PROVE  /\ interactions[x].marker \notin {"decided", "dispatched", "superseded"}
                        /\ interactions'[x].state = "expired"
                        /\ interactions'[x].marker \in {"", "denied"}
      BY <1>5, Zenon DEF expireInteractions
    <3>1. interactions[x].marker \notin {"decided", "dispatched", "superseded"}
      BY Zenon DEF Overdue, Approvals, MarkersConsistent
    <3>2. interactions'[x] = Expired(interactions[x])
      BY Zenon DEF expireInteractions
    <3>3. interactions[x] \in InteractionRow
      BY <1>2, Zenon
    <3>4. /\ Expired(interactions[x]).state = "expired"
          /\ Expired(interactions[x]).marker \in {"", "denied"}
      BY <3>3, ExpiredRow, Zenon
    <3> QED BY <3>1, <3>2, <3>4, Zenon
  <2>2. MarkersConsistent'
    BY <2>1, Zenon DEF Approvals, MarkersConsistent
  <2> QED BY <1>5, <2>1, <2>2, ApprovalsFrame, Zenon
<1>6. ASSUME NEW R \in SUBSET Command, markOperationsUnknown(R),
             interactions' = interactions \/ interactions' = expireInteractions
      PROVE  Calls' /\ Approvals'
  <2>1. Calls'
    BY <1>6, CallsUnknown, Zenon
  <2>2. \A k \in Call :
          /\ operations'[k].run = operations[k].run
          /\ operations'[k].policy = operations[k].policy
          /\ operations'[k].approval = operations[k].approval
          /\ operations'[k].binding = operations[k].binding
          /\ operations[k].outcome = "none" => operations'[k].outcome = "none"
    BY <1>6, UnknownRows, Zenon DEF Dispatching
  <2> QED BY <1>5, <1>6, <2>1, <2>2, Zenon
<1>7. ASSUME NEW c \in Command, Unowned(c)
      PROVE  Calls' /\ Approvals'
  <2> Lost \in SUBSET Command /\ {c} \cap Lost \in SUBSET Command
    BY Zenon DEF Lost
  <2>1. CASE Admit(c) \/ Reap(c)
    BY <1>6, <2>1, Zenon DEF Admit, Reap
  <2>2. ASSUME NEW i \in Command, ReplyTooLate(c, i)
        PROVE  Calls' /\ Approvals'
    BY <1>3, <1>5, <2>2, Zenon DEF ReplyTooLate
  <2>3. ASSUME NEW i \in Command, NEW approve \in BOOLEAN, ReplyInTime(c, i, approve)
        PROVE  Calls' /\ Approvals'
    <3> DEFINE approved == approve /\ interactions[i].kind = "approval"
    <3>1. /\ interactions' = [interactions EXCEPT ![i] = Consumed(@, c, approved)]
          /\ UNCHANGED <<operations, attempts>> /\ interactions[i].state = "pending"
      BY <2>3, Zenon DEF ReplyInTime
    <3>2. approved \in BOOLEAN
      BY Zenon
    <3> HIDE DEF approved
    <3>3. /\ Consumed(interactions[i], c, approved).marker \in {"", "decided", "denied"}
          /\ Consumed(interactions[i], c, approved).state = "consumed"
          /\ Consumed(interactions[i], c, approved).marker = "decided" =>
               Consumed(interactions[i], c, approved).kind = "approval"
      <4> interactions[i] \in InteractionRow
        BY <1>2, Zenon
      <4>1. Consumed(interactions[i], c, approved).marker \in {"", "decided", "denied"}
        BY <3>2, ConsumedRow, Zenon
      <4>2. Consumed(interactions[i], c, approved).state = "consumed"
        BY <3>2, ConsumedRow, Zenon
      <4>3. Consumed(interactions[i], c, approved).kind = interactions[i].kind
        BY <3>2, ConsumedRow, ZenonT(40)
      <4>4. Consumed(interactions[i], c, approved).marker = "decided" => interactions[i].kind = "approval"
        BY <3>2, ConsumedRow, Zenon
      <4> QED BY <4>1, <4>2, <4>3, <4>4, Zenon
    <3>4. /\ interactions'[i] = Consumed(interactions[i], c, approved)
          /\ \A x \in Command \ {i} : interactions'[x] = interactions[x]
      BY <3>1, Zenon DEF TypeOK
    <3>5. /\ interactions'[i].marker \in {"", "decided", "denied"}
          /\ interactions'[i].state = "consumed"
          /\ interactions'[i].marker = "decided" => interactions'[i].kind = "approval"
      BY <3>3, <3>4, Zenon
    <3>6. interactions[i].marker # "dispatched"
      BY <3>1, Zenon DEF Approvals, MarkersConsistent
    <3>7. MarkersConsistent'
      BY <3>4, <3>5, Zenon DEF Approvals, MarkersConsistent
    <3>8. Approvals'
      BY <3>1, <3>4, <3>5, <3>6, <3>7, ApprovalsFrame, Zenon
    <3> QED BY <1>3, <3>1, <3>8, Zenon
  <2>4. ASSUME NEW p \in Replica, Claim(c, p)
        PROVE  Calls' /\ Approvals'
    BY <1>3, <1>4, <2>4, Zenon DEF Claim
  <2>5. CASE LeaseTick(c)
    BY <1>3, <1>4, <2>5, Zenon DEF LeaseTick
  <2>6. CASE InteractionTimeout(c)
    <3>1. interactions' = [interactions EXCEPT ![c] = TimedOut(interactions[c])]
          /\ UNCHANGED <<operations, attempts>>
      BY <2>6, Zenon DEF InteractionTimeout
    <3>2. /\ interactions'[c] = TimedOut(interactions[c])
          /\ \A x \in Command \ {c} : interactions'[x] = interactions[x]
      BY <3>1, Zenon DEF TypeOK
    <3>3. \A x \in Command : /\ interactions'[x].marker = interactions[x].marker
                             /\ interactions'[x].state = interactions[x].state
                             /\ interactions'[x].kind = interactions[x].kind
                             /\ interactions'[x].call = interactions[x].call
                             /\ interactions'[x].binding = interactions[x].binding
                             /\ interactions'[x].cont = interactions[x].cont
      BY <1>2, <3>2, TimedOutRow
    <3>4. MarkersConsistent'
      BY <3>3 DEF Approvals, MarkersConsistent
    <3>5. Approvals'
      BY <3>1, <3>3, <3>4, ApprovalsFrame, Zenon
    <3> QED BY <1>3, <3>1, <3>5, Zenon
  <2> QED BY <1>7, <2>1, <2>2, <2>3, <2>4, <2>5, <2>6, Zenon DEF Unowned, reply
<1>8. ASSUME NEW o \in owners, Owned(o)
      PROVE  Calls' /\ Approvals'
  <2> o \in Owner /\ o.run \in Command
    BY Zenon DEF TypeOK, Owner
  <2>1. CASE Renew(o)
    BY <1>3, <1>4, <2>1, Zenon DEF Renew
  <2>2. ASSUME NEW v \in Product, RecordRunScope(o, v)
        PROVE  Calls' /\ Approvals'
    BY <1>3, <1>4, <2>2, Zenon DEF RecordRunScope
  <2>3. ASSUME NEW d \in Digest, ResolveDefinition(o, d)
        PROVE  Calls' /\ Approvals'
    BY <1>3, <1>4, <2>3, Zenon DEF ResolveDefinition
  <2>4. ASSUME NEW j \in Journey \cup {None}, NEW d \in Digest, Start(o, j, d)
        PROVE  Calls' /\ Approvals'
    BY <1>3, <1>4, <2>4, Zenon DEF Start
  <2>5. ASSUME NEW S \in SUBSET Command, Included(o, S)
        PROVE  Calls' /\ Approvals'
    BY <1>3, <1>4, <2>5, Zenon DEF Included
  <2>6. ASSUME NEW kind \in {"approval", "clarification"}, NEW k \in Call \cup {None},
               NEW j \in Journey \cup {None}, NEW s \in Shape \cup {None}, Wait(o, kind, k, j, s)
        PROVE  Calls' /\ Approvals'
    <3>1. UNCHANGED <<operations, attempts>> /\ runs[o.run].state = "running"
      BY <2>6, Zenon DEF Wait, lockOwner
    <3>2. interactions[o.run].marker = ""
      BY <3>1, BlankRows, Zenon DEF Lifecycle, RunsConsistent, Live
    <3>3. /\ interactions'[o.run].marker \in {"", "requested"}
          /\ \A x \in Command \ {o.run} : interactions'[x] = interactions[x]
      BY <2>6, WaitRow, Zenon
    <3>4. MarkersConsistent'
      BY <3>3, Zenon DEF Approvals, MarkersConsistent
    <3>5. Approvals'
      BY <3>1, <3>2, <3>3, <3>4, ApprovalsFrame, Zenon
    <3> QED BY <1>3, <3>1, <3>5, Zenon
  <2>7. ASSUME NEW i \in Command, Decided(o.run, i), UNCHANGED <<operations, attempts>>,
               interactions' = [interactions EXCEPT ![i] = Marked(@, "superseded")]
        PROVE  Calls' /\ Approvals'
    <3>1. /\ MarkersConsistent' /\ interactions[i].marker = "decided"
          /\ interactions'[i].marker = "superseded"
          /\ \A x \in Command \ {i} : interactions'[x] = interactions[x]
      <4>1. MarkersConsistent /\ "superseded" \in {"dispatched", "superseded"}
        BY Zenon DEF Approvals
      <4>2. interactions[i].marker = "decided" /\ o.run \in Command
        BY <2>7, Zenon DEF Decided
      <4>3. MarkersConsistent'
        BY <2>7, <4>1, <4>2, MarkedApproval, Zenon
      <4>4. /\ interactions'[i].marker = "superseded"
            /\ \A x \in Command \ {i} : interactions'[x] = interactions[x]
        BY <2>7, MarkedRow, Zenon DEF TypeOK, Marker
      <4> QED BY <4>2, <4>3, <4>4, Zenon
    <3>2. Approvals'
      BY <2>7, <3>1, ApprovalsFrame, Zenon
    <3> QED BY <1>3, <2>7, <3>2, Zenon
  <2>8. ASSUME NEW i \in Command, Supersede(o, i)
        PROVE  Calls' /\ Approvals'
    BY <2>7, <2>8, Zenon DEF Supersede
  <2>9. ASSUME NEW k \in Call, NEW j \in Journey, NEW s \in Shape, BeginAttempt(o, k, j, s)
        PROVE  Calls' /\ Approvals'
    <3> DEFINE b == BindCall(o.run, j, s)
    <3>1. b \in Binding /\ "read_only" \in Policy
      BY BindCallType, Zenon DEF Policy
    <3> HIDE DEF b
    <3>2. CASE BeginUnapproved(o, k, j, s)
      <4>1. MayAttempt(o, k) /\ Insert(o, k, "read_only", FALSE, b) /\ interactions' = interactions
        BY <3>2, Zenon DEF BeginUnapproved, b
      <4>2. Calls'
        BY <3>1, <4>1, CallsInsert, Zenon
      <4>3. Approvals'
        BY <3>1, <4>1, ApprovalsUnapproved, Zenon
      <4> QED BY <4>2, <4>3, Zenon
    <3>3. ASSUME NEW policy \in Policy, NEW i \in Command, BeginApproved(o, k, policy, i, j, s)
          PROVE  Calls' /\ Approvals'
      <4>1. MayAttempt(o, k) /\ Decided(o.run, i) /\ interactions[i].call = k
        BY <3>3, Zenon DEF BeginApproved
      <4>2. CASE interactions[i].binding = b
        <5>1. /\ Insert(o, k, policy, TRUE, b)
              /\ interactions' = [interactions EXCEPT ![i] = Marked(@, "dispatched")]
          BY <3>3, <4>2, Zenon DEF BeginApproved, b
        <5>2. Calls'
          BY <3>1, <4>1, <5>1, CallsInsert, Zenon
        <5>3. Approvals'
          BY <3>1, <4>1, <4>2, <5>1, ApprovalsUsed, Zenon
        <5> QED BY <5>2, <5>3, Zenon
      <4>3. CASE interactions[i].binding # b
        <5>1. /\ UNCHANGED <<operations, attempts>>
              /\ interactions' = [interactions EXCEPT ![i] = Marked(@, "superseded")]
          BY <3>3, <4>3, Zenon DEF BeginApproved, b
        <5> QED BY <2>7, <4>1, <5>1, Zenon
      <4> QED BY <4>2, <4>3, Zenon
    <3>4. CASE BeginRetry(o, k, j, s)
      <4>1. Calls'
        BY <3>4, CallsRetry, Zenon
      <4>2. /\ operations' = [operations EXCEPT ![k] = Reported(operations[k], "dispatching")]
            /\ interactions' = interactions /\ operations[k].outcome # "none"
        BY <3>4, Zenon DEF BeginRetry
      <4>3. \A x \in Call : /\ operations'[x].run = operations[x].run
                            /\ operations'[x].policy = operations[x].policy
                            /\ operations'[x].approval = operations[x].approval
                            /\ operations'[x].binding = operations[x].binding
                            /\ operations[x].outcome = "none" => operations'[x].outcome = "none"
        <5>1. operations[k] \in OperationRow /\ "dispatching" \in Outcome
          BY Zenon DEF TypeOK, Outcome
        <5>2. \A x \in Call : x # k => operations'[x] = operations[x]
          BY <4>2, Zenon DEF TypeOK
        <5>3. operations'[k] = Reported(operations[k], "dispatching")
          BY <4>2, Zenon DEF TypeOK
        <5>4. /\ operations'[k].run = operations[k].run
              /\ operations'[k].policy = operations[k].policy
              /\ operations'[k].approval = operations[k].approval
              /\ operations'[k].binding = operations[k].binding
          BY <5>1, <5>3, ReportedRow
        <5> QED BY <4>2, <5>2, <5>4
      <4> QED BY <1>5, <4>1, <4>2, <4>3, Zenon
    <3> QED BY <2>9, <3>2, <3>3, <3>4, Zenon DEF BeginAttempt
  <2>10. ASSUME NEW k \in Call, NEW n \in 1..2, NEW outcome \in Outcome \ {"none", "dispatching"},
                EndAttempt(o, k, n, outcome)
         PROVE  Calls' /\ Approvals'
    <3>1. Calls'
      BY <2>10, CallsEnd, Zenon
    <3>2. /\ operations' = [operations EXCEPT ![k] = Reported(operations[k], outcome)]
          /\ interactions' = interactions /\ operations[k].outcome # "none"
      BY <2>10, Zenon DEF EndAttempt
    <3>3. \A x \in Call : /\ operations'[x].run = operations[x].run
                          /\ operations'[x].policy = operations[x].policy
                          /\ operations'[x].approval = operations[x].approval
                          /\ operations'[x].binding = operations[x].binding
                          /\ operations[x].outcome = "none" => operations'[x].outcome = "none"
      <4>1. operations[k] \in OperationRow
        BY Zenon DEF TypeOK
      <4>2. /\ operations'[k] = Reported(operations[k], outcome)
            /\ \A x \in Call \ {k} : operations'[x] = operations[x]
        BY <3>2, Zenon DEF TypeOK
      <4> QED BY <3>2, <4>1, <4>2, ReportedRow
    <3> QED BY <1>5, <3>1, <3>2, <3>3, Zenon
  <2>11. CASE Complete(o)
    BY <1>3, <1>4, <2>11, Zenon DEF Complete
  <2>12. ASSUME NEW state \in FailureStates, Fail(o, state)
         PROVE  Calls' /\ Approvals'
    <3>1. {o.run} \in SUBSET Command
      BY Zenon
    <3> QED BY <1>6, <2>12, <3>1, Zenon DEF Fail
  <2> QED
    BY <1>8, <2>1, <2>2, <2>3, <2>4, <2>5, <2>6, <2>8, <2>9, <2>10, <2>11, <2>12, Zenon
    DEF Owned, finish
<1>9. ASSUME UNCHANGED vars
      PROVE  Calls' /\ Approvals'
  BY <1>3, <1>4, <1>9, Zenon DEF vars
<1> QED BY <1>1, <1>7, <1>8, <1>9, Zenon DEF Next, IInv

\* It holds of an empty journal.
LEMMA InvariantInit == Init => IInv
<1> SUFFICES ASSUME Init PROVE IInv
  BY Zenon
<1>1. \A k \in Call : operations[k].outcome = "none" /\ ~operations[k].approval
  BY BlankRows, Zenon DEF Init
<1>2. \A k \in Call, n \in 1..2 : attempts[k][n] = "none"
  BY Zenon DEF Init
<1>3. \A x \in Command : interactions[x].marker = ""
  BY BlankRows, Zenon DEF Init
<1>4. Calls
  BY <1>1, <1>2 DEF Calls, CallsConsistent, AttemptsAgree, OneUnresolved, Unresolved
<1>5. Approvals
  BY <1>1, <1>3, Zenon DEF Approvals, MarkersConsistent, UsedAsApproved, NothingUnapproved
<1> QED BY <1>4, <1>5, LifecycleInit, Zenon DEF IInv

\* The inductive invariant always holds.
THEOREM Invariance == Spec => []IInv
<1>1. Init => IInv
  BY InvariantInit, Zenon
<1>2. IInv /\ [Next]_vars => IInv'
  BY InvariantStep, Zenon
<1> QED BY <1>1, <1>2, PTL DEF Spec

\* No effect without a matching, unexpired, single-use approval.
THEOREM ApprovalsHold == Spec => []ApprovalsKept
<1>1. IInv => ApprovalsKept
  BY Zenon DEF IInv, Approvals, ApprovalsKept
<1> QED BY <1>1, Invariance, PTL

\* The two records of a tool call agree, and at most one call is open.
THEOREM CallRecordsAgree == Spec => [](AttemptsAgree /\ OneUnresolved)
<1>1. IInv => AttemptsAgree /\ OneUnresolved
  BY Zenon DEF IInv, Calls
<1> QED BY <1>1, Invariance, PTL

\* A run that ended with its tool call unresolved stops the tool calls of the
\* thread for good: MayAttempt refuses every other call, and no owner of that
\* run is left to repeat or close it.
THEOREM ThreadStops == Spec => ThreadStop
<1> DEFINE Stopped == \E k \in Call : Unresolved(k) /\ runs[operations[k].run].state \notin Live
<1>1. IInv /\ [Next]_vars => [Stopped => operations' = operations]_vars
  <2> SUFFICES ASSUME IInv, Next, NEW k \in Call, Unresolved(k),
                      runs[operations[k].run].state \notin Live
               PROVE  operations' = operations
    BY Zenon DEF vars
  <2> TypeOK /\ OneUnresolved
    BY Zenon DEF IInv, Lifecycle, Calls
  <2>1. ASSUME NEW R \in SUBSET Command, markOperationsUnknown(R),
               \A r \in R : runs[r].state \in Live
        PROVE  operations' = operations
    <3>1. Dispatching(R) = {}
      BY <2>1, Zenon DEF Dispatching, OneUnresolved, Unresolved
    <3> QED BY <2>1, <3>1, Zenon DEF markOperationsUnknown, TypeOK
  <2>2. ASSUME NEW c \in Command, Unowned(c)
        PROVE  operations' = operations
    <3>1. /\ Lost \in SUBSET Command /\ {c} \cap Lost \in SUBSET Command
          /\ \A r \in Lost : runs[r].state \in Live
      BY Zenon DEF Lost
    <3>2. CASE Admit(c) \/ Reap(c)
      BY <2>1, <3>1, <3>2, Zenon DEF Admit, Reap
    <3> QED BY <2>2, <3>2, Zenon DEF Unowned, reply, ReplyTooLate, ReplyInTime, Claim, LeaseTick,
                              InteractionTimeout
  <2>3. ASSUME NEW o \in owners, Owned(o)
        PROVE  operations' = operations
    <3> o.run \in Command
      BY Zenon DEF TypeOK, Owner
    <3>1. ASSUME NEW x \in Call, MayAttempt(o, x)
          PROVE  x = k /\ operations[x].outcome # "none" /\ operations[x].run # o.run
      BY <3>1, Zenon DEF MayAttempt, Unresolved, lockOwner, Live
    <3>2. ASSUME NEW x \in Call, NEW j \in Journey, NEW s \in Shape, BeginAttempt(o, x, j, s)
          PROVE  operations' = operations
      BY <3>1, <3>2, Zenon DEF BeginAttempt, BeginUnapproved, BeginApproved, BeginRetry, Insert
    <3>3. ASSUME NEW x \in Call, NEW n \in 1..2, NEW outcome \in Outcome, EndAttempt(o, x, n, outcome)
          PROVE  operations' = operations
      BY <3>3, Zenon DEF EndAttempt, lockOwner, OneUnresolved, Unresolved, Live
    <3>4. ASSUME NEW state \in FailureStates, Fail(o, state)
          PROVE  operations' = operations
      <4>1. {o.run} \in SUBSET Command /\ \A r \in {o.run} : runs[r].state \in Live
        BY <3>4, Zenon DEF Fail, lockOwner, Live
      <4> QED BY <2>1, <3>4, <4>1, Zenon DEF Fail
    <3> QED BY <2>3, <3>2, <3>3, <3>4, Zenon
            DEF Owned, finish, Renew, RecordRunScope, ResolveDefinition, Start, Included, Wait,
                Supersede, Complete
  <2> QED BY <2>2, <2>3, Zenon DEF Next
<1> QED BY <1>1, Invariance, PTL DEF Spec, ThreadStop

----------------------------------------------------------------------------
(* Nothing decided is ever undone.                                         *)

\* Waits: a wait leaves pending once, and a marker is final once it says what
\* became of the approval.
LEMMA WaitsKept ==
  ASSUME IInv, Next, NEW x \in Command
  PROVE  WaitKept(x)
<1> /\ TypeOK /\ Lifecycle /\ MarkersConsistent /\ interactions[x] \in InteractionRow
  BY Zenon DEF IInv, Lifecycle, Approvals, TypeOK
<1>1. CASE interactions'[x] = interactions[x]
  BY <1>1, Zenon DEF WaitKept
<1>2. ASSUME interactions[x].state = "pending"
      PROVE  WaitKept(x)
  BY <1>2, Zenon DEF WaitKept, MarkersConsistent
<1>3. CASE interactions' = expireInteractions
  <2>1. x \notin Overdue => interactions'[x] = interactions[x]
    BY <1>3, Zenon DEF expireInteractions
  <2> QED BY <1>1, <1>2, <2>1, Zenon DEF Overdue
<1>4. ASSUME NEW c \in Command, Unowned(c)
      PROVE  WaitKept(x)
  <2>1. CASE Admit(c) \/ Reap(c)
    BY <1>3, <2>1, Zenon DEF Admit, Reap
  <2>2. ASSUME NEW i \in Command, ReplyTooLate(c, i)
        PROVE  WaitKept(x)
    BY <1>3, <2>2, Zenon DEF ReplyTooLate
  <2>3. ASSUME NEW i \in Command, NEW approve \in BOOLEAN, ReplyInTime(c, i, approve)
        PROVE  WaitKept(x)
    <3>1. /\ interactions[i].state = "pending"
          /\ x # i => interactions'[x] = interactions[x]
      BY <2>3, Zenon DEF ReplyInTime, TypeOK
    <3> QED BY <1>1, <1>2, <3>1, Zenon
  <2>4. ASSUME NEW p \in Replica, Claim(c, p)
        PROVE  WaitKept(x)
    BY <1>1, <2>4, Zenon DEF Claim
  <2>5. CASE LeaseTick(c)
    BY <1>1, <2>5, Zenon DEF LeaseTick
  <2>6. CASE InteractionTimeout(c)
    <3>1. interactions' = [interactions EXCEPT ![c] = TimedOut(interactions[c])]
      BY <2>6, Zenon DEF InteractionTimeout
    <3>2. CASE x = c
      <4>1. interactions'[x] = TimedOut(interactions[x])
        BY <3>1, <3>2, Zenon DEF TypeOK
      <4> QED BY <4>1, TimedOutRow DEF WaitKept
    <3> QED BY <1>1, <3>1, <3>2, Zenon DEF TypeOK
  <2> QED BY <1>4, <2>1, <2>2, <2>3, <2>4, <2>5, <2>6, Zenon DEF Unowned, reply
<1>5. ASSUME NEW o \in owners, Owned(o)
      PROVE  WaitKept(x)
  <2> o \in Owner /\ o.run \in Command
    BY Zenon DEF TypeOK, Owner
  <2>1. ASSUME NEW i \in Command, NEW m \in {"dispatched", "superseded"}, Decided(o.run, i),
               interactions' = [interactions EXCEPT ![i] = Marked(@, m)]
        PROVE  WaitKept(x)
    <3>1. CASE x = i
      <4>1. interactions'[x] = Marked(interactions[x], m) /\ m \in Marker
        BY <2>1, <3>1, Zenon DEF TypeOK, Marker
      <4>2. interactions[x].marker = "decided"
        BY <2>1, <3>1, Zenon DEF Decided
      <4> QED BY <4>1, <4>2, MarkedRow DEF WaitKept
    <3> QED BY <1>1, <2>1, <3>1, Zenon DEF TypeOK
  <2>2. ASSUME NEW kind \in {"approval", "clarification"}, NEW k \in Call \cup {None},
               NEW j \in Journey \cup {None}, NEW s \in Shape \cup {None}, Wait(o, kind, k, j, s)
        PROVE  WaitKept(x)
    <3>1. CASE x = o.run
      <4>1. runs[x].state = "running"
        BY <2>2, <3>1, Zenon DEF Wait, lockOwner
      <4>2. interactions[x].state = "absent" /\ interactions[x].marker = ""
        BY <4>1, BlankRows, Zenon DEF Lifecycle, RunsConsistent, Live
      <4> QED BY <4>2, Zenon DEF WaitKept
    <3> QED BY <1>1, <2>2, <3>1, WaitRow, Zenon
  <2>3. ASSUME NEW i \in Command, Supersede(o, i)
        PROVE  WaitKept(x)
    BY <2>1, <2>3, Zenon DEF Supersede
  <2>4. ASSUME NEW k \in Call, NEW j \in Journey, NEW s \in Shape, BeginAttempt(o, k, j, s)
        PROVE  WaitKept(x)
    <3>1. ASSUME NEW policy \in Policy, NEW i \in Command, BeginApproved(o, k, policy, i, j, s)
          PROVE  WaitKept(x)
      <4>1. \E m \in {"dispatched", "superseded"} :
               interactions' = [interactions EXCEPT ![i] = Marked(@, m)]
        BY <3>1, Zenon DEF BeginApproved
      <4> QED BY <2>1, <3>1, <4>1, Zenon DEF BeginApproved
    <3> QED BY <1>1, <2>4, <3>1, Zenon DEF BeginAttempt, BeginUnapproved, BeginRetry
  <2> QED BY <1>1, <1>5, <2>2, <2>3, <2>4, Zenon
          DEF Owned, finish, Renew, RecordRunScope, ResolveDefinition, Start, Included, EndAttempt,
              Complete, Fail
<1> QED BY <1>4, <1>5, Zenon DEF Next

\* Commands: only an undrained one is included or disposed of.
LEMMA CommandsKept ==
  ASSUME IInv, Next, NEW x \in Command
  PROVE  CommandKept(x)
<1> TypeOK /\ Lifecycle /\ commands[x] \in CommandRow
  BY Zenon DEF IInv, Lifecycle, TypeOK
<1>1. CASE commands'[x] = commands[x] \/ commands[x].exec = None
  BY <1>1, Zenon DEF CommandKept
<1>2. ASSUME NEW R \in SUBSET Command, NEW why \in {"interrupted"} \cup FailureStates,
             commands'[x] = disposePending(R, why)[x]
      PROVE  CommandKept(x)
  <2>1. /\ commands'[x].exec = commands[x].exec
        /\ commands'[x] = commands[x] \/ \E r \in R : x \in Undrained(r)
    BY <1>2, DisposeRows
  <2> QED BY <2>1, Zenon DEF CommandKept, Undrained
<1>3. ASSUME NEW c \in Command, Unowned(c)
      PROVE  CommandKept(x)
  <2>0. Lost \in SUBSET Command /\ {c} \cap Lost \in SUBSET Command
    BY Zenon DEF Lost
  <2>1. CASE Admit(c)
    <3>1. disposePending(Lost, "interrupted") \in [Command -> CommandRow]
      BY <2>0, SweepTypes, Zenon
    <3>2. commands[c].exec = None
          /\ \E r \in Command : commands' = [disposePending(Lost, "interrupted")
                                              EXCEPT ![c] = Accepted(r, None, "")]
      BY <2>1, Zenon DEF Admit
    <3>3. x # c => commands'[x] = disposePending(Lost, "interrupted")[x]
      BY <3>1, <3>2, Zenon
    <3> QED BY <1>1, <1>2, <2>0, <3>2, <3>3, Zenon
  <2>2. ASSUME NEW i \in Command, NEW approve \in BOOLEAN, reply(c, i, approve)
        PROVE  CommandKept(x)
    <3>1. commands[c].exec = None /\ (x # c => commands'[x] = commands[x])
      BY <2>2, Zenon DEF reply, ReplyTooLate, ReplyInTime, TypeOK
    <3> QED BY <1>1, <3>1, Zenon
  <2>3. CASE Reap(c)
    BY <1>2, <2>0, <2>3, Zenon DEF Reap
  <2> QED BY <1>1, <1>3, <2>1, <2>2, <2>3, Zenon DEF Unowned, Claim, LeaseTick, InteractionTimeout
<1>4. ASSUME NEW o \in owners, Owned(o)
      PROVE  CommandKept(x)
  <2>0. o.run \in Command /\ {o.run} \in SUBSET Command
    BY Zenon DEF TypeOK, Owner
  <2>1. ASSUME NEW S \in SUBSET Command, Included(o, S)
        PROVE  CommandKept(x)
    <3>1. CASE x \in S
      <4>1. commands'[x] = InRequest(commands[x]) /\ x \in Undrained(o.run)
        BY <2>1, <3>1, Zenon DEF Included
      <4> QED BY <4>1, InRequestRow, Zenon DEF CommandKept, Undrained
    <3> QED BY <1>1, <2>1, <3>1, Zenon DEF Included
  <2>2. ASSUME NEW state \in FailureStates, Fail(o, state)
        PROVE  CommandKept(x)
    BY <1>2, <2>0, <2>2, Zenon DEF Fail
  <2>3. ASSUME NEW k \in Call, NEW j \in Journey, NEW s \in Shape, BeginAttempt(o, k, j, s)
        PROVE  CommandKept(x)
    BY <1>1, <2>3, Zenon DEF BeginAttempt, BeginUnapproved, BeginApproved, BeginRetry
  <2> QED BY <1>1, <1>4, <2>1, <2>2, <2>3, Zenon
          DEF Owned, finish, Renew, RecordRunScope, ResolveDefinition, Start, Wait, Supersede,
              EndAttempt, Complete
<1> QED BY <1>3, <1>4, Zenon DEF Next

\* Runs: an ended run stays as it ended, and a run is claimed once.
LEMMA RunsKept ==
  ASSUME IInv, Next, NEW x \in Command
  PROVE  RunKept(x)
<1> TypeOK /\ Lifecycle /\ runs[x] \in RunRow
  BY Zenon DEF IInv, Lifecycle, TypeOK
<1>0. /\ {"absent", "pending", "running", "awaiting_input"} \cap Terminal = {}
      /\ \A state \in FailureStates \cup {"completed", "interrupted", "failed"} : state \in Terminal
  BY FailureAssumption, Zenon DEF Terminal
<1>1. ASSUME runs'[x].state = runs[x].state, runs'[x].epoch = runs[x].epoch
      PROVE  RunKept(x)
  BY <1>1, Zenon DEF RunKept
<1>2. ASSUME runs[x].state \notin Terminal, runs'[x].epoch = runs[x].epoch \/ runs[x].epoch = 0
      PROVE  RunKept(x)
  BY <1>2, Zenon DEF RunKept
<1>3. ASSUME runs[x].state \notin Terminal, NEW state \in Terminal, runs'[x] = Ended(runs[x], state)
      PROVE  RunKept(x)
  BY <1>2, <1>3, EndedRow
<1>4. ASSUME NEW R \in SUBSET Lost, runs'[x] = RunsSwept(R)[x]
      PROVE  RunKept(x)
  <2>1. \/ runs'[x] = runs[x]
        \/ runs[x].state \notin Terminal /\ runs'[x].epoch = runs[x].epoch
    BY <1>0, <1>4, SweepRows, SMTT(40) DEF Lost, Live
  <2> QED BY <1>1, <1>2, <2>1, Zenon
<1>5. ASSUME NEW c \in Command, Unowned(c)
      PROVE  RunKept(x)
  <2>0. Lost \in SUBSET Command /\ Lost \in SUBSET Lost /\ {c} \cap Lost \in SUBSET Lost /\ {} \in SUBSET Lost
    BY Zenon DEF Lost
  <2>1. ASSUME commands[x].exec = None
        PROVE  RunKept(x)
    BY <1>0, <1>2, <2>1, Zenon DEF Lifecycle, RunsConsistent
  <2>2. CASE Admit(c)
    <3>1. /\ commands[c].exec = None
          /\ \/ runs' = RunsSwept(Lost)
             \/ runs' = [RunsSwept(Lost) EXCEPT ![c] = FreshRun(None, None)]
      BY <2>2, Zenon DEF Admit
    <3>2. RunsSwept(Lost) \in [Command -> RunRow]
      BY <2>0, SweepTypes, Zenon
    <3>3. x # c => runs'[x] = RunsSwept(Lost)[x]
      BY <3>1, <3>2, Zenon
    <3> QED BY <1>4, <2>0, <2>1, <3>1, <3>3, Zenon
  <2>3. ASSUME NEW i \in Command, ReplyTooLate(c, i)
        PROVE  RunKept(x)
    BY <1>4, <2>0, <2>3, Zenon DEF ReplyTooLate
  <2>4. ASSUME NEW i \in Command, NEW approve \in BOOLEAN, ReplyInTime(c, i, approve)
        PROVE  RunKept(x)
    <3>1. /\ commands[c].exec = None
          /\ \/ x = c
             \/ runs'[x] = runs[x]
             \/ runs[x].state = "awaiting_input" /\ runs'[x] = Ended(runs[x], "completed")
      BY <2>4, Zenon DEF ReplyInTime
    <3> QED BY <1>0, <1>1, <1>3, <2>1, <3>1, Zenon
  <2>5. ASSUME NEW p \in Replica, Claim(c, p)
        PROVE  RunKept(x)
    <3>1. runs[c].state = "pending" /\ runs[c].epoch = 0 /\ (x # c => runs'[x] = runs[x])
      BY <2>5, Zenon DEF Claim, Lifecycle, RunsConsistent, TypeOK
    <3> QED BY <1>0, <1>1, <1>2, <3>1, Zenon
  <2>6. CASE Reap(c)
    BY <1>4, <2>0, <2>6, Zenon DEF Reap
  <2>7. CASE LeaseTick(c)
    <3>1. runs[c].state \in Live /\ runs[c] \in RunRow /\ runs[c].lease - 1 \in 0..Lease
          /\ runs' = [runs EXCEPT ![c] = Leased(runs[c], runs[c].lease - 1)]
      BY <2>7, LeaseAssumption DEF LeaseTick, TypeOK, RunRow
    <3> QED BY <1>1, <3>1, LeaseStates, Zenon
  <2>8. CASE InteractionTimeout(c)
    BY <1>1, <2>8, Zenon DEF InteractionTimeout
  <2> QED BY <1>5, <2>2, <2>3, <2>4, <2>5, <2>6, <2>7, <2>8, Zenon DEF Unowned, reply
<1>6. ASSUME NEW o \in owners, Owned(o)
      PROVE  RunKept(x)
  <2>0. o.run \in Command /\ runs[o.run] \in RunRow
    BY Zenon DEF TypeOK, Owner
  <2>1. ASSUME NEW new \in RunRow, lockOwner(o), runs' = [runs EXCEPT ![o.run] = new],
               new.epoch = runs[o.run].epoch
        PROVE  RunKept(x)
    <3>1. runs[o.run].state \notin Terminal
      BY <1>0, <2>1, Zenon DEF lockOwner
    <3>2. \/ runs'[x] = runs[x]
          \/ runs[x].state \notin Terminal /\ runs'[x].epoch = runs[x].epoch
      BY <2>0, <2>1, <3>1, Zenon DEF TypeOK
    <3> QED BY <1>1, <1>2, <3>2, Zenon
  <2>2. CASE Renew(o)
    <3>1. Lease \in 0..Lease
      BY LeaseAssumption
    <3> QED BY <2>0, <2>1, <2>2, <3>1, LeasedRow, Zenon DEF Renew
  <2>3. ASSUME NEW v \in Product, RecordRunScope(o, v)
        PROVE  RunKept(x)
    BY <2>0, <2>1, <2>3, ScopedRow, Zenon DEF RecordRunScope
  <2>4. ASSUME NEW j \in Journey \cup {None}, NEW d \in Digest, Start(o, j, d)
        PROVE  RunKept(x)
    BY <2>0, <2>1, <2>4, StartedRow, Zenon DEF Start
  <2>5. ASSUME NEW kind, NEW k, NEW j, NEW s, Wait(o, kind, k, j, s)
        PROVE  RunKept(x)
    BY <2>0, <2>1, <2>5, SuspendedRow, Zenon DEF Wait
  <2>6. CASE Complete(o)
    BY <1>0, <2>0, <2>1, <2>6, EndedRow, Zenon DEF Complete
  <2>7. ASSUME NEW state \in FailureStates, Fail(o, state)
        PROVE  RunKept(x)
    <3>1. state \in Terminal
      BY <1>0, Zenon
    <3> QED BY <2>0, <2>1, <2>7, <3>1, EndedRow, Zenon DEF Fail
  <2>8. ASSUME NEW k \in Call, NEW j \in Journey, NEW s \in Shape, BeginAttempt(o, k, j, s)
        PROVE  RunKept(x)
    BY <1>1, <2>8, Zenon DEF BeginAttempt, BeginUnapproved, BeginApproved, BeginRetry
  <2> QED BY <1>1, <1>6, <2>2, <2>3, <2>4, <2>5, <2>6, <2>7, <2>8, Zenon
          DEF Owned, finish, ResolveDefinition, Included, Supersede, EndAttempt
<1> QED BY <1>5, <1>6, Zenon DEF Next

\* Ended runs, included or disposed commands, closed waits and used or refused
\* approvals stay as they are, whatever stale owners and late replies ask for.
THEOREM NothingUndone == Spec => Irrevocable
<1>1. IInv /\ [Next]_vars
        => [\A x \in Command : RunKept(x) /\ CommandKept(x) /\ WaitKept(x)]_vars
  BY RunsKept, CommandsKept, WaitsKept, Zenon
<1> QED BY <1>1, Invariance, PTL DEF Spec, Irrevocable

============================================================================
