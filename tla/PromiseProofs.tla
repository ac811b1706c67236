--------------------------- MODULE PromiseProofs ---------------------------
(* Worker implements ApprovedAction: for every instance, an effectful call *)
(* takes effect at most once, by the user's decision, and what the         *)
(* conversation records about it is true.                                  *)
EXTENDS WorkerProofs

----------------------------------------------------------------------------
(* The kinds of steps, as the promise tells them apart.                    *)

Verdicts == {"decided", "dispatched", "superseded"}
Unmoved == UNCHANGED <<operations, attempts, remote>>
Others(i) == \A x \in Command : x # i => interactions'[x] = interactions[x]
SameAsked(i) == interactions'[i].call = interactions[i].call

\* No wait gets or loses a verdict.
SameRuling(i) ==
  /\ SameAsked(i)
  /\ \/ interactions'[i].marker = interactions[i].marker
     \/ interactions'[i].marker \notin Verdicts /\ interactions[i].marker \notin Verdicts
Keeps == \A i \in Command : SameRuling(i)

Quiet == Unmoved /\ Keeps
\* Runs end, and their calls are marked.
Drops(R) == markOperationsUnknown(R) /\ remote' = remote /\ Keeps
\* A run starts to wait.
Asks(r) ==
  /\ Unmoved
  /\ Others(r)
  /\ interactions[r].marker \notin Verdicts /\ interactions'[r].marker \notin Verdicts
  /\ interactions'[r].call = None \/ Fresh(interactions'[r].call)
\* The user approves; the approval is superseded.
Rules(i, before, after) ==
  /\ Unmoved
  /\ Others(i)
  /\ SameAsked(i) /\ interactions[i].call \in Call
  /\ before /\ interactions'[i].marker = after
Gives(i) == Rules(i, interactions[i].marker \notin Verdicts, "decided")
Takes(i) == Rules(i, interactions[i].marker = "decided", "superseded")
\* An attempt begins.
OtherAttempt(k, n) == \A m \in 1..2 : m # n => attempts'[k][m] = attempts[k][m]
Starts(k, n) ==
  /\ \A x \in Call : x # k => operations'[x] = operations[x] /\ attempts'[x] = attempts[x]
  /\ operations'[k].outcome = "dispatching"
  /\ attempts'[k][n] = "dispatching" /\ OtherAttempt(k, n)
  /\ remote' = [remote EXCEPT ![k][n] = "sent"]
Plain(k) ==
  /\ operations'[k].policy = "read_only"
  /\ interactions' = interactions
  /\ \A i \in Command : interactions[i].call # k
Used(k, i) ==
  /\ interactions[i].call = k /\ SameAsked(i)
  /\ interactions[i].marker = "decided" /\ interactions'[i].marker = "dispatched"
  /\ Others(i)
Begins(k) ==
  /\ Starts(k, 1)
  /\ operations[k].outcome = "none"
  /\ Plain(k) \/ \E i \in Command : Used(k, i)
Repeats(k) ==
  /\ Starts(k, 2)
  /\ operations[k].policy # "effectful" /\ operations'[k].policy # "effectful"
  /\ operations[k].outcome # "none"
  /\ interactions' = interactions
\* An attempt ends.
Ends(k, n, outcome) ==
  /\ Reports(remote[k][n], outcome)
  /\ operations[k].outcome = "dispatching" /\ attempts[k][n] = "dispatching"
  /\ operations'[k].policy = operations[k].policy /\ operations'[k].outcome = outcome
  /\ attempts'[k][n] = outcome /\ OtherAttempt(k, n)
  /\ \A x \in Call : x # k => operations'[x] = operations[x] /\ attempts'[x] = attempts[x]
  /\ remote' = remote /\ interactions' = interactions

Kind ==
  \/ Quiet
  \/ \E R \in SUBSET Command : Drops(R)
  \/ \E i \in Command : Asks(i) \/ Gives(i) \/ Takes(i)
  \/ \E k \in Call : Begins(k) \/ Repeats(k)
  \/ \E k \in Call, n \in 1..2, outcome \in DOMAIN ToolEvent : Ends(k, n, outcome)
  \/ \E k \in Call, n \in 1..2 : Tool(k, n)

\* expireInteractions gives no verdict, and takes none.
LEMMA ExpiryKeeps ==
  ASSUME TypeOK, MarkersConsistent, interactions' = expireInteractions
  PROVE  Keeps
<1> SUFFICES ASSUME NEW i \in Command PROVE SameRuling(i)
  BY Zenon DEF Keeps
<1>0. interactions[i] \in InteractionRow /\ "" \in Marker
  BY Zenon DEF TypeOK, Marker
<1>1. CASE i \in Overdue
  <2>1. interactions'[i] = Expired(interactions[i])
    BY <1>1, Zenon DEF expireInteractions
  <2>2. interactions'[i].marker \notin Verdicts
    BY <1>0, <2>1, ExpiredRow, Zenon DEF Verdicts
  <2>3. interactions[i].marker \notin Verdicts
    BY <1>1, Zenon DEF Overdue, MarkersConsistent, Verdicts
  <2>4. SameAsked(i)
    BY <1>0, <2>1, SameQuestion, Zenon DEF SameAsked
  <2> QED BY <2>2, <2>3, <2>4, Zenon DEF SameRuling
<1>2. CASE i \notin Overdue
  BY <1>2, Zenon DEF expireInteractions, SameRuling, SameAsked
<1> QED BY <1>1, <1>2, Zenon

\* What clients and claiming replicas do.
LEMMA ClientKinds ==
  ASSUME IInv, WInv, NEW c \in Command, NEW p \in Replica, Client(c, p)
  PROVE  Kind
<1> TypeOK /\ MarkersConsistent /\ Written
  BY Zenon DEF IInv, Lifecycle, Approvals, WInv
<1>0. ASSUME UNCHANGED <<operations, attempts, remote, interactions>>
      PROVE  Kind
  BY <1>0, Zenon DEF Kind, Quiet, Unmoved, Keeps, SameRuling, SameAsked
<1>1. CASE Submit(c, p)
  <2>1. interactions' = expireInteractions /\ markOperationsUnknown(Lost) /\ remote' = remote
    BY <1>1, Zenon DEF Submit, Admit
  <2>2. Lost \in SUBSET Command
    BY Zenon DEF Lost
  <2> QED BY <2>1, <2>2, ExpiryKeeps, Zenon DEF Kind, Drops
<1>2. ASSUME NEW i \in Command, NEW approve \in BOOLEAN, SubmitReply(c, p, i, approve)
      PROVE  Kind
  <2>0. remote' = remote
    BY <1>2, Zenon DEF SubmitReply
  <2>1. CASE ReplyTooLate(c, i)
    BY <2>0, <2>1, ExpiryKeeps, Zenon DEF ReplyTooLate, Kind, Quiet, Unmoved
  <2>2. CASE ReplyInTime(c, i, approve)
    <3> DEFINE approved == approve /\ interactions[i].kind = "approval"
               now == Consumed(interactions[i], c, approved)
    <3>1. approved \in BOOLEAN /\ interactions[i] \in InteractionRow /\ "" \in Marker
      BY Zenon DEF TypeOK, Marker
    <3>2. /\ interactions' = [interactions EXCEPT ![i] = now]
          /\ interactions[i].state = "pending"
          /\ UNCHANGED <<operations, attempts>>
      BY <2>2, Zenon DEF ReplyInTime
    <3>3. now.call = interactions[i].call /\ now.marker \in {"", "decided", "denied"}
          /\ (now.marker = "decided" => interactions[i].kind = "approval")
      BY <3>1, ConsumedRow, SameQuestion, ZenonT(30)
    <3> HIDE DEF now
    <3>4. interactions'[i] = now /\ Others(i) /\ SameAsked(i)
      BY <3>2, <3>3, Zenon DEF TypeOK, Others, SameAsked
    <3>5. interactions[i].marker \notin Verdicts
      BY <3>2, Zenon DEF MarkersConsistent, Verdicts
    <3>6. CASE now.marker = "decided"
      <4>1. interactions[i].call \in Call
        BY <3>3, <3>6, Zenon DEF Written
      <4>2. Gives(i)
        BY <2>0, <3>2, <3>4, <3>5, <3>6, <4>1, Zenon DEF Gives, Rules, Unmoved
      <4> QED BY <4>2, Zenon DEF Kind
    <3>7. CASE now.marker # "decided"
      <4>1. now.marker \notin Verdicts
        BY <3>3, <3>7, Zenon DEF Verdicts
      <4>2. Keeps
        BY <3>4, <3>5, <4>1, Zenon DEF Keeps, SameRuling, SameAsked, Others
      <4> QED BY <2>0, <3>2, <4>2, Zenon DEF Kind, Quiet, Unmoved
    <3> QED BY <3>6, <3>7, Zenon
  <2> QED BY <1>2, <2>1, <2>2, Zenon DEF SubmitReply
<1>3. CASE Resubmit(c, p) \/ Abandon(c, p) \/ StartWorker(c, p)
  BY <1>0, <1>3, Zenon DEF Resubmit, Abandon, StartWorker, Claim, vars
<1> QED BY <1>1, <1>2, <1>3, Zenon DEF Client

\* What the reaper and the clock do.
LEMMA ServerKinds ==
  ASSUME IInv, NEW c \in Command, Server(c)
  PROVE  Kind
<1> TypeOK /\ MarkersConsistent
  BY Zenon DEF IInv, Lifecycle, Approvals
<1>1. CASE Reaper(c)
  <2>1. /\ interactions' = expireInteractions
        /\ markOperationsUnknown({c} \cap Lost)
        /\ remote' = remote
    BY <1>1, Zenon DEF Reaper, Reap
  <2>2. {c} \cap Lost \in SUBSET Command
    BY Zenon
  <2> QED BY <2>1, <2>2, ExpiryKeeps, Zenon DEF Kind, Drops
<1>2. CASE Clock(c)
  <2>0. UNCHANGED <<operations, attempts, remote>>
    BY <1>2, Zenon DEF Clock, LeaseTick, InteractionTimeout, wvars
  <2>1. interactions[c] \in InteractionRow
    BY Zenon DEF TypeOK
  <2>2. \/ interactions' = interactions
        \/ interactions' = [interactions EXCEPT ![c] = TimedOut(interactions[c])]
    BY <1>2, Zenon DEF Clock, LeaseTick, InteractionTimeout
  <2>3. \A x \in Command : \/ interactions'[x] = interactions[x]
                           \/ x = c /\ interactions'[x] = TimedOut(interactions[x])
    BY <2>2, Zenon DEF TypeOK
  <2>4. Keeps
    BY <2>1, <2>3, TimedOutRow DEF Keeps, SameRuling, SameAsked
  <2> QED BY <2>0, <2>4, Zenon DEF Kind, Quiet, Unmoved
<1> QED BY <1>1, <1>2, Zenon DEF Server

\* The wait a running run starts.
LEMMA WaitAsks ==
  ASSUME IInv, NEW o \in Owner, NEW kind \in {"approval", "clarification"},
         NEW k \in Call \cup {None}, NEW j \in Journey \cup {None}, NEW s \in Shape \cup {None},
         Wait(o, kind, k, j, s), k = None \/ Fresh(k), remote' = remote
  PROVE  Kind
<1> TypeOK /\ o.run \in Command
  BY Zenon DEF IInv, Lifecycle, Owner
<1>1. Others(o.run) /\ interactions'[o.run].marker \in {"", "requested"}
  BY WaitRow, Zenon DEF Others
<1>2. interactions'[o.run].call = k
  BY Zenon DEF Wait, TypeOK
<1>3. interactions[o.run] = NoInteraction
  BY Zenon DEF Wait, lockOwner, IInv, Lifecycle, RunsConsistent, Live
<1>4. interactions[o.run].marker \notin Verdicts /\ interactions'[o.run].marker \notin Verdicts
  BY <1>1, <1>3, BlankRows, Zenon DEF Verdicts
<1>5. Unmoved
  BY Zenon DEF Wait, Unmoved
<1>6. Asks(o.run)
  BY <1>1, <1>2, <1>4, <1>5, Zenon DEF Asks
<1> QED BY <1>6, Zenon DEF Kind

\* An owner's mark on a decided approval.
LEMMA MarkedRuling ==
  ASSUME IInv, WInv, NEW r \in Command, NEW i \in Command, Decided(r, i),
         NEW m \in {"dispatched", "superseded"},
         interactions' = [interactions EXCEPT ![i] = Marked(@, m)]
  PROVE  /\ Others(i) /\ SameAsked(i)
         /\ interactions[i].call \in Call
         /\ interactions[i].marker = "decided" /\ interactions'[i].marker = m
<1> TypeOK /\ Written
  BY Zenon DEF IInv, Lifecycle, WInv
<1>1. interactions[i].call \in Call
  BY Zenon DEF Decided, Written
<1>2. interactions[i] \in InteractionRow /\ m \in Marker
  BY Zenon DEF TypeOK, Marker
<1>3. interactions'[i] = Marked(interactions[i], m) /\ Others(i)
  BY Zenon DEF TypeOK, Others
<1> QED BY <1>1, <1>2, <1>3, MarkedRow DEF SameAsked, Decided

\* The first attempt of a call.
LEMMA InsertStarts ==
  ASSUME TypeOK, NEW o \in Owner, NEW k \in Call, NEW policy \in Policy,
         NEW approval \in BOOLEAN, NEW j \in Journey, NEW s \in Shape,
         Insert(o, k, policy, approval, BindCall(o.run, j, s)),
         remote' = [remote EXCEPT ![k][1] = "sent"]
  PROVE  Starts(k, 1) /\ operations'[k].policy = policy /\ operations[k].outcome = "none"
<1>1. BindCall(o.run, j, s) \in Binding
  BY BindCallType, Zenon DEF Owner
<1>2. operations[k].outcome = "none"
  BY Zenon DEF Insert
<1>3. /\ attempts'[k][2] = attempts[k][2]
      /\ \A x \in Call : x # k => operations'[x] = operations[x] /\ attempts'[x] = attempts[x]
      /\ operations'[k].outcome = "dispatching" /\ operations'[k].policy = policy
      /\ attempts'[k][1] = "dispatching"
  BY <1>1, InsertRow
<1>4. OtherAttempt(k, 1)
  BY <1>3 DEF OtherAttempt
<1> QED BY <1>2, <1>3, <1>4, Zenon DEF Starts

\* A report on the attempt at hand.
LEMMA ReportedCall ==
  ASSUME TypeOK, NEW k \in Call, NEW n \in 1..2, NEW outcome \in Outcome,
         operations' = [operations EXCEPT ![k] = Reported(@, outcome)],
         attempts' = [attempts EXCEPT ![k][n] = outcome]
  PROVE  /\ operations'[k].policy = operations[k].policy /\ operations'[k].outcome = outcome
         /\ attempts'[k][n] = outcome /\ OtherAttempt(k, n)
         /\ \A x \in Call : x # k => operations'[x] = operations[x] /\ attempts'[x] = attempts[x]
<1>1. operations[k] \in OperationRow /\ attempts[k] \in [1..2 -> Outcome]
  BY Zenon DEF TypeOK
<1>2. operations'[k] = Reported(operations[k], outcome)
      /\ \A x \in Call : x # k => operations'[x] = operations[x]
  BY Zenon DEF TypeOK
<1>3. attempts'[k] = [attempts[k] EXCEPT ![n] = outcome]
      /\ \A x \in Call : x # k => attempts'[x] = attempts[x]
  BY Zenon DEF TypeOK
<1>4. /\ Reported(operations[k], outcome).policy = operations[k].policy
      /\ Reported(operations[k], outcome).outcome = outcome
  BY <1>1, ReportedRow, ZenonT(30)
<1>5. operations'[k].policy = operations[k].policy /\ operations'[k].outcome = outcome
  BY <1>2, <1>4, Zenon
<1>6. attempts'[k][n] = outcome /\ OtherAttempt(k, n)
  BY <1>1, <1>3 DEF OtherAttempt
<1> QED BY <1>2, <1>3, <1>5, <1>6, Zenon

\* The tool's outcome ends the attempt at hand.
LEMMA AttemptEnds ==
  ASSUME TypeOK, NEW o, NEW k \in Call, NEW n \in 1..2, NEW outcome \in DOMAIN ToolEvent,
         Reports(remote[k][n], outcome), EndAttempt(o, k, n, outcome), remote' = remote
  PROVE  Ends(k, n, outcome)
<1>1. outcome \in Outcome
  BY Zenon DEF ToolEvent, Outcome
<1>2. /\ operations[k].outcome = "dispatching" /\ attempts[k][n] = "dispatching"
      /\ operations' = [operations EXCEPT ![k] = Reported(@, outcome)]
      /\ attempts' = [attempts EXCEPT ![k][n] = outcome]
      /\ interactions' = interactions
  BY Zenon DEF EndAttempt
<1>3. /\ operations'[k].policy = operations[k].policy /\ operations'[k].outcome = outcome
      /\ attempts'[k][n] = outcome /\ OtherAttempt(k, n)
      /\ \A x \in Call : x # k => operations'[x] = operations[x] /\ attempts'[x] = attempts[x]
  BY <1>1, <1>2, ReportedCall, Zenon
<1> QED BY <1>2, <1>3, Zenon DEF Ends

\* The second attempt of a call.
LEMMA RetryRepeats ==
  ASSUME TypeOK, NEW o, NEW k \in Call, NEW j, NEW s, BeginRetry(o, k, j, s),
         remote' = [remote EXCEPT ![k][2] = "sent"]
  PROVE  Repeats(k)
<1>1. "dispatching" \in Outcome /\ 2 \in 1..2
  BY DEF Outcome
<1>2. /\ operations[k].policy # "effectful" /\ operations[k].outcome # "none"
      /\ operations' = [operations EXCEPT ![k] = Reported(@, "dispatching")]
      /\ attempts' = [attempts EXCEPT ![k][2] = "dispatching"]
      /\ interactions' = interactions
  BY Zenon DEF BeginRetry
<1>3. /\ operations'[k].policy = operations[k].policy
      /\ operations'[k].outcome = "dispatching"
      /\ attempts'[k][2] = "dispatching" /\ OtherAttempt(k, 2)
      /\ \A x \in Call : x # k => operations'[x] = operations[x] /\ attempts'[x] = attempts[x]
  <2>1. PICK n \in 1..2, outcome \in Outcome : n = 2 /\ outcome = "dispatching"
    BY <1>1, Zenon
  <2>2. /\ operations' = [operations EXCEPT ![k] = Reported(@, outcome)]
        /\ attempts' = [attempts EXCEPT ![k][n] = outcome]
    BY <1>2, <2>1, Zenon
  <2>3. /\ operations'[k].policy = operations[k].policy /\ operations'[k].outcome = outcome
        /\ attempts'[k][n] = outcome /\ OtherAttempt(k, n)
        /\ \A x \in Call : x # k => operations'[x] = operations[x] /\ attempts'[x] = attempts[x]
    BY <2>2, ReportedCall, Zenon
  <2> QED BY <2>1, <2>3, Zenon
<1> QED BY <1>2, <1>3, Zenon DEF Repeats, Starts

\* What a worker does in one step.
LEMMA StepKinds ==
  ASSUME IInv, WInv, NEW o \in owners, Step(o)
  PROVE  Kind
<1> /\ TypeOK /\ MarkersConsistent /\ Written /\ Placed(o.run)
    /\ o \in Owner /\ o.run \in Command /\ {o.run} \in SUBSET Command
  BY Zenon DEF IInv, Lifecycle, Approvals, TypeOK, Owner, WInv
<1> DEFINE w == workers[o.run]
           i == commands[o.run].reply
<1>0. ASSUME UNCHANGED <<operations, attempts, remote, interactions>>
      PROVE  Kind
  BY <1>0, ZenonT(30) DEF Kind, Quiet, Unmoved, Keeps, SameRuling, SameAsked
<1>1. CASE \/ Open(o) \/ Invoke(o) \/ Respond(o) \/ AnswerLocally(o) \/ AskSteered(o)
           \/ AskAgainSteered(o) \/ Stumble(o) \/ FollowUp(o)
  BY <1>0, <1>1, ZenonT(30)
      DEF Open, Invoke, Respond, AnswerLocally, AskSteered, AskAgainSteered, Stumble,
                    FollowUp, vars
<1>2. CASE Scope(o) \/ Bind(o) \/ StartRun(o) \/ OnDispatch(o) \/ FinishCompleted(o)
  BY <1>0, <1>2, Zenon
      DEF Scope, RecordRunScope, Bind, ResolveDefinition, StartRun, Start, OnDispatch,
                    Included, FinishCompleted, Complete, vars
<1>3. CASE CallTool(o)
  <2>1. PICK k \in Call, j \in Journey, s \in Shape :
          Fresh(k) /\ BeginUnapproved(o, k, j, s) /\ Send(o, k, 1, w)
    BY <1>3, Zenon DEF CallTool
  <2>2. remote' = [remote EXCEPT ![k][1] = "sent"]
    BY <2>1, Zenon DEF Send
  <2>3. Starts(k, 1) /\ operations'[k].policy = "read_only" /\ operations[k].outcome = "none"
    BY <2>1, <2>2, InsertStarts, Zenon DEF BeginUnapproved, Policy
  <2>4. Plain(k)
    BY <2>1, <2>3, Zenon DEF Plain, BeginUnapproved, Fresh
  <2> QED BY <2>3, <2>4, Zenon DEF Kind, Begins
<1>4. CASE Ask(o)
  <2>1. remote' = remote
    BY <1>4, Zenon DEF Ask, Checkpointed
  <2> QED BY <1>4, <2>1, WaitAsks, Zenon DEF Ask
<1>5. CASE AskAgain(o)
  <2>1. i \in Command
    BY <1>5, Zenon DEF AskAgain, At, Placed
  <2>2. PICK k \in Call, s \in Shape :
          Fresh(k) /\ Wait(o, "approval", k, interactions[i].journey, s)
    BY <1>5, Zenon DEF AskAgain
  <2>3. interactions[i].journey \in Journey \cup {None}
    BY <2>1, Zenon DEF TypeOK, InteractionRow
  <2>4. remote' = remote
    BY <1>5, Zenon DEF AskAgain, Checkpointed
  <2> QED BY <2>2, <2>3, <2>4, WaitAsks, Zenon
<1>6. CASE ApprovedVanished(o) \/ ApprovedChanged(o)
  <2>1. i \in Command /\ Supersede(o, i) /\ remote' = remote
    BY <1>6, ZenonT(30) DEF ApprovedVanished, ApprovedChanged, At, Placed
  <2>2. Takes(i)
    BY <2>1, MarkedRuling, ZenonT(30) DEF Supersede, Takes, Rules, Unmoved
  <2> QED BY <2>1, <2>2, Zenon DEF Kind
<1>7. CASE CallApproved(o)
  <2> DEFINE b == interactions[i].binding
             k == interactions[i].call
             j == interactions[i].journey
  <2>1. i \in Command /\ b = BindCall(o.run, j, b[4]) /\ Send(o, k, 1, w)
    BY <1>7, Zenon DEF CallApproved, At, Placed
  <2>2. PICK policy \in Policy : BeginApproved(o, k, policy, i, j, b[4])
    BY <1>7, ZenonT(30) DEF CallApproved
  <2>3. /\ Decided(o.run, i)
        /\ Insert(o, k, policy, TRUE, BindCall(o.run, j, b[4]))
        /\ interactions' = [interactions EXCEPT ![i] = Marked(@, "dispatched")]
    BY <2>1, <2>2, ZenonT(30) DEF BeginApproved
  <2>4. k \in Call /\ j \in Journey /\ b[4] \in Shape
    BY <2>1, <2>3, ZenonT(30) DEF Decided, Written
  <2>5. remote' = [remote EXCEPT ![k][1] = "sent"]
    BY <2>1, ZenonT(30) DEF Send
  <2>6. Used(k, i)
    BY <2>1, <2>3, MarkedRuling, Zenon DEF Used
  <2> HIDE DEF b, k, j
  <2>7. Starts(k, 1) /\ operations[k].outcome = "none"
    BY <2>3, <2>4, <2>5, InsertStarts, ZenonT(30)
  <2> QED BY <2>1, <2>4, <2>6, <2>7, Zenon DEF Kind, Begins
<1>8. CASE Return(o)
  <2>1. w.call \in Call /\ w.attempt \in 1..2 /\ remote' = remote
    BY <1>8, ZenonT(30) DEF Return, At, Placed
  <2>2. PICK outcome \in DOMAIN ToolEvent :
          Reports(remote[w.call][w.attempt], outcome) /\ EndAttempt(o, w.call, w.attempt, outcome)
    BY <1>8, Zenon DEF Return
  <2>3. Ends(w.call, w.attempt, outcome)
    BY <2>1, <2>2, AttemptEnds, ZenonT(30)
  <2> QED BY <2>1, <2>3, Zenon DEF Kind
<1>9. CASE Repeat(o)
  <2> DEFINE b == operations[w.call].binding
  <2>1. /\ w.call \in Call /\ BeginRetry(o, w.call, b[3], b[4])
        /\ remote' = [remote EXCEPT ![w.call][2] = "sent"]
    BY <1>9, Zenon DEF Repeat, At, Placed, Send
  <2>2. Repeats(w.call)
    BY <2>1, RetryRepeats, Zenon
  <2> QED BY <2>1, <2>2, Zenon DEF Kind
<1>10. CASE FinishFailed(o)
  <2>1. markOperationsUnknown({o.run}) /\ remote' = remote /\ interactions' = interactions
    BY <1>10, Zenon DEF FinishFailed, Fail
  <2>2. Drops({o.run})
    BY <2>1, Zenon DEF Drops, Keeps, SameRuling, SameAsked
  <2> QED BY <2>2, ZenonT(30) DEF Kind
<1> QED BY <1>1, <1>2, <1>3, <1>4, <1>5, <1>6, <1>7, <1>8, <1>9, <1>10, Zenon DEF Step

\* Every step of the program is of one of the kinds.
LEMMA StepIsKind ==
  ASSUME IInv, WInv, [WNext]_allvars
  PROVE  Kind
<1>0. ASSUME UNCHANGED <<operations, attempts, remote, interactions>>
      PROVE  Kind
  BY <1>0, Zenon DEF Kind, Quiet, Unmoved, Keeps, SameRuling, SameAsked
<1>1. CASE UNCHANGED allvars
  BY <1>0, <1>1, Zenon DEF allvars, vars, wvars
<1>2. ASSUME NEW k \in Call, NEW n \in 1..2, Tool(k, n)
      PROVE  Kind
  BY <1>2, Zenon DEF Kind
<1>3. ASSUME NEW o \in owners, Heartbeat(o) \/ Lose(o)
      PROVE  Kind
  BY <1>0, <1>3, Zenon DEF Heartbeat, Renew, Lose, vars, wvars
<1> QED BY <1>1, <1>2, <1>3, ClientKinds, ServerKinds, StepKinds, Zenon DEF WNext

----------------------------------------------------------------------------
(* Every kind of step keeps the strengthened invariant.                    *)

\* The attempts of a call that were executed, when the second one was not.
LEMMA ExecutedAttempts ==
  ASSUME NEW row, row[2] # "executed"
  PROVE  /\ row[1] # "executed" => {n \in 1..2 : row[n] = "executed"} = {}
         /\ row[1] = "executed" => {n \in 1..2 : row[n] = "executed"} = {1}
OBVIOUS

\* One request is sent or answered.
LEMMA RemoteRow ==
  ASSUME remote \in [Call -> [1..2 -> Remote]], NEW k \in Call, NEW n \in 1..2, NEW v \in Remote,
         remote' = [remote EXCEPT ![k][n] = v]
  PROVE  /\ remote' \in [Call -> [1..2 -> Remote]]
         /\ remote'[k][n] = v
         /\ \A m \in 1..2 : m # n => remote'[k][m] = remote[k][m]
         /\ \A x \in Call : x # k => remote'[x] = remote[x]
<1>1. remote[k] \in [1..2 -> Remote]
  BY Zenon
<1>2. remote' = [remote EXCEPT ![k] = [remote[k] EXCEPT ![n] = v]]
  BY Zenon
<1>3. [remote[k] EXCEPT ![n] = v] \in [1..2 -> Remote]
  BY <1>1, Zenon
<1>4. remote'[k] = [remote[k] EXCEPT ![n] = v] /\ \A x \in Call : x # k => remote'[x] = remote[x]
  BY <1>2, Zenon
<1> QED BY <1>1, <1>2, <1>3, <1>4, ZenonT(30)

\* Calls and waits after a step that asks about no call and uses no approval.
LEMMA KeepsAsked ==
  ASSUME TypeOK, AskedOnce, Keeps,
         \A k \in Call : operations[k].outcome = "none" => operations'[k].outcome = "none"
  PROVE  AskedOnce'
<1> SUFFICES ASSUME NEW i \in Command, interactions'[i].call # None
             PROVE  /\ \A x \in Command : interactions'[x].call = interactions'[i].call => x = i
                    /\ operations'[interactions'[i].call].outcome # "none" =>
                         interactions'[i].marker = "dispatched"
  BY Zenon DEF AskedOnce
<1>1. \A x \in Command : interactions'[x].call = interactions[x].call
  BY Zenon DEF Keeps, SameRuling, SameAsked
<1>2. interactions[i].call \in Call
  BY <1>1, Zenon DEF TypeOK, InteractionRow
<1>3. interactions[i].marker = "dispatched" => interactions'[i].marker = "dispatched"
  BY Zenon DEF Keeps, SameRuling, Verdicts
<1> QED BY <1>1, <1>2, <1>3, Zenon DEF AskedOnce

\* A run asks about a call that nobody has asked about or made.
LEMMA AsksAsked ==
  ASSUME TypeOK, AskedOnce, NEW r \in Command, Asks(r)
  PROVE  AskedOnce'
<1> SUFFICES ASSUME NEW i \in Command, interactions'[i].call # None
             PROVE  /\ \A x \in Command : interactions'[x].call = interactions'[i].call => x = i
                    /\ operations'[interactions'[i].call].outcome # "none" =>
                         interactions'[i].marker = "dispatched"
  BY Zenon DEF AskedOnce
<1>1. operations' = operations /\ \A x \in Command : x # r => interactions'[x] = interactions[x]
  BY Zenon DEF Asks, Unmoved, Others
<1>2. interactions'[r].call # None => Fresh(interactions'[r].call)
  BY Zenon DEF Asks
<1>3. CASE i = r
  BY <1>1, <1>2, <1>3, Zenon DEF Fresh
<1>4. CASE i # r
  <2>1. interactions'[r].call # interactions[i].call
    BY <1>1, <1>2, <1>4, Zenon DEF Fresh
  <2> QED BY <1>1, <1>4, <2>1, Zenon DEF AskedOnce
<1> QED BY <1>3, <1>4, Zenon

\* A verdict on wait i, which the calls that have gone out do not depend on.
LEMMA RulesAsked ==
  ASSUME TypeOK, AskedOnce, NEW i \in Command, Gives(i) \/ Takes(i)
  PROVE  AskedOnce'
<1>1. /\ operations' = operations /\ SameAsked(i) /\ interactions[i].call \in Call
      /\ interactions[i].marker # "dispatched"
      /\ \A x \in Command : x # i => interactions'[x] = interactions[x]
  BY Zenon DEF Gives, Takes, Rules, Unmoved, Others, Verdicts
<1>2. interactions[i].call # None
  BY <1>1, NoneAssumption, Zenon
<1>3. \A x \in Command : interactions'[x].call = interactions[x].call
  BY <1>1, Zenon DEF SameAsked
<1>4. operations[interactions[i].call].outcome = "none"
  BY <1>1, <1>2, Zenon DEF AskedOnce
<1> QED BY <1>1, <1>3, <1>4 DEF AskedOnce

\* A call goes out: nobody was asked about it, or its approval is used.
LEMMA BeginsAsked ==
  ASSUME TypeOK, AskedOnce, NEW k \in Call, Begins(k)
  PROVE  AskedOnce'
<1> SUFFICES ASSUME NEW i \in Command, interactions'[i].call # None
             PROVE  /\ \A x \in Command : interactions'[x].call = interactions'[i].call => x = i
                    /\ operations'[interactions'[i].call].outcome # "none" =>
                         interactions'[i].marker = "dispatched"
  BY Zenon DEF AskedOnce
<1>0. \A x \in Call : x # k => operations'[x] = operations[x]
  BY Zenon DEF Begins, Starts
<1>1. CASE Plain(k)
  BY <1>0, <1>1 DEF Plain, AskedOnce, TypeOK, InteractionRow
<1>2. ASSUME NEW u \in Command, Used(k, u)
      PROVE  /\ \A x \in Command : interactions'[x].call = interactions'[i].call => x = i
             /\ operations'[interactions'[i].call].outcome # "none" =>
                  interactions'[i].marker = "dispatched"
  <2>1. \A x \in Command : interactions'[x].call = interactions[x].call
    BY <1>2, Zenon DEF Used, SameAsked, Others
  <2>2. interactions[i].call \in Call /\ k # None
    BY <2>1, NoneAssumption, Zenon DEF TypeOK, InteractionRow
  <2>3. CASE i = u
    BY <1>2, <2>1, <2>2, <2>3 DEF Used, AskedOnce
  <2>4. CASE i # u
    <3>1. interactions[i].call # k
      BY <1>2, <2>2, <2>4, Zenon DEF Used, AskedOnce
    <3>2. interactions'[i] = interactions[i]
      BY <1>2, <2>4, Zenon DEF Used, Others
    <3> QED BY <1>0, <2>1, <2>2, <3>1, <3>2 DEF AskedOnce
  <2> QED BY <2>3, <2>4, Zenon
<1> QED BY <1>1, <1>2, Zenon DEF Begins

\* An attempt begins whose slot was free.
LEMMA StartsTrue ==
  ASSUME TypeOK, RecordedTruly, remote \in [Call -> [1..2 -> Remote]], NEW k \in Call,
         NEW n \in 1..2, Starts(k, n)
  PROVE  RecordedTruly' /\ remote' \in [Call -> [1..2 -> Remote]]
<1>1. "sent" \in Remote
  BY Zenon DEF Remote
<1>2. /\ remote' \in [Call -> [1..2 -> Remote]]
      /\ \A m \in 1..2 : m # n => remote'[k][m] = remote[k][m]
      /\ \A x \in Call : x # k => remote'[x] = remote[x]
  BY <1>1, RemoteRow DEF Starts
<1>3. ASSUME NEW x \in Call, NEW m \in 1..2
      PROVE  \/ attempts'[x][m] = attempts[x][m] /\ remote'[x][m] = remote[x][m]
             \/ attempts'[x][m] = "dispatching"
  <2>1. CASE x # k
    BY <1>2, <2>1, Zenon DEF Starts
  <2>2. CASE x = k /\ m = n
    BY <2>2, Zenon DEF Starts
  <2>3. CASE x = k /\ m # n
    BY <1>2, <2>3, Zenon DEF Starts, OtherAttempt
  <2> QED BY <2>1, <2>2, <2>3, Zenon
<1>4. RecordedTruly'
  BY <1>3 DEF RecordedTruly
<1> QED BY <1>2, <1>4, Zenon

\* The outcome that is recorded is what the tool server did.
LEMMA EndsTrue ==
  ASSUME TypeOK, RecordedTruly, NEW k \in Call, NEW n \in 1..2, NEW outcome \in DOMAIN ToolEvent,
         Ends(k, n, outcome)
  PROVE  RecordedTruly'
<1>1. outcome \in {"completed", "rejected", "auth_required", "outcome_unknown"}
  BY Zenon DEF ToolEvent
<1>2. remote' = remote /\ attempts'[k][n] = outcome
  BY Zenon DEF Ends
<1>3. /\ outcome = "completed" => remote[k][n] = "executed"
      /\ outcome \in {"rejected", "auth_required"} => remote[k][n] = "refused"
  BY <1>1, Zenon DEF Ends, Reports
<1>4. ASSUME NEW x \in Call, NEW m \in 1..2, ~(x = k /\ m = n)
      PROVE  attempts'[x][m] = attempts[x][m]
  <2>1. CASE x # k
    BY <2>1, Zenon DEF Ends
  <2>2. CASE x = k /\ m # n
    BY <2>2, Zenon DEF Ends, OtherAttempt
  <2> QED BY <1>4, <2>1, <2>2, Zenon
<1>5. ASSUME NEW x \in Call, NEW m \in 1..2
      PROVE  /\ attempts'[x][m] = "none" => remote[x][m] = "none"
             /\ attempts'[x][m] = "completed" => remote[x][m] = "executed"
             /\ attempts'[x][m] \in {"rejected", "auth_required"} => remote[x][m] = "refused"
  <2>1. CASE x = k /\ m = n
    BY <1>1, <1>2, <1>3, <2>1, Zenon
  <2>2. CASE ~(x = k /\ m = n)
    BY <1>4, <2>2 DEF RecordedTruly
  <2> QED BY <2>1, <2>2, Zenon
<1> QED BY <1>2, <1>5, Zenon DEF RecordedTruly

\* The tool server answers a request of which nothing definite is recorded.
LEMMA ToolTrue ==
  ASSUME TypeOK, RecordedTruly, remote \in [Call -> [1..2 -> Remote]], NEW k \in Call,
         NEW n \in 1..2, Tool(k, n)
  PROVE  RecordedTruly' /\ remote' \in [Call -> [1..2 -> Remote]]
<1>1. PICK v \in {"executed", "refused"} : remote' = [remote EXCEPT ![k][n] = v]
  BY Zenon DEF Tool
<1>2. v \in Remote
  BY Zenon DEF Remote
<1>3. /\ remote' \in [Call -> [1..2 -> Remote]]
      /\ \A m \in 1..2 : m # n => remote'[k][m] = remote[k][m]
      /\ \A x \in Call : x # k => remote'[x] = remote[x]
  BY <1>1, <1>2, RemoteRow
<1>4. attempts' = attempts /\ remote[k][n] = "sent"
  BY Zenon DEF Tool, vars
<1>5. attempts[k][n] \notin {"none", "completed", "rejected", "auth_required"}
  BY <1>4, Zenon DEF RecordedTruly
<1>6. ASSUME NEW x \in Call, NEW m \in 1..2
      PROVE  \/ remote'[x][m] = remote[x][m]
             \/ attempts[x][m] \notin {"none", "completed", "rejected", "auth_required"}
  BY <1>3, <1>5, Zenon
<1>7. RecordedTruly'
  BY <1>4, <1>6 DEF RecordedTruly
<1> QED BY <1>3, <1>7, Zenon

\* Marking a call unknown says nothing about it.
LEMMA DropsTrue ==
  ASSUME TypeOK, RecordedTruly, NEW R \in SUBSET Command, Drops(R)
  PROVE  /\ RecordedTruly'
         /\ \A k \in Call : operations[k].outcome = "none" => operations'[k].outcome = "none"
<1>1. markOperationsUnknown(R) /\ remote' = remote
  BY Zenon DEF Drops
<1>2. \A k \in Call, n \in 1..2 : attempts'[k][n] \in {attempts[k][n], "outcome_unknown"}
  BY <1>1, UnknownRows, Zenon
<1>3. \A k \in Call : operations[k].outcome = "none" => operations'[k].outcome = "none"
  BY <1>1, UnknownRows, Zenon DEF Dispatching
<1>4. ASSUME NEW k \in Call, NEW n \in 1..2
      PROVE  /\ attempts'[k][n] = "none" => remote'[k][n] = "none"
             /\ attempts'[k][n] = "completed" => remote'[k][n] = "executed"
             /\ attempts'[k][n] \in {"rejected", "auth_required"} => remote'[k][n] = "refused"
  <2>1. attempts'[k][n] \in {attempts[k][n], "outcome_unknown"} /\ remote'[k][n] = remote[k][n]
    BY <1>1, <1>2, Zenon
  <2> QED BY <2>1, Zenon DEF RecordedTruly
<1> QED BY <1>3, <1>4, Zenon DEF RecordedTruly

\* The strengthening is inductive.
LEMMA PromiseInvariantStep ==
  ASSUME IInv, PInv, Kind
  PROVE  PInv'
<1> TypeOK /\ AskedOnce /\ RecordedTruly /\ remote \in [Call -> [1..2 -> Remote]]
  BY Zenon DEF IInv, Lifecycle, PInv
<1>0. ASSUME Unmoved
      PROVE  RecordedTruly' /\ remote' \in [Call -> [1..2 -> Remote]]
  BY <1>0, Zenon DEF Unmoved, RecordedTruly
<1>1. CASE Quiet
  BY <1>0, <1>1, KeepsAsked, Zenon DEF Quiet, Unmoved, PInv
<1>2. ASSUME NEW R \in SUBSET Command, Drops(R)
      PROVE  PInv'
  BY <1>2, DropsTrue, KeepsAsked, Zenon DEF Drops, PInv
<1>3. ASSUME NEW i \in Command, Asks(i) \/ Gives(i) \/ Takes(i)
      PROVE  PInv'
  <2>1. Unmoved
    BY <1>3, Zenon DEF Asks, Gives, Takes, Rules
  <2>2. AskedOnce'
    BY <1>3, AsksAsked, RulesAsked, Zenon
  <2> QED BY <1>0, <2>1, <2>2, Zenon DEF PInv
<1>4. ASSUME NEW k \in Call, Begins(k)
      PROVE  PInv'
  BY <1>4, BeginsAsked, StartsTrue DEF Begins, PInv
<1>5. ASSUME NEW k \in Call, Repeats(k)
      PROVE  PInv'
  <2>1. Keeps
    BY <1>5, Zenon DEF Repeats, Keeps, SameRuling, SameAsked
  <2>2. \A x \in Call : operations[x].outcome = "none" => operations'[x].outcome = "none"
    BY <1>5, Zenon DEF Repeats, Starts
  <2> QED BY <1>5, <2>1, <2>2, KeepsAsked, StartsTrue DEF Repeats, PInv
<1>6. ASSUME NEW k \in Call, NEW n \in 1..2, NEW outcome \in DOMAIN ToolEvent, Ends(k, n, outcome)
      PROVE  PInv'
  <2>1. Keeps
    BY <1>6, Zenon DEF Ends, Keeps, SameRuling, SameAsked
  <2>2. \A x \in Call : operations[x].outcome = "none" => operations'[x].outcome = "none"
    BY <1>6, Zenon DEF Ends
  <2>3. RecordedTruly'
    BY <1>6, EndsTrue, Zenon
  <2> QED BY <1>6, <2>1, <2>2, <2>3, KeepsAsked, Zenon DEF Ends, PInv
<1>7. ASSUME NEW k \in Call, NEW n \in 1..2, Tool(k, n)
      PROVE  PInv'
  <2>1. Keeps /\ operations' = operations
    BY <1>7, Zenon DEF Tool, vars, Keeps, SameRuling, SameAsked
  <2> QED BY <1>7, <2>1, KeepsAsked, ToolTrue, Zenon DEF PInv
<1> QED BY <1>1, <1>2, <1>3, <1>4, <1>5, <1>6, <1>7, Zenon DEF Kind

----------------------------------------------------------------------------
(* Every kind of step is a step of ApprovedAction, or none.                *)

SameDecision(k) == Decision(k)' = Decision(k)
SameStory(k) == Effects(k)' = Effects(k) /\ Told(k)' = Told(k)

\* What each step of ApprovedAction takes, call by call.
LEMMA Stutters ==
  ASSUME \A k \in Call : SameDecision(k) /\ SameStory(k)
  PROVE  UNCHANGED Promise!avars
BY Zenon DEF Promise!avars, SameDecision, SameStory

\* Approve and Withdraw.
LEMMA Decides ==
  ASSUME NEW k \in Call, \A x \in Call : SameStory(x) /\ (x # k => SameDecision(x)),
         \/ Decision(k) = "none" /\ Decision(k)' = "approved"
         \/ /\ Decision(k) = "approved" /\ Decision(k)' = "withdrawn"
            /\ Effects(k) = 0 /\ Told(k) = "nothing"
  PROVE  Promise!ANext
<1>1. UNCHANGED <<[x \in Call |-> Effects(x)], [x \in Call |-> Told(x)]>>
  BY Zenon DEF SameStory
<1>2. [x \in Call |-> Decision(x)]' =
        [[x \in Call |-> Decision(x)] EXCEPT ![k] = Decision(k)']
  BY Zenon DEF SameDecision
<1>3. CASE Decision(k) = "none" /\ Decision(k)' = "approved"
  <2>1. Promise!Approve(k)
    BY <1>1, <1>2, <1>3, Zenon DEF Promise!Approve
  <2> QED BY <2>1, Zenon DEF Promise!ANext
<1>4. CASE /\ Decision(k) = "approved" /\ Decision(k)' = "withdrawn"
           /\ Effects(k) = 0 /\ Told(k) = "nothing"
  <2>1. Promise!Withdraw(k)
    BY <1>1, <1>2, <1>4, Zenon DEF Promise!Withdraw
  <2> QED BY <2>1, Zenon DEF Promise!ANext
<1> QED BY <1>3, <1>4, Zenon

\* Act.
LEMMA TakesEffect ==
  ASSUME NEW k \in Call, \A x \in Call : SameDecision(x) /\ (x # k => SameStory(x)),
         Told(k)' = Told(k), Told(k) \in {"nothing", "unknown"}, Decision(k) = "approved",
         Effects(k) = 0, Effects(k)' = 1
  PROVE  Promise!ANext
<1>1. UNCHANGED <<[x \in Call |-> Decision(x)], [x \in Call |-> Told(x)]>>
  BY Zenon DEF SameStory, SameDecision
<1>2. [x \in Call |-> Effects(x)]' = [[x \in Call |-> Effects(x)] EXCEPT ![k] = 1]
  BY Zenon DEF SameStory
<1>3. Promise!Act(k)
  BY <1>1, <1>2, Zenon DEF Promise!Act
<1> QED BY <1>3, Zenon DEF Promise!ANext

\* Tell.
LEMMA IsTold ==
  ASSUME NEW k \in Call, \A x \in Call : SameDecision(x) /\ (x # k => SameStory(x)),
         Effects(k)' = Effects(k), Told(k) = "nothing",
         \/ Told(k)' = "unknown"
         \/ Told(k)' = "done" /\ Effects(k) = 1
         \/ Told(k)' = "not done" /\ Effects(k) = 0
  PROVE  Promise!ANext
<1>1. UNCHANGED <<[x \in Call |-> Decision(x)], [x \in Call |-> Effects(x)]>>
  BY Zenon DEF SameStory, SameDecision
<1>2. [x \in Call |-> Told(x)]' = [[x \in Call |-> Told(x)] EXCEPT ![k] = Told(k)']
  BY Zenon DEF SameStory
<1>3. Promise!Tell(k)
  BY <1>1, <1>2, Zenon DEF Promise!Tell
<1> QED BY <1>3, Zenon DEF Promise!ANext

\* Steps that give no verdict change no decision.
LEMMA KeptDecision ==
  ASSUME NEW k \in Call,
         \A i \in Command : SameRuling(i) \/ ( /\ interactions[i].marker \notin Verdicts
                                              /\ interactions'[i].marker \notin Verdicts )
  PROVE  SameDecision(k)
<1>1. ASSUME NEW M \in SUBSET Verdicts
      PROVE  Ruled(k, M)' <=> Ruled(k, M)
  BY <1>1, Zenon DEF Ruled, SameRuling, SameAsked
<1>2. {"decided", "dispatched"} \in SUBSET Verdicts /\ {"superseded"} \in SUBSET Verdicts
  BY Zenon DEF Verdicts
<1> QED BY <1>1, <1>2, Zenon DEF SameDecision, Decision

\* A call whose rows stay as they are keeps its story.
LEMMA KeptStory ==
  ASSUME NEW k \in Call, operations'[k] = operations[k], remote'[k] = remote[k]
  PROVE  SameStory(k)
BY Zenon DEF SameStory, Effects, Told, Effectful

\* The sizes of the empty set and of a set of one element, as the library's theorems
\* on finite sets give them.
FewElements == Cardinality({}) = 0 /\ \A x : Cardinality({x}) = 1

\* The effects of a call with one attempt or none.
LEMMA CountedEffects ==
  ASSUME FewElements, NEW k \in Call
  PROVE  /\ ~Effectful(k) => Effects(k) = 0
         /\ remote[k][1] # "executed" /\ remote[k][2] # "executed" => Effects(k) = 0
         /\ Effectful(k) /\ remote[k][1] = "executed" /\ remote[k][2] # "executed" =>
              Effects(k) = 1
<1> DEFINE done == {n \in 1..2 : remote[k][n] = "executed"}
<1>1. ASSUME remote[k][1] # "executed", remote[k][2] # "executed"
      PROVE  Effects(k) = 0
  <2>1. done = {}
    BY <1>1
  <2>2. Cardinality(done) = 0
    BY <2>1, Zenon DEF FewElements
  <2> QED BY <2>2, Zenon DEF Effects
<1>2. ASSUME Effectful(k), remote[k][1] = "executed", remote[k][2] # "executed"
      PROVE  Effects(k) = 1
  <2>1. done = {1}
    BY <1>2
  <2>2. Cardinality(done) = 1
    BY <2>1, Zenon DEF FewElements
  <2> QED BY <1>2, <2>2, Zenon DEF Effects
<1>3. ~Effectful(k) => Effects(k) = 0
  BY Zenon DEF Effects
<1> QED BY <1>1, <1>2, <1>3, Zenon

\* A call that has not gone out; an effectful call has no second attempt.
LEMMA NotYetOut ==
  ASSUME IInv, PInv, NEW k \in Call
  PROVE  /\ operations[k].outcome = "none" =>
              remote[k][1] = "none" /\ remote[k][2] = "none"
         /\ Effectful(k) => remote[k][2] = "none" /\ operations[k].outcome = attempts[k][1]
                            /\ attempts[k][2] = "none"
<1> AttemptsAgree /\ RecordedTruly /\ TypeOK
  BY Zenon DEF IInv, Calls, PInv, Lifecycle
<1>1. 1 \in 1..2 /\ 2 \in 1..2
  OBVIOUS
<1>2. operations[k].outcome = "none" => attempts[k][1] = "none" /\ attempts[k][2] = "none"
  BY Zenon DEF AttemptsAgree
<1>3. Effectful(k) => attempts[k][2] = "none" /\ operations[k].outcome = attempts[k][1]
  BY Zenon DEF AttemptsAgree, Effectful
<1> QED BY <1>1, <1>2, <1>3, Zenon DEF RecordedTruly

\* Runs end: at most one call was in flight, and it is told to be unknown.
LEMMA DropsPromise ==
  ASSUME IInv, PInv, NEW R \in SUBSET Command, Drops(R)
  PROVE  [Promise!ANext]_Promise!avars
<1> TypeOK /\ OneUnresolved
  BY Zenon DEF IInv, Lifecycle, Calls
<1>1. markOperationsUnknown(R) /\ remote' = remote
  BY Zenon DEF Drops
<1>2. \A x \in Call : SameDecision(x)
  BY KeptDecision, Zenon DEF Drops, Keeps
<1>3. \A x \in Call : x \notin Dispatching(R) => SameStory(x)
  BY <1>1, UnknownRows, KeptStory, Zenon
<1>4. CASE Dispatching(R) = {}
  BY <1>2, <1>3, <1>4, Stutters, Zenon
<1>5. ASSUME NEW k \in Dispatching(R)
      PROVE  [Promise!ANext]_Promise!avars
  <2>1. k \in Call /\ operations[k].outcome = "dispatching"
    BY Zenon DEF Dispatching
  <2>2. \A x \in Call : x # k => x \notin Dispatching(R)
    BY <2>1, Zenon DEF Dispatching, OneUnresolved, Unresolved
  <2>3. operations'[k].outcome = "outcome_unknown" /\ operations'[k].policy = operations[k].policy
    BY <1>1, <1>5, <2>1, UnknownRows, Zenon
  <2>4. Effects(k)' = Effects(k) /\ Told(k) = "nothing"
    BY <1>1, <2>1, <2>3, Zenon DEF Effects, Told, Effectful
  <2>5. CASE Effectful(k)
    <3>1. Told(k)' = "unknown"
      BY <2>3, <2>5, Zenon DEF Told, Effectful
    <3> QED BY <1>2, <1>3, <2>1, <2>2, <2>4, <3>1, IsTold, Zenon
  <2>6. CASE ~Effectful(k)
    <3>1. SameStory(k)
      BY <2>3, <2>4, <2>6, Zenon DEF SameStory, Told, Effectful
    <3> QED BY <1>2, <1>3, <2>2, <3>1, Stutters, Zenon
  <2> QED BY <2>5, <2>6, Zenon
<1> QED BY <1>4, <1>5, Zenon

\* The user decides, or the approval is superseded.
LEMMA RulesPromise ==
  ASSUME FewElements, IInv, PInv, NEW i \in Command, Gives(i) \/ Takes(i)
  PROVE  Promise!ANext
<1> TypeOK /\ AskedOnce
  BY Zenon DEF IInv, Lifecycle, PInv
<1> DEFINE k == interactions[i].call
<1>1. /\ k \in Call /\ interactions'[i].call = k
      /\ UNCHANGED <<operations, remote>>
      /\ \A x \in Command : x # i => interactions'[x] = interactions[x]
      /\ interactions[i].marker # "dispatched"
  BY Zenon DEF Gives, Takes, Rules, Unmoved, Others, SameAsked, Verdicts
<1>2. k # None
  BY <1>1, NoneAssumption, Zenon
<1>3. \A x \in Command : interactions[x].call = k => x = i
  BY <1>2, Zenon DEF AskedOnce
<1>4. \A x \in Command : interactions'[x].call = k => x = i
  BY <1>1, <1>3, Zenon
<1>5. operations[k].outcome = "none"
  BY <1>1, <1>2, Zenon DEF AskedOnce
<1>6. \A x \in Call : SameStory(x)
  BY <1>1, KeptStory, Zenon
<1>7. ASSUME NEW x \in Call, x # k
      PROVE  SameDecision(x)
  <2>1. \A M : Ruled(x, M)' <=> Ruled(x, M)
    BY <1>1, <1>7, Zenon DEF Ruled
  <2> QED BY <2>1, Zenon DEF SameDecision, Decision
<1>8. \A M : Ruled(k, M) <=> interactions[i].marker \in M
  BY <1>3, Zenon DEF Ruled
<1>9. \A M : Ruled(k, M)' <=> interactions'[i].marker \in M
  BY <1>1, <1>4, Zenon DEF Ruled
<1>10. Effects(k) = 0 /\ Told(k) = "nothing"
  <2>1. remote[k][1] = "none" /\ remote[k][2] = "none"
    BY <1>1, <1>5, NotYetOut, Zenon
  <2> QED BY <1>1, <1>5, <2>1, CountedEffects, Zenon DEF Told
<1>11. CASE Gives(i)
  <2>1. interactions[i].marker \notin Verdicts /\ interactions'[i].marker = "decided"
    BY <1>11, Zenon DEF Gives, Rules
  <2>2. Decision(k) = "none" /\ Decision(k)' = "approved"
    BY <1>8, <1>9, <2>1, Zenon DEF Decision, Verdicts
  <2> QED BY <1>1, <1>6, <1>7, <2>2, Decides, Zenon
<1>12. CASE Takes(i)
  <2>1. interactions[i].marker = "decided" /\ interactions'[i].marker = "superseded"
    BY <1>12, Zenon DEF Takes, Rules
  <2>2. Decision(k) = "approved" /\ Decision(k)' = "withdrawn"
    BY <1>8, <1>9, <2>1, Zenon DEF Decision
  <2> QED BY <1>1, <1>6, <1>7, <1>10, <2>2, Decides, Zenon
<1> QED BY <1>11, <1>12, Zenon

\* A call goes out: nothing has happened yet.
LEMMA BeginsPromise ==
  ASSUME FewElements, IInv, PInv, NEW k \in Call, Begins(k)
  PROVE  UNCHANGED Promise!avars
<1> TypeOK /\ AskedOnce /\ remote \in [Call -> [1..2 -> Remote]]
  BY Zenon DEF IInv, Lifecycle, PInv
<1>1. /\ \A x \in Call : x # k => operations'[x] = operations[x]
      /\ operations[k].outcome = "none" /\ operations'[k].outcome = "dispatching"
      /\ remote' = [remote EXCEPT ![k][1] = "sent"]
  BY Zenon DEF Begins, Starts
<1>2. "sent" \in Remote /\ 1 \in 1..2 /\ 2 \in 1..2 /\ 2 # 1
  BY DEF Remote
<1>3. /\ remote'[k][1] = "sent" /\ remote'[k][2] = remote[k][2]
      /\ \A x \in Call : x # k => remote'[x] = remote[x]
  <2>1. /\ remote'[k][1] = "sent"
        /\ \A m \in 1..2 : m # 1 => remote'[k][m] = remote[k][m]
        /\ \A x \in Call : x # k => remote'[x] = remote[x]
    BY <1>1, <1>2, RemoteRow, ZenonT(30)
  <2> QED BY <1>2, <2>1, Zenon
<1>4. remote[k][1] = "none" /\ remote[k][2] = "none"
  BY <1>1, NotYetOut, Zenon
<1>5. Effects(k) = 0 /\ Told(k) = "nothing"
  BY <1>1, <1>4, CountedEffects, Zenon DEF Told
<1>6. Effects(k)' = 0
  <2>1. {n \in 1..2 : remote'[k][n] = "executed"} = {}
    BY <1>3, <1>4, ExecutedAttempts, Zenon
  <2>2. Cardinality({n \in 1..2 : remote'[k][n] = "executed"}) = 0
    BY <2>1, Zenon DEF FewElements
  <2> QED BY <2>2, Zenon DEF Effects
<1>7. Told(k)' = "nothing"
  BY <1>1, Zenon DEF Told
<1>8. \A x \in Call : SameStory(x)
  <2>1. SameStory(k)
    BY <1>5, <1>6, <1>7, Zenon DEF SameStory
  <2>2. \A x \in Call : x # k => SameStory(x)
    BY <1>1, <1>3, KeptStory, Zenon
  <2> QED BY <2>1, <2>2, Zenon
<1>9. ASSUME NEW x \in Call
      PROVE  SameDecision(x)
  <2>1. CASE Plain(k)
    BY <2>1, KeptDecision, Zenon DEF Plain, SameRuling, SameAsked
  <2>2. ASSUME NEW i \in Command, Used(k, i)
        PROVE  SameDecision(x)
    <3>1. /\ interactions'[i].call = interactions[i].call
          /\ interactions[i].marker = "decided" /\ interactions'[i].marker = "dispatched"
          /\ \A y \in Command : y # i => interactions'[y] = interactions[y]
      BY <2>2, Zenon DEF Used, SameAsked, Others
    <3>2. Ruled(x, {"decided", "dispatched"})' <=> Ruled(x, {"decided", "dispatched"})
      BY <3>1, Zenon DEF Ruled
    <3>3. Ruled(x, {"superseded"})' <=> Ruled(x, {"superseded"})
      BY <3>1, Zenon DEF Ruled
    <3> QED BY <3>2, <3>3, Zenon DEF SameDecision, Decision
  <2> QED BY <2>1, <2>2, Zenon DEF Begins
<1> QED BY <1>8, <1>9, Stutters, Zenon

\* A call that is repeated is not effectful.
LEMMA RepeatsPromise ==
  ASSUME IInv, PInv, NEW k \in Call, Repeats(k)
  PROVE  UNCHANGED Promise!avars
<1> TypeOK /\ remote \in [Call -> [1..2 -> Remote]]
  BY Zenon DEF IInv, Lifecycle, PInv
<1>1. "sent" \in Remote /\ 2 \in 1..2
  BY AttemptNumbers, Zenon DEF Remote
<1>2. \A x \in Call : x # k => operations'[x] = operations[x] /\ remote'[x] = remote[x]
  <2>1. remote' = [remote EXCEPT ![k][2] = "sent"]
    BY Zenon DEF Repeats, Starts
  <2>2. \A x \in Call : x # k => operations'[x] = operations[x]
    BY Zenon DEF Repeats, Starts
  <2> QED BY <1>1, <2>1, <2>2, RemoteRow, Zenon
<1>3. SameStory(k)
  BY Zenon DEF Repeats, SameStory, Effects, Told, Effectful
<1>4. \A x \in Call : SameDecision(x)
  BY KeptDecision, Zenon DEF Repeats, SameRuling, SameAsked
<1> QED BY <1>2, <1>3, <1>4, KeptStory, Stutters, Zenon

\* An attempt ends: what is told is what happened.
LEMMA EndsPromise ==
  ASSUME FewElements, IInv, PInv, NEW k \in Call, NEW n \in 1..2, NEW outcome \in DOMAIN ToolEvent,
         Ends(k, n, outcome)
  PROVE  [Promise!ANext]_Promise!avars
<1>1. /\ operations[k].outcome = "dispatching" /\ attempts[k][n] = "dispatching"
      /\ operations'[k].policy = operations[k].policy /\ operations'[k].outcome = outcome
      /\ \A x \in Call : x # k => operations'[x] = operations[x]
      /\ remote' = remote /\ interactions' = interactions
      /\ Reports(remote[k][n], outcome)
  BY Zenon DEF Ends
<1>2. outcome \in {"completed", "rejected", "auth_required", "outcome_unknown"}
  BY Zenon DEF ToolEvent
<1>3. \A x \in Call : SameDecision(x)
  BY <1>1, KeptDecision, Zenon DEF SameRuling, SameAsked
<1>4. \A x \in Call : x # k => SameStory(x)
  BY <1>1, KeptStory, Zenon
<1>5. Effects(k)' = Effects(k) /\ Told(k) = "nothing"
  BY <1>1, Zenon DEF Effects, Told, Effectful
<1>6. CASE ~Effectful(k)
  <2>1. SameStory(k)
    BY <1>1, <1>5, <1>6, Zenon DEF SameStory, Told, Effectful
  <2> QED BY <1>3, <1>4, <2>1, Stutters, Zenon
<1>7. CASE Effectful(k)
  <2>1. attempts[k][2] = "none" /\ remote[k][2] = "none"
    BY <1>7, NotYetOut, Zenon
  <2>2. n = 1
    <3>1. n = 1 \/ n = 2
      OBVIOUS
    <3>2. n # 2
      <4>1. attempts[k][n] = "dispatching" /\ attempts[k][2] # "dispatching"
        BY <1>1, <2>1, ZenonT(30)
      <4> QED BY <4>1, Zenon
    <3> QED BY <3>1, <3>2, Zenon
  <2>3. CASE outcome = "completed"
    <3>1. Effects(k) = 1
      BY <1>1, <1>7, <2>1, <2>2, <2>3, CountedEffects, Zenon DEF Reports
    <3>2. Told(k)' = "done"
      BY <1>1, <1>7, <2>3, Zenon DEF Told, Effectful
    <3> QED BY <1>3, <1>4, <1>5, <3>1, <3>2, IsTold, Zenon
  <2>4. CASE outcome = "outcome_unknown"
    <3>1. Told(k)' = "unknown"
      BY <1>1, <1>7, <2>4, Zenon DEF Told, Effectful
    <3> QED BY <1>3, <1>4, <1>5, <3>1, IsTold, Zenon
  <2>5. CASE outcome \in {"rejected", "auth_required"}
    <3>1. remote[k][1] = "refused"
      BY <1>1, <2>2, <2>5, Zenon DEF Reports
    <3>2. Effects(k) = 0
      BY <2>1, <3>1, CountedEffects, Zenon
    <3>3. Told(k)' = "not done"
      BY <1>1, <1>7, <2>5, Zenon DEF Told, Effectful
    <3> QED BY <1>3, <1>4, <1>5, <3>2, <3>3, IsTold, Zenon
  <2> QED BY <1>2, <2>3, <2>4, <2>5, Zenon
<1> QED BY <1>6, <1>7, Zenon

\* The tool server acts, perhaps after the run has given up on the call.
LEMMA ToolPromise ==
  ASSUME FewElements, IInv, PInv, NEW k \in Call, NEW n \in 1..2, Tool(k, n)
  PROVE  [Promise!ANext]_Promise!avars
<1> /\ TypeOK /\ NothingUnapproved /\ RecordedTruly
    /\ remote \in [Call -> [1..2 -> Remote]]
  BY Zenon DEF IInv, Lifecycle, Approvals, PInv
<1>1. PICK v \in {"executed", "refused"} : remote' = [remote EXCEPT ![k][n] = v]
  BY Zenon DEF Tool
<1>2. v \in Remote
  BY Zenon DEF Remote
<1>3. /\ remote'[k][n] = v
      /\ \A m \in 1..2 : m # n => remote'[k][m] = remote[k][m]
      /\ \A x \in Call : x # k => remote'[x] = remote[x]
  BY <1>1, <1>2, RemoteRow, ZenonT(30)
<1>4. remote[k][n] = "sent" /\ operations' = operations /\ interactions' = interactions
  BY Zenon DEF Tool, vars
<1>5. \A x \in Call : SameDecision(x)
  BY <1>4, KeptDecision, Zenon DEF SameRuling, SameAsked
<1>6. \A x \in Call : x # k => SameStory(x)
  BY <1>3, <1>4, KeptStory, Zenon
<1>7. Told(k)' = Told(k)
  BY <1>4, Zenon DEF Told, Effectful
<1>8. CASE ~Effectful(k)
  <2>1. SameStory(k)
    BY <1>4, <1>7, <1>8, Zenon DEF SameStory, Effects, Effectful
  <2> QED BY <1>5, <1>6, <2>1, Stutters, Zenon
<1>9. CASE Effectful(k)
  <2>1. remote[k][2] = "none" /\ operations[k].outcome = attempts[k][1]
    BY <1>9, NotYetOut, ZenonT(30)
  <2>2. n = 1 /\ 2 \in 1..2 /\ 2 # n
    <3>1. n # 2
      BY <1>4, <2>1, Zenon
    <3> QED BY <3>1
  <2>3. remote'[k][1] = v /\ remote'[k][2] = "none" /\ remote[k][1] = "sent"
    BY <1>3, <1>4, <2>1, <2>2, Zenon
  <2>4. Effects(k) = 0
    BY <2>1, <2>3, CountedEffects, Zenon
  <2>5. CASE v = "refused"
    <3>1. {m \in 1..2 : remote'[k][m] = "executed"} = {}
      BY <2>3, <2>5, ExecutedAttempts, Zenon
    <3>2. Cardinality({m \in 1..2 : remote'[k][m] = "executed"}) = 0
      BY <3>1, Zenon DEF FewElements
    <3>3. Effects(k)' = 0
      BY <3>2, Zenon DEF Effects
    <3> QED BY <1>5, <1>6, <1>7, <2>4, <3>3, Stutters, Zenon DEF SameStory
  <2>6. CASE v = "executed"
    <3>1. {m \in 1..2 : remote'[k][m] = "executed"} = {1}
      BY <2>3, <2>6, ExecutedAttempts, Zenon
    <3>2. Cardinality({m \in 1..2 : remote'[k][m] = "executed"}) = 1
      BY <3>1, Zenon DEF FewElements
    <3>3. Effects(k)' = 1
      BY <1>4, <1>9, <3>2, Zenon DEF Effects, Effectful
    <3>4. operations[k].outcome \in {"dispatching", "outcome_unknown"}
      <4>1. attempts[k][1] \in Outcome
        BY DEF TypeOK
      <4>2. attempts[k][1] \notin {"none", "completed", "rejected", "auth_required"}
        BY <1>4, <2>2, Zenon DEF RecordedTruly
      <4> QED BY <2>1, <4>1, <4>2, Zenon DEF Outcome
    <3>5. Told(k) \in {"nothing", "unknown"}
      BY <3>4, Zenon DEF Told
    <3>6. Decision(k) = "approved"
      BY <1>9, <3>4, Zenon DEF NothingUnapproved, Effectful, Decision, Ruled
    <3> QED BY <1>5, <1>6, <1>7, <2>4, <3>3, <3>5, <3>6, TakesEffect, Zenon
  <2> QED BY <2>5, <2>6, Zenon
<1> QED BY <1>8, <1>9, Zenon

\* Every kind of step maps to a step of ApprovedAction or to none.
LEMMA KindPromise ==
  ASSUME FewElements, IInv, PInv, Kind
  PROVE  [Promise!ANext]_Promise!avars
<1>1. CASE Quiet
  <2>1. \A k \in Call : SameDecision(k)
    BY <1>1, KeptDecision, Zenon DEF Quiet, Keeps
  <2>2. \A k \in Call : SameStory(k)
    BY <1>1, KeptStory, Zenon DEF Quiet, Unmoved
  <2> QED BY <2>1, <2>2, Stutters, Zenon
<1>2. ASSUME NEW r \in Command, Asks(r)
      PROVE  [Promise!ANext]_Promise!avars
  <2>1. \A k \in Call : SameDecision(k)
    BY <1>2, KeptDecision, Zenon DEF Asks, Others, SameRuling, SameAsked
  <2>2. \A k \in Call : SameStory(k)
    BY <1>2, KeptStory, Zenon DEF Asks, Unmoved
  <2> QED BY <2>1, <2>2, Stutters, Zenon
<1> QED BY <1>1, <1>2, DropsPromise, RulesPromise, BeginsPromise, RepeatsPromise, EndsPromise,
           ToolPromise, ZenonT(30) DEF Kind

----------------------------------------------------------------------------
(* What has been assumed of counting is a theorem about finite sets.  The    *)
(* library comes in only here: no step above needs more than FewElements.    *)

Finite == INSTANCE FiniteSetTheorems

\* The empty set and sets of one element have the sizes the lemmas above take them to.
LEMMA FewElementsCounted == FewElements
<1>1. \A S : Finite!IsFiniteSet(S) = IsFiniteSet(S)
  BY Zenon DEF Finite!IsFiniteSet, IsFiniteSet
<1>2. \A S : Finite!Cardinality(S) = Cardinality(S)
  BY <1>1, Zenon DEF Finite!Cardinality, Cardinality
<1> QED BY <1>2, Finite!FS_EmptySet, Finite!FS_Singleton, Zenon DEF FewElements

\* Worker implements ApprovedAction: however workers, clients, tool servers, timeouts and
\* retries interleave, an effectful call takes effect at most once and only by the user's
\* approval, and once the conversation records that it was done or was not, that is so.
THEOREM PromiseKept == WSpec => KeepsPromise
<1>1. WInit => PInv /\ Promise!AInit
  <2> SUFFICES ASSUME WInit PROVE PInv /\ Promise!AInit
    BY Zenon
  <2>1. /\ \A i \in Command : interactions[i].call = None /\ interactions[i].marker = ""
        /\ \A k \in Call : operations[k].outcome = "none" /\ ~Effectful(k)
    BY Zenon DEF WInit, Init, NoInteraction, NoOperation, Effectful
  <2>2. remote = [k \in Call |-> [n \in 1..2 |-> "none"]]
        /\ attempts = [k \in Call |-> [n \in 1..2 |-> "none"]]
    BY Zenon DEF WInit, Init
  <2>3. PInv
    BY <2>1, <2>2, Zenon DEF PInv, AskedOnce, RecordedTruly, Remote
  <2>4. \A k \in Call : Decision(k) = "none" /\ Effects(k) = 0 /\ Told(k) = "nothing"
    BY <2>1, Zenon DEF Decision, Ruled, Effects, Told
  <2> QED BY <2>3, <2>4, Zenon DEF Promise!AInit
<1>2. WInit => IInv /\ WInv
  BY WorkerInit, Zenon
<1>3. IInv /\ WInv /\ [WNext]_allvars => IInv' /\ WInv'
  BY StepsImplement, InvariantStep, PlacedStep, Zenon
<1>4. IInv /\ WInv /\ PInv /\ [WNext]_allvars => PInv' /\ [Promise!ANext]_Promise!avars
  BY StepIsKind, PromiseInvariantStep, KindPromise, FewElementsCounted, Zenon
<1> QED BY <1>1, <1>2, <1>3, <1>4, PTL DEF WSpec, KeepsPromise, Promise!ASpec
=============================================================================
