---------------------------- MODULE WorkerProofs ----------------------------
(* Worker implements Journal: every step of the program is a transaction   *)
(* that Journal allows, or none.  What is proved of Journal for callers in *)
(* any order thus holds of the program, for every instance.                *)
EXTENDS Worker, JournalProofs

----------------------------------------------------------------------------
(* What the journal's rows hold.                                           *)

\* The numbers of a call's first and second attempt.
LEMMA AttemptNumbers == 1 \in 1..2 /\ 2 \in 1..2 /\ 2 # 1
OBVIOUS

\* No update of a wait changes what was asked.
LEMMA SameQuestion ==
  ASSUME NEW wait \in InteractionRow, NEW c \in Command, NEW approved \in BOOLEAN,
         NEW marker \in Marker,
         NEW w \in {Marked(wait, marker), TimedOut(wait), Expired(wait), Consumed(wait, c, approved)}
  PROVE  w.kind = wait.kind /\ w.call = wait.call /\ w.journey = wait.journey
         /\ w.binding = wait.binding
<1> DOMAIN wait = {"state", "kind", "call", "binding", "journey", "digest", "valid", "cont",
                   "marker"}
  BY Zenon DEF InteractionRow
<1>1. CASE w = Marked(wait, marker)
  BY <1>1, Zenon DEF Marked
<1>2. CASE w = TimedOut(wait)
  BY <1>2, Zenon DEF TimedOut
<1>3. CASE w = Expired(wait)
  BY <1>3, Zenon DEF Expired
<1>4. CASE w = Consumed(wait, c, approved)
  BY <1>4, Zenon DEF Consumed
<1> QED BY <1>1, <1>2, <1>3, <1>4, Zenon

\* One row of each table, before and after a step.
SameReply(c) == commands'[c].exec = commands[c].exec /\ commands'[c].reply = commands[c].reply
SameWait(i) ==
  /\ interactions'[i].kind = interactions[i].kind
  /\ interactions'[i].call = interactions[i].call
  /\ interactions'[i].journey = interactions[i].journey
  /\ interactions'[i].binding = interactions[i].binding
NewWait(i) ==
  interactions'[i].kind = "approval" =>
    /\ interactions'[i].call \in Call
    /\ interactions'[i].journey \in Journey
    /\ interactions'[i].binding[4] \in Shape
SameCall(k) ==
  /\ operations'[k].binding = operations[k].binding
  /\ operations[k].outcome = "none" => operations'[k].outcome = "none"
NewCall(k) == operations'[k].binding[3] \in Journey /\ operations'[k].binding[4] \in Shape

\* expireInteractions and disposePending, row by row.
LEMMA SweptRows ==
  ASSUME TypeOK
  PROVE  /\ \A i \in Command : interactions' = expireInteractions => SameWait(i)
         /\ \A c \in Command, R \in SUBSET Command, why \in {"interrupted"} \cup FailureStates :
              commands'[c] = disposePending(R, why)[c] => SameReply(c)
         /\ \A k \in Call, R \in SUBSET Command : markOperationsUnknown(R) => SameCall(k)
<1>1. ASSUME NEW i \in Command, interactions' = expireInteractions
      PROVE  SameWait(i)
  <2> interactions[i] \in InteractionRow
    BY Zenon DEF TypeOK
  <2>1. interactions'[i] \in {interactions[i], Expired(interactions[i])}
    BY <1>1, Zenon DEF expireInteractions
  <2>2. Expired(interactions[i]).kind = interactions[i].kind
        /\ Expired(interactions[i]).call = interactions[i].call
        /\ Expired(interactions[i]).journey = interactions[i].journey
        /\ Expired(interactions[i]).binding = interactions[i].binding
    BY SameQuestion, "" \in Marker, Zenon DEF Marker
  <2> QED BY <2>1, <2>2, Zenon DEF SameWait
<1>2. ASSUME NEW c \in Command, NEW R \in SUBSET Command,
             NEW why \in {"interrupted"} \cup FailureStates,
             commands'[c] = disposePending(R, why)[c]
      PROVE  SameReply(c)
  <2> commands[c] \in CommandRow
    BY Zenon DEF TypeOK
  <2> QED BY <1>2, DisposedRow DEF SameReply, disposePending
<1>3. ASSUME NEW k \in Call, NEW R \in SUBSET Command, markOperationsUnknown(R)
      PROVE  SameCall(k)
  BY <1>3, UnknownRows, Zenon DEF SameCall, Dispatching
<1> QED BY <1>1, <1>2, <1>3, Zenon

\* What a step does to the rows that Written is about: it keeps them or writes
\* them whole.
RowsWritten ==
  /\ \A c \in Command : SameReply(c) \/ (commands[c].exec = None /\ commands'[c].exec # None)
  /\ \A i \in Command : SameWait(i) \/ NewWait(i)
  /\ \A k \in Call : SameCall(k) \/ NewCall(k)

\* What clients, claims, the reaper and the clock write is written the way RowsWritten says.
LEMMA UnownedRows ==
  ASSUME TypeOK, NEW c \in Command, Unowned(c)
  PROVE  RowsWritten
<1> Lost \in SUBSET Command /\ {c} \cap Lost \in SUBSET Command
  BY Zenon DEF Lost
<1> None \notin Command
  BY NoneAssumption, Zenon
<1>1. CASE Admit(c)
  <2>1. disposePending(Lost, "interrupted") \in [Command -> CommandRow]
    BY SweepTypes, Zenon
  <2>2. commands[c].exec = None
        /\ \E r \in Command : commands' = [disposePending(Lost, "interrupted")
                                            EXCEPT ![c] = Accepted(r, None, "")]
    BY <1>1, Zenon DEF Admit
  <2>3. \A x \in Command : x # c => commands'[x] = disposePending(Lost, "interrupted")[x]
    BY <2>1, <2>2, Zenon
  <2>4. commands'[c].exec # None
    <3>1. PICK r \in Command : commands' = [disposePending(Lost, "interrupted")
                                             EXCEPT ![c] = Accepted(r, None, "")]
      BY <2>2, Zenon
    <3>2. commands'[c] = Accepted(r, None, "")
      BY <2>1, <3>1, Zenon
    <3>3. Accepted(r, None, "").exec = r
      BY Zenon DEF Accepted
    <3> QED BY <3>2, <3>3, Zenon
  <2>5. interactions' = expireInteractions /\ markOperationsUnknown(Lost)
    BY <1>1, Zenon DEF Admit
  <2> QED BY <2>2, <2>3, <2>4, <2>5, SweptRows, Zenon DEF RowsWritten
<1>2. ASSUME NEW i \in Command, ReplyTooLate(c, i)
      PROVE  RowsWritten
  BY <1>2, SweptRows, Zenon DEF RowsWritten, ReplyTooLate, SameReply, SameCall
<1>3. ASSUME NEW i \in Command, NEW approve \in BOOLEAN, ReplyInTime(c, i, approve)
      PROVE  RowsWritten
  <2> DEFINE approved == approve /\ interactions[i].kind = "approval"
  <2>0. interactions[i] \in InteractionRow /\ approved \in BOOLEAN
    BY Zenon DEF TypeOK
  <2>1. /\ commands[c].exec = None
        /\ commands' = [commands EXCEPT ![c] = Accepted(c, i, IF approved THEN "consumed" ELSE "")]
        /\ interactions' = [interactions EXCEPT ![i] = Consumed(interactions[i], c, approved)]
        /\ operations' = operations
    BY <1>3, Zenon DEF ReplyInTime
  <2> HIDE DEF approved
  <2>2. \A x \in Command : SameReply(x) \/ (commands[x].exec = None /\ commands'[x].exec # None)
    BY <2>1, Zenon DEF TypeOK, SameReply, Accepted
  <2>3. /\ Consumed(interactions[i], c, approved).kind = interactions[i].kind
        /\ Consumed(interactions[i], c, approved).call = interactions[i].call
        /\ Consumed(interactions[i], c, approved).journey = interactions[i].journey
        /\ Consumed(interactions[i], c, approved).binding = interactions[i].binding
    BY <2>0, SameQuestion, "" \in Marker, ZenonT(30) DEF Marker
  <2>4. \A x \in Command : SameWait(x)
    BY <2>1, <2>3, Zenon DEF TypeOK, SameWait
  <2> QED BY <2>1, <2>2, <2>4, Zenon DEF RowsWritten, SameCall
<1>4. ASSUME NEW p \in Replica, Claim(c, p)
      PROVE  RowsWritten
  BY <1>4, Zenon DEF RowsWritten, Claim, SameReply, SameWait, SameCall
<1>5. CASE Reap(c)
  <2>1. /\ commands' = disposePending({c} \cap Lost, "interrupted")
        /\ interactions' = expireInteractions
        /\ markOperationsUnknown({c} \cap Lost)
    BY <1>5, Zenon DEF Reap
  <2> QED BY <2>1, SweptRows, Zenon DEF RowsWritten
<1>6. CASE LeaseTick(c)
  BY <1>6, Zenon DEF RowsWritten, LeaseTick, SameReply, SameWait, SameCall
<1>7. CASE InteractionTimeout(c)
  <2>0. interactions[c] \in InteractionRow
    BY Zenon DEF TypeOK
  <2>1. /\ TimedOut(interactions[c]).kind = interactions[c].kind
        /\ TimedOut(interactions[c]).call = interactions[c].call
        /\ TimedOut(interactions[c]).journey = interactions[c].journey
        /\ TimedOut(interactions[c]).binding = interactions[c].binding
    BY <2>0, SameQuestion, "" \in Marker, Zenon DEF Marker
  <2>2. \A x \in Command : SameWait(x)
    BY <1>7, <2>1, Zenon DEF TypeOK, SameWait, InteractionTimeout
  <2> QED BY <1>7, <2>2, Zenon DEF RowsWritten, InteractionTimeout, SameReply, SameCall
<1> QED BY <1>1, <1>2, <1>3, <1>4, <1>5, <1>6, <1>7, Zenon DEF Unowned, reply

\* So is what the holder of a token writes.
LEMMA OwnedRows ==
  ASSUME TypeOK, NEW o \in owners, Owned(o)
  PROVE  RowsWritten
<1> o \in Owner /\ o.run \in Command /\ {o.run} \in SUBSET Command
  BY Zenon DEF TypeOK, Owner
<1>1. ASSUME UNCHANGED <<commands, interactions, operations>>
      PROVE  RowsWritten
  BY <1>1, Zenon DEF RowsWritten, SameReply, SameWait, SameCall
<1>2. ASSUME NEW S \in SUBSET Command, Included(o, S)
      PROVE  RowsWritten
  <2>1. \A c \in Command : SameReply(c)
    <3> TAKE c \in Command
    <3>1. commands[c] \in CommandRow
      BY Zenon DEF TypeOK
    <3>2. commands'[c] \in {commands[c], InRequest(commands[c])}
      BY <1>2, Zenon DEF Included
    <3> QED BY <3>1, <3>2, InRequestRow, Zenon DEF SameReply
  <2> QED BY <1>2, <2>1, Zenon DEF Included, RowsWritten, SameWait, SameCall
<1>3. ASSUME NEW kind \in {"approval", "clarification"}, NEW k \in Call \cup {None},
             NEW j \in Journey \cup {None}, NEW s \in Shape \cup {None},
             kind = "approval" => k \in Call /\ j \in Journey /\ s \in Shape,
             Wait(o, kind, k, j, s)
      PROVE  RowsWritten
  <2>1. \A i \in Command : i # o.run => interactions'[i] = interactions[i]
    BY <1>3, Zenon DEF Wait, TypeOK
  <2>2. /\ interactions'[o.run].kind = kind
        /\ interactions'[o.run].call = k
        /\ interactions'[o.run].journey = IF j = None THEN runs[o.run].journey ELSE j
        /\ interactions'[o.run].binding = BindCall(o.run, j, s)
    BY <1>3, Zenon DEF Wait, TypeOK
  <2>3. kind = "approval" => j # None
    BY <1>3, Zenon DEF Wait
  <2>4. BindCall(o.run, j, s)[4] = s
    BY Zenon DEF BindCall
  <2>5. NewWait(o.run)
    BY <1>3, <2>2, <2>3, <2>4, Zenon DEF NewWait
  <2>6. \A i \in Command : SameWait(i) \/ NewWait(i)
    BY <2>1, <2>5, Zenon DEF SameWait
  <2> QED BY <1>3, <2>6, Zenon DEF Wait, RowsWritten, SameReply, SameCall
\* Marking a wait.
<1>4. ASSUME NEW i \in Command, NEW marker \in Marker,
             interactions' = [interactions EXCEPT ![i] = Marked(@, marker)]
      PROVE  \A x \in Command : SameWait(x)
  <2>0. interactions[i] \in InteractionRow
    BY Zenon DEF TypeOK
  <2>1. /\ Marked(interactions[i], marker).kind = interactions[i].kind
        /\ Marked(interactions[i], marker).call = interactions[i].call
        /\ Marked(interactions[i], marker).journey = interactions[i].journey
        /\ Marked(interactions[i], marker).binding = interactions[i].binding
    BY <2>0, SameQuestion, Zenon
  <2> QED BY <1>4, <2>1, Zenon DEF TypeOK, SameWait
<1>5. ASSUME NEW i \in Command, Supersede(o, i)
      PROVE  RowsWritten
  BY <1>4, <1>5, "superseded" \in Marker, Zenon DEF Marker, Supersede, RowsWritten, SameReply, SameCall
\* Inserting an operation, and reporting on one.
<1>6. ASSUME NEW k \in Call, NEW policy \in Policy, NEW approval \in BOOLEAN,
             NEW j \in Journey, NEW s \in Shape,
             Insert(o, k, policy, approval, BindCall(o.run, j, s))
      PROVE  \A x \in Call : SameCall(x) \/ NewCall(x)
  <2>1. operations'[k].binding = BindCall(o.run, j, s)
        /\ \A x \in Call : x # k => operations'[x] = operations[x]
    BY <1>6, Zenon DEF Insert, TypeOK
  <2>2. BindCall(o.run, j, s)[3] = j /\ BindCall(o.run, j, s)[4] = s
    BY Zenon DEF BindCall
  <2> QED BY <2>1, <2>2, Zenon DEF SameCall, NewCall
<1>7. ASSUME NEW k \in Call, NEW outcome \in Outcome, operations[k].outcome # "none",
             operations' = [operations EXCEPT ![k] = Reported(@, outcome)]
      PROVE  \A x \in Call : SameCall(x)
  <2>1. operations[k] \in OperationRow
    BY Zenon DEF TypeOK
  <2>2. Reported(operations[k], outcome).binding = operations[k].binding
    BY <2>1, ReportedRow, Zenon
  <2> QED BY <1>7, <2>2, Zenon DEF SameCall, TypeOK
<1>8. ASSUME NEW k \in Call, NEW j \in Journey, NEW s \in Shape, BeginAttempt(o, k, j, s)
      PROVE  RowsWritten
  <2>1. CASE BeginUnapproved(o, k, j, s)
    BY <1>6, <2>1, Zenon DEF BeginUnapproved, Policy, RowsWritten, SameReply, SameWait
  <2>2. ASSUME NEW policy \in Policy, NEW i \in Command, BeginApproved(o, k, policy, i, j, s)
        PROVE  RowsWritten
    <3>1. \A x \in Command : SameWait(x)
      BY <1>4, <2>2, Zenon DEF BeginApproved, Marker
    <3>2. \A x \in Call : SameCall(x) \/ NewCall(x)
      BY <1>6, <2>2, Zenon DEF BeginApproved, SameCall
    <3> QED BY <2>2, <3>1, <3>2, Zenon DEF BeginApproved, RowsWritten, SameReply
  <2>3. CASE BeginRetry(o, k, j, s)
    BY <1>7, <2>3, Zenon DEF BeginRetry, Outcome, RowsWritten, SameReply, SameWait
  <2> QED BY <1>8, <2>1, <2>2, <2>3, Zenon DEF BeginAttempt
<1>9. ASSUME NEW k \in Call, NEW n \in 1..2, NEW outcome \in Outcome, EndAttempt(o, k, n, outcome)
      PROVE  RowsWritten
  BY <1>7, <1>9, Zenon DEF EndAttempt, RowsWritten, SameReply, SameWait
<1>10. ASSUME NEW state \in FailureStates, Fail(o, state)
       PROVE  RowsWritten
  BY <1>10, SweptRows, Zenon DEF Fail, RowsWritten, SameWait
<1>11. CASE \/ Renew(o) \/ Complete(o)
            \/ \E v \in Product : RecordRunScope(o, v)
            \/ \E d \in Digest : ResolveDefinition(o, d)
            \/ \E j \in Journey \cup {None}, d \in Digest : Start(o, j, d)
  BY <1>1, <1>11, Zenon DEF Renew, Complete, RecordRunScope, ResolveDefinition, Start
<1>12. CASE Wait(o, "clarification", None, None, None)
  BY <1>3, <1>12, Zenon
<1>13. ASSUME NEW k \in Call, NEW j \in Journey, NEW s \in Shape, Wait(o, "approval", k, j, s)
       PROVE  RowsWritten
  BY <1>3, <1>13, Zenon
<1> QED BY <1>2, <1>5, <1>8, <1>9, <1>10, <1>11, <1>12, <1>13, Zenon DEF Owned, finish

\* A step of the journal keeps Written, and the reply that a run continues.
LEMMA WrittenStep ==
  ASSUME TypeOK, Written, [Next]_vars
  PROVE  /\ Written'
         /\ \A c \in Command : commands[c].reply \in Command => commands'[c].reply \in Command
<1> None \notin Command
  BY NoneAssumption, Zenon
<1>1. RowsWritten
  <2>1. CASE UNCHANGED vars
    BY <2>1, Zenon DEF vars, RowsWritten, SameReply, SameWait, SameCall
  <2> QED BY <2>1, UnownedRows, OwnedRows, Zenon DEF Next
<1>2. \A c \in Command : commands'[c].exec = None => commands'[c].reply = None
  BY <1>1, Zenon DEF RowsWritten, SameReply, Written
<1>3. \A c \in Command : commands[c].reply \in Command => commands'[c].reply \in Command
  BY <1>1, Zenon DEF RowsWritten, SameReply, Written
<1>4. \A i \in Command : interactions'[i].kind = "approval" =>
        /\ interactions'[i].call \in Call
        /\ interactions'[i].journey \in Journey
        /\ interactions'[i].binding[4] \in Shape
  BY <1>1, Zenon DEF RowsWritten, SameWait, NewWait, Written
<1>5. \A k \in Call : operations'[k].outcome # "none" =>
        operations'[k].binding[3] \in Journey /\ operations'[k].binding[4] \in Shape
  BY <1>1, Zenon DEF RowsWritten, SameCall, NewCall, Written
<1> QED BY <1>2, <1>3, <1>4, <1>5, Zenon DEF Written

----------------------------------------------------------------------------
(* Every step is a transaction of the journal, or none.                    *)

\* A client's request, or the start of its goroutine, is a transaction of the journal or none.
LEMMA ClientImplements ==
  ASSUME NEW c \in Command, NEW p \in Replica, Client(c, p)
  PROVE  [Next]_vars
<1>1. ASSUME Unowned(c)
      PROVE  [Next]_vars
  BY <1>1, Zenon DEF Next
<1>2. CASE Submit(c, p)
  BY <1>1, <1>2, Zenon DEF Submit, Unowned
<1>3. ASSUME NEW i \in Command, NEW approve \in BOOLEAN, SubmitReply(c, p, i, approve)
      PROVE  [Next]_vars
  BY <1>1, <1>3, Zenon DEF SubmitReply, Unowned, reply
<1>4. CASE Resubmit(c, p) \/ Abandon(c, p)
  BY <1>4, Zenon DEF Resubmit, Abandon
<1>5. CASE StartWorker(c, p)
  BY <1>1, <1>5, Zenon DEF StartWorker, Unowned
<1> QED BY <1>2, <1>3, <1>4, <1>5, Zenon DEF Client

\* A worker's step is a transaction of the journal that its token allows, or none.
LEMMA StepImplements ==
  ASSUME IInv, WInv, NEW o \in owners, Step(o)
  PROVE  [Next]_vars
<1> TypeOK /\ Written /\ Placed(o.run) /\ o \in Owner /\ o.run \in Command
  BY Zenon DEF IInv, Lifecycle, TypeOK, Owner, WInv
<1> DEFINE w == workers[o.run]
           i == commands[o.run].reply
<1>0. ASSUME Owned(o)
      PROVE  [Next]_vars
  BY <1>0, ZenonT(30) DEF Next
\* Steps that leave the journal alone.
<1>1. CASE \/ Open(o) \/ Invoke(o) \/ Respond(o) \/ AnswerLocally(o) \/ AskSteered(o)
           \/ AskAgainSteered(o) \/ Stumble(o) \/ FollowUp(o)
  BY <1>1, Zenon
      DEF Open, Invoke, Respond, AnswerLocally, AskSteered, AskAgainSteered, Stumble, FollowUp
<1>2. CASE Scope(o)
  BY <1>0, <1>2, Zenon DEF Scope, Owned
<1>3. CASE Bind(o)
  BY <1>0, <1>3, Zenon DEF Bind, Owned
<1>4. CASE StartRun(o)
  <2>1. w.digest \in Digest
    BY <1>4, Zenon DEF StartRun, At, Placed
  <2>2. TargetJourney(o.run) \in Journey \cup {None}
    BY TargetAssumption, Zenon DEF TargetJourney, TypeOK, RunRow
  <2>3. Start(o, TargetJourney(o.run), w.digest)
    BY <1>4, Zenon DEF StartRun
  <2> QED BY <1>0, <2>1, <2>2, <2>3, Zenon DEF Owned
<1>5. CASE OnDispatch(o)
  <2>1. w.pending \in SUBSET Command
    BY Zenon DEF Placed
  <2>2. UNCHANGED vars \/ Included(o, w.pending)
    BY <1>5, Zenon DEF OnDispatch
  <2> QED BY <1>0, <2>1, <2>2, Zenon DEF Owned
<1>6. CASE CallTool(o)
  <2>1. \E k \in Call, j \in Journey, s \in Shape : BeginUnapproved(o, k, j, s)
    BY <1>6, Zenon DEF CallTool
  <2> QED BY <1>0, <2>1, Zenon DEF Owned, BeginAttempt
<1>7. CASE Ask(o)
  <2>1. \/ Wait(o, "clarification", None, None, None)
        \/ \E k \in Call, j \in Journey, s \in Shape : Wait(o, "approval", k, j, s)
    BY <1>7, Zenon DEF Ask
  <2> QED BY <1>0, <2>1, Zenon DEF Owned
<1>8. CASE ApprovedVanished(o) \/ ApprovedChanged(o)
  <2>1. i \in Command /\ Supersede(o, i)
    BY <1>8, Zenon DEF ApprovedVanished, ApprovedChanged, At, Placed
  <2> QED BY <1>0, <2>1, Zenon DEF Owned
<1>9. CASE AskAgain(o)
  <2>1. i \in Command
    BY <1>9, Zenon DEF AskAgain, At, Placed
  <2>2. PICK k \in Call, s \in Shape : Wait(o, "approval", k, interactions[i].journey, s)
    BY <1>9, ZenonT(30) DEF AskAgain
  <2>3. interactions[i].journey \in Journey
    BY <2>1, <2>2, ZenonT(30) DEF Wait, TypeOK, InteractionRow
  <2> QED BY <1>0, <2>2, <2>3, Zenon DEF Owned
<1>10. CASE CallApproved(o)
  <2> DEFINE b == interactions[i].binding
  <2>1. i \in Command
    BY <1>10, ZenonT(30) DEF CallApproved, At, Placed
  <2>2. PICK policy \in Policy :
          BeginApproved(o, interactions[i].call, policy, i, interactions[i].journey, b[4])
    BY <1>10, ZenonT(30) DEF CallApproved
  <2>3. /\ interactions[i].call \in Call
        /\ interactions[i].journey \in Journey
        /\ b[4] \in Shape
    BY <2>1, <2>2, ZenonT(30) DEF BeginApproved, Decided, Written
  <2>4. BeginAttempt(o, interactions[i].call, interactions[i].journey, b[4])
    BY <2>1, <2>2, Zenon DEF BeginAttempt
  <2> QED BY <1>0, <2>3, <2>4, ZenonT(30) DEF Owned
<1>11. CASE Return(o)
  <2>1. w.call \in Call /\ w.attempt \in 1..2
    BY <1>11, ZenonT(30) DEF Return, At, Placed
  <2>2. PICK outcome \in DOMAIN ToolEvent : EndAttempt(o, w.call, w.attempt, outcome)
    BY <1>11, Zenon DEF Return
  <2>3. outcome \in Outcome \ {"none", "dispatching"}
    BY <2>2, ZenonT(30) DEF ToolEvent, Outcome
  <2> QED BY <1>0, <2>1, <2>2, <2>3, ZenonT(30) DEF Owned
<1>12. CASE Repeat(o)
  <2> DEFINE b == operations[w.call].binding
  <2>1. w.call \in Call
    BY <1>12, Zenon DEF Repeat, At, Placed
  <2>2. BeginRetry(o, w.call, b[3], b[4])
    BY <1>12, ZenonT(30) DEF Repeat
  <2>3. b[3] \in Journey /\ b[4] \in Shape
    BY <2>1, <2>2, Zenon DEF BeginRetry, Written
  <2>4. BeginAttempt(o, w.call, b[3], b[4])
    BY <2>2, ZenonT(30) DEF BeginAttempt
  <2> QED BY <1>0, <2>1, <2>3, <2>4, ZenonT(30) DEF Owned
<1>13. CASE FinishCompleted(o)
  BY <1>0, <1>13, ZenonT(30) DEF FinishCompleted, Owned, finish
<1>14. CASE FinishFailed(o)
  <2>1. w.end \in FailureStates /\ Fail(o, w.end)
    BY <1>14, Zenon DEF FinishFailed, Placed
  <2> QED BY <1>0, <2>1, ZenonT(30) DEF Owned, finish
<1> QED BY <1>1, <1>2, <1>3, <1>4, <1>5, <1>6, <1>7, <1>8, <1>9, <1>10, <1>11, <1>12, <1>13,
           <1>14, ZenonT(30) DEF Step

\* Every step of the workers is a step of the journal or leaves it alone.
LEMMA StepsImplement ==
  ASSUME IInv, WInv, [WNext]_allvars
  PROVE  [Next]_vars
<1>1. CASE UNCHANGED allvars
  BY <1>1, Zenon DEF allvars
<1>2. ASSUME NEW x \in Command, Server(x)
      PROVE  [Next]_vars
  BY <1>2, Zenon DEF Server, Reaper, Clock, Next, Unowned
<1>3. ASSUME NEW k \in Call, NEW n \in 1..2, Tool(k, n)
      PROVE  [Next]_vars
  BY <1>3, ZenonT(30) DEF Tool
<1>4. ASSUME NEW o \in owners, Heartbeat(o) \/ Lose(o)
      PROVE  [Next]_vars
  BY <1>4, Zenon DEF Heartbeat, Lose, Next, Owned
<1> QED BY <1>1, <1>2, <1>3, <1>4, ClientImplements, StepImplements, Zenon DEF WNext

----------------------------------------------------------------------------
(* Every step leaves the workers well placed.                              *)

\* Placed, of a worker record w that run r is about to have.
Able(w, r) ==
  /\ DOMAIN w = Slots
  /\ w.pending \subseteq Command
  /\ w.attempt \in 1..2
  /\ w.end \in FailureStates \cup {"completed"}
  /\ w.pc = "start" => w.digest \in Digest
  /\ w.pc \in {"call", "retry"} => w.call \in Call
  /\ w.pc \in {"approved", "rewait"} => commands[r].reply \in Command

\* One worker moves, or none does, while the journal takes a step.
LEMMA OneMoves ==
  ASSUME TypeOK, WInv, [Next]_vars, NEW r \in Command, NEW w, Able(w, r),
         workers' = [workers EXCEPT ![r] = w]
  PROVE  WInv'
<1>1. /\ Written'
      /\ \A c \in Command : commands[c].reply \in Command => commands'[c].reply \in Command
  BY WrittenStep, Zenon DEF WInv
<1>2. DOMAIN workers' = Command /\ workers'[r] = w
      /\ \A x \in Command : x # r => workers'[x] = workers[x]
  BY Zenon DEF WInv
<1>3. ASSUME NEW x \in Command
      PROVE  Placed(x)'
  <2>1. CASE x = r
    BY <1>1, <1>2, <2>1, Zenon DEF Able, Placed
  <2>2. CASE x # r
    BY <1>1, <1>2, <2>2, Zenon DEF WInv, Placed
  <2> QED BY <2>1, <2>2, Zenon
<1> QED BY <1>1, <1>2, <1>3, Zenon DEF WInv

\* A transaction that moves no worker leaves each where it may be.
LEMMA NoneMoves ==
  ASSUME TypeOK, WInv, [Next]_vars, workers' = workers
  PROVE  WInv'
<1>1. /\ Written'
      /\ \A c \in Command : commands[c].reply \in Command => commands'[c].reply \in Command
  BY WrittenStep, Zenon DEF WInv
<1> QED BY <1>1, Zenon DEF WInv, Placed

\* The records that workers start and end with.
LEMMA BlankWorkers ==
  ASSUME NEW r \in Command, NEW pc \in {"none", "scope", "gone", "done"}
  PROVE  Able([NoWorker EXCEPT !.pc = pc], r) /\ Able(NoWorker, r)
BY EndsAssumption DEF Able, Slots, NoWorker

\* A failing run.
LEMMA FailingAble ==
  ASSUME NEW r \in Command, NEW w, NEW state \in FailureStates, NEW kept
  PROVE  Able(Failing(w, state), r) /\ Able([Failing(w, state) EXCEPT !.kept = kept], r)
BY DEF Able, Slots, NoWorker, Failing

\* A worker whose proposal has its result.
LEMMA SettledAble ==
  ASSUME NEW r \in Command, NEW w, Able(w, r)
  PROVE  Able(Settled(w), r) /\ Able([Settled(w) EXCEPT !.repairs = @ - 1], r)
BY DEF Able, Slots, NoWorker, Settled

\* A worker that goes on elsewhere with what it has.
LEMMA MovedAble ==
  ASSUME NEW r \in Command, NEW w, Able(w, r),
         NEW pc \in {"bind", "open", "invoke", "request", "model", "calls", "finish"}
  PROVE  Able([w EXCEPT !.pc = pc], r)
BY Zenon DEF Able, Slots, NoWorker

\* A worker that sends a call.
LEMMA SentAble ==
  ASSUME NEW r \in Command, NEW w, Able(w, r), NEW k \in Call, NEW n \in 1..2
  PROVE  Able([w EXCEPT !.pc = "call", !.call = k, !.attempt = n], r)
BY Zenon DEF Able, Slots, NoWorker

\* guardedCall's next step after an attempt.
LEMMA AfterAttemptAble ==
  ASSUME NEW r \in Command, NEW w, Able(w, r), w.call \in Call, NEW policy, NEW outcome,
         NEW forbidden \in BOOLEAN, outcome \in DOMAIN ToolEvent
  PROVE  Able(AfterAttempt(w, policy, outcome, forbidden), r)
<1>1. AfterAttempt(w, policy, outcome, forbidden) \in
        {Settled(w), Failing(w, "auth_required"), [w EXCEPT !.pc = "retry"], Failing(w, "failed"),
         [Settled(w) EXCEPT !.repairs = @ - 1]}
  BY Zenon DEF AfterAttempt
<1>2. "failed" \in FailureStates /\ "auth_required" \in FailureStates
  BY EndsAssumption, Zenon
<1>3. Able([w EXCEPT !.pc = "retry"], r)
  BY Zenon DEF Able, Slots, NoWorker
<1>4. Able(Failing(w, "failed"), r) /\ Able(Failing(w, "auth_required"), r)
  BY <1>2, FailingAble, Zenon
<1>5. Able(Settled(w), r) /\ Able([Settled(w) EXCEPT !.repairs = @ - 1], r)
  BY SettledAble, Zenon
<1> QED BY <1>1, <1>3, <1>4, <1>5, Zenon

\* A worker's step takes it, and no other, to a place it may be in.
LEMMA StepPlaces ==
  ASSUME IInv, WInv, NEW o \in owners, Step(o)
  PROVE  \E w : Able(w, o.run) /\ workers' = [workers EXCEPT ![o.run] = w]
<1> TypeOK /\ Written /\ o \in Owner /\ o.run \in Command
  BY Zenon DEF IInv, Lifecycle, TypeOK, Owner, WInv
<1> DEFINE w == workers[o.run]
           i == commands[o.run].reply
<1>0. Able(w, o.run)
  BY Zenon DEF WInv, Placed, Able
<1> DEFINE Goal == \E v : Able(v, o.run) /\ workers' = [workers EXCEPT ![o.run] = v]
<1>1. ASSUME NEW v, Able(v, o.run), Become(o, v)
      PROVE  Goal
  BY <1>1, Zenon DEF Become
<1> SUFFICES Goal
  BY Zenon
<1> HIDE DEF Goal
<1>2. CASE Scope(o)
  BY <1>0, <1>1, <1>2, MovedAble, Zenon DEF Scope
<1>3. CASE Bind(o)
  <2>1. pin' \in Digest
    BY <1>3, Zenon DEF Bind, ResolveDefinition, TypeOK, vars
  <2>2. Able([w EXCEPT !.pc = "start", !.digest = pin'], o.run)
    BY <1>0, <2>1, Zenon DEF Able, Slots, NoWorker
  <2> QED BY <1>1, <1>3, <2>2, Zenon DEF Bind
<1>4. CASE StartRun(o)
  <2>1. Able([w EXCEPT !.pc = "open", !.open = history.open, !.texts = history.texts], o.run)
    BY <1>0, Zenon DEF Able, Slots, NoWorker
  <2> QED BY <1>1, <1>4, <2>1, Zenon DEF StartRun
<1>5. CASE Open(o)
  <2> DEFINE approved == commands[o.run].reason = "consumed"
             resumed == [w EXCEPT !.pc = IF approved THEN "approved" ELSE "invoke", !.round = 0,
                                  !.open = IF approved THEN saved[i].open ELSE saved[i].open - 1,
                                  !.texts = saved[i].texts, !.repairs = saved[i].repairs]
             opened == [w EXCEPT !.pc = "invoke", !.round = 0, !.repairs = 1]
  <2>1. i # None => i \in Command
    BY Zenon DEF TypeOK, CommandRow
  <2>2. i \in Command => Able(resumed, o.run)
    BY <1>0, Zenon DEF Able, Slots, NoWorker
  <2>3. Able(opened, o.run)
    BY <1>0, Zenon DEF Able, Slots, NoWorker
  <2>4. Become(o, IF w.first /\ i # None THEN resumed ELSE opened)
    BY <1>5, Zenon DEF Open
  <2> HIDE DEF resumed, opened
  <2>5. CASE w.first /\ i # None
    BY <1>1, <2>1, <2>2, <2>4, <2>5, Zenon
  <2>6. CASE ~(w.first /\ i # None)
    BY <1>1, <2>3, <2>4, <2>6, Zenon
  <2> QED BY <2>5, <2>6, Zenon
<1>6. CASE Invoke(o)
  <2>1. Undrained(o.run) \subseteq Command
    BY Zenon DEF Undrained
  <2>2. Able([w EXCEPT !.pc = "request", !.pending = Undrained(o.run), !.round = @ + 1], o.run)
    BY <1>0, <2>1, Zenon DEF Able, Slots, NoWorker
  <2> QED BY <1>1, <1>6, <2>2, Zenon DEF Invoke
<1>7. CASE OnDispatch(o)
  BY <1>0, <1>1, <1>7, MovedAble, ZenonT(30) DEF OnDispatch
<1>8. CASE Respond(o)
  <2> DEFINE heard == [w EXCEPT !.texts = @ \cup {c \in w.pending : commands[c].reply = None},
                                !.pending = {}]
  <2>1. \/ Become(o, [heard EXCEPT !.pc = "finish", !.end = "completed"])
        \/ \E n \in 1..MaxCalls :
             Become(o, [heard EXCEPT !.pc = "calls", !.plan = n, !.open = @ + n])
    BY <1>8, Zenon DEF Respond
  <2>2. DOMAIN heard = Slots /\ heard.pending = {} /\ heard.attempt = w.attempt
        /\ heard.end = w.end
    BY <1>0, Zenon DEF Able, Slots, NoWorker
  <2> HIDE DEF heard
  <2>3. Able([heard EXCEPT !.pc = "finish", !.end = "completed"], o.run)
    BY <1>0, <2>2, Zenon DEF Able, Slots, NoWorker
  <2>4. ASSUME NEW n \in 1..MaxCalls
        PROVE  Able([heard EXCEPT !.pc = "calls", !.plan = n, !.open = @ + n], o.run)
    BY <1>0, <2>2, Zenon DEF Able, Slots, NoWorker
  <2> QED BY <1>1, <2>1, <2>3, <2>4, Zenon
<1>9. CASE AnswerLocally(o) \/ ApprovedVanished(o) \/ AskAgainSteered(o)
  BY <1>0, <1>1, <1>9, SettledAble, Zenon DEF AnswerLocally, ApprovedVanished, AskAgainSteered
<1>10. ASSUME NEW k \in Call, NEW n \in 1..2, Send(o, k, n, w)
       PROVE  Goal
  BY <1>0, <1>1, <1>10, SentAble, Zenon DEF Send
<1>11. CASE CallTool(o)
  BY <1>10, <1>11 DEF CallTool
<1>12. CASE Become(o, Done) \/ Become(o, Gone)
  BY <1>1, <1>12, BlankWorkers, ZenonT(30) DEF Done, Gone
<1>13. CASE Ask(o) \/ AskAgain(o) \/ FinishCompleted(o) \/ FinishFailed(o)
  BY <1>12, <1>13, Zenon DEF Ask, AskAgain, Checkpointed, FinishCompleted, FinishFailed
<1>14. CASE AskSteered(o)
  <2>1. Able([w EXCEPT !.pc = "invoke", !.open = @ - w.plan, !.plan = 0], o.run)
    BY <1>0, Zenon DEF Able, Slots, NoWorker
  <2> QED BY <1>1, <1>14, <2>1, Zenon DEF AskSteered
<1>15. CASE ApprovedChanged(o)
  <2>1. w.pc = "approved"
    BY <1>15, Zenon DEF ApprovedChanged, At
  <2>2. Able([w EXCEPT !.pc = "rewait"], o.run)
    BY <1>0, <2>1, Zenon DEF Able, Slots, NoWorker
  <2> QED BY <1>1, <1>15, <2>2, Zenon DEF ApprovedChanged
<1>16. CASE CallApproved(o)
  <2>1. i \in Command
    BY <1>0, <1>16, ZenonT(30) DEF CallApproved, At, Able
  <2>2. Decided(o.run, i) /\ Send(o, interactions[i].call, 1, w)
    BY <1>16, ZenonT(30) DEF CallApproved, BeginApproved
  <2>3. interactions[i].call \in Call
    BY <2>1, <2>2, Zenon DEF Decided, Written
  <2>4. 1 \in 1..2
    OBVIOUS
  <2> QED BY <1>10, <2>2, <2>3, <2>4, ZenonT(30)
<1>17. CASE Return(o)
  <2>1. w.call \in Call
    BY <1>0, <1>17, ZenonT(30) DEF Return, At, Able
  <2>2. PICK outcome \in DOMAIN ToolEvent, forbidden \in BOOLEAN :
          Become(o, AfterAttempt(w, operations[w.call].policy, outcome, forbidden))
    BY <1>17, ZenonT(30) DEF Return
  <2> QED BY <1>0, <1>1, <2>1, <2>2, AfterAttemptAble, ZenonT(30)
<1>18. CASE Repeat(o)
  <2>1. w.call \in Call
    BY <1>0, <1>18, Zenon DEF Repeat, At, Able
  <2>2. Send(o, w.call, 2, w)
    BY <1>18, ZenonT(30) DEF Repeat
  <2> QED BY <1>10, <2>1, <2>2, AttemptNumbers, Zenon
<1>19. CASE Stumble(o)
  <2>1. PICK state \in Failures(w.pc) : Become(o, [Failing(w, state) EXCEPT !.kept = w.pc \in Harness])
    BY <1>19, Zenon DEF Stumble
  <2>2. state \in FailureStates
    BY Zenon DEF Failures
  <2>3. Able([Failing(w, state) EXCEPT !.kept = w.pc \in Harness], o.run)
    BY <2>2, FailingAble, Zenon
  <2> QED BY <1>1, <2>1, <2>3, Zenon
<1>20. CASE FollowUp(o)
  <2>1. Able([w EXCEPT !.pc = "open", !.first = FALSE], o.run)
    BY <1>0, Zenon DEF Able, Slots, NoWorker
  <2> QED BY <1>1, <1>20, <2>1, Zenon DEF FollowUp
<1> QED BY <1>2, <1>3, <1>4, <1>5, <1>6, <1>7, <1>8, <1>9, <1>11, <1>13, <1>14, <1>15, <1>16,
           <1>17, <1>18, <1>19, <1>20, ZenonT(30) DEF Step

\* The strengthened invariant holds of every step.
LEMMA PlacedStep ==
  ASSUME IInv, WInv, [WNext]_allvars
  PROVE  WInv'
<1> TypeOK /\ [Next]_vars
  BY StepsImplement, Zenon DEF IInv, Lifecycle
<1>1. CASE workers' = workers
  BY <1>1, NoneMoves, Zenon
<1>2. ASSUME NEW c \in Command, NEW p \in Replica, StartWorker(c, p)
      PROVE  WInv'
  BY <1>2, BlankWorkers, OneMoves, Zenon DEF StartWorker
<1>3. ASSUME NEW o \in owners, Step(o) \/ Lose(o)
      PROVE  WInv'
  <2>1. o.run \in Command
    BY Zenon DEF TypeOK, Owner
  <2>2. CASE Step(o)
    BY <2>1, <2>2, StepPlaces, OneMoves, Zenon
  <2>3. CASE Lose(o)
    BY <2>1, <2>3, BlankWorkers, OneMoves, Zenon DEF Lose, Become, Gone
  <2> QED BY <1>3, <2>2, <2>3, Zenon
<1> QED BY <1>1, <1>2, <1>3, Zenon
        DEF WNext, allvars, wvars, Client, Submit, SubmitReply, Resubmit, Abandon, Server, Reaper,
            Clock, Tool, Heartbeat

\* The states the program starts in.
LEMMA WorkerInit == WInit => Init /\ IInv /\ WInv
<1> SUFFICES ASSUME WInit PROVE Init /\ IInv /\ WInv
  BY Zenon
<1>1. Init /\ IInv
  BY InvariantInit, Zenon DEF WInit
<1>2. Written
  BY BlankRows, Zenon DEF WInit, Init, Written, NoCommand, NoInteraction, NoOperation
<1>3. \A r \in Command : Placed(r)
  BY BlankWorkers, Zenon DEF WInit, Placed, Able
<1> QED BY <1>1, <1>2, <1>3, Zenon DEF WInit, WInv

\* Worker implements Journal: the program, whatever its workers, clients and tool
\* servers do and wherever a worker is cut off, behaves as the journal's own
\* specification allows, so every theorem about Journal is one about the program.
THEOREM WorkerImplementsJournal == WSpec => JournalKept
<1>1. WInit => Init /\ IInv /\ WInv
  BY WorkerInit, Zenon
<1>2. IInv /\ WInv /\ [WNext]_allvars => [Next]_vars
  BY StepsImplement, Zenon
<1>3. IInv /\ [Next]_vars => IInv'
  BY InvariantStep, Zenon
<1>4. IInv /\ WInv /\ [WNext]_allvars => WInv'
  BY PlacedStep, Zenon
<1> QED BY <1>1, <1>2, <1>3, <1>4, PTL DEF WSpec, Spec, JournalKept

\* What the journal promises to callers in any order, the program thus keeps: one
\* thing at a time, no command stranded, one owner, approvals used as given.
THEOREM ProgramSafe == WSpec => [](OneThing /\ NoneStranded /\ Fenced /\ ApprovalsKept)
<1>1. WSpec => Spec
  BY WorkerImplementsJournal, Zenon DEF JournalKept
<1> QED BY <1>1, OneThingAtATime, NoCommandStranded, FencingWorks, ApprovalsHold, PTL

----------------------------------------------------------------------------
(* What each worker has in hand.                                           *)

\* A step of a worker moves no other run and no other worker.
LEMMA OthersStay ==
  ASSUME IInv, WInv, NEW o \in owners, Step(o), NEW x \in Command, x # o.run
  PROVE  runs'[x] = runs[x] /\ workers'[x] = workers[x]
<1> TypeOK /\ o.run \in Command /\ DOMAIN workers = Command
  BY Zenon DEF IInv, Lifecycle, TypeOK, Owner, WInv
<1>1. workers'[x] = workers[x]
  <2>1. PICK w : workers' = [workers EXCEPT ![o.run] = w]
    BY StepPlaces, Zenon
  <2> QED BY <2>1, Zenon
<1>2. CASE runs' = runs
  BY <1>1, <1>2, Zenon
<1>3. ASSUME NEW row, runs' = [runs EXCEPT ![o.run] = row]
      PROVE  runs'[x] = runs[x]
  BY <1>3, Zenon DEF TypeOK
<1>4. CASE Scope(o)
  BY <1>1, <1>3, <1>4, Zenon DEF Scope, RecordRunScope
<1>5. CASE StartRun(o)
  BY <1>1, <1>3, <1>5, ZenonT(30) DEF StartRun, Start
<1>6. CASE Ask(o) \/ AskAgain(o)
  BY <1>1, <1>3, <1>6, ZenonT(30) DEF Ask, AskAgain, Wait
<1>7. CASE FinishCompleted(o) \/ FinishFailed(o)
  BY <1>1, <1>3, <1>7, Zenon DEF FinishCompleted, FinishFailed, Complete, Fail
<1>8. CASE Bind(o) \/ OnDispatch(o) \/ CallTool(o) \/ ApprovedVanished(o) \/ ApprovedChanged(o)
           \/ CallApproved(o) \/ Return(o) \/ Repeat(o)
  <2>1. runs' = runs
    BY <1>8, ZenonT(30)
        DEF Bind, ResolveDefinition, OnDispatch, Included, CallTool, BeginUnapproved,
      ApprovedVanished, ApprovedChanged, Supersede, CallApproved, BeginApproved, Return, EndAttempt,
      Repeat, BeginRetry, vars
  <2> QED BY <1>2, <2>1, ZenonT(30)
<1>9. CASE \/ Open(o) \/ Invoke(o) \/ Respond(o) \/ AnswerLocally(o) \/ AskSteered(o)
           \/ AskAgainSteered(o) \/ Stumble(o) \/ FollowUp(o)
  <2>1. runs' = runs
    BY <1>9, ZenonT(30)
        DEF Open, Invoke, Respond, AnswerLocally, AskSteered, AskAgainSteered, Stumble,
      FollowUp, vars
  <2> QED BY <1>2, <2>1, Zenon
<1> QED BY <1>1, <1>4, <1>5, <1>6, <1>7, <1>8, <1>9, Zenon DEF Step

\* A call that is in hand before and after a step.
StillInHand(k) ==
  operations'[k].outcome = "dispatching" =>
    runs'[operations'[k].run].state = "running" /\ Awaits(workers'[operations'[k].run], k)

\* A worker that waits for no call, a worker that gives up.
LEMMA InHandStep ==
  ASSUME IInv, WInv, CallsInHand, NEW o \in owners, Step(o)
  PROVE  CallsInHand'
<1> TypeOK /\ o.run \in Command /\ DOMAIN workers = Command
  BY Zenon DEF IInv, Lifecycle, TypeOK, Owner, WInv
<1> DEFINE w == workers[o.run]
<1> SUFFICES ASSUME NEW k \in Call PROVE StillInHand(k)
  BY Zenon DEF CallsInHand, StillInHand
<1>1. operations[k].outcome = "dispatching" =>
        /\ runs[operations[k].run].state = "running"
        /\ Awaits(workers[operations[k].run], k)
        /\ operations[k].run \in Command
  BY Zenon DEF CallsInHand, IInv, Calls, CallsConsistent, TypeOK, OperationRow
\* The call is another run's.
<1>2. ASSUME operations'[k] = operations[k], operations[k].run # o.run
      PROVE  StillInHand(k)
  BY <1>1, <1>2, OthersStay, Zenon DEF StillInHand
\* It is this run's, but the worker has none in hand.
<1>3. ASSUME w.pc \notin {"call", "gone"}, w.pc = "finish" => w.end = "completed"
      PROVE  operations[k].outcome = "dispatching" => operations[k].run # o.run
  BY <1>1, <1>3, Zenon DEF Awaits
<1>4. ASSUME operations' = operations, w.pc \notin {"call", "gone"},
             w.pc = "finish" => w.end = "completed"
      PROVE  StillInHand(k)
  BY <1>2, <1>3, <1>4, Zenon DEF StillInHand
\* The worker begins an attempt.
<1>5. ASSUME NEW c \in Call, NEW n \in 1..2, Send(o, c, n, w), runs[o.run].state = "running",
             runs' = runs, operations'[c].run = o.run,
             k # c => operations'[k] = operations[k],
             w.pc \in {"calls", "approved", "retry"}
      PROVE  StillInHand(k)
  <2>1. CASE k = c
    <3>1. workers'[o.run] = [w EXCEPT !.pc = "call", !.call = c, !.attempt = n]
      BY <1>5, Zenon DEF Send, Become
    <3>2. Able(w, o.run)
      BY Zenon DEF WInv, Placed, Able
    <3>3. workers'[o.run].pc = "call" /\ workers'[o.run].call = c
      BY <3>1, <3>2, Zenon DEF Able, Slots, NoWorker
    <3> QED BY <1>5, <2>1, <3>3, Zenon DEF StillInHand, Awaits
  <2>2. CASE k # c
    BY <1>2, <1>3, <1>5, <2>2, Zenon DEF StillInHand
  <2> QED BY <2>1, <2>2, Zenon
<1>6. CASE Scope(o) \/ Bind(o) \/ StartRun(o) \/ OnDispatch(o) \/ Ask(o) \/ ApprovedVanished(o)
           \/ ApprovedChanged(o) \/ AskAgain(o) \/ FinishCompleted(o)
  <2>1. operations' = operations
    BY <1>6, ZenonT(30)
        DEF Scope, RecordRunScope, Bind, ResolveDefinition, StartRun, Start, OnDispatch,
      Included, Ask, Wait, ApprovedVanished, ApprovedChanged, Supersede, AskAgain,
      FinishCompleted, Complete, vars
  <2>2. w.pc \notin {"call", "gone"} /\ (w.pc = "finish" => w.end = "completed")
    BY <1>6, ZenonT(30)
        DEF Scope, Bind, StartRun, OnDispatch, Ask, ApprovedVanished, ApprovedChanged,
      AskAgain, FinishCompleted, At
  <2> QED BY <1>4, <2>1, <2>2, Zenon
<1>7. CASE Open(o) \/ Invoke(o) \/ Respond(o) \/ AnswerLocally(o) \/ AskSteered(o)
           \/ AskAgainSteered(o) \/ FollowUp(o)
  <2>1. operations' = operations
    BY <1>7, ZenonT(30)
        DEF Open, Invoke, Respond, AnswerLocally, AskSteered, AskAgainSteered, FollowUp, vars
  <2>2. w.pc \notin {"call", "gone"} /\ (w.pc = "finish" => w.end = "completed")
    BY <1>7, Zenon
        DEF Open, Invoke, Respond, AnswerLocally, AskSteered, AskAgainSteered, FollowUp, At
  <2> QED BY <1>4, <2>1, <2>2, Zenon
<1>8. CASE CallTool(o)
  <2>1. PICK c \in Call, j \in Journey, s \in Shape :
          BeginUnapproved(o, c, j, s) /\ Send(o, c, 1, w)
    BY <1>8, ZenonT(30) DEF CallTool
  <2>2. /\ runs[o.run].state = "running" /\ runs' = runs
        /\ operations'[c].run = o.run /\ (k # c => operations'[k] = operations[k])
    BY <2>1, ZenonT(30) DEF BeginUnapproved, MayAttempt, lockOwner, Insert, TypeOK
  <2>3. w.pc = "calls"
    BY <1>8, Zenon DEF CallTool, At
  <2> QED BY <1>5, <2>1, <2>2, <2>3
<1>9. CASE CallApproved(o)
  <2> DEFINE i == commands[o.run].reply
             b == interactions[i].binding
             c == interactions[i].call
  <2>1. w.pc = "approved" /\ i \in Command /\ Send(o, c, 1, w)
    BY <1>9, ZenonT(30) DEF CallApproved, At, WInv, Placed
  <2>2. PICK policy \in Policy : BeginApproved(o, c, policy, i, interactions[i].journey, b[4])
    BY <1>9, ZenonT(30) DEF CallApproved
  <2>3. b = BindCall(o.run, interactions[i].journey, b[4])
    BY <1>9, ZenonT(30) DEF CallApproved
  <2>4. c \in Call
    BY <2>1, <2>2, ZenonT(30) DEF BeginApproved, Decided, WInv, Written
  <2>5. /\ runs[o.run].state = "running" /\ runs' = runs
        /\ Insert(o, c, policy, TRUE, BindCall(o.run, interactions[i].journey, b[4]))
    BY <2>2, <2>3, ZenonT(30) DEF BeginApproved, MayAttempt, lockOwner
  <2> HIDE DEF c, b
  <2>6. operations'[c].run = o.run /\ (k # c => operations'[k] = operations[k])
    BY <2>4, <2>5, ZenonT(30) DEF Insert, TypeOK
  <2> QED BY <1>5, <2>1, <2>4, <2>5, <2>6, AttemptNumbers, ZenonT(30)
<1>10. CASE Repeat(o)
  <2> DEFINE c == w.call
  <2>1. w.pc = "retry" /\ c \in Call
    BY <1>10, ZenonT(30) DEF Repeat, At, WInv, Placed
  <2>2. /\ runs[o.run].state = "running" /\ runs' = runs /\ operations[c].run = o.run
        /\ operations' = [operations EXCEPT ![c] = Reported(operations[c], "dispatching")]
        /\ Send(o, c, 2, w)
    BY <1>10, Zenon DEF Repeat, BeginRetry, MayAttempt, lockOwner
  <2>3. operations[c] \in OperationRow /\ "dispatching" \in Outcome
    BY <2>1, ZenonT(30) DEF TypeOK, Outcome
  <2>4. operations'[c].run = o.run /\ (k # c => operations'[k] = operations[k])
    BY <2>1, <2>2, <2>3, ReportedRow, Zenon DEF TypeOK
  <2> QED BY <1>5, <2>1, <2>2, <2>4, AttemptNumbers, ZenonT(30)
<1>11. CASE Return(o)
  <2>1. w.pc = "call" /\ w.call \in Call
    BY <1>11, Zenon DEF Return, At, WInv, Placed
  <2>2. PICK outcome \in DOMAIN ToolEvent :
          operations' = [operations EXCEPT ![w.call] = Reported(operations[w.call], outcome)]
    BY <1>11, Zenon DEF Return, EndAttempt
  <2>3. outcome \in Outcome /\ outcome # "dispatching"
    BY Zenon DEF ToolEvent, Outcome
  <2>4. operations[w.call] \in OperationRow
    BY <2>1, Zenon DEF TypeOK
  <2>5. operations'[w.call].outcome # "dispatching"
    BY <2>1, <2>2, <2>3, <2>4, ReportedRow, Zenon DEF TypeOK
  <2>6. k # w.call => operations'[k] = operations[k]
    BY <2>2, Zenon DEF TypeOK
  <2>7. k # w.call /\ operations[k].outcome = "dispatching" => operations[k].run # o.run
    BY <1>1, <2>1, ZenonT(30) DEF Awaits
  <2> QED BY <1>2, <2>5, <2>6, <2>7, Zenon DEF StillInHand
<1>12. CASE Stumble(o)
  <2>1. PICK state \in Failures(w.pc) : Become(o, [Failing(w, state) EXCEPT !.kept = w.pc \in Harness])
    BY <1>12, Zenon DEF Stumble
  <2>2. state # "completed"
    BY FailureAssumption, Zenon DEF Failures
  <2>3. workers'[o.run] = [Failing(w, state) EXCEPT !.kept = w.pc \in Harness]
    BY <2>1, Zenon DEF Become
  <2>4. workers'[o.run].pc = "finish" /\ workers'[o.run].end = state
    BY <2>3 DEF Failing, NoWorker
  <2>5. operations' = operations /\ runs' = runs
    BY <1>12, Zenon DEF Stumble, vars
  <2> QED BY <1>1, <1>2, <2>2, <2>4, <2>5, Zenon DEF StillInHand, Awaits
<1>13. CASE FinishFailed(o)
  <2>1. markOperationsUnknown({o.run})
    BY <1>13, ZenonT(30) DEF FinishFailed, Fail
  <2>2. {o.run} \in SUBSET Command
    OBVIOUS
  <2>3. IF k \in Dispatching({o.run}) THEN operations'[k].outcome = "outcome_unknown"
                                      ELSE operations'[k] = operations[k]
    BY <2>1, <2>2, UnknownRows, ZenonT(30)
  <2>4. k \in Dispatching({o.run}) <=> operations[k].run = o.run /\ operations[k].outcome = "dispatching"
    BY ZenonT(30) DEF Dispatching
  <2>5. /\ operations'[k].outcome = "dispatching" => operations'[k] = operations[k]
        /\ operations'[k].outcome = "dispatching" => operations[k].run # o.run
    BY <2>3, <2>4, ZenonT(30)
  <2> QED BY <1>2, <2>5, ZenonT(30) DEF StillInHand
<1> QED BY <1>6, <1>7, <1>8, <1>9, <1>10, <1>11, <1>12, <1>13, ZenonT(30) DEF Step

\* What interruptExpired and expireInteractions leave in flight.
LEMMA InHandSwept ==
  ASSUME IInv, CallsInHand, NEW R \in SUBSET Lost, markOperationsUnknown(R), workers' = workers,
         \A x \in Command : runs[x].state = "running" => runs'[x] = RunsSwept(R)[x]
  PROVE  CallsInHand'
<1> TypeOK /\ Lifecycle /\ R \in SUBSET Command
  BY Zenon DEF IInv, Lifecycle, Lost
<1> SUFFICES ASSUME NEW k \in Call, operations'[k].outcome = "dispatching"
             PROVE  runs'[operations'[k].run].state = "running"
                    /\ Awaits(workers'[operations'[k].run], k)
  BY Zenon DEF CallsInHand
<1>1. operations'[k] = operations[k] /\ operations[k].run \notin R
  BY UnknownRows, Zenon DEF Dispatching
<1>2. /\ runs[operations[k].run].state = "running"
      /\ Awaits(workers[operations[k].run], k)
      /\ operations[k].run \in Command
  BY <1>1, ZenonT(30) DEF CallsInHand, IInv, Calls, CallsConsistent, TypeOK, OperationRow
<1>3. operations[k].run \notin Overdue
  BY <1>2, Zenon DEF Lifecycle, WaitsMatch, Overdue
<1>4. RunsSwept(R)[operations[k].run] = runs[operations[k].run]
  BY <1>1, <1>2, <1>3, SweepRows, Zenon
<1> QED BY <1>1, <1>2, <1>4, Zenon

\* Steps that end no running run and touch no operation.
LEMMA InHandFrame ==
  ASSUME CallsInHand, IInv, operations' = operations,
         \A x \in Command : runs[x].state = "running" =>
           runs'[x].state = "running" /\ workers'[x] = workers[x]
  PROVE  CallsInHand'
<1> SUFFICES ASSUME NEW k \in Call, operations'[k].outcome = "dispatching"
             PROVE  runs'[operations'[k].run].state = "running"
                    /\ Awaits(workers'[operations'[k].run], k)
  BY Zenon DEF CallsInHand
<1>1. /\ runs[operations[k].run].state = "running"
      /\ Awaits(workers[operations[k].run], k)
      /\ operations[k].run \in Command
  BY Zenon DEF CallsInHand, IInv, Calls, CallsConsistent, Lifecycle, TypeOK, OperationRow
<1> QED BY <1>1, Zenon

\* Every step keeps each call in flight in the hands of the worker that awaits it.
LEMMA InHandKept ==
  ASSUME IInv, WInv, CallsInHand, [WNext]_allvars
  PROVE  CallsInHand'
<1> TypeOK /\ Lifecycle
  BY Zenon DEF IInv, Lifecycle
<1> Lost \in SUBSET Lost /\ {} \in SUBSET Lost
  BY Zenon
<1>1. CASE UNCHANGED <<vars, workers>>
  BY <1>1, InHandFrame, Zenon DEF vars
<1>2. ASSUME NEW c \in Command, NEW p \in Replica, Submit(c, p)
      PROVE  CallsInHand'
  <2>1. commands[c].exec = None /\ markOperationsUnknown(Lost) /\ workers' = workers
    BY <1>2, ZenonT(30) DEF Submit, Admit
  <2>2. runs' = RunsSwept(Lost) \/ runs' = [RunsSwept(Lost) EXCEPT ![c] = FreshRun(None, None)]
    BY <1>2, Zenon DEF Submit, Admit
  <2>3. runs[c].state = "absent"
    BY <2>1, Zenon DEF Lifecycle, RunsConsistent
  <2>4. DOMAIN RunsSwept(Lost) = Command
    BY Zenon DEF RunsSwept
  <2>5. \A x \in Command : runs[x].state = "running" => runs'[x] = RunsSwept(Lost)[x]
    BY <2>2, <2>3, <2>4, Zenon
  <2> QED BY <2>1, <2>5, InHandSwept, Zenon
<1>3. ASSUME NEW c \in Command, NEW i \in Command, NEW approve \in BOOLEAN,
             ReplyInTime(c, i, approve), workers' = workers
      PROVE  CallsInHand'
  <2>1. commands[c].exec = None /\ operations' = operations
        /\ \A r \in Command : r # c /\ runs[r].state # "awaiting_input" => runs'[r] = runs[r]
    BY <1>3, Zenon DEF ReplyInTime
  <2>2. runs[c].state = "absent"
    BY <2>1, Zenon DEF Lifecycle, RunsConsistent
  <2> QED BY <1>3, <2>1, <2>2, InHandFrame, ZenonT(30)
<1>4. ASSUME NEW c \in Command, NEW i \in Command, ReplyTooLate(c, i), workers' = workers
      PROVE  CallsInHand'
  <2>1. operations' = operations /\ runs' = RunsSwept({})
    BY <1>4, Zenon DEF ReplyTooLate
  <2>2. \A x \in Command : runs[x].state = "running" => x \notin Overdue
    BY Zenon DEF Lifecycle, WaitsMatch, Overdue
  <2>3. \A x \in Command : runs[x].state = "running" => runs'[x] = runs[x]
    BY <2>1, <2>2, SweepRows, Zenon
  <2> QED BY <1>4, <2>1, <2>3, InHandFrame, Zenon
<1>5. ASSUME NEW c \in Command, NEW p \in Replica, StartWorker(c, p)
      PROVE  CallsInHand'
  <2>1. /\ runs[c].state = "pending" /\ operations' = operations
        /\ \A x \in Command : x # c => runs'[x] = runs[x]
    BY <1>5, Zenon DEF StartWorker, Claim, TypeOK
  <2>2. \A x \in Command : x # c => workers'[x] = workers[x]
    BY <1>5, Zenon DEF StartWorker, WInv
  <2> QED BY <2>1, <2>2, InHandFrame, Zenon
<1>6. ASSUME NEW r \in Command, Reaper(r)
      PROVE  CallsInHand'
  <2>1. /\ runs' = RunsSwept({r} \cap Lost) /\ markOperationsUnknown({r} \cap Lost)
        /\ workers' = workers
    BY <1>6, Zenon DEF Reaper, Reap
  <2>2. {r} \cap Lost \in SUBSET Lost
    BY Zenon
  <2> QED BY <2>1, <2>2, InHandSwept, Zenon
<1>7. ASSUME NEW x \in Command, Clock(x)
      PROVE  CallsInHand'
  <2>1. CASE LeaseTick(x)
    <3>1. /\ operations' = operations /\ workers' = workers
          /\ runs' = [runs EXCEPT ![x] = Leased(runs[x], runs[x].lease - 1)]
      BY <1>7, <2>1 DEF Clock, wvars, LeaseTick
    <3>2. \A r \in Command : runs'[r].state = runs[r].state
      BY <2>1, <3>1, LeaseTicked, LeaseStates, ZenonT(30)
    <3> QED BY <3>1, <3>2, InHandFrame, Zenon
  <2>2. CASE InteractionTimeout(x)
    BY <1>7, <2>2, InHandFrame, Zenon DEF Clock, wvars, InteractionTimeout
  <2> QED BY <1>7, <2>1, <2>2, Zenon DEF Clock
<1>8. ASSUME NEW o \in owners, Heartbeat(o)
      PROVE  CallsInHand'
  <2>1. /\ operations' = operations /\ workers' = workers /\ o.run \in Command
        /\ runs' = [runs EXCEPT ![o.run] = Leased(runs[o.run], Lease)]
        /\ Lease \in 0..Lease
    BY <1>8, LeaseAssumption DEF Heartbeat, wvars, Renew, TypeOK, Owner
  <2>2. \A r \in Command : runs'[r].state = runs[r].state
    BY <2>1, LeaseStates, ZenonT(30)
  <2> QED BY <2>1, <2>2, InHandFrame, Zenon
<1>9. ASSUME NEW o \in owners, Lose(o)
      PROVE  CallsInHand'
  <2>1. o.run \in Command /\ operations' = operations /\ runs' = runs
        /\ workers' = [workers EXCEPT ![o.run] = Gone]
    BY <1>9, Zenon DEF Lose, Become, vars, TypeOK, Owner
  <2>2. Gone.pc = "gone"
    BY Zenon DEF Gone, NoWorker
  <2> SUFFICES ASSUME NEW k \in Call, operations[k].outcome = "dispatching"
               PROVE  runs[operations[k].run].state = "running"
                      /\ Awaits(workers'[operations[k].run], k)
    BY <2>1, Zenon DEF CallsInHand
  <2>3. /\ runs[operations[k].run].state = "running"
        /\ Awaits(workers[operations[k].run], k)
        /\ operations[k].run \in Command
    BY Zenon DEF CallsInHand, IInv, Calls, CallsConsistent, TypeOK, OperationRow
  <2>4. workers'[operations[k].run] \in {workers[operations[k].run], Gone}
    BY <2>1, <2>3, Zenon DEF WInv
  <2> QED BY <2>2, <2>3, <2>4, Zenon DEF Awaits
<1>10. ASSUME NEW c \in Command, NEW p \in Replica, Client(c, p)
       PROVE  CallsInHand'
  BY <1>1, <1>2, <1>3, <1>4, <1>5, <1>10, Zenon
  DEF Client, SubmitReply, Resubmit, Abandon
<1>11. ASSUME NEW k \in Call, NEW n \in 1..2, Tool(k, n)
       PROVE  CallsInHand'
  BY <1>1, <1>11, Zenon DEF Tool
<1>12. CASE UNCHANGED allvars
  BY <1>1, <1>12, Zenon DEF allvars, wvars
<1> QED BY <1>6, <1>7, <1>8, <1>9, <1>10, <1>11, <1>12, InHandStep, Zenon DEF WNext, Server

\* No call is left in flight by a run that completed or waits: the worker that
\* sent it gets to neither without its answer, although Complete and Wait do not
\* look at the operations.
THEOREM NoCallLeftInFlight == WSpec => []NoneInFlight
<1>1. WInit => Init /\ IInv /\ WInv
  BY WorkerInit, Zenon
<1>2. WInit => CallsInHand
  BY DEF WInit, Init, CallsInHand, NoOperation
<1>3. IInv /\ WInv /\ [WNext]_allvars => [Next]_vars /\ WInv'
  BY StepsImplement, PlacedStep, Zenon
<1>4. IInv /\ [Next]_vars => IInv'
  BY InvariantStep, Zenon
<1>5. IInv /\ WInv /\ CallsInHand /\ [WNext]_allvars => CallsInHand'
  BY InHandKept, Zenon
<1>6. CallsInHand => NoneInFlight
  BY Zenon DEF CallsInHand, NoneInFlight
<1> QED BY <1>1, <1>2, <1>3, <1>4, <1>5, <1>6, PTL DEF WSpec
=============================================================================
