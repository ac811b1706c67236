------------------------------- MODULE Chat -------------------------------
(***************************************************************************)
(* The Chat front of one conversation: the HTTP handler (internal/chat),   *)
(* platform.Observe and the journal's Snapshot and Events, composed with   *)
(* the journal.                                                            *)
(*                                                                         *)
(* A client has one request at a time: a POST that submits a command and   *)
(* then follows its run, or a GET that follows the run of a command it     *)
(* sent before.  Requests are cut off at any point.  The workers, the      *)
(* reaper and the clock may do whatever the journal lets them; commands    *)
(* come in through the handler only.                                       *)
(*                                                                         *)
(* A position in the log stands for an event's sequence number.            *)
(***************************************************************************)
EXTENDS Journal

CONSTANT Client
ASSUME ClientAssumption == None \notin Client

VARIABLES
  mapped,      \* chat_runs: the commands that have an external ID
  requests     \* the request of each client

cvars == <<mapped, requests>>
chatvars == <<vars, cvars>>

\* From the top: what was asked for, and whether by POST; the run that is followed; the
\* watermark of its snapshot; the last event handed over and the last one the poll has read;
\* the event IDs the client got from this stream; what it was told last.
Request ==
  [phase: {"idle", "submit", "claim", "observe", "ask", "tail"},
   posted: BOOLEAN, cmd: Command \cup {None}, wait: Command \cup {None},
   run: Command \cup {None}, mark: Nat, after: Nat, read: Nat, sent: Seq(Nat),
   told: {"", "unavailable", "finished"} \cup (Terminal \ {"completed"})]

NoRequest ==
  [phase |-> "idle", posted |-> FALSE, cmd |-> None, wait |-> None, run |-> None, mark |-> 0,
   after |-> 0, read |-> 0, sent |-> <<>>, told |-> ""]

CTypeOK == mapped \subseteq Command /\ requests \in [Client -> Request]

ChatInit == Init /\ mapped = {} /\ requests = [k \in Client |-> NoRequest]

In(k, phase) == requests[k].phase = phase
Turn(k, req) == requests' = [requests EXCEPT ![k] = req]
Goto(k, phase) == Turn(k, [requests[k] EXCEPT !.phase = phase])

\* The response ends.
Close(k, verdict) == Turn(k, [NoRequest EXCEPT !.told = verdict])

\* From here on only the command matters, not what it replies to.
Observing(k) == Turn(k, [requests[k] EXCEPT !.phase = "observe", !.wait = None])

\* Nothing about the run: an HTTP error or no more data; RUN_ERROR "observation unavailable".
NoVerdict == {"", "unavailable"}

----------------------------------------------------------------------------
(* A request comes in.                                                     *)

\* IdentityMap.resolve commits the mapping before the command is submitted.
Post(k, c, i) ==
  /\ In(k, "idle")
  /\ mapped' = mapped \cup {c}
  /\ Turn(k, [NoRequest EXCEPT !.phase = "submit", !.posted = TRUE, !.cmd = c, !.wait = i])
  /\ UNCHANGED vars

Get(k, c) ==
  /\ In(k, "idle")
  /\ c \in mapped
  /\ Turn(k, [NoRequest EXCEPT !.phase = "observe", !.cmd = c])
  /\ UNCHANGED <<vars, mapped>>

\* Submit up to its Claim: a new message or reply, or one that was sent before.
SubmitMessage(k) ==
  LET c == requests[k].cmd
  IN /\ In(k, "submit") /\ requests[k].wait = None
     /\ Admit(c)
     /\ IF commands'[c].exec = c THEN Goto(k, "claim") ELSE Observing(k)
     /\ UNCHANGED mapped

SubmitReply(k) ==
  LET c == requests[k].cmd
      i == requests[k].wait
  IN /\ In(k, "submit") /\ i # None
     /\ \/ (\E approve \in BOOLEAN : ReplyInTime(c, i, approve)) /\ Goto(k, "claim")
        \/ ReplyTooLate(c, i) /\ Close(k, "")
     /\ UNCHANGED mapped

\* Mutant: a command sent again is claimed again, whatever became of its run.
SubmitAgainClaims(k) ==
  LET c == requests[k].cmd
  IN /\ In(k, "submit")
     /\ commands[c].exec # None /\ commands[c].reply = requests[k].wait
     /\ Goto(k, "claim")
     /\ UNCHANGED <<vars, mapped>>

SubmitAgain(k) ==
  LET c == requests[k].cmd
  IN /\ In(k, "submit")
     /\ commands[c].exec # None /\ commands[c].reply = requests[k].wait
     /\ IF requests[k].wait # None /\ runs[c].state = "pending"
        THEN Goto(k, "claim") ELSE Observing(k)
     /\ UNCHANGED <<vars, mapped>>

ClaimRun(k) ==
  /\ In(k, "claim")
  /\ \E p \in Replica : Claim(requests[k].cmd, p)
  /\ Observing(k)
  /\ UNCHANGED mapped

\* commandError: busy, conflicting, expired, draining, not the owner, or the database failed.
Refuse(k) ==
  /\ requests[k].phase \in {"submit", "claim", "observe"}
  /\ Close(k, "")
  /\ UNCHANGED <<vars, mapped>>

----------------------------------------------------------------------------
(* The stream.                                                             *)

\* Mutant: a command that joined another run is looked for under its own ID.
CarriedBySelf(c) == c

\* The run that carries command c, or c itself when it is not in the snapshot.
CarriedBy(c) == IF commands[c].exec = None THEN c ELSE commands[c].exec

Larger(m, n) == IF m < n THEN n ELSE m

\* Mutant: the tail starts at the client's cursor whatever the snapshot holds.
FromCursor(cursor) == cursor

\* Where the tail starts: the snapshot has everything up to its watermark.
Watermark(cursor) == Larger(cursor, Len(events))

\* The states that the handler projects from the run's row instead of tailing.
Settled == Terminal \cup {"awaiting_input"}

\* What a client is told about a run in this state.
Verdict(state) == IF state \in {"completed", "awaiting_input"} THEN "finished" ELSE state

\* Observe: the snapshot and its watermark are one view.  A run that has ended is projected
\* from its row; one that waits needs a second snapshot; any other is tailed.  The client's
\* Last-Event-ID is none, or some event it got.
Observe(k) ==
  LET r == CarriedBy(requests[k].cmd)
  IN /\ In(k, "observe")
     /\ \E c \in Command : commands[c].exec # None
     /\ \/ runs[r].state \in Terminal /\ Close(k, Verdict(runs[r].state))
        \/ runs[r].state = "awaiting_input"
           /\ Turn(k, [requests[k] EXCEPT !.phase = "ask", !.run = r])
        \/ /\ runs[r].state \notin Settled
           /\ \E cursor \in 0..Len(events) :
                Turn(k, [requests[k] EXCEPT !.phase = "tail", !.run = r, !.mark = Len(events),
                           !.after = Watermark(cursor), !.read = Watermark(cursor)])
     /\ UNCHANGED <<vars, mapped>>

\* run.awaiting_input: the open interaction is looked up again and shown, if it still is open.
Ask(k) ==
  /\ In(k, "ask")
  /\ Close(k, "finished")
  /\ UNCHANGED <<vars, mapped>>

Poll(k) ==
  /\ In(k, "tail")
  /\ requests[k].after = requests[k].read /\ requests[k].read < Len(events)
  /\ Turn(k, [requests[k] EXCEPT !.read = Len(events)])
  /\ UNCHANGED <<vars, mapped>>

\* The commands an event is about, whose external IDs it is shown with.
Named(e) == IF e.type \in FateTypes \cup {"command.accepted"} THEN e.about ELSE {}

EndOf(type) == CHOOSE s \in DOMAIN RunEvent : RunEvent[s] = type

OfRun(k, e) == e.run = requests[k].run

\* One event is handed over; those of other runs are skipped.
Deliver(k) ==
  LET n == requests[k].after + 1
      e == events[n]
      req == [requests[k] EXCEPT !.after = n]
      got == [req EXCEPT !.sent = Append(@, n)]
  IN /\ In(k, "tail")
     /\ requests[k].after < requests[k].read
     /\ \/ ~OfRun(k, e) /\ Turn(k, req)
        \/ OfRun(k, e) /\ e.type = "run.awaiting_input" /\ Turn(k, [requests[k] EXCEPT !.phase = "ask"])
        \/ OfRun(k, e) /\ e.type \in EndTypes /\ Close(k, Verdict(EndOf(e.type)))
        \/ OfRun(k, e) /\ e.type \notin EndTypes \cup {"run.awaiting_input"}
           /\ IF Named(e) \subseteq mapped THEN Turn(k, got) ELSE Close(k, "unmapped")
     /\ UNCHANGED <<vars, mapped>>

\* A query of the poll or of the second snapshot fails.  The handler may find the event
\* channel closed before it sees the error, and then ends without a word.
Fails(k) ==
  /\ \/ In(k, "tail") /\ \E verdict \in {"unavailable", ""} : Close(k, verdict)
     \/ In(k, "ask") /\ Close(k, "unavailable")
  /\ UNCHANGED <<vars, mapped>>

\* The connection or the replica goes away.
Drop(k) ==
  /\ ~In(k, "idle")
  /\ Close(k, "")
  /\ UNCHANGED <<vars, mapped>>

----------------------------------------------------------------------------
\* What goes on without the handler: the clock, the reaper, and whoever holds a token.
Background ==
  /\ \/ \E r \in Command : Reap(r) \/ LeaseTick(r) \/ InteractionTimeout(r)
     \/ \E o \in owners : Owned(o)
  /\ UNCHANGED cvars

Admission(k) == SubmitMessage(k) \/ SubmitReply(k) \/ SubmitAgain(k) \/ ClaimRun(k)

Stream(k) == Observe(k) \/ Ask(k) \/ Poll(k) \/ Deliver(k)

----------------------------------------------------------------------------
(* Properties.                                                             *)

\* What a client is told about its command is so, and by Irrevocable stays so: the run that
\* carries the command has ended that way, or has at least got as far as asking, and the
\* command itself is no longer waiting to be taken up.  No event lacks the external ID of a
\* command it names.
ToldTrue ==
  [][\A k \in Client :
       LET c == requests[k].cmd
           r == commands[c].exec
       IN ~In(k, "idle") /\ requests'[k].told \notin NoVerdict =>
            /\ r # None /\ c \notin Undrained(r)
            /\ \/ requests'[k].told = runs[r].state
               \/ /\ requests'[k].told = "finished"
                  /\ runs[r].state = "completed" \/ interactions[r].state # "absent"]_chatvars

\* "Polling is the entire wakeup mechanism here, so writes during snapshot creation cannot
\* be lost" (platform.Observe): the snapshot and the events after it are the run's log, each
\* event once and in order.
NothingLost ==
  \A k \in Client : In(k, "tail") =>
    LET req == requests[k]
    IN /\ req.mark <= req.after /\ req.after <= Len(events)
       /\ {req.sent[x] : x \in DOMAIN req.sent} =
            {n \in (req.mark + 1)..req.after : events[n].run = req.run}
       /\ \A x, y \in DOMAIN req.sent : x < y => req.sent[x] < req.sent[y]

\* A client that submits a command hears how it ended: no stream is left open when the run
\* that carries the command has ended or waits, as long as the handler and its poll go on.
StreamsEnd ==
  \A k \in Client, r \in Command :
    In(k, "tail") /\ requests[k].posted /\ commands[requests[k].cmd].exec = r
        /\ runs[r].state \in Settled
      ~> ~In(k, "tail")
============================================================================
