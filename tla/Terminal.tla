----------------------------- MODULE Terminal -----------------------------
(***************************************************************************)
(* The developer terminal (internal/devtui, cmd/agent-platform-tui) as one *)
(* client of Chat, beside clients of any other kind.                       *)
(*                                                                         *)
(* One Enter of the user is one action; the terminal ignores Enter while a *)
(* stream is open.  What the stream brings is applied as it arrives.  The  *)
(* transcript is left out, and a clarification has one question.           *)
(***************************************************************************)
EXTENDS Chat

CONSTANTS
  Tui,        \* the client that is the terminal
  MaxFaults   \* a bound on its requests that fail or are cut off

ASSUME TuiAssumption == Tui \in Client
ASSUME FaultsAssumption == MaxFaults \in Nat

VARIABLES
  tui,        \* Model
  faults      \* how many of its requests went wrong

tvars == <<tui, faults>>
allvars == <<chatvars, tvars>>

\* sent: lastRequest is set, and is the request that carries runID; wait: what it replies to.
TuiState ==
  [run: Command \cup {None}, pending: Command \cup {None}, terminal: BOOLEAN,
   sent: BOOLEAN, wait: Command \cup {None}, left: BOOLEAN]

NewModel ==
  [run |-> None, pending |-> None, terminal |-> FALSE, sent |-> FALSE, wait |-> None,
   left |-> FALSE]

TTypeOK ==
  /\ CTypeOK
  /\ tui \in TuiState /\ faults \in 0..MaxFaults
  /\ tui.sent => tui.run # None

TuiInit == ChatInit /\ tui = NewModel /\ faults = 0

streaming == ~In(Tui, "idle")

----------------------------------------------------------------------------
(* Enter.                                                                  *)

\* Started with --run: the stream of a run is resumed.
Launch(c) ==
  /\ tui = NewModel /\ ~streaming
  /\ Get(Tui, c)
  /\ tui' = [tui EXCEPT !.run = c]
  /\ UNCHANGED faults

\* start: newID has not been used before.
Send(c, i) ==
  /\ c \notin mapped
  /\ Post(Tui, c, i)
  /\ tui' = [tui EXCEPT !.run = c, !.sent = TRUE, !.wait = i, !.terminal = FALSE]
  /\ UNCHANGED faults

\* Text is a message, or the answer to what is pending; it is held back while the fate of
\* the last request is not known.
EnterText(c) ==
  /\ ~streaming /\ ~tui.left
  /\ ~tui.sent \/ tui.terminal
  /\ Send(c, tui.pending)

EnterRetry ==
  /\ ~streaming /\ ~tui.left /\ ~tui.terminal
  /\ \/ tui.sent /\ Post(Tui, tui.run, tui.wait)
     \/ ~tui.sent /\ tui.run # None /\ Get(Tui, tui.run)
  /\ UNCHANGED tvars

\* /new starts another conversation, which is none of this module's.
EnterNew ==
  /\ ~streaming
  /\ tui' = [NewModel EXCEPT !.left = TRUE]
  /\ UNCHANGED <<chatvars, faults>>

----------------------------------------------------------------------------
(* What the stream brings.                                                 *)

\* Mutant: a snapshot without an interaction leaves the old one in place.
SnapshotKeeps(r) == IF interactions[r].state = "pending" THEN r ELSE tui.pending

\* STATE_SNAPSHOT
Snapshotted(r) == IF interactions[r].state = "pending" THEN r ELSE None

\* interaction.requested, whose value is null when the wait is over by now
Requested(r) == IF interactions[r].state = "pending" THEN r ELSE tui.pending

\* RUN_FINISHED or RUN_ERROR; parseSSE reports a stream that ends without one as an error.
Finished == In(Tui, "idle")' /\ requests'[Tui].told # ""

apply ==
  /\ \/ Observe(Tui)
        /\ tui' = [tui EXCEPT !.pending = Snapshotted(CarriedBy(requests[Tui].cmd)),
                              !.terminal = Finished]
     \/ Ask(Tui)
        /\ tui' = [tui EXCEPT !.pending = Requested(requests[Tui].run), !.terminal = Finished]
     \/ Poll(Tui) /\ UNCHANGED tui
     \/ Deliver(Tui) /\ tui' = [tui EXCEPT !.terminal = Finished]
  /\ UNCHANGED faults

Admitted == Admission(Tui) /\ UNCHANGED tvars

\* The journal does not take the command, or the run was interrupted before it was claimed.
Rejected ==
  /\ In(Tui, "submit") \/ In(Tui, "claim")
  /\ ~ENABLED Admission(Tui)
  /\ Refuse(Tui)
  /\ UNCHANGED tvars

Fault ==
  /\ faults < MaxFaults
  /\ faults' = faults + 1
  /\ Refuse(Tui) \/ Fails(Tui) \/ Drop(Tui)
  /\ tui' = [tui EXCEPT !.terminal = Finished]

----------------------------------------------------------------------------
Enter == EnterRetry \/ EnterNew \/ \E c \in Command : Launch(c) \/ EnterText(c)

\* A request of another client, or one of the terminal's own that was cut off and that the
\* handler still carries out.  The streams of others write nothing, and are left out.
Elsewhere(c) ==
  /\ ~(tui.sent /\ tui.run = c)
  /\ \/ mapped' = mapped \cup {c} /\ UNCHANGED <<vars, requests>>
     \/ /\ c \in mapped
        /\ \/ Admit(c)
           \/ \E i \in Command \ {c}, approve \in BOOLEAN : ReplyInTime(c, i, approve)
           \/ \E i \in Command \ {c} : ReplyTooLate(c, i)
           \/ \E p \in Replica : Claim(c, p)
        /\ UNCHANGED cvars

Others == (Background \/ \E c \in Command : Elsewhere(c)) /\ UNCHANGED tvars

TuiNext == Enter \/ apply \/ Admitted \/ Rejected \/ Fault \/ Others

TuiSpec == TuiInit /\ [][TuiNext]_allvars

----------------------------------------------------------------------------
(* Properties.                                                             *)

\* The terminal knows the fate of its last command, and not because the observation failed.
Informed == ~streaming /\ tui.terminal /\ requests[Tui].told # "unavailable"

\* Whatever was cut off and repeated on the way, an informed terminal asks the user for the
\* answer its run waits for, and never for one that it has already given.
AsksWhatIsOpen ==
  Informed =>
    /\ \A r \in Command :
         commands[tui.run].exec = r /\ runs[r].state = "awaiting_input" => tui.pending = r
    /\ tui.pending # None => interactions[tui.pending].cont # tui.run

\* The user goes on typing /retry, and the server goes on serving.
TuiFairness ==
  WF_allvars(EnterRetry) /\ WF_allvars(apply) /\ WF_allvars(Admitted \/ Rejected)
FairTuiSpec == TuiSpec /\ TuiFairness

\* "If a stream ends before a terminal event, /retry resends the exact request" (README.md):
\* once the command was accepted and its run has ended or waits, repeating the request tells
\* the terminal so, wherever the earlier ones were cut off.
RetryTells ==
  \A c \in Command :
    tui.run = c /\ tui.sent /\ commands[c].exec # None
        /\ (\E r \in Command : r = commands[c].exec /\ runs[r].state \in Settled)
      ~> tui.run # c \/ tui.terminal
============================================================================
