----------------------------- MODULE ChatProofs -----------------------------
(* Proofs about Chat and Terminal, for any number of commands, clients, replicas and faults. *)
(* TInv, the joint invariant of the journal, the handler and the terminal: the log tells the *)
(* truth (LogSound), every request follows the run that carries its command and has handed   *)
(* over what the log says of it (Sane), and the terminal shows what the stream of its last   *)
(* command brought (ShowsStream).                                                            *)
EXTENDS Terminal, LogProofs

----------------------------------------------------------------------------
(* Chat: the request of a client.                                          *)

Phase == {"idle", "submit", "claim", "observe", "ask", "tail"}
Told == {"", "unavailable", "finished"} \cup (Terminal \ {"completed"})

\* Goto.
LEMMA GotoRow ==
  ASSUME NEW req \in Request, NEW ph \in Phase
  PROVE  LET new == [req EXCEPT !.phase = ph]
         IN /\ new \in Request /\ new.phase = ph /\ new.cmd = req.cmd /\ new.run = req.run
            /\ new.mark = req.mark /\ new.after = req.after /\ new.read = req.read
            /\ new.sent = req.sent /\ new.told = req.told
BY Zenon DEF Request, Phase

\* Observing.
LEMMA ObservingRow ==
  ASSUME NEW req \in Request
  PROVE  LET new == [req EXCEPT !.phase = "observe", !.wait = None]
         IN /\ new \in Request /\ new.phase = "observe" /\ new.cmd = req.cmd
            /\ new.read = req.read /\ new.sent = req.sent /\ new.told = req.told
BY Zenon DEF Request

\* The run waits.
LEMMA AskRow ==
  ASSUME NEW req \in Request, NEW r \in Command
  PROVE  LET new == [req EXCEPT !.phase = "ask", !.run = r]
         IN /\ new \in Request /\ new.phase = "ask" /\ new.cmd = req.cmd /\ new.run = r
            /\ new.read = req.read /\ new.told = req.told
BY Zenon DEF Request

TailRow(req, r, n) ==
  [req EXCEPT !.phase = "tail", !.run = r, !.mark = n, !.after = n, !.read = n]

\* The run is followed.
LEMMA TailFields ==
  ASSUME NEW req \in Request, NEW r \in Command, NEW n \in Nat
  PROVE  LET new == TailRow(req, r, n)
         IN /\ new \in Request /\ new.phase = "tail" /\ new.cmd = req.cmd /\ new.run = r
            /\ new.mark = n /\ new.after = n /\ new.read = n
            /\ new.sent = req.sent /\ new.told = req.told
BY Zenon DEF Request, TailRow

\* Poll.
LEMMA PollRow ==
  ASSUME NEW req \in Request, NEW n \in Nat
  PROVE  LET new == [req EXCEPT !.read = n]
         IN /\ new \in Request /\ new.phase = req.phase /\ new.cmd = req.cmd /\ new.run = req.run
            /\ new.mark = req.mark /\ new.after = req.after /\ new.read = n
            /\ new.sent = req.sent /\ new.told = req.told
BY Zenon DEF Request

\* An event of another run.
LEMMA SkipRow ==
  ASSUME NEW req \in Request, NEW n \in Nat
  PROVE  LET new == [req EXCEPT !.after = n]
         IN /\ new \in Request /\ new.phase = req.phase /\ new.cmd = req.cmd /\ new.run = req.run
            /\ new.mark = req.mark /\ new.after = n /\ new.read = req.read
            /\ new.sent = req.sent /\ new.told = req.told
BY Zenon DEF Request

\* An event of the run.
LEMMA SentRow ==
  ASSUME NEW req \in Request, NEW s \in Seq(Nat)
  PROVE  LET new == [req EXCEPT !.sent = s]
         IN /\ new \in Request /\ new.phase = req.phase /\ new.cmd = req.cmd /\ new.run = req.run
            /\ new.mark = req.mark /\ new.after = req.after /\ new.read = req.read
            /\ new.sent = s /\ new.told = req.told
BY Zenon DEF Request

\* No request.
LEMMA NoRequestRow ==
  /\ NoRequest \in Request /\ NoRequest.phase = "idle" /\ NoRequest.sent = <<>>
  /\ NoRequest.told = "" /\ NoRequest.read = 0
<1>1. <<>> \in Seq(Nat) /\ 0 \in Nat
  OBVIOUS
<1> QED BY <1>1, Zenon DEF NoRequest, Request

\* The response ends.
LEMMA CloseRow ==
  ASSUME NEW v \in Told
  PROVE  LET new == [NoRequest EXCEPT !.told = v]
         IN new \in Request /\ new.phase = "idle" /\ new.told = v /\ new.read = 0
<1>1. ASSUME NEW req \in Request
      PROVE  LET new == [req EXCEPT !.told = v]
             IN new \in Request /\ new.phase = req.phase /\ new.told = v /\ new.read = req.read
  BY Zenon DEF Request, Told
<1> QED BY <1>1, NoRequestRow, Zenon

PostRow(c, i) == [NoRequest EXCEPT !.phase = "submit", !.posted = TRUE, !.cmd = c, !.wait = i]

\* Post.
LEMMA PostFields ==
  ASSUME NEW c \in Command, NEW i \in Command \cup {None}
  PROVE  /\ PostRow(c, i) \in Request /\ PostRow(c, i).phase = "submit" /\ PostRow(c, i).cmd = c
         /\ PostRow(c, i).sent = <<>> /\ PostRow(c, i).told = "" /\ PostRow(c, i).read = 0
<1>1. ASSUME NEW req \in Request
      PROVE  LET new == [req EXCEPT !.phase = "submit", !.posted = TRUE, !.cmd = c, !.wait = i]
             IN /\ new \in Request /\ new.phase = "submit" /\ new.cmd = c
                /\ new.sent = req.sent /\ new.told = req.told /\ new.read = req.read
  BY Zenon DEF Request
<1> QED BY <1>1, NoRequestRow, Zenon DEF PostRow

GetRow(c) == [NoRequest EXCEPT !.phase = "observe", !.cmd = c]

\* Get.
LEMMA GetFields ==
  ASSUME NEW c \in Command
  PROVE  /\ GetRow(c) \in Request /\ GetRow(c).phase = "observe" /\ GetRow(c).cmd = c
         /\ GetRow(c).sent = <<>> /\ GetRow(c).told = "" /\ GetRow(c).read = 0
<1>1. ASSUME NEW req \in Request
      PROVE  LET new == [req EXCEPT !.phase = "observe", !.cmd = c]
             IN /\ new \in Request /\ new.phase = "observe" /\ new.cmd = c
                /\ new.sent = req.sent /\ new.told = req.told /\ new.read = req.read
  BY Zenon DEF Request
<1> QED BY <1>1, NoRequestRow, Zenon DEF GetRow

----------------------------------------------------------------------------
(* Chat: what a stream has handed over.                                    *)

\* Of what log L says about run r after mark, everything up to after was sent, in order.
Heard(L, r, mark, after, sent) ==
  /\ mark <= after /\ after <= Len(L)
  /\ {sent[x] : x \in DOMAIN sent} = {n \in (mark + 1)..after : L[n].run = r}
  /\ \A x, y \in DOMAIN sent : x < y => sent[x] < sent[y]

\* At its watermark a stream has sent nothing.
LEMMA HeardNothing ==
  ASSUME NEW L \in Seq(Entry), NEW r
  PROVE  Heard(L, r, Len(L), Len(L), <<>>)
<1>1. Len(L) \in Nat /\ DOMAIN <<>> = {}
  OBVIOUS
<1>2. Len(L) <= Len(L) /\ (Len(L) + 1)..Len(L) = {}
  BY <1>1
<1> QED BY <1>1, <1>2, Zenon DEF Heard

\* What is appended to the log changes nothing about what was sent.
LEMMA HeardStill ==
  ASSUME NEW L \in Seq(Entry), NEW M \in Seq(Entry), Len(L) <= Len(M),
         \A n \in 1..Len(L) : M[n] = L[n], NEW r, NEW mark \in Nat, NEW after \in Nat, NEW sent,
         Heard(L, r, mark, after, sent)
  PROVE  Heard(M, r, mark, after, sent)
<1>1. mark <= after /\ after <= Len(L)
  BY Zenon DEF Heard
<1>2. Len(L) \in Nat /\ Len(M) \in Nat
  OBVIOUS
<1>3. after <= Len(M) /\ (mark + 1)..after \subseteq 1..Len(L)
  BY <1>1, <1>2
<1>4. {n \in (mark + 1)..after : M[n].run = r} = {n \in (mark + 1)..after : L[n].run = r}
  BY <1>3, Zenon
<1> QED BY <1>1, <1>3, <1>4, Zenon DEF Heard

\* The next event is of another run.
LEMMA HeardSkip ==
  ASSUME NEW L \in Seq(Entry), NEW r, NEW mark \in Nat, NEW after \in Nat, NEW sent,
         Heard(L, r, mark, after, sent), after + 1 <= Len(L), L[after + 1].run # r
  PROVE  Heard(L, r, mark, after + 1, sent)
<1>1. mark <= after
  BY Zenon DEF Heard
<1>2. mark <= after + 1 /\ (mark + 1)..(after + 1) = ((mark + 1)..after) \cup {after + 1}
  BY <1>1
<1>3. {n \in (mark + 1)..(after + 1) : L[n].run = r} = {n \in (mark + 1)..after : L[n].run = r}
  BY <1>2, Zenon
<1> QED BY <1>2, <1>3, Zenon DEF Heard

\* The next event is of this run, and is sent.
LEMMA HeardNext ==
  ASSUME NEW L \in Seq(Entry), NEW r, NEW mark \in Nat, NEW after \in Nat, NEW sent \in Seq(Nat),
         Heard(L, r, mark, after, sent), after + 1 <= Len(L), L[after + 1].run = r
  PROVE  Heard(L, r, mark, after + 1, Append(sent, after + 1))
<1> DEFINE n == after + 1
           new == Append(sent, n)
<1>1. mark <= after
  BY Zenon DEF Heard
<1>2. mark <= n /\ (mark + 1)..n = ((mark + 1)..after) \cup {n} /\ n \in Nat
  BY <1>1
<1>3. /\ DOMAIN new = (DOMAIN sent) \cup {Len(sent) + 1} /\ new[Len(sent) + 1] = n
      /\ \A x \in DOMAIN sent : new[x] = sent[x] /\ x <= Len(sent)
  BY <1>2
<1>4. \A x \in DOMAIN sent : sent[x] \in (mark + 1)..after
  BY Zenon DEF Heard
<1>5. \A x \in DOMAIN sent : sent[x] < n
  BY <1>1, <1>4
<1> HIDE DEF n, new
<1>6. {new[x] : x \in DOMAIN new} = {sent[x] : x \in DOMAIN sent} \cup {n}
  <2>1. \A x \in DOMAIN new : new[x] = n \/ (x \in DOMAIN sent /\ new[x] = sent[x])
    BY <1>3, Zenon
  <2>2. \A x \in DOMAIN sent : x \in DOMAIN new /\ new[x] = sent[x]
    BY <1>3, Zenon
  <2>3. Len(sent) + 1 \in DOMAIN new /\ new[Len(sent) + 1] = n
    BY <1>3, Zenon
  <2> QED BY <2>1, <2>2, <2>3, Zenon
<1>7. {m \in (mark + 1)..n : L[m].run = r} = {m \in (mark + 1)..after : L[m].run = r} \cup {n}
  BY <1>2, Zenon DEF n
<1>8. ASSUME NEW x \in DOMAIN new, NEW y \in DOMAIN new, x < y
      PROVE  new[x] < new[y]
  <2>1. x \in DOMAIN sent
    <3>1. ASSUME NEW z \in DOMAIN sent PROVE ~(Len(sent) + 1 < z)
      BY <3>1
    <3>2. ~(Len(sent) + 1 < Len(sent) + 1)
      OBVIOUS
    <3> QED BY <1>3, <1>8, <3>1, <3>2, Zenon
  <2> QED BY <1>3, <1>5, <1>8, <2>1, Zenon DEF Heard
<1>9. {sent[x] : x \in DOMAIN sent} = {m \in (mark + 1)..after : L[m].run = r}
  BY Zenon DEF Heard
<1>10. Heard(L, r, mark, n, new)
  BY <1>2, <1>6, <1>7, <1>8, <1>9, Zenon DEF Heard, n
<1> QED BY <1>10, Zenon DEF n, new

----------------------------------------------------------------------------
(* Chat: requests that follow the run of their command.                    *)

\* A stream follows the run that carries its command and has handed over what the log says
\* of it; one that was opened before the command was accepted follows nothing if the command
\* joined another run.
Sane(req, m, L, rs, is, cs) ==
  /\ req \in Request /\ req.read <= Len(L)
  /\ req.phase # "idle" => req.cmd \in m /\ req.told = ""
  /\ req.phase \in {"submit", "claim", "observe"} => req.sent = <<>>
  /\ req.phase \in {"ask", "tail"} => req.run \in Command
  /\ req.phase = "ask" => req.run = cs[req.cmd].exec /\ is[req.run].state # "absent"
  /\ req.phase = "tail" =>
       /\ Heard(L, req.run, req.mark, req.after, req.sent)
       /\ \/ req.run = cs[req.cmd].exec
          \/ req.run = req.cmd /\ rs[req.run].state = "absent"

\* A reply continues another run's wait, in a run of its own.
RepliesOwn ==
  \A i \in Command : interactions[i].cont # None =>
    interactions[i].cont # i /\ commands[interactions[i].cont].exec = interactions[i].cont

\* Commands come in through the handler, which has given each of them an external ID.
AllMapped == \A c \in Command : commands[c].exec # None => c \in mapped

CInv ==
  /\ mapped \subseteq Command /\ requests \in [Client -> Request]
  /\ RepliesOwn /\ AllMapped
  /\ \A k \in Client : Sane(requests[k], mapped, events, runs, interactions, commands)

\* A request that has not reached its stream.
LEMMA SaneWaiting ==
  ASSUME NEW req \in Request, NEW m, NEW L \in Seq(Entry), NEW rs, NEW is, NEW cs,
         req.phase \in {"submit", "claim", "observe"}, req.cmd \in m, req.told = "",
         req.sent = <<>>, req.read <= Len(L)
  PROVE  Sane(req, m, L, rs, is, cs)
BY Zenon DEF Sane

\* A response that has ended.
LEMMA SaneClosed ==
  ASSUME NEW v \in Told, NEW m, NEW L \in Seq(Entry), NEW rs, NEW is, NEW cs
  PROVE  Sane([NoRequest EXCEPT !.told = v], m, L, rs, is, cs)
<1> DEFINE new == [NoRequest EXCEPT !.told = v]
<1>1. 0 <= Len(L)
  OBVIOUS
<1>2. new \in Request /\ new.phase = "idle" /\ new.read = 0
  BY CloseRow, Zenon
<1> HIDE DEF new
<1>3. Sane(new, m, L, rs, is, cs)
  BY <1>1, <1>2, Zenon DEF Sane
<1> QED BY <1>3, Zenon DEF new

\* What the journal, and the mapping of more commands, do to a request.
LEMMA SaneOnward ==
  ASSUME IInv, LogSound, Next, NEW m2, mapped \subseteq m2, mapped \subseteq Command, NEW req,
         Sane(req, mapped, events, runs, interactions, commands)
  PROVE  Sane(req, m2, events', runs', interactions', commands')
<1>1. /\ events \in Seq(Entry) /\ events' \in Seq(Entry) /\ Len(events) <= Len(events')
      /\ \A n \in 1..Len(events) : events'[n] = events[n]
  BY LogOnward, Zenon DEF LogSound, Continues
<1>2. req \in Request /\ req.read \in Nat /\ req.mark \in Nat /\ req.after \in Nat
  BY Zenon DEF Sane, Request
<1>3. req.read <= Len(events')
  <2>1. Len(events) \in Nat /\ Len(events') \in Nat
    BY <1>1
  <2>2. req.read <= Len(events)
    BY Zenon DEF Sane
  <2> QED BY <1>1, <1>2, <2>1, <2>2
<1>4. ASSUME req.phase = "ask"
      PROVE  req.run = commands'[req.cmd].exec /\ interactions'[req.run].state # "absent"
  <2>1. /\ req.run \in Command /\ req.cmd \in Command /\ req.run = commands[req.cmd].exec
        /\ interactions[req.run].state # "absent" /\ commands[req.cmd].exec # None
    BY <1>4, NoneAssumption, Zenon DEF Sane
  <2>2. commands'[req.cmd].exec = commands[req.cmd].exec
    BY <2>1, CommandsKept, Zenon DEF CommandKept
  <2>3. interactions'[req.run].state # "absent"
    BY <2>1, WaitsOnward, Zenon DEF WaitOnward
  <2> QED BY <2>1, <2>2, <2>3, Zenon
<1>5. ASSUME req.phase = "tail"
      PROVE  Heard(events', req.run, req.mark, req.after, req.sent)
  <2>1. Heard(events, req.run, req.mark, req.after, req.sent)
    BY <1>5, Zenon DEF Sane
  <2> QED BY <1>1, <1>2, <2>1, HeardStill, Zenon
<1>6. ASSUME req.phase = "tail"
      PROVE  \/ req.run = commands'[req.cmd].exec
             \/ req.run = req.cmd /\ runs'[req.run].state = "absent"
  <2>1. req.run \in Command /\ req.cmd \in Command
    BY <1>6, Zenon DEF Sane
  <2>2. CASE req.run = commands[req.cmd].exec
    <3>1. commands[req.cmd].exec # None
      BY <2>1, <2>2, NoneAssumption, Zenon
    <3> QED BY <2>1, <2>2, <3>1, CommandsKept, Zenon DEF CommandKept
  <2>3. CASE req.run = req.cmd /\ runs[req.run].state = "absent"
    <3>1. RunOnward(req.run)
      BY <2>1, RunsOnward, Zenon
    <3>2. "absent" \notin Live \cup {"awaiting_input"}
      BY Zenon DEF Live
    <3> QED BY <2>3, <3>1, <3>2, Zenon DEF RunOnward
  <2> QED BY <1>6, <2>2, <2>3, Zenon DEF Sane
<1> QED BY <1>2, <1>3, <1>4, <1>5, <1>6, Zenon DEF Sane

\* The same where the journal does nothing.
LEMMA SaneMore ==
  ASSUME NEW m, NEW m2, m \subseteq m2, NEW L, NEW rs, NEW is, NEW cs, NEW req,
         Sane(req, m, L, rs, is, cs)
  PROVE  Sane(req, m2, L, rs, is, cs)
BY Zenon DEF Sane

\* Replies stay what they are.
LEMMA RepliesStep ==
  ASSUME IInv, RepliesOwn, Next
  PROVE  RepliesOwn'
<1> SUFFICES ASSUME NEW i \in Command, interactions'[i].cont # None
             PROVE  /\ interactions'[i].cont # i
                    /\ commands'[interactions'[i].cont].exec = interactions'[i].cont
  BY Zenon DEF RepliesOwn
<1>1. WaitOnward(i)
  BY WaitsOnward, Zenon
<1>2. CASE interactions'[i].cont = interactions[i].cont
  <2> DEFINE c == interactions[i].cont
  <2>1. c \in Command /\ c # i /\ commands[c].exec = c
    <3>1. interactions[i] \in InteractionRow
      BY Zenon DEF IInv, Lifecycle, TypeOK
    <3>2. c \in Command \cup {None}
      BY <3>1, Zenon DEF InteractionRow
    <3> QED BY <1>2, <3>2, Zenon DEF RepliesOwn
  <2> HIDE DEF c
  <2>2. commands'[c].exec = c
    BY <2>1, CommandsKept, NoneAssumption, Zenon DEF CommandKept
  <2> QED BY <1>2, <2>1, <2>2, Zenon DEF c
<1>3. CASE \E c \in Command : /\ interactions'[i].cont = c /\ c # i
                              /\ commands[c].exec = None /\ commands'[c].exec = c
  BY <1>3, Zenon
<1> QED BY <1>1, <1>2, <1>3, Zenon DEF WaitOnward

\* The run that carries a command, and the state a run in the snapshot is in.
LEMMA Carrier ==
  ASSUME IInv, NEW c \in Command
  PROVE  /\ CarriedBy(c) \in Command
         /\ \/ CarriedBy(c) = commands[c].exec
            \/ CarriedBy(c) = c /\ runs[c].state = "absent"
         /\ runs[CarriedBy(c)].state = "awaiting_input" =>
              interactions[CarriedBy(c)].state = "pending"
         /\ runs[CarriedBy(c)].state # "absent" => CarriedBy(c) = commands[c].exec
<1>1. commands[c].exec \in Command \cup {None}
  BY Zenon DEF IInv, Lifecycle, TypeOK, CommandRow
<1>2. commands[c].exec = None => runs[c].state = "absent"
  BY Zenon DEF IInv, Lifecycle, RunsConsistent
<1>3. \A r \in Command : runs[r].state = "awaiting_input" => interactions[r].state = "pending"
  BY Zenon DEF IInv, Lifecycle, WaitsMatch
<1>4. CarriedBy(c) = IF commands[c].exec = None THEN c ELSE commands[c].exec
  BY Zenon DEF CarriedBy
<1>5. CASE commands[c].exec = None
  BY <1>2, <1>3, <1>4, <1>5, Zenon
<1>6. CASE commands[c].exec # None
  BY <1>1, <1>3, <1>4, <1>6, Zenon
<1> QED BY <1>5, <1>6, Zenon

\* What a client may be told, and what an event that ends a run says.
LEMMA Verdicts ==
  /\ \A s \in Terminal : Verdict(s) \in Told /\ Verdict(s) \notin NoVerdict
  /\ \A s \in Terminal : Verdict(s) = s \/ (Verdict(s) = "finished" /\ s = "completed")
  /\ \A s \in Terminal : EndOf(RunEvent[s]) = s
  /\ {"", "unavailable", "finished"} \subseteq Told
<1>1. \A s \in Terminal : s \in DOMAIN RunEvent /\ s # "awaiting_input" /\ s \notin NoVerdict
  BY FailureAssumption, Zenon DEF Terminal, RunEvent, NoVerdict
<1>2. \A s, t \in DOMAIN RunEvent : RunEvent[s] = RunEvent[t] => s = t
  BY DEF RunEvent
<1>3. ASSUME NEW s \in Terminal PROVE EndOf(RunEvent[s]) = s
  BY <1>1, <1>2, Zenon DEF EndOf
<1>4. ASSUME NEW s \in Terminal
      PROVE  /\ Verdict(s) \in Told /\ Verdict(s) \notin NoVerdict
             /\ Verdict(s) = s \/ (Verdict(s) = "finished" /\ s = "completed")
  <2>1. "finished" \notin NoVerdict
    BY Zenon DEF NoVerdict
  <2> QED BY <1>1, <2>1, Zenon DEF Verdict, Told
<1> QED BY <1>3, <1>4, Zenon DEF Told

----------------------------------------------------------------------------
(* Chat: what the steps of the handler make of a request.                  *)

\* A request whose tables are those of this state.
SaneNow(req) == Sane(req, mapped, events, runs, interactions, commands)

\* The row a handler writes.
LEMMA Turned ==
  ASSUME requests \in [Client -> Request], NEW k \in Client, NEW new \in Request, Turn(k, new)
  PROVE  /\ requests' \in [Client -> Request] /\ requests'[k] = new
         /\ \A x \in Client \ {k} : requests'[x] = requests[x]
BY Zenon DEF Turn

\* Close.
LEMMA ClosedBy ==
  ASSUME LogSound, CInv, NEW k \in Client, NEW v \in Told, Close(k, v)
  PROVE  /\ requests' \in [Client -> Request]
         /\ \A x \in Client \ {k} : requests'[x] = requests[x]
         /\ requests'[k].phase = "idle" /\ requests'[k].told = v
         /\ \A m, rs, is, cs : \A L \in Seq(Entry) : Sane(requests'[k], m, L, rs, is, cs)
<1> DEFINE new == [NoRequest EXCEPT !.told = v]
<1>1. new \in Request /\ new.phase = "idle" /\ new.told = v
  BY CloseRow, Zenon
<1>2. \A m, rs, is, cs : \A L \in Seq(Entry) : Sane(new, m, L, rs, is, cs)
  BY SaneClosed, Zenon
<1>3. Turn(k, new) /\ requests \in [Client -> Request]
  BY Zenon DEF Close, CInv
<1> HIDE DEF new
<1>4. requests' \in [Client -> Request] /\ requests'[k] = new
      /\ \A x \in Client \ {k} : requests'[x] = requests[x]
  BY <1>1, <1>3, Turned, Zenon
<1> QED BY <1>1, <1>2, <1>4, Zenon

\* Refuse, Fails and Drop.
LEMMA CutTurn ==
  ASSUME LogSound, CInv, NEW k \in Client, Refuse(k) \/ Fails(k) \/ Drop(k)
  PROVE  /\ requests' \in [Client -> Request] /\ UNCHANGED <<vars, mapped>> /\ ~In(k, "idle")
         /\ \A x \in Client \ {k} : requests'[x] = requests[x]
         /\ requests'[k].phase = "idle" /\ requests'[k].told \in NoVerdict
         /\ SaneNow(requests'[k])
<1>1. \E v \in NoVerdict : Close(k, v)
  BY Zenon DEF Refuse, Fails, Drop, NoVerdict
<1>2. PICK v \in NoVerdict : Close(k, v)
  BY <1>1
<1>3. v \in Told /\ events \in Seq(Entry)
  BY <1>2, Verdicts, Zenon DEF NoVerdict, LogSound
<1>4. UNCHANGED <<vars, mapped>> /\ ~In(k, "idle")
  BY Zenon DEF Refuse, Fails, Drop, In
<1>5. /\ requests' \in [Client -> Request]
      /\ \A x \in Client \ {k} : requests'[x] = requests[x]
      /\ requests'[k].phase = "idle" /\ requests'[k].told = v
      /\ \A m, rs, is, cs : \A L \in Seq(Entry) : Sane(requests'[k], m, L, rs, is, cs)
  BY <1>2, <1>3, ClosedBy, Zenon
<1> QED BY <1>2, <1>3, <1>4, <1>5, Zenon DEF SaneNow

\* Post and Get.
LEMMA OpenTurn ==
  ASSUME LogSound, CInv, NEW k \in Client, NEW c \in Command, NEW i \in Command \cup {None},
         Post(k, c, i) \/ Get(k, c)
  PROVE  /\ requests' \in [Client -> Request] /\ UNCHANGED vars
         /\ mapped \subseteq mapped' /\ mapped' \subseteq Command
         /\ \A x \in Client \ {k} : requests'[x] = requests[x]
         /\ requests'[k].phase \in {"submit", "observe"} /\ requests'[k].cmd = c
         /\ Sane(requests'[k], mapped', events, runs, interactions, commands)
<1> DEFINE post == PostRow(c, i)
           get == GetRow(c)
<1>1. /\ post \in Request /\ post.phase = "submit" /\ post.cmd = c
      /\ post.sent = <<>> /\ post.told = "" /\ post.read = 0
  BY PostFields, Zenon
<1>2. /\ get \in Request /\ get.phase = "observe" /\ get.cmd = c
      /\ get.sent = <<>> /\ get.told = "" /\ get.read = 0
  BY GetFields, Zenon
<1>3. mapped \subseteq Command /\ requests \in [Client -> Request]
  BY Zenon DEF CInv
<1>4. \/ Turn(k, post) /\ mapped' = mapped \cup {c} /\ UNCHANGED vars
      \/ Turn(k, get) /\ mapped' = mapped /\ c \in mapped /\ UNCHANGED vars
  <2>1. ASSUME Post(k, c, i) PROVE Turn(k, post) /\ mapped' = mapped \cup {c} /\ UNCHANGED vars
    BY <2>1, Zenon DEF Post, PostRow
  <2>2. ASSUME Get(k, c) PROVE Turn(k, get) /\ mapped' = mapped /\ c \in mapped /\ UNCHANGED vars
    BY <2>2, Zenon DEF Get, GetRow
  <2> QED BY <2>1, <2>2, Zenon
<1> HIDE DEF post, get
<1>5. PICK new \in {post, get} : Turn(k, new)
  BY <1>4, Zenon
<1>6. /\ new \in Request /\ new.phase \in {"submit", "observe"} /\ new.cmd = c
      /\ new.sent = <<>> /\ new.told = "" /\ new.read = 0
  BY <1>1, <1>2, Zenon
<1>7. c \in mapped' /\ mapped \subseteq mapped' /\ mapped' \subseteq Command /\ UNCHANGED vars
  BY <1>3, <1>4, Zenon
<1>8. Sane(new, mapped', events, runs, interactions, commands)
  <2>1. events \in Seq(Entry) /\ 0 <= Len(events)
    BY DEF LogSound
  <2>2. new.read <= Len(events) /\ new.phase \in {"submit", "claim", "observe"} /\ new.cmd \in mapped'
    BY <1>6, <1>7, <2>1, Zenon
  <2> QED BY <1>6, <2>1, <2>2, Zenon DEF Sane
<1>9. requests' \in [Client -> Request] /\ requests'[k] = new
      /\ \A x \in Client \ {k} : requests'[x] = requests[x]
  BY <1>3, <1>5, <1>6, Turned, Zenon
<1> QED BY <1>6, <1>7, <1>8, <1>9, Zenon

\* The client's own row, and what its request is about.
LEMMA Own ==
  ASSUME CInv, NEW k \in Client
  PROVE  /\ requests[k] \in Request /\ SaneNow(requests[k])
         /\ requests[k].phase # "idle" =>
              /\ requests[k].cmd \in Command /\ requests[k].cmd \in mapped /\ requests[k].told = ""
<1>1. SaneNow(requests[k]) /\ mapped \subseteq Command
  BY Zenon DEF CInv, SaneNow
<1> QED BY <1>1, Zenon DEF Sane, SaneNow

\* Observe: the client is told how the run ended, or follows what carries its command.
LEMMA ObserveTurn ==
  ASSUME IInv, LogSound, CInv, NEW k \in Client, Observe(k)
  PROVE  LET r == CarriedBy(requests[k].cmd)
             new == requests'[k]
         IN /\ requests' \in [Client -> Request] /\ UNCHANGED <<vars, mapped>>
            /\ \A x \in Client \ {k} : requests'[x] = requests[x]
            /\ SaneNow(new)
            /\ \/ /\ new.phase = "idle" /\ runs[r].state \in Terminal
                  /\ new.told = Verdict(runs[r].state)
               \/ /\ new.phase = "ask" /\ new.cmd = requests[k].cmd /\ new.run = r
                  /\ runs[r].state = "awaiting_input"
               \/ /\ new.phase = "tail" /\ new.cmd = requests[k].cmd
                  /\ runs[r].state \notin Settled
<1> DEFINE req == requests[k]
           c == req.cmd
           r == CarriedBy(c)
<1>0. /\ req \in Request /\ SaneNow(req) /\ c \in Command /\ req.phase = "observe"
      /\ requests \in [Client -> Request] /\ UNCHANGED <<vars, mapped>>
  BY Own, Zenon DEF Observe, In, CInv
<1>1. /\ r \in Command /\ (r = commands[c].exec \/ (r = c /\ runs[r].state = "absent"))
      /\ runs[r].state = "awaiting_input" => interactions[r].state = "pending"
      /\ runs[r].state # "absent" => r = commands[c].exec
  BY <1>0, Carrier, Zenon
<1>2. \/ runs[r].state \in Terminal /\ Close(k, Verdict(runs[r].state))
      \/ runs[r].state = "awaiting_input" /\ Turn(k, [req EXCEPT !.phase = "ask", !.run = r])
      \/ /\ runs[r].state \notin Settled
         /\ \E cursor \in 0..Len(events) :
              Turn(k, [req EXCEPT !.phase = "tail", !.run = r, !.mark = Len(events),
                         !.after = Watermark(cursor), !.read = Watermark(cursor)])
  BY Zenon DEF Observe
<1>3. req.cmd \in mapped /\ req.told = "" /\ req.sent = <<>> /\ req.read <= Len(events)
  BY <1>0, Zenon DEF Sane, SaneNow
<1>4. events \in Seq(Entry) /\ Len(events) \in Nat /\ Len(events) <= Len(events)
  BY DEF LogSound
<1> HIDE DEF r, c, req
<1>5. CASE runs[r].state \in Terminal /\ Close(k, Verdict(runs[r].state))
  <2>1. Verdict(runs[r].state) \in Told
    BY <1>5, Verdicts, Zenon
  <2>2. /\ requests' \in [Client -> Request]
        /\ \A x \in Client \ {k} : requests'[x] = requests[x]
        /\ requests'[k].phase = "idle" /\ requests'[k].told = Verdict(runs[r].state)
        /\ \A m, rs, is, cs : \A L \in Seq(Entry) : Sane(requests'[k], m, L, rs, is, cs)
    BY <1>5, <2>1, ClosedBy, Zenon
  <2> QED BY <1>0, <1>4, <1>5, <2>2, Zenon DEF r, c, req, SaneNow
<1>6. CASE runs[r].state = "awaiting_input" /\ Turn(k, [req EXCEPT !.phase = "ask", !.run = r])
  <2> DEFINE new == [req EXCEPT !.phase = "ask", !.run = r]
  <2>1. /\ new \in Request /\ new.phase = "ask" /\ new.cmd = req.cmd /\ new.run = r
        /\ new.read = req.read /\ new.told = req.told
    BY <1>0, <1>1, AskRow, Zenon
  <2> HIDE DEF new
  <2>2. requests' \in [Client -> Request] /\ requests'[k] = new
        /\ \A x \in Client \ {k} : requests'[x] = requests[x]
    BY <1>0, <1>6, <2>1, Turned, Zenon DEF new
  <2>3. r = commands[c].exec /\ interactions[r].state # "absent"
    BY <1>1, <1>6, Zenon
  <2>4. SaneNow(new)
    BY <1>1, <1>3, <2>1, <2>3, Zenon DEF Sane, SaneNow, c
  <2> QED BY <1>0, <1>6, <2>1, <2>2, <2>4, Zenon DEF r, c, req
<1>7. CASE /\ runs[r].state \notin Settled
           /\ \E cursor \in 0..Len(events) :
                Turn(k, [req EXCEPT !.phase = "tail", !.run = r, !.mark = Len(events),
                           !.after = Watermark(cursor), !.read = Watermark(cursor)])
  <2> DEFINE n == Len(events)
             new == TailRow(req, r, n)
  <2>1. \A cursor \in 0..Len(events) : Watermark(cursor) = n
    BY <1>4 DEF Watermark, Larger
  <2>2. Turn(k, new)
    BY <1>7, <2>1, Zenon DEF TailRow
  <2>3. /\ new \in Request /\ new.phase = "tail" /\ new.cmd = req.cmd /\ new.run = r
        /\ new.mark = n /\ new.after = n /\ new.read = n
        /\ new.sent = req.sent /\ new.told = req.told
    <3>1. req \in Request /\ r \in Command /\ n \in Nat
      BY <1>0, <1>1, <1>4, Zenon
    <3> QED BY <3>1, TailFields, Zenon
  <2> HIDE DEF new
  <2>4. requests' \in [Client -> Request] /\ requests'[k] = new
        /\ \A x \in Client \ {k} : requests'[x] = requests[x]
    BY <1>0, <2>2, <2>3, Turned, Zenon
  <2>5. Heard(events, new.run, new.mark, new.after, new.sent)
    <3>1. Heard(events, r, n, n, <<>>)
      BY <1>4, HeardNothing, Zenon
    <3> QED BY <1>3, <2>3, <3>1, Zenon
  <2>6. /\ new.cmd \in mapped /\ new.told = "" /\ new.read <= Len(events) /\ new.run \in Command
        /\ new.run = commands[new.cmd].exec \/ (new.run = new.cmd /\ runs[new.run].state = "absent")
    BY <1>1, <1>3, <1>4, <2>3, Zenon DEF c
  <2>7. SaneNow(new)
    BY <2>3, <2>5, <2>6, Zenon DEF Sane, SaneNow
  <2> QED BY <1>0, <1>7, <2>3, <2>4, <2>7, Zenon DEF r, c, req
<1> QED BY <1>2, <1>5, <1>6, <1>7, Zenon

\* Ask.
LEMMA AskTurn ==
  ASSUME LogSound, CInv, NEW k \in Client, Ask(k)
  PROVE  /\ requests' \in [Client -> Request] /\ UNCHANGED <<vars, mapped>> /\ In(k, "ask")
         /\ \A x \in Client \ {k} : requests'[x] = requests[x]
         /\ requests'[k].phase = "idle" /\ requests'[k].told = "finished"
         /\ SaneNow(requests'[k])
<1>1. "finished" \in Told /\ events \in Seq(Entry)
  BY Verdicts, Zenon DEF LogSound
<1>2. In(k, "ask") /\ Close(k, "finished") /\ UNCHANGED <<vars, mapped>>
  BY Zenon DEF Ask
<1>3. /\ requests' \in [Client -> Request]
      /\ \A x \in Client \ {k} : requests'[x] = requests[x]
      /\ requests'[k].phase = "idle" /\ requests'[k].told = "finished"
      /\ \A m, rs, is, cs : \A L \in Seq(Entry) : Sane(requests'[k], m, L, rs, is, cs)
  BY <1>1, <1>2, ClosedBy, Zenon
<1> QED BY <1>1, <1>2, <1>3, Zenon DEF SaneNow

\* Poll.
LEMMA PollTurn ==
  ASSUME LogSound, CInv, NEW k \in Client, Poll(k)
  PROVE  /\ requests' \in [Client -> Request] /\ UNCHANGED <<vars, mapped>> /\ In(k, "tail")
         /\ \A x \in Client \ {k} : requests'[x] = requests[x]
         /\ requests'[k].phase = "tail" /\ requests'[k].cmd = requests[k].cmd
         /\ SaneNow(requests'[k])
<1> DEFINE req == requests[k]
           new == [req EXCEPT !.read = Len(events)]
<1>0. /\ req \in Request /\ SaneNow(req) /\ req.phase = "tail"
      /\ requests \in [Client -> Request] /\ UNCHANGED <<vars, mapped>> /\ Turn(k, new)
  BY Own, Zenon DEF Poll, In, CInv
<1>1. events \in Seq(Entry) /\ Len(events) \in Nat /\ Len(events) <= Len(events)
  BY DEF LogSound
<1>2. /\ new \in Request /\ new.phase = req.phase /\ new.cmd = req.cmd /\ new.run = req.run
      /\ new.mark = req.mark /\ new.after = req.after /\ new.read = Len(events)
      /\ new.sent = req.sent /\ new.told = req.told
  BY <1>0, <1>1, PollRow, Zenon
<1> HIDE DEF new, req
<1>3. requests' \in [Client -> Request] /\ requests'[k] = new
      /\ \A x \in Client \ {k} : requests'[x] = requests[x]
  BY <1>0, <1>2, Turned, Zenon
<1>4. /\ new.cmd \in mapped /\ new.told = "" /\ new.run \in Command
      /\ Heard(events, req.run, req.mark, req.after, req.sent)
      /\ req.run = commands[req.cmd].exec \/ (req.run = req.cmd /\ runs[req.run].state = "absent")
  BY <1>0, <1>2, Zenon DEF Sane, SaneNow
<1>5. SaneNow(new)
  <2>1. /\ Heard(events, new.run, new.mark, new.after, new.sent)
        /\ new.run = commands[new.cmd].exec \/ (new.run = new.cmd /\ runs[new.run].state = "absent")
    BY <1>2, <1>4, Zenon
  <2>2. new \in Request /\ new.phase = "tail" /\ new.read <= Len(events)
    BY <1>0, <1>1, <1>2, Zenon
  <2> QED BY <1>4, <2>1, <2>2, Zenon DEF Sane, SaneNow
<1> QED BY <1>0, <1>2, <1>3, <1>5, Zenon DEF In, req

\* Deliver: the event is of another run, or hands the client over to Ask, or ends the
\* response with what became of the run, or is sent.
LEMMA DeliverTurn ==
  ASSUME IInv, LogSound, CInv, NEW k \in Client, Deliver(k)
  PROVE  LET req == requests[k]
             new == requests'[k]
         IN /\ requests' \in [Client -> Request] /\ UNCHANGED <<vars, mapped>> /\ In(k, "tail")
            /\ \A x \in Client \ {k} : requests'[x] = requests[x]
            /\ SaneNow(new)
            /\ \/ new.phase \in {"ask", "tail"} /\ new.cmd = req.cmd
               \/ /\ new.phase = "idle" /\ req.run \in Command /\ req.run = commands[req.cmd].exec
                  /\ runs[req.run].state \in Terminal
                  /\ new.told = Verdict(runs[req.run].state)
<1> DEFINE req == requests[k]
           n == req.after + 1
           e == events[n]
           far == [req EXCEPT !.after = n]
           got == [far EXCEPT !.sent = Append(far.sent, n)]
           asks == [req EXCEPT !.phase = "ask"]
<1>0. /\ req \in Request /\ SaneNow(req) /\ req.phase = "tail" /\ req.cmd \in mapped
      /\ requests \in [Client -> Request] /\ UNCHANGED <<vars, mapped>> /\ req.after < req.read
  BY Own, Zenon DEF Deliver, In, CInv
<1>1. /\ req.run \in Command /\ req.cmd \in Command /\ req.told = "" /\ req.read <= Len(events)
      /\ Heard(events, req.run, req.mark, req.after, req.sent)
      /\ req.run = commands[req.cmd].exec \/ (req.run = req.cmd /\ runs[req.run].state = "absent")
  BY <1>0, Zenon DEF Sane, SaneNow, CInv
<1>2. /\ req.mark \in Nat /\ req.after \in Nat /\ req.read \in Nat /\ req.sent \in Seq(Nat)
  BY <1>0, Zenon DEF Request
<1>3. events \in Seq(Entry) /\ Len(events) \in Nat
  BY DEF LogSound
<1>4. n \in Nat /\ n <= Len(events) /\ n \in 1..Len(events)
  <2>1. req.after < req.read /\ req.read <= Len(events)
    BY <1>0, <1>1, Zenon
  <2> QED BY <1>2, <1>3, <2>1
<1>5. \/ ~OfRun(k, e) /\ Turn(k, far)
      \/ OfRun(k, e) /\ e.type = "run.awaiting_input" /\ Turn(k, asks)
      \/ OfRun(k, e) /\ e.type \in EndTypes /\ Close(k, Verdict(EndOf(e.type)))
      \/ OfRun(k, e) /\ (IF Named(e) \subseteq mapped THEN Turn(k, got) ELSE Close(k, "unmapped"))
  BY Zenon DEF Deliver
<1>6. Vouches(runs, interactions, commands, e) /\ e.run \in Command
  <2>1. events[n] \in Entry
    BY <1>3, <1>4
  <2> QED BY <1>4, <2>1, Zenon DEF LogSound, Entry
<1>7. OfRun(k, e) <=> e.run = req.run
  BY Zenon DEF OfRun
<1>8. /\ far \in Request /\ far.phase = req.phase /\ far.cmd = req.cmd /\ far.run = req.run
      /\ far.mark = req.mark /\ far.after = n /\ far.read = req.read
      /\ far.sent = req.sent /\ far.told = req.told
  BY <1>0, <1>4, SkipRow, Zenon
<1>9. /\ asks \in Request /\ asks.phase = "ask" /\ asks.cmd = req.cmd /\ asks.run = req.run
      /\ asks.read = req.read /\ asks.told = req.told
  BY <1>0, GotoRow, Zenon DEF Phase
<1> HIDE DEF far, asks
<1>10. /\ got \in Request /\ got.phase = req.phase /\ got.cmd = req.cmd /\ got.run = req.run
       /\ got.mark = req.mark /\ got.after = n /\ got.read = req.read
       /\ got.sent = Append(req.sent, n) /\ got.told = req.told
  <2>1. Append(far.sent, n) \in Seq(Nat)
    BY <1>2, <1>4, <1>8
  <2>2. /\ got \in Request /\ got.phase = far.phase /\ got.cmd = far.cmd /\ got.run = far.run
        /\ got.mark = far.mark /\ got.after = far.after /\ got.read = far.read
        /\ got.sent = Append(far.sent, n) /\ got.told = far.told
    BY <1>8, <2>1, SentRow, Zenon
  <2> QED BY <1>8, <2>2, Zenon
<1> HIDE DEF got, n, e, req
<1> DEFINE Goal ==
      /\ requests' \in [Client -> Request]
      /\ \A x \in Client \ {k} : requests'[x] = requests[x]
      /\ SaneNow(requests'[k])
      /\ \/ requests'[k].phase \in {"ask", "tail"} /\ requests'[k].cmd = req.cmd
         \/ /\ requests'[k].phase = "idle" /\ req.run = commands[req.cmd].exec
            /\ runs[req.run].state \in Terminal
            /\ requests'[k].told = Verdict(runs[req.run].state)
<1>11. ASSUME NEW new \in Request, Turn(k, new), SaneNow(new), new.cmd = req.cmd,
              new.phase \in {"ask", "tail"}
       PROVE  Goal
  <2>1. requests' \in [Client -> Request] /\ requests'[k] = new
        /\ \A x \in Client \ {k} : requests'[x] = requests[x]
    BY <1>0, <1>11, Turned, Zenon
  <2> QED BY <1>11, <2>1, Zenon
<1>12. ASSUME ~OfRun(k, e), Turn(k, far) PROVE Goal
  <2>1. e.run # req.run /\ events[req.after + 1].run # req.run /\ req.after + 1 <= Len(events)
    BY <1>4, <1>7, <1>12, Zenon DEF e, n
  <2>2. Heard(events, req.run, req.mark, n, req.sent)
    BY <1>1, <1>2, <1>3, <2>1, HeardSkip, Zenon DEF n
  <2>3. Heard(events, far.run, far.mark, far.after, far.sent)
    BY <1>8, <2>2, Zenon
  <2>4. /\ far.phase = "tail" /\ far.cmd \in mapped /\ far.told = "" /\ far.read <= Len(events)
        /\ far.run \in Command
        /\ far.run = commands[far.cmd].exec \/ (far.run = far.cmd /\ runs[far.run].state = "absent")
    BY <1>0, <1>1, <1>8, Zenon
  <2>5. SaneNow(far)
    BY <1>8, <2>3, <2>4, Zenon DEF Sane, SaneNow
  <2> QED BY <1>8, <1>11, <1>12, <2>4, <2>5, Zenon
<1>13. ASSUME OfRun(k, e), e.type = "run.awaiting_input", Turn(k, asks) PROVE Goal
  <2>1. interactions[req.run].state # "absent"
    BY <1>6, <1>7, <1>13, Zenon DEF Vouches
  <2>2. req.run = commands[req.cmd].exec
    <3>1. runs[req.run].state = "absent" => interactions[req.run] = NoInteraction
      BY <1>1, Zenon DEF IInv, Lifecycle, RunsConsistent
    <3> QED BY <1>1, <2>1, <3>1, BlankRows, Zenon
  <2>3. SaneNow(asks)
    BY <1>0, <1>1, <1>9, <2>1, <2>2, Zenon DEF Sane, SaneNow
  <2> QED BY <1>9, <1>11, <1>13, <2>3, Zenon
<1>14. ASSUME OfRun(k, e), e.type \in EndTypes, Close(k, Verdict(EndOf(e.type))) PROVE Goal
  <2> DEFINE s == runs[req.run].state
  <2>1. s \in Terminal /\ e.type = RunEvent[s]
    BY <1>6, <1>7, <1>14, Zenon DEF Vouches
  <2> HIDE DEF s
  <2>2. EndOf(e.type) = s /\ Verdict(s) \in Told
    BY <2>1, Verdicts, Zenon
  <2>3. Close(k, Verdict(s))
    BY <1>14, <2>2, Zenon
  <2>4. /\ requests' \in [Client -> Request]
        /\ \A x \in Client \ {k} : requests'[x] = requests[x]
        /\ requests'[k].phase = "idle" /\ requests'[k].told = Verdict(s)
        /\ \A m, rs, is, cs : \A L \in Seq(Entry) : Sane(requests'[k], m, L, rs, is, cs)
    BY <2>2, <2>3, ClosedBy, Zenon
  <2>5. req.run = commands[req.cmd].exec
    <3>1. "absent" \notin Terminal
      BY FailureAssumption, Zenon DEF Terminal
    <3> QED BY <1>1, <2>1, <3>1, Zenon DEF s
  <2> QED BY <1>3, <2>1, <2>4, <2>5, Zenon DEF SaneNow, s
<1>15. ASSUME OfRun(k, e), IF Named(e) \subseteq mapped THEN Turn(k, got) ELSE Close(k, "unmapped")
       PROVE  Goal
  <2>1. Named(e) \subseteq mapped
    BY <1>6, Zenon DEF Vouches, CInv, AllMapped
  <2>2. Turn(k, got)
    BY <1>15, <2>1, Zenon
  <2>3. events[req.after + 1].run = req.run /\ req.after + 1 <= Len(events)
    BY <1>4, <1>7, <1>15, Zenon DEF e, n
  <2>4. Heard(events, req.run, req.mark, n, Append(req.sent, n))
    BY <1>1, <1>2, <1>3, <2>3, HeardNext, Zenon DEF n
  <2>5. Heard(events, got.run, got.mark, got.after, got.sent)
    BY <1>10, <2>4, Zenon
  <2>6. /\ got.phase = "tail" /\ got.cmd \in mapped /\ got.told = "" /\ got.read <= Len(events)
        /\ got.run \in Command
        /\ got.run = commands[got.cmd].exec \/ (got.run = got.cmd /\ runs[got.run].state = "absent")
    BY <1>0, <1>1, <1>10, Zenon
  <2>7. SaneNow(got)
    BY <1>10, <2>5, <2>6, Zenon DEF Sane, SaneNow
  <2> QED BY <1>10, <1>11, <2>2, <2>6, <2>7, Zenon
<1>16. Goal
  BY <1>5, <1>12, <1>13, <1>14, <1>15, Zenon
<1> QED BY <1>0, <1>1, <1>16, Zenon DEF In, req

\* Submit and Claim: the request goes on to its stream or is turned down.
LEMMA AdmissionTurn ==
  ASSUME LogSound, CInv, NEW k \in Client, Admission(k), events' \in Seq(Entry),
         Sane(requests[k], mapped', events', runs', interactions', commands')
  PROVE  LET new == requests'[k]
         IN /\ requests' \in [Client -> Request] /\ mapped' = mapped /\ ~In(k, "idle")
            /\ \A x \in Client \ {k} : requests'[x] = requests[x]
            /\ Sane(new, mapped', events', runs', interactions', commands')
            /\ \/ new.phase \in {"claim", "observe"} /\ new.cmd = requests[k].cmd
               \/ new.phase = "idle" /\ new.told = ""
<1> DEFINE req == requests[k]
           claims == [req EXCEPT !.phase = "claim"]
           observes == [req EXCEPT !.phase = "observe", !.wait = None]
<1>0. /\ req \in Request /\ req.phase \in {"submit", "claim"} /\ mapped' = mapped
      /\ requests \in [Client -> Request]
  BY Own, Zenon DEF Admission, SubmitMessage, SubmitReply, SubmitAgain, ClaimRun, In, CInv
<1>1. Turn(k, claims) \/ Turn(k, observes) \/ Close(k, "")
  BY Zenon DEF Admission, SubmitMessage, SubmitReply, SubmitAgain, ClaimRun, Goto, Observing
<1>2. /\ req.cmd \in mapped' /\ req.told = "" /\ req.sent = <<>> /\ req.read <= Len(events')
  BY <1>0, Zenon DEF Sane
<1>3. /\ claims \in Request /\ claims.phase = "claim" /\ claims.cmd = req.cmd
      /\ claims.read = req.read /\ claims.sent = req.sent /\ claims.told = req.told
  BY <1>0, GotoRow, Zenon DEF Phase
<1>4. /\ observes \in Request /\ observes.phase = "observe" /\ observes.cmd = req.cmd
      /\ observes.read = req.read /\ observes.sent = req.sent /\ observes.told = req.told
  BY <1>0, ObservingRow, Zenon
<1>5. ~In(k, "idle")
  BY <1>0, Zenon DEF In
<1> HIDE DEF claims, observes, req
<1>6. CASE \E new \in {claims, observes} : Turn(k, new)
  <2>1. PICK new \in {claims, observes} : Turn(k, new)
    BY <1>6
  <2>2. /\ new \in Request /\ new.phase \in {"claim", "observe"} /\ new.cmd = req.cmd
        /\ new.read = req.read /\ new.sent = req.sent /\ new.told = req.told
    BY <1>3, <1>4, <2>1, Zenon
  <2>3. requests' \in [Client -> Request] /\ requests'[k] = new
        /\ \A x \in Client \ {k} : requests'[x] = requests[x]
    BY <1>0, <2>1, <2>2, Turned, Zenon
  <2>4. new.cmd \in mapped' /\ new.told = "" /\ new.sent = <<>> /\ new.read <= Len(events')
    BY <1>2, <2>2, Zenon
  <2>5. Sane(new, mapped', events', runs', interactions', commands')
    BY <2>2, <2>4, Zenon DEF Sane
  <2> QED BY <1>0, <1>5, <2>2, <2>3, <2>5, Zenon DEF req
<1>7. CASE Close(k, "")
  <2>1. "" \in Told
    BY Verdicts, Zenon
  <2>2. /\ requests' \in [Client -> Request]
        /\ \A x \in Client \ {k} : requests'[x] = requests[x]
        /\ requests'[k].phase = "idle" /\ requests'[k].told = ""
        /\ \A m, rs, is, cs : \A L \in Seq(Entry) : Sane(requests'[k], m, L, rs, is, cs)
    BY <1>7, <2>1, ClosedBy, Zenon
  <2> QED BY <1>0, <1>5, <2>2, Zenon
<1> QED BY <1>1, <1>6, <1>7, Zenon

----------------------------------------------------------------------------
(* Terminal: the joint invariant.                                          *)

\* What the terminal shows comes from the stream of its last command, and what it was told
\* about the run that carries it is final.
ShowsStream ==
  /\ tui \in TuiState
  /\ tui.sent => tui.run # None
  /\ tui.terminal => ~streaming
  /\ streaming => requests[Tui].cmd = tui.run
  /\ In(Tui, "tail") => tui.pending = None
  /\ In(Tui, "ask") => tui.pending \in {None, requests[Tui].run}
  /\ Informed => /\ tui.run \in Command /\ commands[tui.run].exec # None
                 /\ runs[commands[tui.run].exec].state \notin {"absent"} \cup Live

TInv == IInv /\ LogSound /\ CInv /\ ShowsStream /\ AsksWhatIsOpen

\* A command of the handler or of another client, as a step of the journal.
LEMMA Submission ==
  ASSUME IInv, CInv, NEW c \in mapped, mapped' = mapped,
         \/ Admit(c)
         \/ \E i \in Command, approve \in BOOLEAN : ReplyInTime(c, i, approve)
         \/ \E i \in Command : ReplyTooLate(c, i)
         \/ \E p \in Replica : Claim(c, p)
  PROVE  Next /\ AllMapped'
<1>1. c \in Command /\ TypeOK
  BY Zenon DEF CInv, IInv, Lifecycle
<1>2. \A i \in Command : ReplyTooLate(c, i) => reply(c, i, TRUE)
  BY Zenon DEF reply
<1>3. Unowned(c)
  BY <1>2, Zenon DEF Unowned, reply
<1>4. \A x \in Command : x # c => commands'[x].exec = commands[x].exec
  BY <1>1, OneAccepted, Zenon
<1>5. AllMapped'
  BY <1>4, Zenon DEF AllMapped, CInv
<1> QED BY <1>1, <1>3, <1>5, Zenon DEF Next

\* Where the journal does nothing, mapping more commands is all right.
LEMMA Mapping ==
  ASSUME CInv, UNCHANGED vars, mapped \subseteq mapped'
  PROVE  AllMapped'
BY Zenon DEF CInv, AllMapped, vars

\* The handler's part of Submit and Claim.
LEMMA AdmissionBacked ==
  ASSUME IInv, CInv, NEW k \in Client, Admission(k)
  PROVE  (Next \/ UNCHANGED vars) /\ mapped' = mapped /\ AllMapped'
<1> DEFINE c == requests[k].cmd
           i == requests[k].wait
<1>1. mapped' = mapped /\ ~In(k, "idle")
  BY Zenon DEF Admission, SubmitMessage, SubmitReply, SubmitAgain, ClaimRun, In
<1>2. c \in mapped /\ i \in Command \cup {None}
  BY <1>1, Own, Zenon DEF In, Request
<1>3. \/ Admit(c)
      \/ i # None /\ \E approve \in BOOLEAN : ReplyInTime(c, i, approve)
      \/ i # None /\ ReplyTooLate(c, i)
      \/ \E p \in Replica : Claim(c, p)
      \/ UNCHANGED vars
  BY Zenon DEF Admission, SubmitMessage, SubmitReply, SubmitAgain, ClaimRun
<1> HIDE DEF c, i
<1>4. CASE UNCHANGED vars
  BY <1>1, <1>4, Mapping, Zenon
<1>5. CASE \/ Admit(c)
           \/ \E j \in Command, approve \in BOOLEAN : ReplyInTime(c, j, approve)
           \/ \E j \in Command : ReplyTooLate(c, j)
           \/ \E p \in Replica : Claim(c, p)
  BY <1>1, <1>2, <1>5, Submission, Zenon
<1> QED BY <1>2, <1>3, <1>4, <1>5, Zenon

\* What goes on elsewhere.
LEMMA OthersBacked ==
  ASSUME IInv, CInv, Others
  PROVE  /\ Next \/ UNCHANGED vars
         /\ mapped \subseteq mapped' /\ mapped' \subseteq Command /\ AllMapped'
         /\ requests' = requests /\ tui' = tui
<1>1. TypeOK /\ mapped \subseteq Command
  BY Zenon DEF CInv, IInv, Lifecycle
<1>2. ASSUME Background
      PROVE  Next /\ mapped' = mapped /\ AllMapped' /\ requests' = requests
  <2>1. mapped' = mapped /\ requests' = requests
    BY <1>2, Zenon DEF Background, cvars
  <2>2. Next
    BY <1>2, Zenon DEF Background, Next, Unowned
  <2>3. \A x \in Command : commands'[x].exec = commands[x].exec
    BY <1>1, <1>2, NoneAccepted, Zenon
  <2> QED BY <2>1, <2>2, <2>3, Zenon DEF AllMapped, CInv
<1>3. ASSUME NEW c \in Command, Elsewhere(c)
      PROVE  /\ Next \/ UNCHANGED vars
             /\ mapped \subseteq mapped' /\ mapped' \subseteq Command /\ AllMapped'
             /\ requests' = requests
  <2>1. CASE mapped' = mapped \cup {c} /\ UNCHANGED <<vars, requests>>
    <3>1. mapped \subseteq mapped' /\ mapped' \subseteq Command /\ UNCHANGED vars
      BY <1>1, <2>1, Zenon
    <3> QED BY <2>1, <3>1, Mapping, Zenon
  <2>2. CASE /\ c \in mapped /\ UNCHANGED cvars
             /\ \/ Admit(c)
                \/ \E i \in Command, approve \in BOOLEAN : ReplyInTime(c, i, approve)
                \/ \E i \in Command : ReplyTooLate(c, i)
                \/ \E p \in Replica : Claim(c, p)
    <3>1. mapped' = mapped /\ requests' = requests
      BY <2>2, Zenon DEF cvars
    <3>2. Next /\ AllMapped'
      BY <2>2, <3>1, Submission, Zenon
    <3> QED BY <1>1, <3>1, <3>2, Zenon
  <2> QED BY <1>3, <2>1, <2>2, Zenon DEF Elsewhere
<1>4. tui' = tui /\ (Background \/ \E c \in Command : Elsewhere(c))
  BY Zenon DEF Others, tvars
<1> QED BY <1>1, <1>2, <1>3, <1>4, Zenon

\* CInv from the request that a step writes.
LEMMA RequestsStep ==
  ASSUME IInv, LogSound, CInv, Next \/ UNCHANGED vars,
         mapped \subseteq mapped', mapped' \subseteq Command, AllMapped',
         requests' \in [Client -> Request], NEW k \in Client,
         \A x \in Client \ {k} : requests'[x] = requests[x],
         Sane(requests'[k], mapped', events', runs', interactions', commands')
  PROVE  LogSound' /\ CInv'
<1>1. mapped \subseteq Command /\ RepliesOwn
      /\ \A x \in Client : Sane(requests[x], mapped, events, runs, interactions, commands)
  BY Zenon DEF CInv
<1>2. ASSUME NEW x \in Client
      PROVE  Sane(requests[x], mapped', events', runs', interactions', commands')
  <2>1. CASE Next
    BY <1>1, <2>1, SaneOnward, Zenon
  <2>2. CASE UNCHANGED vars
    <3>1. Sane(requests[x], mapped', events, runs, interactions, commands)
      BY <1>1, SaneMore, Zenon
    <3> QED BY <2>2, <3>1, Zenon DEF vars
  <2> QED BY <2>1, <2>2, Zenon
<1>3. RepliesOwn'
  <2>1. CASE Next
    BY <1>1, <2>1, RepliesStep, Zenon
  <2>2. CASE UNCHANGED vars
    BY <1>1, <2>2, Zenon DEF vars, RepliesOwn
  <2> QED BY <2>1, <2>2, Zenon
<1>4. LogSound'
  <2>1. CASE Next
    <3>1. Continues(events, events', runs', interactions', commands')
      BY <2>1, LogOnward, Zenon
    <3> QED BY <3>1, Zenon DEF Continues, LogSound
  <2>2. CASE UNCHANGED vars
    BY <2>2, Zenon DEF vars, LogSound
  <2> QED BY <2>1, <2>2, Zenon
<1>5. \A x \in Client : Sane(requests'[x], mapped', events', runs', interactions', commands')
  BY <1>2, Zenon
<1> QED BY <1>3, <1>4, <1>5, Zenon DEF CInv

\* The terminal's model after a snapshot or a request for input.
LEMMA Shown ==
  ASSUME tui \in TuiState, NEW b \in BOOLEAN, NEW p \in Command \cup {None},
         tui' = [tui EXCEPT !.pending = p, !.terminal = b]
  PROVE  /\ tui' \in TuiState /\ tui'.run = tui.run /\ tui'.sent = tui.sent
         /\ tui'.pending = p /\ tui'.terminal = b
BY Zenon DEF TuiState

\* The terminal's model after any other event.
LEMMA Over ==
  ASSUME tui \in TuiState, NEW b \in BOOLEAN, tui' = [tui EXCEPT !.terminal = b]
  PROVE  /\ tui' \in TuiState /\ tui'.run = tui.run /\ tui'.sent = tui.sent
         /\ tui'.pending = tui.pending /\ tui'.terminal = b
BY Zenon DEF TuiState

\* Launch.
LEMMA LaunchedRow ==
  ASSUME NEW t \in TuiState, NEW c \in Command
  PROVE  LET new == [t EXCEPT !.run = c]
         IN /\ new \in TuiState /\ new.run = c /\ new.sent = t.sent /\ new.terminal = t.terminal
BY Zenon DEF TuiState

SendRow(t, c, i) == [t EXCEPT !.run = c, !.sent = TRUE, !.wait = i, !.terminal = FALSE]

\* Send.
LEMMA SendFields ==
  ASSUME NEW t \in TuiState, NEW c \in Command, NEW i \in Command \cup {None}
  PROVE  LET new == SendRow(t, c, i)
         IN new \in TuiState /\ new.run = c /\ ~new.terminal
BY Zenon DEF TuiState, SendRow

\* A terminal that starts, or starts another conversation.
LEMMA NewRow ==
  /\ NewModel \in TuiState /\ ~NewModel.terminal /\ ~NewModel.sent
  /\ LET new == [NewModel EXCEPT !.left = TRUE]
     IN new \in TuiState /\ ~new.terminal /\ ~new.sent
<1>1. NewModel \in TuiState /\ ~NewModel.terminal /\ ~NewModel.sent
  BY Zenon DEF NewModel, TuiState
<1>2. ASSUME NEW t \in TuiState
      PROVE  LET new == [t EXCEPT !.left = TRUE]
             IN new \in TuiState /\ new.terminal = t.terminal /\ new.sent = t.sent
  BY Zenon DEF TuiState
<1> QED BY <1>1, <1>2, Zenon

\* Nothing is promised to a terminal that was not told.
LEMMA NotTold ==
  ASSUME tui' \in TuiState, tui'.sent => tui'.run # None, ~Informed',
         requests'[Tui].phase \notin {"ask", "tail"},
         requests'[Tui].phase # "idle" => requests'[Tui].cmd = tui'.run /\ ~tui'.terminal
  PROVE  ShowsStream' /\ AsksWhatIsOpen'
<1>1. streaming' <=> requests'[Tui].phase # "idle"
  BY Zenon DEF streaming, In
<1>2. ShowsStream'
  BY <1>1, Zenon DEF ShowsStream, In
<1> QED BY <1>2, Zenon DEF AsksWhatIsOpen

\* Nor to one whose stream goes on.
LEMMA Following ==
  ASSUME tui' \in TuiState, tui'.sent => tui'.run # None, ~tui'.terminal,
         requests'[Tui].cmd = tui'.run,
         \/ requests'[Tui].phase = "tail" /\ tui'.pending = None
         \/ requests'[Tui].phase = "ask" /\ tui'.pending \in {None, requests'[Tui].run}
  PROVE  ShowsStream' /\ AsksWhatIsOpen'
<1>1. ~Informed'
  BY Zenon DEF Informed
<1>2. ShowsStream'
  BY <1>1, Zenon DEF ShowsStream, In
<1> QED BY <1>1, <1>2, Zenon DEF AsksWhatIsOpen

\* A terminal that was told that its run has ended, or asks what the run waits for.
LEMMA Knowing ==
  ASSUME IInv, UNCHANGED vars, tui' \in TuiState, tui'.sent => tui'.run # None,
         requests'[Tui].phase = "idle", NEW c \in Command, tui'.run = c,
         NEW r \in Command, commands[c].exec = r,
         runs[r].state \notin {"absent"} \cup Live,
         runs[r].state = "awaiting_input" => tui'.pending = r,
         tui'.pending # None => interactions[tui'.pending].cont # c
  PROVE  ShowsStream' /\ AsksWhatIsOpen'
<1>1. commands' = commands /\ runs' = runs /\ interactions' = interactions /\ r # None
  BY NoneAssumption, Zenon DEF vars
<1>2. ~streaming'
  BY Zenon DEF streaming, In
<1>3. ShowsStream'
  BY <1>1, <1>2, Zenon DEF ShowsStream, In
<1>4. AsksWhatIsOpen'
  BY <1>1, Zenon DEF AsksWhatIsOpen
<1> QED BY <1>3, <1>4, Zenon

\* What the terminal knows stays so whatever goes on elsewhere.
LEMMA StillShown ==
  ASSUME TInv, Next \/ UNCHANGED vars, requests' = requests, tui' = tui
  PROVE  ShowsStream' /\ AsksWhatIsOpen'
<1>1. ASSUME ~Informed PROVE ShowsStream' /\ AsksWhatIsOpen'
  <2>1. ~Informed'
    BY <1>1, Zenon DEF Informed, streaming, In
  <2> QED BY <2>1, Zenon DEF TInv, ShowsStream, AsksWhatIsOpen, streaming, In
<1>2. ASSUME UNCHANGED vars PROVE ShowsStream' /\ AsksWhatIsOpen'
  BY <1>2, Zenon DEF TInv, ShowsStream, AsksWhatIsOpen, Informed, streaming, In, vars
<1>3. ASSUME Informed, Next PROVE ShowsStream' /\ AsksWhatIsOpen'
  <2> DEFINE c == tui.run
             r == commands[c].exec
             p == tui.pending
  <2>1. /\ c \in Command /\ r # None /\ runs[r].state \notin {"absent"} \cup Live
        /\ \A x \in Command : r = x /\ runs[x].state = "awaiting_input" => p = x
        /\ p # None => interactions[p].cont # c
        /\ p \in Command \cup {None} /\ IInv
    BY <1>3, Zenon DEF TInv, ShowsStream, AsksWhatIsOpen, TuiState
  <2>2. r \in Command
    BY <2>1, Zenon DEF IInv, Lifecycle, TypeOK, CommandRow
  <2>3. commands'[c].exec = r
    BY <1>3, <2>1, CommandsKept, Zenon DEF CommandKept
  <2>4. RunOnward(r)
    BY <1>3, <2>1, <2>2, RunsOnward, Zenon
  <2>5. /\ "awaiting_input" \notin {"absent"} \cup Live \cup Terminal
        /\ \A s \in Terminal : s \notin {"absent"} \cup Live
    BY FailureAssumption, Zenon DEF Live, Terminal
  <2> HIDE DEF r, c, p
  <2>6. /\ runs'[r].state \notin {"absent"} \cup Live
        /\ runs'[r].state = "awaiting_input" => runs[r].state = "awaiting_input"
    BY <2>1, <2>4, <2>5, Zenon DEF RunOnward, Live
  <2>7. ASSUME p # None PROVE interactions'[p].cont # c
    <3>1. WaitOnward(p) /\ c # None
      BY <1>3, <2>1, <2>7, WaitsOnward, NoneAssumption, Zenon
    <3> QED BY <2>1, <2>7, <3>1, Zenon DEF WaitOnward, r
  <2>8. AsksWhatIsOpen'
    BY <2>1, <2>2, <2>3, <2>6, <2>7, Zenon DEF AsksWhatIsOpen, c, p
  <2>9. ShowsStream'
    BY <2>1, <2>3, <2>6, Zenon DEF TInv, ShowsStream, streaming, In, c
  <2> QED BY <2>8, <2>9, Zenon
<1> QED BY <1>1, <1>2, <1>3, Zenon

----------------------------------------------------------------------------
(* Terminal: one step.                                                     *)

\* What a client that is told something about its command may be told: ToldTrue's promise.
Truthful(k) ==
  LET c == requests[k].cmd
      r == commands[c].exec
  IN ~In(k, "idle") /\ requests'[k].told \notin NoVerdict =>
       /\ r # None /\ c \notin Undrained(r)
       /\ \/ requests'[k].told = runs[r].state
          \/ /\ requests'[k].told = "finished"
             /\ runs[r].state = "completed" \/ interactions[r].state # "absent"

\* Nothing new is said.
LEMMA Untold ==
  ASSUME CInv, NEW k \in Client, \/ requests'[k] = requests[k] \/ requests'[k].told \in NoVerdict
  PROVE  Truthful(k)
<1>1. requests[k].phase # "idle" => requests[k].told = ""
  BY Own, Zenon
<1> QED BY <1>1, Zenon DEF Truthful, In, NoVerdict

\* The verdict about a run that has ended, or waits or has waited.
LEMMA ToldOf ==
  ASSUME IInv, NEW k \in Client, NEW r \in Command, requests[k].cmd \in Command,
         commands[requests[k].cmd].exec = r,
         \/ runs[r].state \in Terminal /\ requests'[k].told = Verdict(runs[r].state)
         \/ interactions[r].state # "absent" /\ requests'[k].told = "finished"
  PROVE  /\ Truthful(k)
         /\ runs[r].state \notin {"absent"} \cup Live
<1>1. \A s \in Terminal : s \notin {"absent"} \cup Live
  BY FailureAssumption, Zenon DEF Live, Terminal
<1>2. runs[r].state \in {"absent"} \cup Live => interactions[r].state = "absent"
  <2>1. runs[r].state \in {"absent"} \cup Live => interactions[r] = NoInteraction
    BY Zenon DEF IInv, Lifecycle, RunsConsistent
  <2> QED BY <2>1, BlankRows, Zenon
<1>3. runs[r].state \notin {"absent"} \cup Live
  BY <1>1, <1>2, Zenon
<1>4. r # None /\ requests[k].cmd \notin Undrained(r)
  BY <1>3, NoneAssumption, Zenon DEF IInv, Lifecycle, NoneStranded
<1>5. runs[r].state \in Terminal =>
        \/ Verdict(runs[r].state) = runs[r].state
        \/ Verdict(runs[r].state) = "finished" /\ runs[r].state = "completed"
  BY Verdicts, Zenon
<1> QED BY <1>3, <1>4, <1>5, Zenon DEF Truthful

\* The invariant and ToldTrue's promise, over one step.
Holds == TInv' /\ (\A k \in Client : Truthful(k))

\* From what the step does to the terminal's own request.
LEMMA Whole ==
  ASSUME TInv, Next \/ UNCHANGED vars,
         mapped \subseteq mapped', mapped' \subseteq Command, AllMapped',
         requests' \in [Client -> Request],
         \A x \in Client \ {Tui} : requests'[x] = requests[x],
         Sane(requests'[Tui], mapped', events', runs', interactions', commands'),
         Truthful(Tui), ShowsStream', AsksWhatIsOpen'
  PROVE  Holds
<1>1. IInv /\ LogSound /\ CInv
  BY Zenon DEF TInv
<1>2. IInv'
  BY <1>1, InvariantStep, Zenon
<1>3. LogSound' /\ CInv'
  BY <1>1, TuiAssumption, RequestsStep, Zenon
<1>4. \A k \in Client : Truthful(k)
  BY <1>1, Untold, Zenon
<1> QED BY <1>2, <1>3, <1>4, Zenon DEF Holds, TInv

\* The same for what leaves the journal and the mappings alone.
LEMMA WholeStream ==
  ASSUME TInv, UNCHANGED <<vars, mapped>>, requests' \in [Client -> Request],
         \A x \in Client \ {Tui} : requests'[x] = requests[x],
         SaneNow(requests'[Tui]), Truthful(Tui), ShowsStream', AsksWhatIsOpen'
  PROVE  Holds
<1>1. mapped \subseteq mapped' /\ mapped' \subseteq Command /\ UNCHANGED vars /\ CInv
  BY Zenon DEF TInv, CInv
<1>2. AllMapped'
  BY <1>1, Mapping, Zenon
<1>3. Sane(requests'[Tui], mapped', events', runs', interactions', commands')
  BY Zenon DEF SaneNow, vars
<1> QED BY <1>1, <1>2, <1>3, Whole, Zenon

\* A request of the terminal.
LEMMA OpenStep ==
  ASSUME TInv, NEW c \in Command, NEW i \in Command \cup {None},
         Post(Tui, c, i) \/ Get(Tui, c),
         tui' \in TuiState, tui'.run = c, ~tui'.terminal
  PROVE  Holds
<1>1. LogSound /\ CInv /\ Tui \in Client
  BY TuiAssumption, Zenon DEF TInv
<1>2. /\ requests' \in [Client -> Request] /\ UNCHANGED vars
      /\ mapped \subseteq mapped' /\ mapped' \subseteq Command
      /\ \A x \in Client \ {Tui} : requests'[x] = requests[x]
      /\ requests'[Tui].phase \in {"submit", "observe"} /\ requests'[Tui].cmd = c
      /\ Sane(requests'[Tui], mapped', events, runs, interactions, commands)
  BY <1>1, OpenTurn, Zenon
<1>3. Sane(requests'[Tui], mapped', events', runs', interactions', commands')
  BY <1>2, Zenon DEF vars
<1>4. Truthful(Tui)
  BY Zenon DEF Truthful, Post, Get
<1>5. ~Informed' /\ c # None
  BY NoneAssumption, Zenon DEF Informed
<1>6. ShowsStream' /\ AsksWhatIsOpen'
  BY <1>2, <1>5, NotTold, Zenon
<1>7. AllMapped'
  BY <1>1, <1>2, Mapping, Zenon
<1> QED BY <1>2, <1>3, <1>4, <1>6, <1>7, Whole, Zenon

\* Enter.
LEMMA EnterStep == ASSUME TInv, Enter PROVE Holds
<1>1. tui \in TuiState /\ (tui.sent => tui.run # None) /\ CInv /\ Tui \in Client
  BY TuiAssumption, Zenon DEF TInv, ShowsStream
<1>2. tui.run \in Command \cup {None} /\ tui.wait \in Command \cup {None}
      /\ tui.pending \in Command \cup {None} /\ None \in Command \cup {None}
  BY <1>1, Zenon DEF TuiState
<1>3. ASSUME NEW c \in Command, Launch(c) PROVE Holds
  <2>1. Get(Tui, c) /\ tui' = [tui EXCEPT !.run = c] /\ ~tui.terminal
    BY <1>3, NewRow, Zenon DEF Launch
  <2>2. tui' \in TuiState /\ tui'.run = c /\ ~tui'.terminal
    BY <1>1, <2>1, LaunchedRow, Zenon
  <2> QED BY <1>2, <2>1, <2>2, OpenStep, Zenon
<1>4. ASSUME NEW c \in Command, EnterText(c) PROVE Holds
  <2>1. Post(Tui, c, tui.pending) /\ tui' = SendRow(tui, c, tui.pending)
    BY <1>4, Zenon DEF EnterText, Send, SendRow
  <2>2. tui' \in TuiState /\ tui'.run = c /\ ~tui'.terminal
    BY <1>1, <1>2, <2>1, SendFields, Zenon
  <2> QED BY <1>2, <2>1, <2>2, OpenStep, Zenon
<1>5. ASSUME EnterRetry PROVE Holds
  <2>1. /\ ~tui.terminal /\ tui' = tui
        /\ \/ tui.sent /\ Post(Tui, tui.run, tui.wait)
           \/ tui.run # None /\ Get(Tui, tui.run)
    BY <1>5, Zenon DEF EnterRetry, tvars
  <2>2. tui.run \in Command
    BY <1>1, <1>2, <2>1, Zenon
  <2>3. tui' \in TuiState /\ tui'.run = tui.run /\ ~tui'.terminal
    BY <1>1, <2>1, Zenon
  <2> QED BY <1>2, <2>1, <2>2, <2>3, OpenStep, Zenon
<1>6. ASSUME EnterNew PROVE Holds
  <2>1. /\ ~streaming /\ tui' = [NewModel EXCEPT !.left = TRUE] /\ UNCHANGED <<vars, mapped>>
        /\ requests' = requests
    BY <1>6, Zenon DEF EnterNew, chatvars, cvars
  <2>2. tui' \in TuiState /\ ~tui'.terminal /\ ~tui'.sent
    BY <2>1, NewRow, Zenon
  <2>3. requests'[Tui].phase = "idle" /\ ~Informed'
    BY <2>1, <2>2, Zenon DEF streaming, In, Informed
  <2>4. ShowsStream' /\ AsksWhatIsOpen'
    BY <2>2, <2>3, NotTold, Zenon
  <2>5. Truthful(Tui)
    BY <1>1, <2>1, Untold, Zenon
  <2>6. SaneNow(requests'[Tui]) /\ requests' \in [Client -> Request]
    BY <1>1, <2>1, Own, Zenon DEF CInv
  <2> QED BY <2>1, <2>4, <2>5, <2>6, WholeStream, Zenon
<1> QED BY <1>3, <1>4, <1>5, <1>6, Zenon DEF Enter

\* Admitted.
LEMMA AdmittedStep == ASSUME TInv, Admitted PROVE Holds
<1>1. IInv /\ LogSound /\ CInv /\ Tui \in Client /\ Admission(Tui) /\ tui' = tui
  BY TuiAssumption, Zenon DEF TInv, Admitted, tvars
<1>2. (Next \/ UNCHANGED vars) /\ mapped' = mapped /\ AllMapped'
  BY <1>1, AdmissionBacked, Zenon
<1>3. mapped \subseteq mapped' /\ mapped' \subseteq Command /\ mapped \subseteq Command
      /\ requests \in [Client -> Request] /\ SaneNow(requests[Tui])
  BY <1>1, <1>2, Own, Zenon DEF CInv
<1>4. Sane(requests[Tui], mapped', events', runs', interactions', commands') /\ events' \in Seq(Entry)
  <2>1. CASE Next
    <3>1. Continues(events, events', runs', interactions', commands')
      BY <1>1, <2>1, LogOnward, Zenon
    <3>2. events' \in Seq(Entry)
      BY <3>1, Zenon DEF Continues
    <3> QED BY <1>1, <1>3, <2>1, <3>2, SaneOnward, Zenon DEF SaneNow
  <2>2. CASE UNCHANGED vars
    BY <1>1, <1>2, <1>3, <2>2, Zenon DEF SaneNow, vars, LogSound
  <2> QED BY <1>2, <2>1, <2>2, Zenon
<1>5. /\ requests' \in [Client -> Request] /\ ~In(Tui, "idle")
      /\ \A x \in Client \ {Tui} : requests'[x] = requests[x]
      /\ Sane(requests'[Tui], mapped', events', runs', interactions', commands')
      /\ \/ requests'[Tui].phase \in {"claim", "observe"} /\ requests'[Tui].cmd = requests[Tui].cmd
         \/ requests'[Tui].phase = "idle" /\ requests'[Tui].told = ""
  BY <1>1, <1>4, AdmissionTurn, Zenon
<1>6. /\ tui \in TuiState /\ (tui.sent => tui.run # None) /\ ~tui.terminal
      /\ requests[Tui].cmd = tui.run
  BY <1>5, Zenon DEF TInv, ShowsStream, streaming
<1>7. ~Informed'
  BY <1>1, <1>6, Zenon DEF Informed
<1>8. ShowsStream' /\ AsksWhatIsOpen'
  BY <1>1, <1>5, <1>6, <1>7, NotTold, Zenon
<1>9. requests'[Tui].told \in NoVerdict
  BY <1>5, Zenon DEF Sane, NoVerdict
<1>10. Truthful(Tui)
  BY <1>1, <1>9, Untold, Zenon
<1> QED BY <1>2, <1>3, <1>5, <1>8, <1>10, Whole, Zenon

\* Rejected and Fault.
LEMMA CutStep == ASSUME TInv, Rejected \/ Fault PROVE Holds
<1>1. LogSound /\ CInv /\ Tui \in Client
  BY TuiAssumption, Zenon DEF TInv
<1>2. Refuse(Tui) \/ Fails(Tui) \/ Drop(Tui)
  BY Zenon DEF Rejected, Fault
<1>3. /\ requests' \in [Client -> Request] /\ UNCHANGED <<vars, mapped>> /\ ~In(Tui, "idle")
      /\ \A x \in Client \ {Tui} : requests'[x] = requests[x]
      /\ requests'[Tui].phase = "idle" /\ requests'[Tui].told \in NoVerdict
      /\ SaneNow(requests'[Tui])
  BY <1>1, <1>2, CutTurn, Zenon
<1>4. tui \in TuiState /\ (tui.sent => tui.run # None) /\ ~tui.terminal
  BY <1>3, Zenon DEF TInv, ShowsStream, streaming
<1>5. /\ tui' \in TuiState /\ (tui'.sent => tui'.run # None)
      /\ tui'.terminal => requests'[Tui].told # ""
  <2>1. CASE Rejected
    BY <1>4, <2>1, Zenon DEF Rejected, tvars
  <2>2. CASE Fault
    <3> DEFINE b == Finished
    <3>1. b \in BOOLEAN /\ (b => requests'[Tui].told # "")
      BY Zenon DEF Finished
    <3>2. tui' = [tui EXCEPT !.terminal = b]
      BY <2>2, Zenon DEF Fault
    <3> HIDE DEF b
    <3>3. tui' \in TuiState /\ tui'.run = tui.run /\ tui'.sent = tui.sent /\ tui'.terminal = b
      BY <1>4, <3>1, <3>2, Over, Zenon
    <3> QED BY <1>4, <3>1, <3>3, Zenon
  <2> QED BY <2>1, <2>2, Zenon
<1>6. ~Informed'
  BY <1>3, <1>5, Zenon DEF Informed, NoVerdict
<1>7. ShowsStream' /\ AsksWhatIsOpen'
  BY <1>3, <1>5, <1>6, NotTold, Zenon
<1>8. Truthful(Tui)
  BY <1>1, <1>3, Untold, Zenon
<1> QED BY <1>3, <1>7, <1>8, WholeStream, Zenon

\* The terminal's own view of a stream of its last command.
LEMMA OwnStream ==
  ASSUME TInv, ~In(Tui, "idle")
  PROVE  /\ tui \in TuiState /\ (tui.sent => tui.run # None) /\ ~tui.terminal
         /\ requests[Tui].cmd = tui.run /\ tui.run \in Command
         /\ tui.pending \in Command \cup {None}
<1>1. CInv /\ Tui \in Client
  BY TuiAssumption, Zenon DEF TInv
<1>2. /\ tui \in TuiState /\ (tui.sent => tui.run # None) /\ ~tui.terminal
      /\ requests[Tui].cmd = tui.run
  BY Zenon DEF TInv, ShowsStream, streaming
<1>3. requests[Tui].cmd \in Command
  BY <1>1, Own, Zenon DEF In
<1> QED BY <1>2, <1>3, Zenon DEF TuiState

\* Observe.
LEMMA ObserveStep ==
  ASSUME TInv, Observe(Tui),
         tui' = [tui EXCEPT !.pending = Snapshotted(CarriedBy(requests[Tui].cmd)),
                            !.terminal = Finished]
  PROVE  Holds
<1> DEFINE c == requests[Tui].cmd
           r == CarriedBy(c)
           p == Snapshotted(r)
           b == Finished
           new == requests'[Tui]
<1>1. IInv /\ LogSound /\ CInv /\ Tui \in Client /\ ~In(Tui, "idle")
  BY TuiAssumption, Zenon DEF TInv, Observe, In
<1>2. /\ requests' \in [Client -> Request] /\ UNCHANGED <<vars, mapped>>
      /\ \A x \in Client \ {Tui} : requests'[x] = requests[x]
      /\ SaneNow(new)
      /\ \/ new.phase = "idle" /\ runs[r].state \in Terminal /\ new.told = Verdict(runs[r].state)
         \/ new.phase = "ask" /\ new.cmd = c /\ new.run = r /\ runs[r].state = "awaiting_input"
         \/ new.phase = "tail" /\ new.cmd = c /\ runs[r].state \notin Settled
  BY <1>1, ObserveTurn, Zenon
<1>3. /\ tui \in TuiState /\ (tui.sent => tui.run # None) /\ c = tui.run /\ c \in Command
  BY <1>1, OwnStream, Zenon
<1>4. /\ r \in Command /\ (runs[r].state # "absent" => r = commands[c].exec)
  BY <1>1, <1>3, Carrier, Zenon
<1>5. /\ p = IF interactions[r].state = "pending" THEN r ELSE None
      /\ b \in BOOLEAN /\ (b <=> new.phase = "idle" /\ new.told # "")
      /\ tui' = [tui EXCEPT !.pending = p, !.terminal = b]
  BY Zenon DEF Snapshotted, Finished, In
<1> HIDE DEF b, p, r, c
<1>6. p \in Command \cup {None} /\ p \in {None, r}
  BY <1>4, <1>5, Zenon
<1>7. interactions[r].state = "pending" <=> runs[r].state = "awaiting_input"
  BY <1>1, <1>4, Zenon DEF IInv, Lifecycle, WaitsMatch
<1>8. /\ tui' \in TuiState /\ tui'.run = c /\ tui'.pending = p /\ tui'.terminal = b
      /\ tui'.sent => tui'.run # None
  <2>1. /\ tui' \in TuiState /\ tui'.run = tui.run /\ tui'.sent = tui.sent
        /\ tui'.pending = p /\ tui'.terminal = b
    <3>1. tui \in TuiState /\ p \in Command \cup {None} /\ b \in BOOLEAN
      BY <1>3, <1>5, <1>6, Zenon
    <3>2. tui' = [tui EXCEPT !.pending = p, !.terminal = b]
      BY <1>5, Zenon
    <3> QED BY <3>1, <3>2, Shown, Zenon
  <2> QED BY <1>3, <2>1, Zenon
<1>9. \A s \in Terminal : s # "absent" /\ s # "awaiting_input"
  BY FailureAssumption, Zenon DEF Terminal
<1>10. CASE new.phase = "idle" /\ runs[r].state \in Terminal /\ new.told = Verdict(runs[r].state)
  <2>1. r = commands[c].exec /\ p = None
    BY <1>4, <1>5, <1>7, <1>9, <1>10, Zenon
  <2>2. Truthful(Tui) /\ runs[r].state \notin {"absent"} \cup Live
    BY <1>1, <1>3, <1>4, <1>10, <2>1, ToldOf, Zenon DEF c
  <2>3. ShowsStream' /\ AsksWhatIsOpen'
    <3>1. UNCHANGED vars /\ runs[r].state # "awaiting_input" /\ tui'.pending = None
      BY <1>2, <1>8, <1>9, <1>10, <2>1, Zenon
    <3> QED BY <1>1, <1>3, <1>4, <1>8, <1>10, <2>1, <2>2, <3>1, Knowing, Zenon
  <2> QED BY <1>2, <2>2, <2>3, WholeStream, Zenon
<1>11. CASE new.phase = "ask" /\ new.cmd = c /\ new.run = r /\ runs[r].state = "awaiting_input"
  <2>1. ~tui'.terminal /\ tui'.pending \in {None, new.run} /\ new.cmd = tui'.run
    BY <1>5, <1>6, <1>8, <1>11, Zenon
  <2>2. ShowsStream' /\ AsksWhatIsOpen'
    BY <1>8, <1>11, <2>1, Following, Zenon
  <2>3. new.told \in NoVerdict
    BY <1>2, <1>11, Zenon DEF Sane, SaneNow, NoVerdict
  <2>4. Truthful(Tui)
    BY <1>1, <2>3, Untold, Zenon
  <2> QED BY <1>2, <2>2, <2>4, WholeStream, Zenon
<1>12. CASE new.phase = "tail" /\ new.cmd = c /\ runs[r].state \notin Settled
  <2>1. ~tui'.terminal /\ tui'.pending = None /\ new.cmd = tui'.run
    BY <1>5, <1>7, <1>8, <1>12, Zenon DEF Settled
  <2>2. ShowsStream' /\ AsksWhatIsOpen'
    BY <1>8, <1>12, <2>1, Following, Zenon
  <2>3. new.told \in NoVerdict
    BY <1>2, <1>12, Zenon DEF Sane, SaneNow, NoVerdict
  <2>4. Truthful(Tui)
    BY <1>1, <2>3, Untold, Zenon
  <2> QED BY <1>2, <2>2, <2>4, WholeStream, Zenon
<1> QED BY <1>2, <1>10, <1>11, <1>12, Zenon

\* Ask.
LEMMA AskStep ==
  ASSUME TInv, Ask(Tui),
         tui' = [tui EXCEPT !.pending = Requested(requests[Tui].run), !.terminal = Finished]
  PROVE  Holds
<1> DEFINE c == requests[Tui].cmd
           r == requests[Tui].run
           p == Requested(r)
           b == Finished
<1>1. IInv /\ LogSound /\ CInv /\ Tui \in Client
  BY TuiAssumption, Zenon DEF TInv
<1>2. /\ requests' \in [Client -> Request] /\ UNCHANGED <<vars, mapped>> /\ In(Tui, "ask")
      /\ \A x \in Client \ {Tui} : requests'[x] = requests[x]
      /\ requests'[Tui].phase = "idle" /\ requests'[Tui].told = "finished"
      /\ SaneNow(requests'[Tui])
  BY <1>1, AskTurn, Zenon
<1>3. /\ tui \in TuiState /\ (tui.sent => tui.run # None) /\ c = tui.run /\ c \in Command
      /\ tui.pending \in {None, r}
  <2>1. ~In(Tui, "idle")
    BY <1>2, Zenon DEF In
  <2> QED BY <1>2, <2>1, OwnStream, Zenon DEF TInv, ShowsStream
<1>4. r \in Command /\ r = commands[c].exec /\ interactions[r].state # "absent"
  <2>1. SaneNow(requests[Tui]) /\ requests[Tui].phase = "ask"
    BY <1>1, <1>2, Own, Zenon DEF In
  <2> QED BY <2>1, Zenon DEF Sane, SaneNow
<1>5. /\ p = IF interactions[r].state = "pending" THEN r ELSE tui.pending
      /\ b \in BOOLEAN /\ tui' = [tui EXCEPT !.pending = p, !.terminal = b]
  BY Zenon DEF Requested, Finished
<1> HIDE DEF b, p, r, c
<1>6. p \in Command \cup {None} /\ p \in {None, r} /\ (interactions[r].state = "pending" => p = r)
  BY <1>3, <1>4, <1>5, Zenon
<1>7. /\ tui' \in TuiState /\ tui'.run = c /\ tui'.pending = p
      /\ tui'.sent => tui'.run # None
  <2>1. /\ tui' \in TuiState /\ tui'.run = tui.run /\ tui'.sent = tui.sent /\ tui'.pending = p
    <3>1. tui \in TuiState /\ p \in Command \cup {None} /\ b \in BOOLEAN
      BY <1>3, <1>5, <1>6, Zenon
    <3>2. tui' = [tui EXCEPT !.pending = p, !.terminal = b]
      BY <1>5, Zenon
    <3> QED BY <3>1, <3>2, Shown, Zenon
  <2> QED BY <1>3, <2>1, Zenon
<1>8. Truthful(Tui) /\ runs[r].state \notin {"absent"} \cup Live
  <2>1. commands[requests[Tui].cmd].exec = r /\ requests[Tui].cmd \in Command
    BY <1>3, <1>4, Zenon DEF c
  <2> QED BY <1>1, <1>2, <1>4, <2>1, ToldOf, Zenon
<1>9. interactions[r].cont # c
  <2>1. ASSUME interactions[r].cont = c PROVE FALSE
    <3>1. c # None /\ RepliesOwn
      BY <1>1, <1>3, NoneAssumption, Zenon DEF CInv
    <3>2. c # r /\ commands[c].exec = c
      BY <1>4, <2>1, <3>1, Zenon DEF RepliesOwn
    <3> QED BY <1>4, <3>2, Zenon
  <2> QED BY <2>1, Zenon
<1>10. runs[r].state = "awaiting_input" => tui'.pending = r
  BY <1>1, <1>4, <1>6, <1>7, Zenon DEF IInv, Lifecycle, WaitsMatch
<1>11. tui'.pending # None => interactions[tui'.pending].cont # c
  BY <1>6, <1>7, <1>9, Zenon
<1>12. ShowsStream' /\ AsksWhatIsOpen'
  <2>1. UNCHANGED vars /\ commands[c].exec = r
    BY <1>2, <1>4, Zenon
  <2> QED BY <1>1, <1>2, <1>3, <1>4, <1>7, <1>8, <1>10, <1>11, <2>1, Knowing, Zenon
<1> QED BY <1>2, <1>8, <1>12, WholeStream, Zenon

\* Poll.
LEMMA PollStep ==
  ASSUME TInv, Poll(Tui), tui' = tui
  PROVE  Holds
<1>1. IInv /\ LogSound /\ CInv /\ Tui \in Client
  BY TuiAssumption, Zenon DEF TInv
<1>2. /\ requests' \in [Client -> Request] /\ UNCHANGED <<vars, mapped>> /\ In(Tui, "tail")
      /\ \A x \in Client \ {Tui} : requests'[x] = requests[x]
      /\ requests'[Tui].phase = "tail" /\ requests'[Tui].cmd = requests[Tui].cmd
      /\ SaneNow(requests'[Tui])
  BY <1>1, PollTurn, Zenon
<1>3. /\ tui \in TuiState /\ (tui.sent => tui.run # None) /\ ~tui.terminal
      /\ requests[Tui].cmd = tui.run /\ tui.pending = None
  <2>1. ~In(Tui, "idle")
    BY <1>2, Zenon DEF In
  <2> QED BY <1>2, <2>1, OwnStream, Zenon DEF TInv, ShowsStream
<1>4. ShowsStream' /\ AsksWhatIsOpen'
  BY <1>2, <1>3, Following, Zenon
<1>5. requests'[Tui].told \in NoVerdict
  BY <1>2, Zenon DEF Sane, SaneNow, NoVerdict
<1>6. Truthful(Tui)
  BY <1>1, <1>5, Untold, Zenon
<1> QED BY <1>2, <1>4, <1>6, WholeStream, Zenon

\* Deliver.
LEMMA DeliverStep ==
  ASSUME TInv, Deliver(Tui), tui' = [tui EXCEPT !.terminal = Finished]
  PROVE  Holds
<1> DEFINE c == requests[Tui].cmd
           r == requests[Tui].run
           b == Finished
           new == requests'[Tui]
<1>1. IInv /\ LogSound /\ CInv /\ Tui \in Client
  BY TuiAssumption, Zenon DEF TInv
<1>2. /\ requests' \in [Client -> Request] /\ UNCHANGED <<vars, mapped>> /\ In(Tui, "tail")
      /\ \A x \in Client \ {Tui} : requests'[x] = requests[x]
      /\ SaneNow(new)
      /\ \/ new.phase \in {"ask", "tail"} /\ new.cmd = c
         \/ /\ new.phase = "idle" /\ r \in Command /\ r = commands[c].exec
            /\ runs[r].state \in Terminal /\ new.told = Verdict(runs[r].state)
  BY <1>1, DeliverTurn, Zenon
<1>3. /\ tui \in TuiState /\ (tui.sent => tui.run # None) /\ c = tui.run /\ c \in Command
      /\ tui.pending = None
  <2>1. ~In(Tui, "idle")
    BY <1>2, Zenon DEF In
  <2> QED BY <1>2, <2>1, OwnStream, Zenon DEF TInv, ShowsStream
<1>4. /\ b \in BOOLEAN /\ (b => new.phase = "idle") /\ tui' = [tui EXCEPT !.terminal = b]
  BY Zenon DEF Finished, In
<1> HIDE DEF b, r, c
<1>5. /\ tui' \in TuiState /\ tui'.run = c /\ tui'.pending = None /\ tui'.terminal = b
      /\ tui'.sent => tui'.run # None
  <2>1. /\ tui' \in TuiState /\ tui'.run = tui.run /\ tui'.sent = tui.sent
        /\ tui'.pending = tui.pending /\ tui'.terminal = b
    <3>1. tui \in TuiState /\ b \in BOOLEAN /\ tui' = [tui EXCEPT !.terminal = b]
      BY <1>3, <1>4, Zenon
    <3> QED BY <3>1, Over, Zenon
  <2> QED BY <1>3, <2>1, Zenon
<1>6. CASE new.phase \in {"ask", "tail"} /\ new.cmd = c
  <2>1. ~tui'.terminal /\ new.cmd = tui'.run
    BY <1>4, <1>5, <1>6, Zenon
  <2>2. ShowsStream' /\ AsksWhatIsOpen'
    BY <1>5, <1>6, <2>1, Following, Zenon
  <2>3. new.told \in NoVerdict
    BY <1>2, <1>6, Zenon DEF Sane, SaneNow, NoVerdict
  <2>4. Truthful(Tui)
    BY <1>1, <2>3, Untold, Zenon
  <2> QED BY <1>2, <2>2, <2>4, WholeStream, Zenon
<1>7. CASE /\ new.phase = "idle" /\ r \in Command /\ r = commands[c].exec
           /\ runs[r].state \in Terminal /\ new.told = Verdict(runs[r].state)
  <2>1. Truthful(Tui) /\ runs[r].state \notin {"absent"} \cup Live
    BY <1>1, <1>3, <1>7, ToldOf, Zenon DEF c
  <2>2. runs[r].state # "awaiting_input"
    BY <1>7, FailureAssumption, Zenon DEF Terminal
  <2>3. ShowsStream' /\ AsksWhatIsOpen'
    <3>1. UNCHANGED vars /\ r \in Command /\ commands[c].exec = r
      BY <1>2, <1>7, Zenon
    <3> QED BY <1>1, <1>3, <1>5, <1>7, <2>1, <2>2, <3>1, Knowing, Zenon
  <2> QED BY <1>2, <2>1, <2>3, WholeStream, Zenon
<1> QED BY <1>2, <1>6, <1>7, Zenon

\* What goes on elsewhere.
LEMMA OthersStep == ASSUME TInv, Others PROVE Holds
<1>1. IInv /\ LogSound /\ CInv /\ Tui \in Client
  BY TuiAssumption, Zenon DEF TInv
<1>2. /\ Next \/ UNCHANGED vars
      /\ mapped \subseteq mapped' /\ mapped' \subseteq Command /\ AllMapped'
      /\ requests' = requests /\ tui' = tui
  BY <1>1, OthersBacked, Zenon
<1>3. ShowsStream' /\ AsksWhatIsOpen'
  BY <1>2, StillShown, Zenon
<1>4. Truthful(Tui)
  BY <1>1, <1>2, Untold, Zenon
<1>5. mapped \subseteq Command /\ requests' \in [Client -> Request] /\ SaneNow(requests[Tui])
  BY <1>1, <1>2, Own, Zenon DEF CInv
<1>6. Sane(requests'[Tui], mapped', events', runs', interactions', commands')
  <2>1. CASE Next
    BY <1>1, <1>2, <1>5, <2>1, SaneOnward, Zenon DEF SaneNow
  <2>2. CASE UNCHANGED vars
    <3>1. Sane(requests[Tui], mapped', events, runs, interactions, commands)
      BY <1>2, <1>5, SaneMore, Zenon DEF SaneNow
    <3> QED BY <1>2, <2>2, <3>1, Zenon DEF vars
  <2> QED BY <1>2, <2>1, <2>2, Zenon
<1> QED BY <1>2, <1>3, <1>4, <1>5, <1>6, Whole, Zenon

\* One step of the terminal, the handler, the journal or anyone else.
LEMMA TuiStep == ASSUME TInv, TuiNext PROVE Holds
<1>1. ASSUME apply PROVE Holds
  BY <1>1, ObserveStep, AskStep, PollStep, DeliverStep, Zenon DEF apply
<1> QED BY <1>1, EnterStep, AdmittedStep, CutStep, OthersStep, Zenon DEF TuiNext

\* Nothing happens to any of them.
LEMMA TuiStutter == ASSUME TInv, UNCHANGED allvars PROVE TInv'
<1>1. UNCHANGED vars /\ mapped' = mapped /\ requests' = requests /\ tui' = tui
  BY Zenon DEF allvars, chatvars, cvars, tvars
<1>2. IInv'
  BY <1>1, InvariantStep, Zenon DEF TInv
<1>3. LogSound' /\ CInv'
  BY <1>1, Zenon DEF TInv, LogSound, CInv, RepliesOwn, AllMapped, vars
<1>4. ShowsStream' /\ AsksWhatIsOpen'
  BY <1>1, StillShown, Zenon
<1> QED BY <1>2, <1>3, <1>4, Zenon DEF TInv

\* Nobody has asked for anything.
LEMMA TuiStart == TuiInit => TInv
<1> SUFFICES ASSUME TuiInit PROVE TInv
  BY Zenon
<1>1. /\ Init /\ mapped = {} /\ requests = [k \in Client |-> NoRequest] /\ tui = NewModel
  BY Zenon DEF TuiInit, ChatInit
<1>2. IInv /\ events = <<>>
  BY <1>1, InvariantInit, Zenon DEF Init
<1>3. LogSound
  BY <1>2 DEF LogSound
<1>4. RepliesOwn /\ AllMapped
  <2>1. \A x \in Command : interactions[x].cont = None /\ commands[x].exec = None
    BY <1>1, BlankRows, Zenon DEF Init, NoCommand
  <2> QED BY <2>1, Zenon DEF RepliesOwn, AllMapped
<1>5. CInv
  <2>1. NoRequest \in Request /\ NoRequest.phase = "idle" /\ NoRequest.read = 0 /\ 0 <= Len(events)
    <3>1. 0 <= Len(<<>>)
      OBVIOUS
    <3> QED BY <1>2, <3>1, NoRequestRow, Zenon
  <2>2. Sane(NoRequest, mapped, events, runs, interactions, commands)
    BY <2>1, Zenon DEF Sane
  <2> QED BY <1>1, <1>4, <2>1, <2>2, Zenon DEF CInv
<1>6. requests[Tui].phase = "idle"
  BY <1>1, NoRequestRow, TuiAssumption, Zenon
<1>7. ShowsStream /\ AsksWhatIsOpen
  BY <1>1, <1>6, NewRow, Zenon DEF ShowsStream, AsksWhatIsOpen, Informed, streaming, In
<1> QED BY <1>2, <1>3, <1>5, <1>7, Zenon DEF TInv

----------------------------------------------------------------------------
(* The theorems.                                                           *)

\* The joint invariant of the journal, the handler and the terminal, for any number of
\* commands, clients, replicas and faults.
THEOREM ChatInvariance == TuiSpec => []TInv
<1>1. TuiInit => TInv
  BY TuiStart, Zenon
<1>2. TInv /\ [TuiNext]_allvars => TInv'
  BY TuiStep, TuiStutter, Zenon DEF Holds
<1> QED BY <1>1, <1>2, PTL DEF TuiSpec

\* Snapshot and tail together are the log: whatever is written while Observe takes its
\* snapshot and between two polls, an open stream has handed over every event of its run
\* after the snapshot's watermark, once and in order.
THEOREM StreamsLoseNothing == TuiSpec => []NothingLost
<1>1. TInv => NothingLost
  BY Zenon DEF TInv, CInv, Sane, Heard, NothingLost, In
<1> QED BY <1>1, ChatInvariance, PTL

\* What the handler tells a client about its command, from the run's row or from an event of
\* the tail, is what became of the run that carries the command, and the command is not
\* still waiting to be taken up.
THEOREM ClientsToldTrue == TuiSpec => ToldTrue
<1>1. TInv /\ [TuiNext]_allvars => [\A k \in Client : Truthful(k)]_chatvars
  BY TuiStep, Zenon DEF Holds, allvars
<1>2. ASSUME TInv, [TuiNext]_allvars
      PROVE  [\A k \in Client :
               LET c == requests[k].cmd
                   r == commands[c].exec
               IN ~In(k, "idle") /\ requests'[k].told \notin NoVerdict =>
                    /\ r # None /\ c \notin Undrained(r)
                    /\ \/ requests'[k].told = runs[r].state
                       \/ /\ requests'[k].told = "finished"
                          /\ runs[r].state = "completed" \/ interactions[r].state # "absent"]_chatvars
  BY <1>1, <1>2, Zenon DEF Truthful
<1> QED BY <1>2, ChatInvariance, PTL DEF TuiSpec, ToldTrue

\* However often requests are cut off and repeated, a terminal that was told the fate of its
\* command shows the question its run waits for, and none that this command answered.
THEOREM TerminalAsksWhatIsOpen == TuiSpec => []AsksWhatIsOpen
<1>1. TInv => AsksWhatIsOpen
  BY Zenon DEF TInv
<1> QED BY <1>1, ChatInvariance, PTL
=============================================================================
