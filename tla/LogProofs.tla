------------------------------ MODULE LogProofs ------------------------------
(* The event log and the tables agree.  The last part is about the journal *)
(* as Chat reads it: rows go forward only, the log is only appended to,    *)
(* and what an entry says stays so.                                        *)
EXTENDS Chat, JournalProofs

----------------------------------------------------------------------------
(* A log by itself: what one entry more does to it.                        *)

\* The types that report the end of a run, what became of a command, and neither.
Closing == EndTypes \cup {"interaction.consumed"}
Plain ==
  {ToolEvent[s] : s \in DOMAIN ToolEvent} \cup
  {"command.accepted", "definition_changed", "interaction.expired", "interaction.superseded",
   "message.completed", "run.awaiting_input", "run.started", "tool.started"}
EventType == Closing \cup FateTypes \cup Plain

Entry == [type: EventType, run: Command, about: SUBSET (Command \cup Call)]

\* These are three kinds of events.
LEMMA Kinds ==
  /\ Closing \cap FateTypes = {} /\ Plain \cap Closing = {} /\ Plain \cap FateTypes = {}
  /\ {"command.accepted", "definition_changed", "interaction.expired", "interaction.superseded",
      "message.completed", "run.awaiting_input", "run.started", "tool.started",
      "tool.outcome_unknown"} \subseteq Plain
  /\ \A s \in Outcome \ {"none", "dispatching"} : ToolEvent[s] \in Plain
<1>1. /\ DOMAIN ToolEvent = {"completed", "rejected", "auth_required", "outcome_unknown"}
      /\ ToolEvent["outcome_unknown"] = "tool.outcome_unknown"
  BY Zenon DEF ToolEvent
<1>2. {ToolEvent[s] : s \in DOMAIN ToolEvent} =
        {"tool.completed", "tool.rejected", "tool.auth_required", "tool.outcome_unknown"}
  BY DEF ToolEvent
<1>3. EndTypes = {"run.completed", "run.interrupted", "run.failed", "auth_required",
                  "run.dependency_unavailable", "run.limit_exceeded"}
  BY DEF EndTypes, RunEvent
<1>4. Closing \cap FateTypes = {} /\ Plain \cap Closing = {} /\ Plain \cap FateTypes = {}
  BY <1>2, <1>3, Zenon DEF Closing, FateTypes, Plain
<1>5. {"command.accepted", "definition_changed", "interaction.expired", "interaction.superseded",
       "message.completed", "run.awaiting_input", "run.started", "tool.started",
       "tool.outcome_unknown"} \subseteq Plain
  BY <1>2, Zenon DEF Plain
<1>6. \A s \in Outcome \ {"none", "dispatching"} : ToolEvent[s] \in Plain
  BY <1>1, Zenon DEF Outcome, Plain
<1> QED BY <1>4, <1>5, <1>6, Zenon

\* Where log L says that run r has ended, and what became of command c.
Ends(L, r) == {n \in 1..Len(L) : L[n].run = r /\ L[n].type \in Closing}
Fates(L, c) == {n \in 1..Len(L) : L[n].type \in FateTypes /\ c \in L[n].about}

\* L says of each run r that it has ended, with one of E[r], unless that is empty; of each
\* command that F[c] became of it; and it does not go on about a run that it said has ended.
EndsTold(L, E) ==
  \A r \in Command : /\ E[r] # {} => Ends(L, r) # {}
                     /\ \A n \in Ends(L, r) : L[n].type \in E[r]
                     /\ \A m, n \in Ends(L, r) : m = n
FatesTold(L, F) ==
  \A c \in Command : /\ F[c] # {} => Fates(L, c) # {}
                     /\ \A n \in Fates(L, c) : F[c] = {L[n].type}
                     /\ \A m, n \in Fates(L, c) : m = n
SilentAfter(L) ==
  \A m, n \in 1..Len(L) : m < n /\ L[m].type \in EndTypes => L[n].run # L[m].run

Faithful(L, E, F) == L \in Seq(Entry) /\ EndsTold(L, E) /\ FatesTold(L, F) /\ SilentAfter(L)

\* One entry more.
LEMMA Grows ==
  ASSUME NEW L \in Seq(Entry), NEW e \in Entry
  PROVE  /\ L \o <<e>> \in Seq(Entry)
         /\ Len(L) \in Nat /\ Len(L \o <<e>>) = Len(L) + 1
         /\ \A n \in 1..Len(L) : (L \o <<e>>)[n] = L[n] /\ L[n] \in Entry
         /\ (L \o <<e>>)[Len(L) + 1] = e
OBVIOUS

\* What it adds to what the log says.
LEMMA GrowsBy ==
  ASSUME NEW L \in Seq(Entry), NEW e \in Entry
  PROVE  /\ \A r \in Command : Ends(L \o <<e>>, r) =
              IF e.run = r /\ e.type \in Closing THEN Ends(L, r) \cup {Len(L) + 1} ELSE Ends(L, r)
         /\ \A c \in Command : Fates(L \o <<e>>, c) =
              IF e.type \in FateTypes /\ c \in e.about THEN Fates(L, c) \cup {Len(L) + 1}
              ELSE Fates(L, c)
<1> DEFINE M == L \o <<e>>
<1>1. /\ Len(L) \in Nat /\ Len(M) = Len(L) + 1 /\ M[Len(L) + 1] = e
      /\ \A n \in 1..Len(L) : M[n] = L[n]
  BY Grows, Zenon
<1>2. 1..Len(M) = 1..Len(L) \cup {Len(L) + 1}
  BY <1>1
<1> HIDE DEF M
<1>3. ASSUME NEW r \in Command
      PROVE  Ends(M, r) =
               IF e.run = r /\ e.type \in Closing THEN Ends(L, r) \cup {Len(L) + 1} ELSE Ends(L, r)
  BY <1>1, <1>2, Zenon DEF Ends
<1>4. ASSUME NEW c \in Command
      PROVE  Fates(M, c) =
               IF e.type \in FateTypes /\ c \in e.about THEN Fates(L, c) \cup {Len(L) + 1}
               ELSE Fates(L, c)
  BY <1>1, <1>2, Zenon DEF Fates
<1> QED BY <1>3, <1>4, Zenon DEF M

\* What a longer log repeats of a shorter one.
LEMMA ToldAgain ==
  ASSUME NEW L, NEW M, \A n \in 1..Len(L) : M[n] = L[n]
  PROVE  /\ \A E : EndsTold(L, E) /\ (\A r \in Command : Ends(M, r) = Ends(L, r)) => EndsTold(M, E)
         /\ \A F : FatesTold(L, F) /\ (\A c \in Command : Fates(M, c) = Fates(L, c)) => FatesTold(M, F)
<1>1. /\ \A r \in Command : \A n \in Ends(L, r) : M[n] = L[n]
      /\ \A c \in Command : \A n \in Fates(L, c) : M[n] = L[n]
  BY Zenon DEF Ends, Fates
<1> QED BY <1>1, Zenon DEF EndsTold, FatesTold

\* It is about a run that has not ended, so the log is still silent after each end.
LEMMA StaysSilent ==
  ASSUME NEW L \in Seq(Entry), NEW E, EndsTold(L, E), SilentAfter(L),
         NEW e \in Entry, E[e.run] = {}
  PROVE  SilentAfter(L \o <<e>>)
<1> DEFINE M == L \o <<e>>
<1>1. /\ Len(L) \in Nat /\ Len(M) = Len(L) + 1 /\ M[Len(L) + 1] = e
      /\ \A n \in 1..Len(L) : M[n] = L[n]
  BY Grows
<1>2. ASSUME NEW m \in 1..Len(L), L[m].type \in EndTypes
      PROVE  L[m].run # e.run
  BY <1>2, Zenon DEF EndsTold, Ends, Closing, Entry
<1> HIDE DEF M
<1>3. ASSUME NEW m \in 1..Len(M), NEW n \in 1..Len(M), m < n, M[m].type \in EndTypes
      PROVE  M[n].run # M[m].run
  <2>1. m \in 1..Len(L) /\ M[m] = L[m]
    BY <1>1, <1>3
  <2>2. CASE n = Len(L) + 1
    BY <1>1, <1>2, <1>3, <2>1, <2>2, Zenon
  <2>3. CASE n # Len(L) + 1
    <3>1. n \in 1..Len(L) /\ M[n] = L[n]
      BY <1>1, <2>3
    <3> QED BY <1>3, <2>1, <3>1, Zenon DEF SilentAfter
  <2> QED BY <2>2, <2>3, Zenon
<1> QED BY <1>3, Zenon DEF SilentAfter, M

\* An entry that reports no end and no fate.
LEMMA Says ==
  ASSUME NEW L, NEW E, NEW F, Faithful(L, E, F), NEW e \in Entry, E[e.run] = {},
         e.type \in Plain
  PROVE  Faithful(L \o <<e>>, E, F)
<1> L \in Seq(Entry)
  BY Zenon DEF Faithful
<1> DEFINE M == L \o <<e>>
<1>1. M \in Seq(Entry) /\ \A n \in 1..Len(L) : M[n] = L[n]
  BY Grows
<1>2. SilentAfter(M)
  BY StaysSilent, Zenon DEF Faithful
<1>3. /\ \A r \in Command : Ends(M, r) = Ends(L, r)
      /\ \A c \in Command : Fates(M, c) = Fates(L, c)
  BY GrowsBy, Kinds, Zenon
<1> HIDE DEF M
<1>4. EndsTold(M, E) /\ FatesTold(M, F)
  BY <1>1, <1>3, ToldAgain, Zenon DEF Faithful
<1> QED BY <1>1, <1>2, <1>4, Zenon DEF Faithful, M

\* The entry that reports the end of a run.
LEMMA Closes ==
  ASSUME NEW L, NEW E \in [Command -> SUBSET EventType], NEW F, Faithful(L, E, F),
         NEW e \in Entry, E[e.run] = {},
         e.type \in Closing, NEW S \in SUBSET EventType, e.type \in S
  PROVE  Faithful(L \o <<e>>, [E EXCEPT ![e.run] = S], F)
<1> L \in Seq(Entry) /\ e.run \in Command
  BY Zenon DEF Faithful, Entry
<1> DEFINE M == L \o <<e>>
           D == [E EXCEPT ![e.run] = S]
<1>1. /\ M \in Seq(Entry) /\ \A n \in 1..Len(L) : M[n] = L[n]
      /\ M[Len(L) + 1] = e
  BY Grows
<1>2. SilentAfter(M)
  BY StaysSilent, Zenon DEF Faithful
<1>3. e.type \notin FateTypes
  BY Kinds, Zenon
<1>4. /\ \A r \in Command : Ends(M, r) = IF e.run = r THEN Ends(L, r) \cup {Len(L) + 1} ELSE Ends(L, r)
      /\ \A c \in Command : Fates(M, c) = Fates(L, c)
  BY <1>3, GrowsBy, Zenon
<1>5. Ends(L, e.run) = {}
  BY Zenon DEF Faithful, EndsTold
<1> HIDE DEF M
<1>6. EndsTold(M, D)
  <2> SUFFICES ASSUME NEW r \in Command
               PROVE  /\ D[r] # {} => Ends(M, r) # {}
                      /\ \A n \in Ends(M, r) : M[n].type \in D[r]
                      /\ \A m, n \in Ends(M, r) : m = n
    BY Zenon DEF EndsTold
  <2>1. CASE r = e.run
    <3>1. Ends(M, r) = {Len(L) + 1} /\ D[r] = S
      BY <1>4, <1>5, <2>1, Zenon
    <3> QED BY <1>1, <3>1, Zenon
  <2>2. CASE r # e.run
    <3>1. Ends(M, r) = Ends(L, r) /\ D[r] = E[r] /\ Ends(L, r) \subseteq 1..Len(L)
      BY <1>4, <2>2, Zenon DEF Ends
    <3> QED BY <1>1, <3>1 DEF Faithful, EndsTold
  <2> QED BY <2>1, <2>2, Zenon
<1>7. FatesTold(M, F)
  BY <1>1, <1>4, ToldAgain DEF Faithful
<1> QED BY <1>1, <1>2, <1>6, <1>7, Zenon DEF Faithful, M

\* The entry that reports what became of commands.
LEMMA Tells ==
  ASSUME NEW L, NEW E, NEW F \in [Command -> SUBSET EventType], Faithful(L, E, F),
         NEW e \in Entry, E[e.run] = {},
         e.type \in FateTypes, \A c \in Command : c \in e.about => F[c] = {}
  PROVE  Faithful(L \o <<e>>, E, [c \in Command |-> IF c \in e.about THEN {e.type} ELSE F[c]])
<1> L \in Seq(Entry)
  BY Zenon DEF Faithful
<1> DEFINE M == L \o <<e>>
           G == [c \in Command |-> IF c \in e.about THEN {e.type} ELSE F[c]]
<1>1. /\ M \in Seq(Entry) /\ \A n \in 1..Len(L) : M[n] = L[n]
      /\ M[Len(L) + 1] = e
  BY Grows
<1>2. SilentAfter(M)
  BY StaysSilent, Zenon DEF Faithful
<1>3. e.type \notin Closing
  BY Kinds, Zenon
<1>4. /\ \A r \in Command : Ends(M, r) = Ends(L, r)
      /\ \A c \in Command : Fates(M, c) = IF c \in e.about THEN Fates(L, c) \cup {Len(L) + 1}
                                          ELSE Fates(L, c)
  BY <1>3, GrowsBy, Zenon
<1> HIDE DEF M
<1>5. EndsTold(M, E)
  BY <1>1, <1>4, ToldAgain, Zenon DEF Faithful
<1>6. FatesTold(M, G)
  <2> SUFFICES ASSUME NEW c \in Command
               PROVE  /\ G[c] # {} => Fates(M, c) # {}
                      /\ \A n \in Fates(M, c) : G[c] = {M[n].type}
                      /\ \A m, n \in Fates(M, c) : m = n
    BY Zenon DEF FatesTold
  <2>1. CASE c \in e.about
    <3>1. Fates(L, c) = {}
      <4>1. F[c] = {} /\ \A n \in Fates(L, c) : F[c] = {L[n].type}
        BY <2>1, Zenon DEF Faithful, FatesTold
      <4> QED BY <4>1, Zenon
    <3>2. Fates(M, c) = {Len(L) + 1} /\ G[c] = {e.type}
      BY <1>4, <2>1, <3>1, Zenon
    <3> QED BY <1>1, <3>2, Zenon
  <2>2. CASE c \notin e.about
    <3>1. Fates(M, c) = Fates(L, c) /\ G[c] = F[c] /\ Fates(L, c) \subseteq 1..Len(L)
      BY <1>4, <2>2, Zenon DEF Fates
    <3> QED BY <1>1, <3>1, Zenon DEF Faithful, FatesTold
  <2> QED BY <2>1, <2>2, Zenon
<1> QED BY <1>1, <1>2, <1>5, <1>6, Zenon DEF Faithful, M

----------------------------------------------------------------------------
(* appendEvent.                                                            *)

\* The types that a reader of the log needs are all kept.
AllObserved ==
  {RunEvent[s] : s \in Terminal} \cup FateTypes \cup {"interaction.consumed"} \subseteq Observed

\* Logs may be joined in any order of the joins.
LEMMA Joined == \A L, M, N \in Seq(Entry) : L \o (M \o N) = (L \o M) \o N
OBVIOUS

\* Entries one after the other.
LEMMA Appending ==
  ASSUME NEW L \in Seq(Entry), NEW type \in EventType, NEW r \in Command,
         NEW about \in SUBSET (Command \cup Call)
  PROVE  /\ Ev(type, r, about) \in Seq(Entry)
         /\ L \o <<>> = L /\ <<>> \o L = L
<1>1. [type |-> type, run |-> r, about |-> about] \in Entry
  BY Zenon DEF Entry
<1>2. Ev(type, r, about) \in Seq(Entry)
  BY <1>1 DEF Ev
<1>3. L \o <<>> = L /\ <<>> \o L = L
  OBVIOUS
<1> QED BY <1>2, <1>3, Zenon

\* An event of a run that has not ended, which reports no end and no fate.
LEMMA EvSays ==
  ASSUME NEW L, NEW E, NEW F, Faithful(L, E, F), NEW type \in Plain, NEW r \in Command,
         NEW about \in SUBSET (Command \cup Call), E[r] = {}
  PROVE  Faithful(L \o Ev(type, r, about), E, F)
<1> DEFINE e == [type |-> type, run |-> r, about |-> about]
<1>1. e \in Entry /\ e.run = r /\ e.type = type /\ L \in Seq(Entry) /\ type \in EventType
  BY Zenon DEF Entry, Faithful, EventType
<1> HIDE DEF e
<1>2. CASE Ev(type, r, about) = <<>>
  BY <1>1, <1>2, Appending, Zenon
<1>3. CASE Ev(type, r, about) = <<e>>
  BY <1>1, <1>3, Says, Zenon
<1> QED BY <1>2, <1>3, Zenon DEF Ev, e

\* The event that ends a run.
LEMMA EvCloses ==
  ASSUME NEW L, NEW E \in [Command -> SUBSET EventType], NEW F, Faithful(L, E, F),
         NEW type \in Closing \cap Observed, NEW r \in Command, E[r] = {},
         NEW S \in SUBSET EventType, type \in S
  PROVE  Faithful(L \o Ev(type, r, {r}), [E EXCEPT ![r] = S], F)
<1> DEFINE e == [type |-> type, run |-> r, about |-> {r}]
<1>1. e \in Entry /\ e.run = r /\ e.type = type
  BY Zenon DEF Entry, EventType
<1>2. Ev(type, r, {r}) = <<e>>
  BY Zenon DEF Ev
<1> HIDE DEF e
<1> QED BY <1>1, <1>2, Closes, Zenon

\* The event that says what became of commands.
LEMMA EvTells ==
  ASSUME NEW L, NEW E, NEW F \in [Command -> SUBSET EventType], Faithful(L, E, F),
         NEW type \in FateTypes \cap Observed, NEW r \in Command, E[r] = {},
         NEW about \in SUBSET Command, \A c \in about : F[c] = {}
  PROVE  Faithful(L \o Ev(type, r, about), E,
                  [c \in Command |-> IF c \in about THEN {type} ELSE F[c]])
<1> DEFINE e == [type |-> type, run |-> r, about |-> about]
           G == [c \in Command |-> IF c \in about THEN {type} ELSE F[c]]
<1>1. L \in Seq(Entry)
  BY Zenon DEF Faithful
<1>2. e \in Entry /\ e.run = r /\ e.type = type /\ e.about = about
  BY <1>1, Zenon DEF Entry, EventType
<1>3. CASE about = {}
  <2>1. Ev(type, r, about) = <<>> /\ G = F
    BY <1>3, Zenon DEF Ev
  <2>2. L \o <<>> = L
    BY <1>1
  <2> QED BY <2>1, <2>2, Zenon
<1>4. CASE about # {}
  <2>1. Ev(type, r, about) = <<e>>
    BY <1>4, Zenon DEF Ev
  <2> HIDE DEF e
  <2>2. Faithful(L \o <<e>>, E, [c \in Command |-> IF c \in e.about THEN {e.type} ELSE F[c]])
    BY <1>2, Tells
  <2> QED BY <1>2, <2>1, <2>2, Zenon
<1> QED BY <1>3, <1>4, Zenon

----------------------------------------------------------------------------
(* The log and the tables.                                                 *)

\* How the log may say that a run ended which is in this state, and what it says became
\* of a command with this row.
EndsAs(state) ==
  IF state \notin Terminal THEN {}
  ELSE IF state = "completed" THEN {"run.completed", "interaction.consumed"}
  ELSE {RunEvent[state]}
FateOf(row) ==
  IF row.included THEN {"command.included"}
  ELSE IF row.reason = "" THEN {}
  ELSE IF row.reason = "consumed" THEN {"command.consumed"}
  ELSE IF row.reason = "interrupted" THEN {"command.interrupted"}
  ELSE {"command.rejected"}

EndsIn(rs) == [r \in Command |-> EndsAs(rs[r].state)]
FatesIn(cs) == [c \in Command |-> FateOf(cs[c])]

LInv == Faithful(events, EndsIn(runs), FatesIn(commands))

\* The event types that end runs.
LEMMA EndStates ==
  /\ EndTypes = {"run.completed", "run.interrupted", "run.failed", "auth_required",
                 "run.dependency_unavailable", "run.limit_exceeded"}
  /\ Terminal \subseteq DOMAIN RunEvent
  /\ \A s \in Terminal : RunEvent[s] \in EndTypes
  /\ "completed" \in Terminal /\ RunEvent["completed"] = "run.completed"
  /\ "interrupted" \in Terminal /\ RunEvent["interrupted"] = "run.interrupted"
  /\ "failed" \in Terminal /\ RunEvent["failed"] = "run.failed"
<1>1. DOMAIN RunEvent = {"completed", "interrupted", "failed", "auth_required",
                         "dependency_unavailable", "limit_exceeded"}
  BY Zenon DEF RunEvent
<1>2. EndTypes = {"run.completed", "run.interrupted", "run.failed", "auth_required",
                  "run.dependency_unavailable", "run.limit_exceeded"}
  BY DEF EndTypes, RunEvent
<1>3. Terminal \subseteq DOMAIN RunEvent
  BY <1>1, FailureAssumption, Zenon DEF Terminal
<1>4. \A s \in DOMAIN RunEvent : RunEvent[s] \in EndTypes
  BY Zenon DEF EndTypes
<1>5. /\ "completed" \in Terminal /\ "interrupted" \in Terminal /\ "failed" \in Terminal
  BY Zenon DEF Terminal
<1>6. /\ RunEvent["completed"] = "run.completed" /\ RunEvent["interrupted"] = "run.interrupted"
      /\ RunEvent["failed"] = "run.failed"
  BY Zenon DEF RunEvent
<1> QED BY <1>2, <1>3, <1>4, <1>5, <1>6, Zenon

\* What is said of the tables is made of event types.
LEMMA ToldTypes ==
  ASSUME NEW rs \in [Command -> RunRow], NEW cs \in [Command -> CommandRow]
  PROVE  /\ EndsIn(rs) \in [Command -> SUBSET EventType]
         /\ FatesIn(cs) \in [Command -> SUBSET EventType]
<1>1. ASSUME NEW r \in Command PROVE EndsAs(rs[r].state) \in SUBSET EventType
  <2>1. "run.completed" \in EventType /\ "interaction.consumed" \in EventType
    BY EndStates, Zenon DEF EventType, Closing
  <2>2. \A s \in Terminal : RunEvent[s] \in EventType
    BY EndStates, Zenon DEF EventType, Closing
  <2> QED BY <2>1, <2>2, Zenon DEF EndsAs
<1>2. ASSUME NEW c \in Command PROVE FateOf(cs[c]) \in SUBSET EventType
  BY Zenon DEF FateOf, FateTypes, EventType
<1> QED BY <1>1, <1>2, Zenon DEF EndsIn, FatesIn

\* LInv says what LogFaithful does.
LEMMA FaithfulLog == TypeOK /\ LInv => LogFaithful
<1> SUFFICES ASSUME TypeOK, LInv PROVE LogFaithful
  BY Zenon
<1>1. events \in Seq(Entry) /\ DOMAIN events = 1..Len(events)
  BY DEF LInv, Faithful
<1>2. NoNewsAfterEnd
  BY <1>1, Zenon DEF LInv, Faithful, SilentAfter, NoNewsAfterEnd
<1>3. ASSUME NEW r \in Command
      PROVE  LET told == {n \in DOMAIN events : events[n].run = r
                            /\ events[n].type \in EndTypes \cup {"interaction.consumed"}}
             IN /\ runs[r].state \in Terminal <=> told # {}
                /\ \A m, n \in told : m = n
                /\ \A n \in told : \/ events[n].type = RunEvent[runs[r].state]
                                   \/ events[n].type = "interaction.consumed"
                                      /\ runs[r].state = "completed"
  <2>1. Ends(events, r) = {n \in DOMAIN events : events[n].run = r
                            /\ events[n].type \in EndTypes \cup {"interaction.consumed"}}
    BY <1>1, Zenon DEF Ends, Closing
  <2>2. /\ EndsAs(runs[r].state) # {} => Ends(events, r) # {}
        /\ \A n \in Ends(events, r) : events[n].type \in EndsAs(runs[r].state)
        /\ \A m, n \in Ends(events, r) : m = n
    BY Zenon DEF LInv, Faithful, EndsTold, EndsIn
  <2>3. /\ runs[r].state \in Terminal <=> EndsAs(runs[r].state) # {}
        /\ \A t \in EndsAs(runs[r].state) :
             \/ t = RunEvent[runs[r].state]
             \/ t = "interaction.consumed" /\ runs[r].state = "completed"
    BY EndStates, Zenon DEF EndsAs
  <2> QED BY <2>1, <2>2, <2>3, Zenon
<1>4. ASSUME NEW c \in Command
      PROVE  LET told == {n \in DOMAIN events : events[n].type \in FateTypes /\ c \in events[n].about}
             IN (\A m, n \in told : m = n) /\ {events[n].type : n \in told} = Fate(c)
  <2>1. Fates(events, c) = {n \in DOMAIN events : events[n].type \in FateTypes /\ c \in events[n].about}
    BY <1>1, Zenon DEF Fates
  <2>2. FateOf(commands[c]) = Fate(c)
    BY Zenon DEF FateOf, Fate
  <2>3. /\ Fate(c) # {} => Fates(events, c) # {}
        /\ \A n \in Fates(events, c) : Fate(c) = {events[n].type}
        /\ \A m, n \in Fates(events, c) : m = n
    BY <2>2, Zenon DEF LInv, Faithful, FatesTold, FatesIn
  <2>4. {events[n].type : n \in Fates(events, c)} = Fate(c)
    BY <2>3, Zenon
  <2> QED BY <2>1, <2>3, <2>4, Zenon
<1> QED BY <1>2, <1>3, <1>4, Zenon DEF LogFaithful

\* How each state of a run is reported.
LEMMA EndRows ==
  /\ \A s \in {"absent", "awaiting_input"} \cup Live : EndsAs(s) = {}
  /\ EndsAs("completed") = {"run.completed", "interaction.consumed"}
  /\ \A s \in {"interrupted", "failed"} \cup FailureStates :
       s \in Terminal /\ EndsAs(s) = {RunEvent[s]}
<1>1. \A s \in {"absent", "awaiting_input"} \cup Live : s \notin Terminal
  BY FailureAssumption, Zenon DEF Live, Terminal
<1>2. \A s \in {"interrupted", "failed"} \cup FailureStates : s \in Terminal /\ s # "completed"
  BY FailureAssumption, Zenon DEF Terminal
<1> QED BY <1>1, <1>2, EndStates, Zenon DEF EndsAs

\* How each update of a command is reported.
LEMMA FateRows ==
  ASSUME NEW row \in CommandRow
  PROVE  /\ FateOf(InRequest(row)) = {"command.included"}
         /\ ~row.included =>
              /\ FateOf(Disposed(row, "interrupted")) = {"command.interrupted"}
              /\ \A s \in FailureStates : FateOf(Disposed(row, s)) = {"command.rejected"}
         /\ ~row.included /\ row.reason = "" => FateOf(row) = {}
<1>1. FateOf(InRequest(row)) = {"command.included"}
  BY InRequestRow, Zenon DEF FateOf
<1>2. ASSUME ~row.included, NEW why \in {"interrupted"} \cup FailureStates
      PROVE  ~Disposed(row, why).included /\ Disposed(row, why).reason = why
  BY <1>2, Zenon DEF Disposed, CommandRow
<1>3. /\ "interrupted" # "" /\ "interrupted" # "consumed"
      /\ \A s \in FailureStates : s # "" /\ s # "consumed" /\ s # "interrupted"
  BY FailureAssumption, Zenon
<1>4. ~row.included => FateOf(Disposed(row, "interrupted")) = {"command.interrupted"}
  BY <1>2, <1>3, Zenon DEF FateOf
<1>5. ASSUME ~row.included, NEW s \in FailureStates
      PROVE  FateOf(Disposed(row, s)) = {"command.rejected"}
  BY <1>2, <1>3, <1>5, Zenon DEF FateOf
<1>6. ~row.included /\ row.reason = "" => FateOf(row) = {}
  BY Zenon DEF FateOf
<1> QED BY <1>1, <1>4, <1>5, <1>6, Zenon

\* How a new command is reported.
LEMMA NewFates ==
  ASSUME NEW r \in Command, NEW i \in Command \cup {None}
  PROVE  /\ FateOf(Accepted(r, i, "")) = {}
         /\ FateOf(Accepted(r, i, "consumed")) = {"command.consumed"}
         /\ FateOf(NoCommand) = {}
<1>1. /\ ~Accepted(r, i, "").included /\ Accepted(r, i, "").reason = ""
      /\ ~Accepted(r, i, "consumed").included /\ Accepted(r, i, "consumed").reason = "consumed"
      /\ ~NoCommand.included /\ NoCommand.reason = ""
  BY Zenon DEF Accepted, NoCommand
<1>2. "consumed" # ""
  BY Zenon
<1> QED BY <1>1, <1>2, Zenon DEF FateOf

\* What disposePending does to what is said of the commands of a run.
LEMMA DisposedFates ==
  ASSUME TypeOK, NEW r \in Command, NEW why \in {"interrupted"} \cup FailureStates
  PROVE  /\ \A c \in Undrained(r) : FatesIn(commands)[c] = {}
         /\ FatesIn(disposePending({r}, why)) =
              [c \in Command |-> IF c \in Undrained(r)
                                 THEN IF why = "interrupted" THEN {"command.interrupted"}
                                                             ELSE {"command.rejected"}
                                 ELSE FatesIn(commands)[c]]
<1>1. ASSUME NEW c \in Undrained(r)
      PROVE  /\ FateOf(commands[c]) = {}
             /\ FateOf(Disposed(commands[c], why)) =
                  IF why = "interrupted" THEN {"command.interrupted"} ELSE {"command.rejected"}
  <2>1. c \in Command /\ commands[c] \in CommandRow /\ ~commands[c].included /\ commands[c].reason = ""
    BY Zenon DEF Undrained, TypeOK
  <2>2. "interrupted" \notin FailureStates
    BY FailureAssumption, Zenon
  <2> QED BY <2>1, <2>2, FateRows, Zenon
<1>2. ASSUME NEW c \in Command
      PROVE  disposePending({r}, why)[c] = IF c \in Undrained(r) THEN Disposed(commands[c], why)
                                                                 ELSE commands[c]
  BY Zenon DEF disposePending
<1>3. Undrained(r) \subseteq Command
  BY Zenon DEF Undrained
<1> QED BY <1>1, <1>2, <1>3, Zenon DEF FatesIn

----------------------------------------------------------------------------
(* The transactions.                                                       *)

\* The facts about the log's instance: the events that end runs and close waits are kept.
LEMMA Kept ==
  ASSUME AllObserved
  PROVE  /\ {"run.completed", "run.interrupted", "run.failed", "interaction.consumed"}
              \subseteq Closing \cap Observed
         /\ \A s \in Terminal : RunEvent[s] \in Closing \cap Observed
         /\ FateTypes \subseteq Observed
<1>1. \A s \in Terminal : RunEvent[s] \in Observed
  BY Zenon DEF AllObserved
<1> QED BY <1>1, EndStates, Zenon DEF AllObserved, Closing

\* interruptExpired and expireInteractions report the run they interrupt, with the commands
\* it leaves, and the wait they expire.
LEMMA SweepTold ==
  ASSUME AllObserved, Lifecycle, LInv, NEW R \in SUBSET Lost
  PROVE  Faithful(events \o SweepEvents(R), EndsIn(RunsSwept(R)),
                  FatesIn(disposePending(R, "interrupted")))
<1> DEFINE E == EndsIn(runs)
           F == FatesIn(commands)
<1>1. /\ TypeOK /\ events \in Seq(Entry) /\ Faithful(events, E, F)
      /\ E \in [Command -> SUBSET EventType] /\ F \in [Command -> SUBSET EventType]
  BY ToldTypes, Zenon DEF Lifecycle, TypeOK, LInv, Faithful
<1>2. /\ \A r \in R : r \in Command /\ runs[r].state \in Live
      /\ \A i \in Overdue : i \in Command /\ interactions[i].state = "pending"
  BY Zenon DEF Lost, Overdue
<1>3. \A x, y \in R \cup Overdue : x = y
  BY <1>2, Zenon DEF Lifecycle, Exclusive, Busy
<1>4. \A r \in Command : r \in R \cup Overdue => E[r] = {}
  BY <1>2, EndRows, Zenon DEF Lifecycle, WaitsMatch, EndsIn
<1>5. CASE R = {} /\ Overdue = {}
  <2>1. SweepEvents(R) = <<>> \o <<>>
    BY <1>5, Zenon DEF SweepEvents
  <2>2. events \o (<<>> \o <<>>) = events
    BY <1>1
  <2>3. RunsSwept(R) = runs /\ disposePending(R, "interrupted") = commands
    BY <1>1, <1>5, Zenon DEF RunsSwept, disposePending, TypeOK
  <2> QED BY <1>1, <2>1, <2>2, <2>3, Zenon
<1>6. ASSUME NEW r \in R
      PROVE  Faithful(events \o SweepEvents(R), EndsIn(RunsSwept(R)),
                      FatesIn(disposePending(R, "interrupted")))
  <2> DEFINE A == Ev("tool.outcome_unknown", r, Dispatching({r}))
             B == Ev("command.interrupted", r, Undrained(r))
             C == Ev("run.interrupted", r, {r})
             G == [c \in Command |-> IF c \in Undrained(r) THEN {"command.interrupted"} ELSE F[c]]
  <2>1. R = {r} /\ Overdue = {} /\ r \in Command
    <3>1. r \notin Overdue
      BY <1>1, <1>2, SweepRows, Zenon
    <3> QED BY <1>2, <1>3, <3>1
  <2>2. SweepEvents(R) = A \o B \o C \o <<>>
    BY <2>1, Zenon DEF SweepEvents
  <2>3. A \in Seq(Entry) /\ B \in Seq(Entry) /\ C \in Seq(Entry)
    <3>1. /\ "tool.outcome_unknown" \in EventType /\ "command.interrupted" \in EventType
          /\ "run.interrupted" \in EventType
      BY Kinds, Kept, Zenon DEF EventType, FateTypes
    <3>2. Dispatching({r}) \subseteq Call /\ Undrained(r) \subseteq Command
      BY Zenon DEF Dispatching, Undrained
    <3> QED BY <1>1, <2>1, <3>1, <3>2, Appending, Zenon
  <2> HIDE DEF A, B, C
  <2>4. events \o SweepEvents(R) = ((events \o A) \o B) \o C
    <3>1. SweepEvents(R) = A \o B \o C
      BY ONLY <2>2, <2>3
    <3>2. A \o B \in Seq(Entry)
      BY ONLY <2>3
    <3>3. events \o ((A \o B) \o C) = (events \o (A \o B)) \o C
      BY <1>1, <2>3, <3>2, Joined, ZenonT(30)
    <3>4. events \o (A \o B) = (events \o A) \o B
      BY <1>1, <2>3, Joined, Zenon
    <3> QED BY <3>1, <3>3, <3>4, Zenon
  <2>5. Faithful(events \o A, E, F)
    <3>1. Dispatching({r}) \in SUBSET (Command \cup Call) /\ "tool.outcome_unknown" \in Plain
      BY Kinds, Zenon DEF Dispatching
    <3> QED BY <1>1, <1>4, <2>1, <3>1, EvSays, Zenon DEF A
  <2>6. Faithful((events \o A) \o B, E, G)
    <3>1. Undrained(r) \in SUBSET Command /\ \A c \in Undrained(r) : F[c] = {}
      BY <1>1, <2>1, DisposedFates, Zenon DEF Undrained
    <3>2. "command.interrupted" \in FateTypes \cap Observed
      BY Kept, Zenon DEF FateTypes
    <3> QED BY <1>1, <1>4, <2>1, <2>5, <3>1, <3>2, EvTells DEF B
  <2>7. Faithful(((events \o A) \o B) \o C, [E EXCEPT ![r] = {"run.interrupted"}], G)
    <3>1. "run.interrupted" \in Closing \cap Observed /\ {"run.interrupted"} \in SUBSET EventType
      BY Kept, Zenon DEF EventType
    <3> QED BY <1>1, <1>4, <2>1, <2>6, <3>1, EvCloses, Zenon DEF C
  <2>8. EndsIn(RunsSwept(R)) = [E EXCEPT ![r] = {"run.interrupted"}]
    <3>1. RunsSwept(R)[r].state = "interrupted" /\ \A x \in Command \ {r} : RunsSwept(R)[x] = runs[x]
      BY <2>1, SweepRows, Zenon
    <3>2. EndsAs("interrupted") = {"run.interrupted"}
      BY EndRows, EndStates, Zenon
    <3> QED BY <2>1, <3>1, <3>2, Zenon DEF EndsIn
  <2>9. FatesIn(disposePending(R, "interrupted")) = G
    <3>1. "interrupted" \in {"interrupted"} \cup FailureStates
      BY Zenon
    <3>2. FatesIn(disposePending({r}, "interrupted")) =
            [c \in Command |-> IF c \in Undrained(r)
                               THEN IF "interrupted" = "interrupted" THEN {"command.interrupted"}
                                                                     ELSE {"command.rejected"}
                               ELSE FatesIn(commands)[c]]
      BY <1>1, <2>1, <3>1, DisposedFates, Zenon
    <3> QED BY <2>1, <3>2, Zenon
  <2> QED BY <2>4, <2>7, <2>8, <2>9, Zenon
<1>7. ASSUME NEW i \in Overdue
      PROVE  Faithful(events \o SweepEvents(R), EndsIn(RunsSwept(R)),
                      FatesIn(disposePending(R, "interrupted")))
  <2> DEFINE A == Ev("interaction.expired", i, {i})
             B == Ev("run.failed", i, {i})
  <2>1. R = {} /\ Overdue = {i} /\ i \in Command
    <3>1. i \notin R
      BY <1>1, <1>2, SweepRows, Zenon
    <3> QED BY <1>2, <1>3, <3>1
  <2>2. SweepEvents(R) = <<>> \o (A \o B)
    BY <2>1, Zenon DEF SweepEvents
  <2>3. A \in Seq(Entry) /\ B \in Seq(Entry)
    <3>1. "interaction.expired" \in EventType /\ "run.failed" \in EventType
      BY Kinds, Kept, Zenon DEF EventType
    <3> QED BY <1>1, <2>1, <3>1, Appending, Zenon
  <2> HIDE DEF A, B
  <2>4. events \o SweepEvents(R) = (events \o A) \o B
    BY <1>1, <2>2, <2>3
  <2>5. Faithful(events \o A, E, F)
    <3>1. {i} \in SUBSET (Command \cup Call) /\ "interaction.expired" \in Plain
      BY <2>1, Kinds, Zenon
    <3> QED BY <1>1, <1>4, <2>1, <3>1, EvSays, Zenon DEF A
  <2>6. Faithful((events \o A) \o B, [E EXCEPT ![i] = {"run.failed"}], F)
    <3>1. "run.failed" \in Closing \cap Observed /\ {"run.failed"} \in SUBSET EventType
      BY Kept, Zenon DEF EventType
    <3> QED BY <1>1, <1>4, <2>1, <2>5, <3>1, EvCloses, Zenon DEF B
  <2>7. EndsIn(RunsSwept(R)) = [E EXCEPT ![i] = {"run.failed"}]
    <3>1. RunsSwept(R)[i].state = "failed" /\ \A x \in Command \ {i} : RunsSwept(R)[x] = runs[x]
      BY <2>1, SweepRows
    <3>2. EndsAs("failed") = {"run.failed"}
      BY EndRows, EndStates, Zenon
    <3> QED BY <2>1, <3>1, <3>2, Zenon DEF EndsIn
  <2>8. disposePending(R, "interrupted") = commands
    BY <1>1, <2>1, Zenon DEF disposePending, TypeOK
  <2> QED BY <2>4, <2>6, <2>7, <2>8, Zenon
<1> QED BY <1>5, <1>6, <1>7, Zenon

\* A command that was not accepted yet has no fate.
BlankFates == \A c \in Command : commands[c].exec = None => FateOf(commands[c]) = {}

\* A new command: nothing was said of it or of its run.
LEMMA Unsaid ==
  ASSUME Lifecycle, LInv, BlankFates, NEW c \in Command, commands[c].exec = None
  PROVE  /\ EndsIn(runs)[c] = {} /\ FatesIn(commands)[c] = {}
         /\ c \notin Lost /\ c \notin Overdue /\ runs[c].state = "absent"
         /\ \A r \in Command : c \notin Undrained(r)
<1>1. runs[c].state = "absent" /\ interactions[c] = NoInteraction
  BY Zenon DEF Lifecycle, RunsConsistent
<1>2. c \notin Lost
  BY <1>1, Zenon DEF Lost, Live
<1>3. c \notin Overdue
  BY <1>1, BlankRows, Zenon DEF Overdue
<1>4. \A r \in Command : c \notin Undrained(r)
  BY NoneAssumption, Zenon DEF Undrained
<1> QED BY <1>1, <1>2, <1>3, <1>4, EndRows, Zenon DEF EndsIn, FatesIn, BlankFates

\* Admit.
LEMMA AdmitTold ==
  ASSUME AllObserved, Lifecycle, LInv, BlankFates, NEW c \in Command, Admit(c)
  PROVE  LInv' /\ BlankFates'
<1> DEFINE D == disposePending(Lost, "interrupted")
           S == RunsSwept(Lost)
           L == events \o SweepEvents(Lost)
<1>1. TypeOK /\ commands[c].exec = None
  BY Zenon DEF Admit, Lifecycle
<1>2. Faithful(L, EndsIn(S), FatesIn(D))
  BY SweepTold, Zenon
<1>3. /\ S[c] = runs[c] /\ D[c] = commands[c] /\ EndsIn(runs)[c] = {}
      /\ FateOf(commands[c]) = {}
  <2>1. Lost \in SUBSET Lost /\ Lost \subseteq Command
    BY Zenon DEF Lost
  <2> QED BY <1>1, <2>1, Unsaid, SweepRows DEF disposePending, FatesIn
<1>4. /\ S \in [Command -> RunRow] /\ D \in [Command -> CommandRow]
      /\ \A x \in Command : D[x].exec = commands[x].exec
                            /\ (D[x] = commands[x] \/ commands[x].exec # None)
  <2>1. Lost \subseteq Command /\ Lost \in SUBSET Lost
    BY Zenon DEF Lost
  <2>2. S \in [Command -> RunRow] /\ D \in [Command -> CommandRow]
    BY <1>1, <2>1, SweepTypes, Zenon
  <2>3. ASSUME NEW x \in Command, NEW r \in Lost, x \in Undrained(r)
        PROVE  commands[x].exec # None
    BY <2>1, <2>3, NoneAssumption, Zenon DEF Undrained
  <2> QED BY <1>1, <2>1, <2>2, <2>3, DisposeRows
<1> HIDE DEF D, S
<1>5. ASSUME NEW r \in Command, S[r].state \in Live \/ r = c,
             \A x \in Command : EndsAs(runs'[x].state) = EndsAs(S[x].state),
             commands' = [D EXCEPT ![c] = Accepted(r, None, "")],
             events' = L \o Ev("command.accepted", r, {c})
      PROVE  LInv' /\ BlankFates'
  <2>1. EndsIn(S)[r] = {}
    BY <1>3, <1>5, EndRows, Zenon DEF EndsIn
  <2>2. Faithful(events', EndsIn(S), FatesIn(D))
    <3>1. "command.accepted" \in Plain /\ {c} \in SUBSET (Command \cup Call)
      BY Kinds, Zenon
    <3> QED BY <1>2, <1>5, <2>1, <3>1, EvSays, Zenon
  <2>3. FateOf(Accepted(r, None, "")) = {} /\ Accepted(r, None, "").exec = r
    BY NewFates, AcceptedRow, Zenon
  <2>4. /\ commands'[c] = Accepted(r, None, "")
        /\ \A x \in Command \ {c} : commands'[x] = D[x]
    BY <1>4, <1>5, Zenon
  <2>5. FatesIn(commands') = FatesIn(D)
    BY <1>3, <2>3, <2>4, Zenon DEF FatesIn
  <2>6. EndsIn(runs') = EndsIn(S)
    BY <1>5, Zenon DEF EndsIn
  <2>7. BlankFates'
    <3> SUFFICES ASSUME NEW x \in Command, commands'[x].exec = None
                 PROVE  FateOf(commands'[x]) = {}
      BY Zenon DEF BlankFates
    <3>1. CASE x = c
      BY <2>3, <2>4, <3>1, Zenon
    <3>2. CASE x # c
      BY <1>4, <2>4, <3>2, Zenon DEF BlankFates
    <3> QED BY <3>1, <3>2, Zenon
  <2>8. LInv'
    BY <2>2, <2>5, <2>6, Zenon DEF LInv
  <2> QED BY <2>7, <2>8, Zenon
<1>6. CASE /\ runs' = [S EXCEPT ![c] = FreshRun(None, None)]
           /\ commands' = [D EXCEPT ![c] = Accepted(c, None, "")]
           /\ events' = L \o Ev("command.accepted", c, {c})
  <2>1. FreshRun(None, None).state = "pending"
    BY FreshRunRow, Zenon
  <2>2. ASSUME NEW x \in Command PROVE EndsAs(runs'[x].state) = EndsAs(S[x].state)
    <3>1. CASE x = c
      <4>1. EndsAs(S[c].state) = {} /\ EndsAs("pending") = {} /\ runs'[c].state = "pending"
        BY <1>3, <1>4, <1>6, <2>1, EndRows, Zenon DEF EndsIn, Live
      <4> QED BY <3>1, <4>1, Zenon
    <3>2. CASE x # c
      BY <1>4, <1>6, <3>2, Zenon
    <3> QED BY <3>1, <3>2, Zenon
  <2> QED BY <1>5, <1>6, <2>2, Zenon
<1>7. ASSUME NEW r \in Command, S[r].state \in Live, runs' = S,
             commands' = [D EXCEPT ![c] = Accepted(r, None, "")],
             events' = L \o Ev("command.accepted", r, {c})
      PROVE  LInv' /\ BlankFates'
  <2>1. \A x \in Command : EndsAs(runs'[x].state) = EndsAs(S[x].state)
    BY <1>7, Zenon
  <2> QED BY <1>5, <1>7, <2>1, Zenon
<1> QED BY <1>6, <1>7, Zenon DEF Admit, D, S

\* A reply that consumes a wait.
LEMMA ReplyTold ==
  ASSUME AllObserved, Lifecycle, LInv, BlankFates, NEW c \in Command, NEW i \in Command,
         NEW approve \in BOOLEAN, ReplyInTime(c, i, approve)
  PROVE  LInv' /\ BlankFates'
<1> DEFINE approved == approve /\ interactions[i].kind = "approval"
           why == IF approved THEN "consumed" ELSE ""
           A == Ev("interaction.consumed", i, {i})
           B == Ev("command.accepted", c, {c})
           C == IF approved THEN Ev("command.consumed", c, {c}) ELSE <<>>
           E == EndsIn(runs)
           F == FatesIn(commands)
           G == [E EXCEPT ![i] = {"run.completed", "interaction.consumed"}]
           H == [x \in Command |-> IF x \in {c} THEN {"command.consumed"} ELSE F[x]]
<1>1. /\ TypeOK /\ events \in Seq(Entry) /\ Faithful(events, E, F)
      /\ E \in [Command -> SUBSET EventType] /\ F \in [Command -> SUBSET EventType]
  BY ToldTypes, Zenon DEF Lifecycle, TypeOK, LInv, Faithful
<1>2. /\ commands[c].exec = None /\ interactions[i].state = "pending"
      /\ commands' = [commands EXCEPT ![c] = Accepted(c, i, why)]
      /\ runs' = [r \in Command |->
                   IF r = c THEN FreshRun(interactions[i].journey, interactions[i].digest)
                   ELSE IF r = i /\ runs[r].state = "awaiting_input"
                        THEN Ended(runs[r], "completed")
                        ELSE runs[r]]
      /\ events' = events \o A \o B \o C
  BY Zenon DEF ReplyInTime
<1>3. /\ E[c] = {} /\ F[c] = {} /\ runs[i].state = "awaiting_input" /\ c # i /\ E[i] = {}
  <2>1. E[c] = {} /\ F[c] = {} /\ runs[c].state = "absent"
    BY <1>2, Unsaid, Zenon
  <2>2. runs[i].state = "awaiting_input"
    BY <1>2, Zenon DEF Lifecycle, WaitsMatch
  <2> QED BY <2>1, <2>2, EndRows, Zenon DEF EndsIn
<1>4. Faithful(events \o A, G, F)
  <2>1. /\ "interaction.consumed" \in Closing \cap Observed
        /\ {"run.completed", "interaction.consumed"} \in SUBSET EventType
    BY Kept, Zenon DEF EventType
  <2> QED BY <1>1, <1>3, <2>1, EvCloses, Zenon
<1>5. Faithful((events \o A) \o B, G, F) /\ G[c] = {}
  <2>1. G[c] = {}
    BY <1>1, <1>3, Zenon
  <2>2. "command.accepted" \in Plain /\ {c} \in SUBSET (Command \cup Call)
    BY Kinds, Zenon
  <2> QED BY <1>4, <2>1, <2>2, EvSays, Zenon
<1>6. /\ Accepted(c, i, why).exec = c
      /\ FateOf(Accepted(c, i, why)) = IF approved THEN {"command.consumed"} ELSE {}
  <2>1. why \in {"", "consumed"}
    BY Zenon
  <2>2. Accepted(c, i, why).exec = c
    BY <2>1, AcceptedRow, Zenon
  <2>3. FateOf(Accepted(c, i, why)) = IF approved THEN {"command.consumed"} ELSE {}
    BY NewFates, Zenon
  <2> QED BY <2>2, <2>3, Zenon
<1>7. /\ commands'[c] = Accepted(c, i, why)
      /\ \A x \in Command \ {c} : commands'[x] = commands[x]
  BY <1>1, <1>2, Zenon DEF TypeOK
<1> HIDE DEF why
<1>8. Faithful(events', G, FatesIn(commands'))
  <2>1. CASE approved
    <3>1. FatesIn(commands') = H
      BY <1>6, <1>7, <2>1, Zenon DEF FatesIn
    <3>2. /\ "command.consumed" \in FateTypes \cap Observed
          /\ {c} \in SUBSET Command /\ \A x \in {c} : F[x] = {}
      BY <1>3, Kept, Zenon DEF FateTypes
    <3> HIDE DEF A, B, E, F, G
    <3>3. Faithful(((events \o A) \o B) \o Ev("command.consumed", c, {c}), G, H)
      BY <1>1, <1>5, <3>2, EvTells
    <3> QED BY <1>2, <2>1, <3>1, <3>3, Zenon
  <2>2. CASE ~approved
    <3>1. FatesIn(commands') = F
      BY <1>3, <1>6, <1>7, <2>2, Zenon DEF FatesIn
    <3>2. (events \o A) \o B \in Seq(Entry)
      BY <1>5, Zenon DEF Faithful
    <3>3. ((events \o A) \o B) \o <<>> = (events \o A) \o B
      BY <3>2
    <3> QED BY <1>2, <1>5, <2>2, <3>1, <3>3, Zenon
  <2> QED BY <2>1, <2>2, Zenon
<1>9. EndsIn(runs') = G
  <2>1. FreshRun(interactions[i].journey, interactions[i].digest).state = "pending"
    BY Zenon DEF FreshRun
  <2>2. Ended(runs[i], "completed").state = "completed"
    BY <1>1, EndedRow, EndStates, Zenon DEF TypeOK
  <2>3. /\ runs'[c].state = "pending" /\ runs'[i].state = "completed"
        /\ \A x \in Command \ {c, i} : runs'[x] = runs[x]
    BY <1>2, <1>3, <2>1, <2>2, Zenon
  <2>4. EndsAs("pending") = {} /\ EndsAs("completed") = {"run.completed", "interaction.consumed"}
    BY EndRows, Zenon DEF Live
  <2> QED BY <1>3, <2>3, <2>4, Zenon DEF EndsIn
<1>10. BlankFates'
  BY <1>6, <1>7, NoneAssumption, Zenon DEF BlankFates
<1> QED BY <1>8, <1>9, <1>10, Zenon DEF LInv

\* A sweep without an admission: Reap, and a reply that comes too late.
LEMMA ReapTold ==
  ASSUME AllObserved, Lifecycle, LInv, BlankFates, NEW R \in SUBSET Lost,
         runs' = RunsSwept(R), commands' = disposePending(R, "interrupted"),
         events' = events \o SweepEvents(R)
  PROVE  LInv' /\ BlankFates'
<1>1. LInv'
  BY SweepTold, Zenon DEF LInv
<1>2. BlankFates'
  <2>1. TypeOK /\ R \in SUBSET Command
    BY Zenon DEF Lifecycle, Lost
  <2> SUFFICES ASSUME NEW x \in Command, commands'[x].exec = None
               PROVE  FateOf(commands'[x]) = {}
    BY Zenon DEF BlankFates
  <2>2. commands[x].exec = None
    BY <2>1, DisposeRows
  <2>3. \A r \in R : x \notin Undrained(r)
    BY <2>1, <2>2, Unsaid, Zenon
  <2>4. commands'[x] = commands[x]
    BY <2>3, Zenon DEF disposePending
  <2> QED BY <2>2, <2>4, Zenon DEF BlankFates
<1> QED BY <1>1, <1>2, Zenon

\* A step that ends no run and touches no command, and whose events say nothing else.
LEMMA FrameTold ==
  ASSUME LInv, BlankFates, commands' = commands,
         \A x \in Command : EndsAs(runs'[x].state) = EndsAs(runs[x].state),
         Faithful(events', EndsIn(runs), FatesIn(commands))
  PROVE  LInv' /\ BlankFates'
<1>1. EndsIn(runs') = EndsIn(runs)
  BY Zenon DEF EndsIn
<1> QED BY <1>1, Zenon DEF LInv, BlankFates

\* An owner's run is reported as not ended yet.
LEMMA OwnerUntold ==
  ASSUME NEW o \in Owner, lockOwner(o)
  PROVE  /\ o.run \in Command /\ EndsIn(runs)[o.run] = {} /\ runs[o.run].state = "running"
<1>1. o.run \in Command /\ runs[o.run].state = "running"
  BY Zenon DEF Owner, lockOwner
<1> QED BY <1>1, EndRows, Zenon DEF EndsIn, Live

\* An event about an owner's run that reports no end and no fate, with no other change.
LEMMA OwnerSays ==
  ASSUME LInv, BlankFates, commands' = commands,
         \A x \in Command : EndsAs(runs'[x].state) = EndsAs(runs[x].state),
         NEW r \in Command, EndsIn(runs)[r] = {}, NEW type \in Plain,
         NEW about \in SUBSET (Command \cup Call),
         events' = events \o Ev(type, r, about)
  PROVE  LInv' /\ BlankFates'
<1>1. Faithful(events, EndsIn(runs), FatesIn(commands))
  BY Zenon DEF LInv
<1>2. Faithful(events', EndsIn(runs), FatesIn(commands))
  BY <1>1, EvSays, Zenon
<1> QED BY <1>2, FrameTold, Zenon

\* A step with no event that ends no run and touches no command.
LEMMA NothingSaid ==
  ASSUME LInv, BlankFates, commands' = commands, events' = events,
         \A x \in Command : runs'[x].state = runs[x].state
  PROVE  LInv' /\ BlankFates'
<1>1. Faithful(events', EndsIn(runs), FatesIn(commands))
  BY Zenon DEF LInv
<1> QED BY <1>1, FrameTold, Zenon

\* Included: the commands that a model request takes in.
LEMMA IncludedTold ==
  ASSUME AllObserved, Lifecycle, LInv, BlankFates, NEW o \in owners,
         NEW S \in SUBSET Command, Included(o, S)
  PROVE  LInv' /\ BlankFates'
<1> DEFINE E == EndsIn(runs)
           F == FatesIn(commands)
           H == [c \in Command |-> IF c \in S THEN {"command.included"} ELSE F[c]]
<1>1. /\ TypeOK /\ Faithful(events, E, F) /\ o \in Owner
      /\ E \in [Command -> SUBSET EventType] /\ F \in [Command -> SUBSET EventType]
  BY ToldTypes, Zenon DEF Lifecycle, TypeOK, LInv
<1>2. /\ lockOwner(o) /\ S \subseteq Undrained(o.run) /\ runs' = runs
      /\ commands' = [c \in Command |-> IF c \in S THEN InRequest(commands[c]) ELSE commands[c]]
      /\ events' = events \o Ev("command.included", o.run, S)
  BY Zenon DEF Included
<1>3. o.run \in Command /\ E[o.run] = {}
  BY <1>1, <1>2, OwnerUntold, Zenon
<1>4. \A c \in S : commands[c] \in CommandRow /\ ~commands[c].included /\ commands[c].reason = ""
                   /\ commands[c].exec = o.run
  BY <1>1, <1>2, Zenon DEF Undrained, TypeOK
<1>5. /\ \A c \in S : F[c] = {}
      /\ FatesIn(commands') = H
  <2>1. \A c \in S : FateOf(commands[c]) = {} /\ FateOf(InRequest(commands[c])) = {"command.included"}
    BY <1>4, FateRows, Zenon
  <2> QED BY <1>2, <2>1, ZenonT(30) DEF FatesIn
<1>6. "command.included" \in FateTypes \cap Observed
  BY Kept, Zenon DEF FateTypes
<1> HIDE DEF E, F
<1>7. Faithful(events', E, H)
  BY <1>1, <1>2, <1>3, <1>5, <1>6, EvTells
<1>8. LInv'
  BY <1>2, <1>5, <1>7, Zenon DEF LInv, E
<1>9. BlankFates'
  <2> SUFFICES ASSUME NEW x \in Command, commands'[x].exec = None
               PROVE  FateOf(commands'[x]) = {}
    BY Zenon DEF BlankFates
  <2>1. CASE x \in S
    <3>1. commands'[x].exec = o.run
      BY <1>2, <1>4, <2>1, InRequestRow, Zenon
    <3> QED BY <1>3, <3>1, NoneAssumption, Zenon
  <2>2. CASE x \notin S
    BY <1>2, <2>2, Zenon DEF BlankFates
  <2> QED BY <2>1, <2>2, Zenon
<1> QED BY <1>8, <1>9, Zenon

\* Complete.
LEMMA CompleteTold ==
  ASSUME AllObserved, Lifecycle, LInv, BlankFates, NEW o \in owners, Complete(o)
  PROVE  LInv' /\ BlankFates'
<1> DEFINE E == EndsIn(runs)
           F == FatesIn(commands)
           A == Ev("message.completed", o.run, {o.run})
           B == Ev("run.completed", o.run, {o.run})
           G == [E EXCEPT ![o.run] = {"run.completed", "interaction.consumed"}]
<1>1. /\ TypeOK /\ Faithful(events, E, F) /\ o \in Owner
      /\ E \in [Command -> SUBSET EventType]
  BY ToldTypes, Zenon DEF Lifecycle, TypeOK, LInv
<1>2. /\ lockOwner(o) /\ commands' = commands
      /\ runs' = [runs EXCEPT ![o.run] = Ended(runs[o.run], "completed")]
      /\ events' = (events \o A) \o B
  BY Zenon DEF Complete
<1>3. o.run \in Command /\ E[o.run] = {}
  BY <1>1, <1>2, OwnerUntold, Zenon
<1>4. Faithful(events \o A, E, F)
  <2>1. "message.completed" \in Plain /\ {o.run} \in SUBSET (Command \cup Call)
    BY <1>3, Kinds, Zenon
  <2> QED BY <1>1, <1>3, <2>1, EvSays, Zenon
<1>5. Faithful((events \o A) \o B, G, F)
  <2>1. /\ "run.completed" \in Closing \cap Observed
        /\ {"run.completed", "interaction.consumed"} \in SUBSET EventType
    BY Kept, Zenon DEF EventType
  <2> HIDE DEF A, E, F
  <2> QED BY <1>1, <1>3, <1>4, <2>1, EvCloses, Zenon
<1>6. EndsIn(runs') = G
  <2>1. runs'[o.run].state = "completed" /\ \A x \in Command \ {o.run} : runs'[x] = runs[x]
    BY <1>1, <1>2, <1>3, EndedRow, EndStates DEF TypeOK
  <2>2. EndsAs("completed") = {"run.completed", "interaction.consumed"}
    BY EndRows, Zenon
  <2> QED BY <1>3, <2>1, <2>2, Zenon DEF EndsIn
<1>7. LInv'
  BY <1>2, <1>5, <1>6, Zenon DEF LInv
<1>8. BlankFates'
  BY <1>2, Zenon DEF BlankFates
<1> QED BY <1>7, <1>8, Zenon

\* Every other way to finish: the calls in flight become unknown, the commands left are
\* rejected, the run ends.
LEMMA FailTold ==
  ASSUME AllObserved, Lifecycle, LInv, BlankFates, NEW o \in owners,
         NEW state \in FailureStates, Fail(o, state)
  PROVE  LInv' /\ BlankFates'
<1> DEFINE r == o.run
           E == EndsIn(runs)
           F == FatesIn(commands)
           A == Ev("tool.outcome_unknown", r, Dispatching({r}))
           B == Ev("command.rejected", r, Undrained(r))
           C == Ev(RunEvent[state], r, {r})
           G == [E EXCEPT ![r] = {RunEvent[state]}]
           H == [c \in Command |-> IF c \in Undrained(r) THEN {"command.rejected"} ELSE F[c]]
<1>1. /\ TypeOK /\ Faithful(events, E, F) /\ o \in Owner
      /\ E \in [Command -> SUBSET EventType] /\ F \in [Command -> SUBSET EventType]
  BY ToldTypes, Zenon DEF Lifecycle, TypeOK, LInv
<1>2. /\ lockOwner(o) /\ commands' = disposePending({r}, state)
      /\ runs' = [runs EXCEPT ![r] = Ended(runs[r], state)]
      /\ events' = ((events \o A) \o B) \o C
  BY Zenon DEF Fail
<1>3. r \in Command /\ E[r] = {}
  BY <1>1, <1>2, OwnerUntold, Zenon
<1>4. /\ state \in {"interrupted"} \cup FailureStates /\ state # "interrupted"
      /\ state \in Terminal /\ EndsAs(state) = {RunEvent[state]}
  BY FailureAssumption, EndRows, Zenon
<1>5. Faithful(events \o A, E, F)
  <2>1. Dispatching({r}) \in SUBSET (Command \cup Call) /\ "tool.outcome_unknown" \in Plain
    BY Kinds, Zenon DEF Dispatching
  <2> QED BY <1>1, <1>3, <2>1, EvSays, Zenon
<1>6. (\A c \in Undrained(r) : F[c] = {}) /\ FatesIn(commands') = H
  <2>1. /\ \A c \in Undrained(r) : FatesIn(commands)[c] = {}
        /\ FatesIn(disposePending({r}, state)) =
              [c \in Command |-> IF c \in Undrained(r)
                                 THEN IF state = "interrupted" THEN {"command.interrupted"}
                                                               ELSE {"command.rejected"}
                                 ELSE FatesIn(commands)[c]]
    BY <1>1, <1>3, <1>4, DisposedFates, Zenon
  <2> QED BY <1>2, <1>4, <2>1, Zenon
<1> HIDE DEF A, E, F
<1>7. Faithful((events \o A) \o B, E, H)
  <2>1. "command.rejected" \in FateTypes \cap Observed
    BY Kept, Zenon DEF FateTypes
  <2>2. Undrained(r) \in SUBSET Command
    BY Zenon DEF Undrained
  <2> QED BY <1>1, <1>3, <1>5, <1>6, <2>1, <2>2, EvTells
<1>8. Faithful(((events \o A) \o B) \o C, G, H)
  <2>1. RunEvent[state] \in Closing \cap Observed /\ {RunEvent[state]} \in SUBSET EventType
    BY <1>4, Kept, Zenon DEF EventType
  <2> HIDE DEF B, H
  <2> QED BY <1>1, <1>3, <1>7, <2>1, EvCloses, Zenon
<1>9. EndsIn(runs') = G
  <2>1. runs'[r].state = state /\ \A x \in Command \ {r} : runs'[x] = runs[x]
    BY <1>1, <1>2, <1>3, <1>4, EndedRow, Zenon DEF TypeOK
  <2> QED BY <1>3, <1>4, <2>1, ZenonT(30) DEF EndsIn, E
<1>10. LInv'
  BY <1>2, <1>6, <1>8, <1>9, Zenon DEF LInv
<1>11. BlankFates'
  <2> SUFFICES ASSUME NEW x \in Command, commands'[x].exec = None
               PROVE  FateOf(commands'[x]) = {}
    BY Zenon DEF BlankFates
  <2>1. commands[x].exec = None
    <3>1. {r} \in SUBSET Command
      BY <1>3, Zenon
    <3>2. disposePending({r}, state)[x].exec = commands[x].exec
      BY <1>1, <1>4, <3>1, DisposeRows, Zenon
    <3> QED BY <1>2, <3>2, Zenon
  <2>2. \A s \in {r} : x \notin Undrained(s)
    BY <1>3, <2>1, Unsaid, Zenon
  <2>3. commands'[x] = commands[x]
    BY <1>2, <2>2, Zenon DEF disposePending
  <2> QED BY <2>1, <2>3, Zenon DEF BlankFates
<1> QED BY <1>10, <1>11, Zenon

\* Every step of the journal keeps the log and the tables in agreement.
LEMMA LogStep ==
  ASSUME AllObserved, Lifecycle, LInv, BlankFates, [Next]_vars
  PROVE  LInv' /\ BlankFates'
<1> TypeOK
  BY Zenon DEF Lifecycle
<1> DEFINE Goal == LInv' /\ BlankFates'
<1>1. ASSUME NEW c \in Command, Unowned(c)
      PROVE  Goal
  <2>1. CASE Admit(c)
    BY <2>1, AdmitTold, Zenon
  <2>2. ASSUME NEW i \in Command, ReplyTooLate(c, i)
        PROVE  Goal
    <3>1. disposePending({}, "interrupted") = commands
      BY Zenon DEF disposePending, TypeOK
    <3>2. /\ runs' = RunsSwept({}) /\ commands' = disposePending({}, "interrupted")
          /\ events' = events \o SweepEvents({}) /\ {} \in SUBSET Lost
      BY <2>2, <3>1, Zenon DEF ReplyTooLate
    <3> QED BY <3>2, ReapTold, Zenon
  <2>3. ASSUME NEW i \in Command, NEW approve \in BOOLEAN, ReplyInTime(c, i, approve)
        PROVE  Goal
    BY <2>3, ReplyTold, Zenon
  <2>4. ASSUME NEW p \in Replica, Claim(c, p)
        PROVE  Goal
    <3>1. /\ runs[c].state = "pending" /\ runs' = [runs EXCEPT ![c] = Claimed(runs[c], p, epoch + 1)]
          /\ commands' = commands /\ events' = events \o Ev("run.started", c, {c})
      BY <2>4, Zenon DEF Claim
    <3>2. Claimed(runs[c], p, epoch + 1).state = "running"
      BY ClaimedRow DEF TypeOK
    <3>3. EndsAs("pending") = {} /\ EndsAs("running") = {}
      BY EndRows, Zenon DEF Live
    <3>4. /\ \A x \in Command : EndsAs(runs'[x].state) = EndsAs(runs[x].state)
          /\ EndsIn(runs)[c] = {}
      BY <3>1, <3>2, <3>3, Zenon DEF TypeOK, EndsIn
    <3>5. "run.started" \in Plain /\ {c} \in SUBSET (Command \cup Call)
      BY Kinds, Zenon
    <3> QED BY <3>1, <3>4, <3>5, OwnerSays, Zenon
  <2>5. CASE Reap(c)
    <3> DEFINE R == {c} \cap Lost
    <3>1. /\ runs' = RunsSwept(R) /\ commands' = disposePending(R, "interrupted")
          /\ events' = events \o SweepEvents(R) /\ R \in SUBSET Lost
      BY <2>5, Zenon DEF Reap
    <3> HIDE DEF R
    <3> QED BY <3>1, ReapTold, Zenon
  <2>6. CASE LeaseTick(c)
    <3>1. runs[c].lease - 1 \in 0..Lease /\ runs[c] \in RunRow
      BY <2>6, LeaseAssumption DEF LeaseTick, TypeOK, RunRow
    <3>2. \A x \in Command : runs'[x].state = runs[x].state
      BY <2>6, <3>1, LeasedRow DEF LeaseTick, TypeOK
    <3> QED BY <2>6, <3>2, NothingSaid, Zenon DEF LeaseTick
  <2>7. CASE InteractionTimeout(c)
    BY <2>7, NothingSaid, Zenon DEF InteractionTimeout
  <2> HIDE DEF Goal
  <2> QED BY <1>1, <2>1, <2>2, <2>3, <2>4, <2>5, <2>6, <2>7, Zenon DEF Unowned, reply
<1>2. ASSUME NEW o \in owners, Owned(o)
      PROVE  Goal
  <2> o \in Owner /\ o.run \in Command
    BY Zenon DEF TypeOK, Owner
  <2>0. ASSUME lockOwner(o), commands' = commands,
               \A x \in Command : EndsAs(runs'[x].state) = EndsAs(runs[x].state),
               NEW type \in Plain, NEW about \in SUBSET (Command \cup Call),
               events' = events \o Ev(type, o.run, about)
        PROVE  Goal
    <3>1. EndsIn(runs)[o.run] = {}
      BY <2>0, OwnerUntold, Zenon
    <3> QED BY <2>0, <3>1, OwnerSays, Zenon
  <2> HIDE DEF Goal
  <2>1. CASE Renew(o)
    <3>1. Lease \in 0..Lease
      BY LeaseAssumption
    <3>2. \A x \in Command : runs'[x].state = runs[x].state
      BY <2>1, <3>1, LeasedRow DEF Renew, TypeOK
    <3> QED BY <2>1, <3>2, NothingSaid, Zenon DEF Renew, Goal
  <2>2. ASSUME NEW v \in Product, RecordRunScope(o, v)
        PROVE  Goal
    <3>1. \A x \in Command : runs'[x].state = runs[x].state
      BY <2>2, ScopedRow DEF RecordRunScope, TypeOK
    <3> QED BY <2>2, <3>1, NothingSaid, Zenon DEF RecordRunScope, Goal
  <2>3. ASSUME NEW d \in Digest, ResolveDefinition(o, d)
        PROVE  Goal
    <3>1. lockOwner(o) /\ commands' = commands /\ runs' = runs
      BY <2>3, Zenon DEF ResolveDefinition
    <3>2. CASE pin = None
      <4>1. events' = events \o <<>> /\ events \in Seq(Entry)
        BY <2>3, <3>2, Zenon DEF ResolveDefinition, LInv, Faithful
      <4>2. events' = events
        BY <4>1
      <4> QED BY <3>1, <4>2, NothingSaid, Zenon DEF Goal
    <3>3. CASE pin # None
      <4>1. events' = events \o Ev("definition_changed", o.run, {o.run})
        BY <2>3, <3>3, Zenon DEF ResolveDefinition
      <4>2. "definition_changed" \in Plain /\ {o.run} \in SUBSET (Command \cup Call)
        BY Kinds, Zenon
      <4> QED BY <2>0, <3>1, <4>1, <4>2, Zenon
    <3> QED BY <3>2, <3>3, Zenon
  <2>4. ASSUME NEW j \in Journey \cup {None}, NEW d \in Digest, Start(o, j, d)
        PROVE  Goal
    <3>1. runs' = [runs EXCEPT ![o.run] = Started(runs[o.run], j, d)]
      BY <2>4, Zenon DEF Start
    <3>2. Started(runs[o.run], j, d).state = runs[o.run].state
      BY StartedRow, Zenon DEF TypeOK
    <3>3. \A x \in Command : runs'[x].state = runs[x].state
      BY <3>1, <3>2, Zenon DEF TypeOK
    <3> QED BY <2>4, <3>3, NothingSaid, Zenon DEF Start, Goal
  <2>5. ASSUME NEW S \in SUBSET Command, Included(o, S)
        PROVE  Goal
    BY <2>5, IncludedTold, Zenon DEF Goal
  <2>6. ASSUME NEW kind, NEW k, NEW j, NEW s, Wait(o, kind, k, j, s)
        PROVE  Goal
    <3>1. /\ lockOwner(o) /\ commands' = commands
          /\ runs' = [runs EXCEPT ![o.run] = Suspended(runs[o.run])]
          /\ events' = events \o Ev("run.awaiting_input", o.run, {o.run})
      BY <2>6, Zenon DEF Wait
    <3>2. /\ runs'[o.run].state = "awaiting_input" /\ runs[o.run].state = "running"
          /\ \A x \in Command \ {o.run} : runs'[x] = runs[x]
      BY <3>1, SuspendedRow, Zenon DEF TypeOK, lockOwner
    <3>3. EndsAs("awaiting_input") = {} /\ EndsAs("running") = {}
      BY EndRows, Zenon DEF Live
    <3>4. \A x \in Command : EndsAs(runs'[x].state) = EndsAs(runs[x].state)
      BY <3>2, <3>3, Zenon
    <3>5. "run.awaiting_input" \in Plain /\ {o.run} \in SUBSET (Command \cup Call)
      BY Kinds, Zenon
    <3> QED BY <2>0, <3>1, <3>4, <3>5, Zenon
  <2>7. ASSUME lockOwner(o), runs' = runs, commands' = commands,
               NEW type \in Plain, NEW x \in Command \cup Call,
               events' = events \o Ev(type, o.run, {x})
        PROVE  Goal
    <3>1. {x} \in SUBSET (Command \cup Call)
      BY Zenon
    <3> QED BY <2>0, <2>7, <3>1, Zenon
  <2>8. ASSUME NEW i \in Command, Supersede(o, i)
        PROVE  Goal
    <3>1. "interaction.superseded" \in Plain
      BY Kinds, Zenon
    <3> QED BY <2>7, <2>8, <3>1, Zenon DEF Supersede
  <2>9. ASSUME NEW k \in Call, NEW j \in Journey, NEW s \in Shape, BeginAttempt(o, k, j, s)
        PROVE  Goal
    <3>1. "tool.started" \in Plain /\ "interaction.superseded" \in Plain
      BY Kinds, Zenon
    <3>2. ASSUME NEW policy \in Policy, NEW i \in Command, BeginApproved(o, k, policy, i, j, s)
          PROVE  Goal
      <4>1. /\ lockOwner(o) /\ runs' = runs /\ commands' = commands
            /\ \/ events' = events \o Ev("tool.started", o.run, {k})
               \/ events' = events \o Ev("interaction.superseded", o.run, {i})
        BY <3>2, Zenon DEF BeginApproved, MayAttempt, Insert
      <4> QED BY <2>7, <3>1, <4>1, Zenon
    <3>3. CASE BeginUnapproved(o, k, j, s) \/ BeginRetry(o, k, j, s)
      <4>1. /\ lockOwner(o) /\ runs' = runs /\ commands' = commands
            /\ events' = events \o Ev("tool.started", o.run, {k})
        BY <3>3, Zenon DEF BeginUnapproved, BeginRetry, MayAttempt, Insert
      <4> QED BY <2>7, <3>1, <4>1, Zenon
    <3> QED BY <2>9, <3>2, <3>3, Zenon DEF BeginAttempt
  <2>10. ASSUME NEW k \in Call, NEW n \in 1..2, NEW outcome \in Outcome \ {"none", "dispatching"},
                EndAttempt(o, k, n, outcome)
         PROVE  Goal
    <3>1. ToolEvent[outcome] \in Plain
      BY Kinds, Zenon
    <3>2. /\ lockOwner(o) /\ runs' = runs /\ commands' = commands
          /\ events' = events \o Ev(ToolEvent[outcome], o.run, {k})
      BY <2>10, Zenon DEF EndAttempt
    <3> QED BY <2>7, <3>1, <3>2, Zenon
  <2>11. CASE Complete(o)
    BY <2>11, CompleteTold, Zenon DEF Goal
  <2>12. ASSUME NEW state \in FailureStates, Fail(o, state)
         PROVE  Goal
    BY <2>12, FailTold, Zenon DEF Goal
  <2> QED
    BY <1>2, <2>1, <2>2, <2>3, <2>4, <2>5, <2>6, <2>8, <2>9, <2>10, <2>11, <2>12, Zenon
    DEF Owned, finish
<1>3. CASE UNCHANGED vars
  BY <1>3, NothingSaid, Zenon DEF vars
<1> QED BY <1>1, <1>2, <1>3, Zenon DEF Next

\* An empty log says nothing, and there is nothing to say.
LEMMA LogInit == Init => LInv /\ BlankFates
<1> SUFFICES ASSUME Init PROVE LInv /\ BlankFates
  BY Zenon
<1>1. \A x \in Command : runs[x].state = "absent" /\ commands[x] = NoCommand
  BY Zenon DEF Init, NoRun
<1>2. EndsAs("absent") = {} /\ FateOf(NoCommand) = {}
  <2>1. FateOf(NoCommand) = {}
    <3>1. ~NoCommand.included /\ NoCommand.reason = ""
      BY Zenon DEF NoCommand
    <3> QED BY <3>1, Zenon DEF FateOf
  <2> QED BY <2>1, EndRows, Zenon
<1>3. /\ \A x \in Command : EndsIn(runs)[x] = {} /\ FatesIn(commands)[x] = {}
      /\ BlankFates
  BY <1>1, <1>2, Zenon DEF EndsIn, FatesIn, BlankFates
<1>4. events \in Seq(Entry) /\ 1..Len(events) = {}
  BY DEF Init
<1> QED BY <1>3, <1>4, Zenon
        DEF LInv, Faithful, EndsTold, FatesTold, SilentAfter, Ends, Fates

\* The event log and the tables agree: a run has ended if and only if the log says so, once
\* and with the event of its state; the log says once what became of each command, as its
\* row does; and nothing about a run follows the event that ended it.
THEOREM LogIsFaithful ==
  ASSUME AllObserved
  PROVE  Spec => []LogFaithful
<1>1. Init => Lifecycle /\ LInv /\ BlankFates
  BY LifecycleInit, LogInit, Zenon
<1>2. Lifecycle /\ LInv /\ BlankFates /\ [Next]_vars => (Lifecycle /\ LInv /\ BlankFates)'
  BY LifecycleStep, LogStep, Zenon
<1>3. Lifecycle /\ LInv => LogFaithful
  BY FaithfulLog, Zenon DEF Lifecycle
<1> QED BY <1>1, <1>2, <1>3, PTL DEF Spec

----------------------------------------------------------------------------
(* Chat: what the steps of the journal do to the rows that a stream reads. *)

\* A run goes forward: from its admission to its claim, to its wait, to its end.
RunOnward(x) ==
  \/ runs'[x].state = runs[x].state
  \/ runs[x].state = "absent" /\ runs'[x].state = "pending" /\ commands'[x].exec = x
  \/ runs[x].state = "pending" /\ runs'[x].state = "running"
  \/ runs[x].state = "running" /\ runs'[x].state = "awaiting_input"
  \/ runs[x].state \in Live \cup {"awaiting_input"} /\ runs'[x].state \in Terminal

\* A wait does not go away, and is continued by a command that was not accepted before.
WaitOnward(x) ==
  /\ interactions[x].state # "absent" => interactions'[x].state # "absent"
  /\ \/ interactions'[x].cont \in {interactions[x].cont, None}
     \/ \E c \in Command : /\ interactions'[x].cont = c /\ c # x
                           /\ commands[c].exec = None /\ commands'[c].exec = c

\* Every step of the journal takes runs forward.
LEMMA RunsOnward ==
  ASSUME IInv, Next, NEW x \in Command
  PROVE  RunOnward(x)
<1> TypeOK /\ Lifecycle /\ runs[x] \in RunRow
  BY Zenon DEF IInv, Lifecycle, TypeOK
<1>0. /\ "completed" \in Terminal /\ "interrupted" \in Terminal /\ "failed" \in Terminal
      /\ FailureStates \subseteq Terminal
  BY Zenon DEF Terminal
<1>1. ASSUME runs'[x].state = runs[x].state
      PROVE  RunOnward(x)
  BY <1>1, Zenon DEF RunOnward
<1>2. ASSUME runs[x].state \in Live \cup {"awaiting_input"}, runs'[x].state \in Terminal
      PROVE  RunOnward(x)
  BY <1>2, Zenon DEF RunOnward
<1>3. ASSUME NEW R \in SUBSET Lost, runs'[x] = RunsSwept(R)[x]
      PROVE  RunOnward(x)
  <2>1. CASE x \in R
    <3>1. RunsSwept(R)[x].state = "interrupted"
      BY <2>1, SweepRows, Zenon
    <3>2. runs[x].state \in Live /\ runs'[x].state = "interrupted"
      BY <1>3, <2>1, <3>1, Zenon DEF Lost
    <3> QED BY <1>0, <1>2, <3>2, Zenon
  <2>2. CASE x \in Overdue
    <3>1. runs[x].state = "awaiting_input" /\ RunsSwept(R)[x].state = "failed"
      BY <2>2, SweepRows, Zenon
    <3>2. runs'[x].state = "failed"
      BY <1>3, <3>1, Zenon
    <3> QED BY <1>0, <1>2, <3>1, <3>2, Zenon
  <2>3. CASE x \notin R /\ x \notin Overdue
    BY <1>1, <1>3, <2>3, SweepRows, Zenon
  <2> QED BY <2>1, <2>2, <2>3, Zenon
<1>4. ASSUME commands[x].exec = None, runs'[x].state = "pending", commands'[x].exec = x
      PROVE  RunOnward(x)
  BY <1>4, Zenon DEF RunOnward, Lifecycle, RunsConsistent
<1>5. ASSUME NEW c \in Command, Unowned(c)
      PROVE  RunOnward(x)
  <2>0. Lost \in SUBSET Command /\ Lost \in SUBSET Lost /\ {c} \cap Lost \in SUBSET Lost /\ {} \in SUBSET Lost
    BY Zenon DEF Lost
  <2>1. CASE Admit(c)
    <3>1. /\ RunsSwept(Lost) \in [Command -> RunRow]
          /\ disposePending(Lost, "interrupted") \in [Command -> CommandRow]
      BY <2>0, SweepTypes, Zenon
    <3>2. /\ commands[c].exec = None
          /\ \/ runs' = RunsSwept(Lost)
             \/ /\ runs' = [RunsSwept(Lost) EXCEPT ![c] = FreshRun(None, None)]
                /\ commands' = [disposePending(Lost, "interrupted")
                                  EXCEPT ![c] = Accepted(c, None, "")]
      BY <2>1, Zenon DEF Admit
    <3>3. CASE runs'[x] = RunsSwept(Lost)[x]
      BY <1>3, <2>0, <3>3, Zenon
    <3>4. CASE runs'[x] # RunsSwept(Lost)[x]
      <4>1. /\ x = c /\ runs'[x] = FreshRun(None, None)
            /\ commands'[x] = Accepted(c, None, "")
        BY <3>1, <3>2, <3>4, Zenon
      <4>2. FreshRun(None, None).state = "pending" /\ Accepted(c, None, "").exec = c
        BY FreshRunRow, AcceptedRow, Zenon
      <4> QED BY <1>4, <3>2, <4>1, <4>2, Zenon
    <3> QED BY <3>3, <3>4, Zenon
  <2>2. ASSUME NEW i \in Command, ReplyTooLate(c, i)
        PROVE  RunOnward(x)
    BY <1>3, <2>0, <2>2, Zenon DEF ReplyTooLate
  <2>3. ASSUME NEW i \in Command, NEW approve \in BOOLEAN, ReplyInTime(c, i, approve)
        PROVE  RunOnward(x)
    <3>1. CASE x = c
      <4>1. /\ commands[c].exec = None
            /\ runs'[x] = FreshRun(interactions[i].journey, interactions[i].digest)
            /\ \E why \in {"", "consumed"} : commands'[x] = Accepted(c, i, why)
        BY <2>3, <3>1, Zenon DEF ReplyInTime, TypeOK
      <4>2. FreshRun(interactions[i].journey, interactions[i].digest).state = "pending"
        BY Zenon DEF FreshRun
      <4>3. \A why \in {"", "consumed"} : Accepted(c, i, why).exec = c
        BY AcceptedRow, Zenon
      <4> QED BY <1>4, <3>1, <4>1, <4>2, <4>3, Zenon
    <3>2. CASE x # c
      <4>1. \/ runs'[x] = runs[x]
            \/ runs[x].state = "awaiting_input" /\ runs'[x] = Ended(runs[x], "completed")
        BY <2>3, <3>2, Zenon DEF ReplyInTime
      <4>2. Ended(runs[x], "completed").state = "completed"
        BY <1>0, EndedRow, Zenon
      <4> QED BY <1>0, <1>1, <1>2, <4>1, <4>2, Zenon
    <3> QED BY <3>1, <3>2, Zenon
  <2>4. ASSUME NEW p \in Replica, Claim(c, p)
        PROVE  RunOnward(x)
    <3>1. runs[c].state = "pending" /\ runs' = [runs EXCEPT ![c] = Claimed(runs[c], p, epoch + 1)]
      BY <2>4, Zenon DEF Claim
    <3>2. Claimed(runs[c], p, epoch + 1).state = "running"
      BY ClaimedRow DEF TypeOK
    <3>3. CASE x = c
      BY <3>1, <3>2, <3>3, Zenon DEF RunOnward, TypeOK
    <3>4. CASE x # c
      BY <1>1, <3>1, <3>4, Zenon DEF TypeOK
    <3> QED BY <3>3, <3>4, Zenon
  <2>5. CASE Reap(c)
    BY <1>3, <2>0, <2>5, Zenon DEF Reap
  <2>6. CASE LeaseTick(c)
    <3>1. runs[c].state \in Live /\ runs[c] \in RunRow /\ runs[c].lease - 1 \in 0..Lease
          /\ runs' = [runs EXCEPT ![c] = Leased(runs[c], runs[c].lease - 1)]
      BY <2>6, LeaseAssumption DEF LeaseTick, TypeOK, RunRow
    <3> QED BY <1>1, <3>1, LeaseStates, Zenon
  <2>7. CASE InteractionTimeout(c)
    BY <1>1, <2>7, Zenon DEF InteractionTimeout
  <2> QED BY <1>5, <2>1, <2>2, <2>3, <2>4, <2>5, <2>6, <2>7, Zenon DEF Unowned, reply
<1>6. ASSUME NEW o \in owners, Owned(o)
      PROVE  RunOnward(x)
  <2>0. o.run \in Command /\ runs[o.run] \in RunRow
    BY Zenon DEF TypeOK, Owner
  <2>1. ASSUME NEW new \in RunRow, lockOwner(o), runs' = [runs EXCEPT ![o.run] = new],
               new.state \in {"running", "awaiting_input"} \cup Terminal
        PROVE  RunOnward(x)
    <3>1. CASE x = o.run
      <4>1. runs[x].state = "running" /\ runs'[x] = new
        BY <2>0, <2>1, <3>1, Zenon DEF lockOwner, TypeOK
      <4> QED BY <2>1, <4>1, Zenon DEF RunOnward, Live
    <3>2. CASE x # o.run
      BY <1>1, <2>0, <2>1, <3>2, Zenon DEF TypeOK
    <3> QED BY <3>1, <3>2, Zenon
  <2>2. CASE Renew(o)
    <3>1. Lease \in 0..Lease
      BY LeaseAssumption
    <3>2. runs[o.run].state = "running"
      BY <2>2, Zenon DEF Renew, lockOwner
    <3> QED BY <2>0, <2>1, <2>2, <3>1, <3>2, LeasedRow, Zenon DEF Renew
  <2>3. ASSUME NEW v \in Product, RecordRunScope(o, v)
        PROVE  RunOnward(x)
    <3>1. runs[o.run].state = "running"
      BY <2>3, Zenon DEF RecordRunScope, lockOwner
    <3> QED BY <2>0, <2>1, <2>3, <3>1, ScopedRow, Zenon DEF RecordRunScope
  <2>4. ASSUME NEW j \in Journey \cup {None}, NEW d \in Digest, Start(o, j, d)
        PROVE  RunOnward(x)
    <3>1. runs[o.run].state = "running"
      BY <2>4, Zenon DEF Start, lockOwner
    <3> QED BY <2>0, <2>1, <2>4, <3>1, StartedRow, Zenon DEF Start
  <2>5. ASSUME NEW kind, NEW k, NEW j, NEW s, Wait(o, kind, k, j, s)
        PROVE  RunOnward(x)
    BY <2>0, <2>1, <2>5, SuspendedRow, Zenon DEF Wait
  <2>6. CASE Complete(o)
    BY <1>0, <2>0, <2>1, <2>6, EndedRow, Zenon DEF Complete
  <2>7. ASSUME NEW state \in FailureStates, Fail(o, state)
        PROVE  RunOnward(x)
    <3>1. state \in Terminal
      BY <1>0, Zenon
    <3> QED BY <2>0, <2>1, <2>7, <3>1, EndedRow, Zenon DEF Fail
  <2>8. ASSUME NEW k \in Call, NEW j \in Journey, NEW s \in Shape, BeginAttempt(o, k, j, s)
        PROVE  RunOnward(x)
    BY <1>1, <2>8, Zenon DEF BeginAttempt, BeginUnapproved, BeginApproved, BeginRetry
  <2> QED BY <1>1, <1>6, <2>2, <2>3, <2>4, <2>5, <2>6, <2>7, <2>8, Zenon
          DEF Owned, finish, ResolveDefinition, Included, Supersede, EndAttempt
<1> QED BY <1>5, <1>6, Zenon DEF Next

\* The continuation of a wait that is consumed.
LEMMA ConsumedBy ==
  ASSUME NEW wait \in InteractionRow, NEW c, NEW approved
  PROVE  Consumed(wait, c, approved).cont = c /\ Consumed(wait, c, approved).state = "consumed"
BY Zenon DEF Consumed, InteractionRow

\* Every step of the journal takes waits forward.
LEMMA WaitsOnward ==
  ASSUME IInv, Next, NEW x \in Command
  PROVE  WaitOnward(x)
<1> TypeOK /\ Lifecycle /\ interactions[x] \in InteractionRow
  BY Zenon DEF IInv, Lifecycle, TypeOK
<1>1. ASSUME interactions'[x] = interactions[x]
      PROVE  WaitOnward(x)
  BY <1>1, Zenon DEF WaitOnward
<1>2. ASSUME interactions'[x].cont = interactions[x].cont, interactions'[x].state # "absent"
      PROVE  WaitOnward(x)
  BY <1>2, Zenon DEF WaitOnward
<1>3. ASSUME interactions' = expireInteractions
      PROVE  WaitOnward(x)
  <2>1. CASE x \in Overdue
    <3>1. interactions'[x] = Expired(interactions[x])
      BY <1>3, <2>1, Zenon DEF expireInteractions
    <3> QED BY <1>2, <3>1, ExpiredRow, Zenon
  <2>2. CASE x \notin Overdue
    BY <1>1, <1>3, <2>2, Zenon DEF expireInteractions
  <2> QED BY <2>1, <2>2, Zenon
<1>4. ASSUME NEW c \in Command, Unowned(c)
      PROVE  WaitOnward(x)
  <2>1. CASE Admit(c) \/ Reap(c)
    BY <1>3, <2>1, Zenon DEF Admit, Reap
  <2>2. ASSUME NEW i \in Command, ReplyTooLate(c, i)
        PROVE  WaitOnward(x)
    BY <1>3, <2>2, Zenon DEF ReplyTooLate
  <2>3. ASSUME NEW i \in Command, NEW approve \in BOOLEAN, ReplyInTime(c, i, approve)
        PROVE  WaitOnward(x)
    <3>1. CASE x = i
      <4>1. /\ commands[c].exec = None /\ interactions[x].state = "pending"
            /\ \E a : interactions'[x] = Consumed(interactions[x], c, a)
            /\ \E why \in {"", "consumed"} : commands'[c] = Accepted(c, i, why)
        BY <2>3, <3>1, Zenon DEF ReplyInTime, TypeOK
      <4>2. interactions'[x].cont = c /\ interactions'[x].state = "consumed"
        <5>1. \A a : /\ Consumed(interactions[x], c, a).cont = c
                    /\ Consumed(interactions[x], c, a).state = "consumed"
          BY ConsumedBy, Zenon
        <5> QED BY <4>1, <5>1, Zenon
      <4>3. commands'[c].exec = c
        <5>1. \A why \in {"", "consumed"} : Accepted(c, i, why).exec = c
          BY AcceptedRow, Zenon
        <5> QED BY <4>1, <5>1, Zenon
      <4>4. c # x
        BY <4>1, BlankRows, Zenon DEF Lifecycle, RunsConsistent
      <4> QED BY <4>1, <4>2, <4>3, <4>4, Zenon DEF WaitOnward
    <3>2. CASE x # i
      BY <1>1, <2>3, <3>2, Zenon DEF ReplyInTime, TypeOK
    <3> QED BY <3>1, <3>2, Zenon
  <2>4. ASSUME NEW p \in Replica, Claim(c, p)
        PROVE  WaitOnward(x)
    BY <1>1, <2>4, Zenon DEF Claim
  <2>5. CASE LeaseTick(c)
    BY <1>1, <2>5, Zenon DEF LeaseTick
  <2>6. CASE InteractionTimeout(c)
    <3>1. interactions' = [interactions EXCEPT ![c] = TimedOut(interactions[c])]
      BY <2>6, Zenon DEF InteractionTimeout
    <3>2. CASE x = c
      <4>1. interactions'[x] = TimedOut(interactions[x])
        BY <3>1, <3>2, Zenon DEF TypeOK
      <4> QED BY <4>1, TimedOutRow, Zenon DEF WaitOnward
    <3> QED BY <1>1, <3>1, <3>2, Zenon DEF TypeOK
  <2> QED BY <1>4, <2>1, <2>2, <2>3, <2>4, <2>5, <2>6, Zenon DEF Unowned, reply
<1>5. ASSUME NEW o \in owners, Owned(o)
      PROVE  WaitOnward(x)
  <2> o \in Owner /\ o.run \in Command
    BY Zenon DEF TypeOK, Owner
  <2>1. ASSUME NEW i \in Command, NEW m \in {"dispatched", "superseded"},
               interactions' = [interactions EXCEPT ![i] = Marked(@, m)]
        PROVE  WaitOnward(x)
    <3>1. CASE x = i
      <4>1. interactions'[x] = Marked(interactions[x], m) /\ m \in Marker
        BY <2>1, <3>1, Zenon DEF TypeOK, Marker
      <4>2. /\ Marked(interactions[x], m).state = interactions[x].state
            /\ Marked(interactions[x], m).cont = interactions[x].cont
        BY <4>1, MarkedRow, Zenon
      <4> QED BY <4>1, <4>2, Zenon DEF WaitOnward
    <3> QED BY <1>1, <2>1, <3>1, Zenon DEF TypeOK
  <2>2. ASSUME NEW kind \in {"approval", "clarification"}, NEW k \in Call \cup {None},
               NEW j \in Journey \cup {None}, NEW s \in Shape \cup {None}, Wait(o, kind, k, j, s)
        PROVE  WaitOnward(x)
    <3>1. CASE x = o.run
      <4>1. interactions'[x].state = "pending" /\ interactions'[x].cont = None
        BY <2>2, <3>1, WaitRow, Zenon
      <4> QED BY <4>1, Zenon DEF WaitOnward
    <3> QED BY <1>1, <2>2, <3>1, WaitRow, Zenon
  <2>3. ASSUME NEW i \in Command, Supersede(o, i)
        PROVE  WaitOnward(x)
    BY <2>1, <2>3, Zenon DEF Supersede
  <2>4. ASSUME NEW k \in Call, NEW j \in Journey, NEW s \in Shape, BeginAttempt(o, k, j, s)
        PROVE  WaitOnward(x)
    <3>1. ASSUME NEW policy \in Policy, NEW i \in Command, BeginApproved(o, k, policy, i, j, s)
          PROVE  WaitOnward(x)
      <4>1. \E m \in {"dispatched", "superseded"} :
               interactions' = [interactions EXCEPT ![i] = Marked(@, m)]
        BY <3>1, Zenon DEF BeginApproved
      <4> QED BY <2>1, <4>1, Zenon
    <3> QED BY <1>1, <2>4, <3>1, Zenon DEF BeginAttempt, BeginUnapproved, BeginRetry
  <2> QED BY <1>1, <1>5, <2>2, <2>3, <2>4, Zenon
          DEF Owned, finish, Renew, RecordRunScope, ResolveDefinition, Start, Included, EndAttempt,
              Complete, Fail
<1> QED BY <1>4, <1>5, Zenon DEF Next

\* What the clock, the reaper and the owners do accepts no command.
LEMMA NoneAccepted ==
  ASSUME TypeOK, Background, NEW x \in Command
  PROVE  commands'[x].exec = commands[x].exec
<1> commands[x] \in CommandRow
  BY Zenon DEF TypeOK
<1>1. ASSUME NEW R \in SUBSET Command, NEW why \in {"interrupted"} \cup FailureStates,
             commands' = disposePending(R, why)
      PROVE  commands'[x].exec = commands[x].exec
  BY <1>1, DisposeRows, Zenon
<1>2. ASSUME NEW r \in Command, Reap(r) \/ LeaseTick(r) \/ InteractionTimeout(r)
      PROVE  commands'[x].exec = commands[x].exec
  <2>1. {r} \cap Lost \in SUBSET Command
    BY Zenon DEF Lost
  <2> QED BY <1>1, <1>2, <2>1, Zenon DEF Reap, LeaseTick, InteractionTimeout
<1>3. ASSUME NEW o \in owners, Owned(o)
      PROVE  commands'[x].exec = commands[x].exec
  <2>0. o.run \in Command /\ {o.run} \in SUBSET Command
    BY Zenon DEF TypeOK, Owner
  <2>1. ASSUME NEW S \in SUBSET Command, Included(o, S)
        PROVE  commands'[x].exec = commands[x].exec
    <3>1. commands'[x] = commands[x] \/ commands'[x] = InRequest(commands[x])
      BY <2>1, Zenon DEF Included
    <3> QED BY <3>1, InRequestRow, Zenon
  <2>2. ASSUME NEW state \in FailureStates, Fail(o, state)
        PROVE  commands'[x].exec = commands[x].exec
    BY <1>1, <2>0, <2>2, Zenon DEF Fail
  <2>3. ASSUME NEW k \in Call, NEW j \in Journey, NEW s \in Shape, BeginAttempt(o, k, j, s)
        PROVE  commands' = commands
    BY <2>3, Zenon DEF BeginAttempt, BeginUnapproved, BeginApproved, BeginRetry
  <2> QED BY <1>3, <2>1, <2>2, <2>3, Zenon
          DEF Owned, finish, Renew, RecordRunScope, ResolveDefinition, Start, Wait, Supersede,
              EndAttempt, Complete
<1> QED BY <1>2, <1>3, Zenon DEF Background

\* A message or a reply is accepted by itself.
LEMMA OneAccepted ==
  ASSUME TypeOK, NEW c \in Command, NEW x \in Command, x # c,
         \/ Admit(c)
         \/ \E i \in Command, approve \in BOOLEAN : ReplyInTime(c, i, approve)
         \/ \E i \in Command : ReplyTooLate(c, i)
         \/ \E p \in Replica : Claim(c, p)
  PROVE  commands'[x].exec = commands[x].exec
<1>1. CASE Admit(c)
  <2>0. Lost \in SUBSET Command
    BY Zenon DEF Lost
  <2>1. disposePending(Lost, "interrupted") \in [Command -> CommandRow]
    BY <2>0, SweepTypes, Zenon
  <2>2. \E r \in Command : commands' = [disposePending(Lost, "interrupted")
                                          EXCEPT ![c] = Accepted(r, None, "")]
    BY <1>1, Zenon DEF Admit
  <2>3. commands'[x] = disposePending(Lost, "interrupted")[x]
    BY <2>1, <2>2, Zenon
  <2>4. disposePending(Lost, "interrupted")[x].exec = commands[x].exec
    <3>1. "interrupted" \in {"interrupted"} \cup FailureStates
      BY Zenon
    <3> QED BY <2>0, <3>1, DisposeRows
  <2> QED BY <2>3, <2>4, Zenon
<1>2. ASSUME NEW i \in Command, NEW approve \in BOOLEAN, ReplyInTime(c, i, approve)
      PROVE  commands'[x].exec = commands[x].exec
  BY <1>2, Zenon DEF ReplyInTime, TypeOK
<1> QED BY <1>1, <1>2, Zenon DEF ReplyTooLate, Claim

----------------------------------------------------------------------------
(* Chat: what the log says is so.                                          *)

\* What an entry says of these tables is so, and it names only accepted commands.
Vouches(rs, is, cs, e) ==
  /\ e.type \in EndTypes => rs[e.run].state \in Terminal /\ e.type = RunEvent[rs[e.run].state]
  /\ e.type = "run.awaiting_input" => is[e.run].state # "absent"
  /\ \A c \in Named(e) : c \in Command /\ cs[c].exec # None

LogSound ==
  /\ events \in Seq(Entry)
  /\ \A n \in 1..Len(events) : Vouches(runs, interactions, commands, events[n])

\* M goes on where L ends, and all of it is so.
Continues(L, M, rs, is, cs) ==
  /\ M \in Seq(Entry) /\ Len(L) <= Len(M)
  /\ \A n \in 1..Len(L) : M[n] = L[n]
  /\ \A n \in 1..Len(M) : Vouches(rs, is, cs, M[n])

\* What a log and a log after it are made of.
LEMMA Parts ==
  ASSUME NEW M \in Seq(Entry), NEW Q \in Seq(Entry)
  PROVE  /\ M \o Q \in Seq(Entry) /\ Len(M) <= Len(M \o Q)
         /\ \A n \in 1..Len(M) : (M \o Q)[n] = M[n]
         /\ \A n \in 1..Len(M \o Q) : n \in 1..Len(M) \/ n - Len(M) \in 1..Len(Q)
         /\ \A n \in 1..Len(M \o Q) : n \notin 1..Len(M) => (M \o Q)[n] = Q[n - Len(M)]
<1>1. M \o Q \in Seq(Entry)
  OBVIOUS
<1>2. /\ Len(M) \in Nat /\ Len(Q) \in Nat /\ Len(M \o Q) = Len(M) + Len(Q)
      /\ \A n \in 1..Len(M) : (M \o Q)[n] = M[n]
  OBVIOUS
<1>3. \A n \in 1..(Len(M) + Len(Q)) : n \notin 1..Len(M) => (M \o Q)[n] = Q[n - Len(M)]
  BY <1>2
<1>4. ASSUME NEW a \in Nat, NEW b \in Nat
      PROVE  a <= a + b /\ \A n \in 1..(a + b) : n \in 1..a \/ n - a \in 1..b
  OBVIOUS
<1> QED BY <1>1, <1>2, <1>3, <1>4, Zenon

\* Sound entries after a sound log.
LEMMA BothContinue ==
  ASSUME NEW L \in Seq(Entry), NEW M, NEW Q, NEW rs, NEW is, NEW cs,
         Continues(L, M, rs, is, cs), Continues(<<>>, Q, rs, is, cs)
  PROVE  Continues(L, M \o Q, rs, is, cs)
<1> DEFINE N == M \o Q
<1>0. M \in Seq(Entry) /\ Q \in Seq(Entry) /\ Len(L) <= Len(M)
  BY Zenon DEF Continues
<1>1. /\ N \in Seq(Entry) /\ Len(M) <= Len(N)
      /\ \A n \in 1..Len(M) : N[n] = M[n]
      /\ \A n \in 1..Len(N) : n \in 1..Len(M) \/ n - Len(M) \in 1..Len(Q)
      /\ \A n \in 1..Len(N) : n \notin 1..Len(M) => N[n] = Q[n - Len(M)]
  BY <1>0, Parts, Zenon
<1> HIDE DEF N
<1>2. Len(L) <= Len(N) /\ 1..Len(L) \subseteq 1..Len(M)
  <2>1. Len(L) \in Nat /\ Len(M) \in Nat /\ Len(N) \in Nat
    BY <1>0, <1>1
  <2> QED BY <1>0, <1>1, <2>1
<1>3. ASSUME NEW n \in 1..Len(N)
      PROVE  Vouches(rs, is, cs, N[n])
  BY <1>1, Zenon DEF Continues
<1> QED BY <1>1, <1>2, <1>3, Zenon DEF Continues, N

\* One event.
LEMMA EvContinues ==
  ASSUME NEW rs, NEW is, NEW cs,
         NEW type \in EventType, NEW r \in Command, NEW about \in SUBSET (Command \cup Call),
         Vouches(rs, is, cs, [type |-> type, run |-> r, about |-> about])
  PROVE  Continues(<<>>, Ev(type, r, about), rs, is, cs)
<1> DEFINE e == [type |-> type, run |-> r, about |-> about]
<1>1. e \in Entry
  BY Zenon DEF Entry
<1>2. Vouches(rs, is, cs, e)
  OBVIOUS
<1>3. Ev(type, r, about) = <<>> \/ Ev(type, r, about) = <<e>>
  BY Zenon DEF Ev
<1> HIDE DEF e
<1>4. <<>> \in Seq(Entry) /\ Len(<<>>) = 0 /\ 1..Len(<<>>) = {} /\ 0 <= 0
  OBVIOUS
<1>5. <<e>> \in Seq(Entry)
  BY <1>1
<1>6. 1..Len(<<e>>) = {1} /\ 0 <= Len(<<e>>) /\ <<e>>[1] = e
  OBVIOUS
<1> QED BY <1>2, <1>3, <1>4, <1>5, <1>6, Zenon DEF Continues

\* The types of events that say nothing a stream relies on.
Idle == Plain \ {"run.awaiting_input", "command.accepted"}

\* What each kind of event has to answer for.
LEMMA Answerable ==
  ASSUME NEW rs, NEW is, NEW cs, NEW r \in Command, NEW about
  PROVE  /\ \A type \in Idle \cup {"interaction.consumed"} :
              Vouches(rs, is, cs, [type |-> type, run |-> r, about |-> about])
         /\ \A s \in Terminal : rs[r].state = s =>
              Vouches(rs, is, cs, [type |-> RunEvent[s], run |-> r, about |-> about])
         /\ is[r].state # "absent" =>
              Vouches(rs, is, cs, [type |-> "run.awaiting_input", run |-> r, about |-> about])
         /\ (\A c \in about : c \in Command /\ cs[c].exec # None) =>
              \A type \in FateTypes \cup {"command.accepted"} :
                Vouches(rs, is, cs, [type |-> type, run |-> r, about |-> about])
<1>1. /\ EndTypes \cap FateTypes = {} /\ EndTypes \cap Plain = {} /\ FateTypes \cap Plain = {}
      /\ {"run.awaiting_input", "command.accepted"} \subseteq Plain
      /\ {"run.awaiting_input", "command.accepted"} \cap FateTypes = {}
      /\ "interaction.consumed" \notin FateTypes \cup Plain \cup EndTypes
  <2>1. "interaction.consumed" \in Closing /\ EndTypes \subseteq Closing
    BY Zenon DEF Closing
  <2>2. "interaction.consumed" \notin EndTypes
    BY EndStates, Zenon
  <2> QED BY <2>1, <2>2, Kinds, Zenon
<1>2. \A s \in Terminal : RunEvent[s] \in EndTypes
  BY EndStates, Zenon
<1>3. ASSUME NEW type
      PROVE  LET e == [type |-> type, run |-> r, about |-> about]
             IN /\ e.type = type /\ e.run = r
                /\ Named(e) = IF type \in FateTypes \cup {"command.accepted"} THEN about ELSE {}
  BY Zenon DEF Named
<1>4. ASSUME NEW type \in Idle \cup {"interaction.consumed"}
      PROVE  Vouches(rs, is, cs, [type |-> type, run |-> r, about |-> about])
  <2>1. type \notin EndTypes /\ type # "run.awaiting_input"
        /\ type \notin FateTypes \cup {"command.accepted"}
    BY <1>1, Zenon DEF Idle
  <2> QED BY <1>3, <2>1, Zenon DEF Vouches
<1>5. ASSUME NEW s \in Terminal, rs[r].state = s
      PROVE  Vouches(rs, is, cs, [type |-> RunEvent[s], run |-> r, about |-> about])
  <2>1. /\ RunEvent[s] # "run.awaiting_input"
        /\ RunEvent[s] \notin FateTypes \cup {"command.accepted"}
    BY <1>1, <1>2, Zenon
  <2> QED BY <1>3, <1>5, <2>1, Zenon DEF Vouches
<1>6. ASSUME is[r].state # "absent"
      PROVE  Vouches(rs, is, cs, [type |-> "run.awaiting_input", run |-> r, about |-> about])
  <2>1. /\ "run.awaiting_input" \notin EndTypes
        /\ "run.awaiting_input" \notin FateTypes \cup {"command.accepted"}
    BY <1>1, Zenon
  <2> QED BY <1>3, <1>6, <2>1, Zenon DEF Vouches
<1>7. ASSUME \A c \in about : c \in Command /\ cs[c].exec # None,
             NEW type \in FateTypes \cup {"command.accepted"}
      PROVE  Vouches(rs, is, cs, [type |-> type, run |-> r, about |-> about])
  <2>1. type \notin EndTypes /\ type # "run.awaiting_input"
    BY <1>1, Zenon
  <2> QED BY <1>3, <1>7, <2>1, Zenon DEF Vouches
<1> QED BY <1>4, <1>5, <1>6, <1>7, Zenon

\* The types of the events that the transactions write.
LEMMA Types ==
  /\ {"definition_changed", "interaction.expired", "interaction.superseded",
      "message.completed", "run.started", "tool.started", "tool.outcome_unknown"} \subseteq Idle
  /\ \A s \in Outcome \ {"none", "dispatching"} : ToolEvent[s] \in Idle
  /\ FateTypes \cup {"command.accepted", "run.awaiting_input", "interaction.consumed"} \cup Idle
       \subseteq EventType
  /\ \A s \in Terminal : RunEvent[s] \in EventType
<1>1. \A s \in Outcome \ {"none", "dispatching"} :
         ToolEvent[s] \notin {"run.awaiting_input", "command.accepted"}
  BY DEF Outcome, ToolEvent
<1>2. {"definition_changed", "interaction.expired", "interaction.superseded",
       "message.completed", "run.started", "tool.started", "tool.outcome_unknown"} \subseteq Idle
  BY Kinds, Zenon DEF Idle
<1>3. FateTypes \cup {"command.accepted", "run.awaiting_input", "interaction.consumed"} \cup Idle
        \subseteq EventType
  BY Kinds, Zenon DEF Idle, EventType, Closing
<1>4. \A s \in Terminal : RunEvent[s] \in EventType
  BY EndStates, Zenon DEF EventType, Closing
<1> QED BY <1>1, <1>2, <1>3, <1>4, Kinds, Zenon DEF Idle

\* What was so stays so.
LEMMA StillSo ==
  ASSUME IInv, LogSound, Next
  PROVE  Continues(events, events, runs', interactions', commands')
<1>1. ASSUME NEW n \in 1..Len(events)
      PROVE  Vouches(runs', interactions', commands', events[n])
  <2> DEFINE e == events[n]
  <2>1. e \in Entry /\ Vouches(runs, interactions, commands, e)
    BY DEF LogSound
  <2> HIDE DEF e
  <2>2. e.run \in Command
    BY <2>1, Zenon DEF Entry
  <2>3. ASSUME runs[e.run].state \in Terminal PROVE runs'[e.run].state = runs[e.run].state
    BY <2>2, <2>3, RunsKept, Zenon DEF RunKept
  <2>4. ASSUME interactions[e.run].state # "absent" PROVE interactions'[e.run].state # "absent"
    BY <2>2, <2>4, WaitsOnward, Zenon DEF WaitOnward
  <2>5. ASSUME NEW c \in Command, commands[c].exec # None PROVE commands'[c].exec # None
    BY <2>5, CommandsKept, Zenon DEF CommandKept
  <2>6. Vouches(runs', interactions', commands', e)
    BY <2>1, <2>3, <2>4, <2>5, Zenon DEF Vouches
  <2> QED BY <2>6, Zenon DEF e
<1>2. events \in Seq(Entry) /\ Len(events) <= Len(events)
  BY DEF LogSound
<1> QED BY <1>1, <1>2, Zenon DEF Continues

\* interruptExpired and expireInteractions.
LEMMA SweepContinues ==
  ASSUME NEW rs, NEW is, NEW cs, LogSound, NEW R \in SUBSET Command,
         Continues(events, events, rs, is, cs),
         \A r \in R : rs[r].state = "interrupted" /\ \A c \in Undrained(r) : cs[c].exec # None,
         \A i \in Overdue : rs[i].state = "failed"
  PROVE  Continues(events, events \o SweepEvents(R), rs, is, cs)
<1> DEFINE r == CHOOSE x \in R : TRUE
           i == CHOOSE x \in Overdue : TRUE
           A == Ev("tool.outcome_unknown", r, Dispatching({r}))
           B == Ev("command.interrupted", r, Undrained(r))
           C == Ev("run.interrupted", r, {r})
           D == Ev("interaction.expired", i, {i})
           E == Ev("run.failed", i, {i})
           P == IF R = {} THEN <<>> ELSE A \o B \o C
           Q == IF Overdue = {} THEN <<>> ELSE D \o E
<1>1. events \in Seq(Entry) /\ SweepEvents(R) = P \o Q /\ <<>> \in Seq(Entry)
  BY DEF LogSound, SweepEvents
<1>2. Overdue \subseteq Command
  BY Zenon DEF Overdue
<1>3. /\ R # {} => r \in R /\ r \in Command
      /\ Overdue # {} => i \in Overdue /\ i \in Command
  BY <1>2, Zenon
<1> HIDE DEF r, i
<1>4. /\ RunEvent["interrupted"] = "run.interrupted" /\ RunEvent["failed"] = "run.failed"
      /\ "interrupted" \in Terminal /\ "failed" \in Terminal
  BY EndStates, Zenon
<1>5. /\ "tool.outcome_unknown" \in EventType \cap Idle
      /\ "interaction.expired" \in EventType \cap Idle
      /\ "command.interrupted" \in EventType \cap FateTypes
      /\ "run.interrupted" \in EventType /\ "run.failed" \in EventType
  BY <1>4, Types, Zenon DEF FateTypes
<1>6. ASSUME R # {}
      PROVE  Continues(<<>>, A \o B \o C, rs, is, cs)
  <2>1. /\ r \in Command /\ rs[r].state = "interrupted" /\ {r} \in SUBSET (Command \cup Call)
        /\ Dispatching({r}) \in SUBSET (Command \cup Call)
        /\ Undrained(r) \in SUBSET (Command \cup Call)
        /\ \A c \in Undrained(r) : c \in Command /\ cs[c].exec # None
    BY <1>3, <1>6, Zenon DEF Dispatching, Undrained
  <2>2. Continues(<<>>, A, rs, is, cs)
    BY <1>5, <2>1, Answerable, EvContinues, Zenon
  <2>3. Continues(<<>>, B, rs, is, cs)
    <3>1. Vouches(rs, is, cs, [type |-> "command.interrupted", run |-> r, about |-> Undrained(r)])
      BY <1>5, <2>1, Answerable, Zenon
    <3> QED BY <1>5, <2>1, <3>1, EvContinues, Zenon
  <2>4. Continues(<<>>, C, rs, is, cs)
    <3>1. Vouches(rs, is, cs, [type |-> "run.interrupted", run |-> r, about |-> {r}])
      BY <1>4, <2>1, Answerable, Zenon
    <3> QED BY <1>5, <2>1, <3>1, EvContinues, Zenon
  <2> QED BY <1>1, <2>2, <2>3, <2>4, BothContinue, Zenon
<1>7. ASSUME Overdue # {}
      PROVE  Continues(<<>>, D \o E, rs, is, cs)
  <2>1. i \in Command /\ rs[i].state = "failed" /\ {i} \in SUBSET (Command \cup Call)
    BY <1>3, <1>7, Zenon
  <2>2. Continues(<<>>, D, rs, is, cs)
    BY <1>5, <2>1, Answerable, EvContinues, Zenon
  <2>3. Continues(<<>>, E, rs, is, cs)
    <3>1. Vouches(rs, is, cs, [type |-> "run.failed", run |-> i, about |-> {i}])
      BY <1>4, <2>1, Answerable, Zenon
    <3> QED BY <1>5, <2>1, <3>1, EvContinues, Zenon
  <2> QED BY <1>1, <2>2, <2>3, BothContinue, Zenon
<1>8. Continues(<<>>, <<>>, rs, is, cs)
  <2>1. Len(<<>>) <= Len(<<>>) /\ 1..Len(<<>>) = {}
    OBVIOUS
  <2> QED BY <1>1, <2>1, Zenon DEF Continues
<1>9. Continues(<<>>, P, rs, is, cs) /\ Continues(<<>>, Q, rs, is, cs)
  BY <1>6, <1>7, <1>8, Zenon
<1> HIDE DEF P, Q
<1>10. Continues(<<>>, P \o Q, rs, is, cs)
  BY <1>1, <1>9, BothContinue, Zenon
<1> QED BY <1>1, <1>10, BothContinue, Zenon

\* A sweep in a step of the journal.
LEMMA SweepOnward ==
  ASSUME IInv, LogSound, Next, NEW R \in SUBSET Lost,
         \A x \in R \cup Overdue : runs'[x] = RunsSwept(R)[x]
  PROVE  Continues(events, events \o SweepEvents(R), runs', interactions', commands')
<1>1. Lifecycle /\ R \in SUBSET Command /\ Overdue \subseteq Command
  BY Zenon DEF IInv, Lost, Overdue
<1>2. ASSUME NEW r \in R
      PROVE  runs'[r].state = "interrupted" /\ \A c \in Undrained(r) : commands'[c].exec # None
  <2>1. RunsSwept(R)[r].state = "interrupted"
    BY <1>1, SweepRows, Zenon
  <2>2. ASSUME NEW c \in Undrained(r) PROVE commands'[c].exec # None
    <3>1. c \in Command /\ commands[c].exec = r /\ r \in Command
      BY <1>1, Zenon DEF Undrained
    <3>2. commands[c].exec # None
      BY <3>1, NoneAssumption, Zenon
    <3> QED BY <3>1, <3>2, CommandsKept, Zenon DEF CommandKept
  <2> QED BY <2>1, <2>2, Zenon
<1>3. ASSUME NEW i \in Overdue
      PROVE  runs'[i].state = "failed"
  <2>1. RunsSwept(R)[i].state = "failed"
    BY <1>1, SweepRows, Zenon
  <2> QED BY <2>1, Zenon
<1> QED BY <1>1, <1>2, <1>3, StillSo, SweepContinues, Zenon

\* Admit: what the sweep says, and the command that is accepted.
LEMMA AdmitOnward ==
  ASSUME IInv, LogSound, Next, NEW c \in Command, Admit(c)
  PROVE  Continues(events, events', runs', interactions', commands')
<1>1. TypeOK /\ Lifecycle /\ events \in Seq(Entry) /\ Lost \in SUBSET Lost /\ Lost \subseteq Command
  BY Zenon DEF IInv, Lifecycle, LogSound, Lost
<1>2. PICK r \in Command :
        /\ runs' = RunsSwept(Lost) \/ runs' = [RunsSwept(Lost) EXCEPT ![c] = FreshRun(None, None)]
        /\ commands' = [disposePending(Lost, "interrupted") EXCEPT ![c] = Accepted(r, None, "")]
        /\ events' = events \o SweepEvents(Lost) \o Ev("command.accepted", r, {c})
  BY Zenon DEF Admit
<1>3. /\ RunsSwept(Lost) \in [Command -> RunRow]
      /\ disposePending(Lost, "interrupted") \in [Command -> CommandRow]
  BY <1>1, SweepTypes, Zenon
<1>4. c \notin Lost \cup Overdue /\ Overdue \subseteq Command
  <2>1. runs[c].state = "absent" /\ interactions[c] = NoInteraction
    BY <1>1, Zenon DEF Lifecycle, RunsConsistent, Admit
  <2> QED BY <2>1, BlankRows, Zenon DEF Lost, Overdue, Live
<1>5. \A x \in Lost \cup Overdue : runs'[x] = RunsSwept(Lost)[x]
  BY <1>1, <1>2, <1>3, <1>4, Zenon
<1>6. Continues(events, events \o SweepEvents(Lost), runs', interactions', commands')
  BY <1>1, <1>5, SweepOnward, Zenon
<1>7. commands'[c].exec # None
  <2>1. commands'[c] = Accepted(r, None, "") /\ Accepted(r, None, "").exec = r
    BY <1>2, <1>3, AcceptedRow, Zenon
  <2> QED BY <2>1, NoneAssumption, Zenon
<1>8. Continues(<<>>, Ev("command.accepted", r, {c}), runs', interactions', commands')
  <2>1. "command.accepted" \in EventType /\ {c} \in SUBSET (Command \cup Call)
    BY Types, Zenon
  <2>2. Vouches(runs', interactions', commands', [type |-> "command.accepted", run |-> r, about |-> {c}])
    BY <1>7, Answerable, Zenon
  <2> QED BY <2>1, <2>2, EvContinues, Zenon
<1> QED BY <1>1, <1>2, <1>6, <1>8, BothContinue, Zenon

\* A reply that consumes a wait.
LEMMA ReplyOnward ==
  ASSUME IInv, LogSound, Next, NEW c \in Command, NEW i \in Command, NEW approve \in BOOLEAN,
         ReplyInTime(c, i, approve)
  PROVE  Continues(events, events', runs', interactions', commands')
<1> DEFINE A == Ev("interaction.consumed", i, {i})
           B == Ev("command.accepted", c, {c})
           C == Ev("command.consumed", c, {c})
<1>1. TypeOK /\ events \in Seq(Entry)
  BY Zenon DEF IInv, Lifecycle, LogSound
<1>2. /\ events' = ((events \o A) \o B) \o C \/ events' = ((events \o A) \o B) \o <<>>
      /\ \E why \in {"", "consumed"} : commands'[c] = Accepted(c, i, why)
  BY <1>1, Zenon DEF ReplyInTime, TypeOK
<1>3. commands'[c].exec # None
  <2>1. \A why \in {"", "consumed"} : Accepted(c, i, why).exec = c
    BY AcceptedRow, Zenon
  <2> QED BY <1>2, <2>1, NoneAssumption, Zenon
<1>4. /\ {i} \in SUBSET (Command \cup Call) /\ {c} \in SUBSET (Command \cup Call)
      /\ {"interaction.consumed", "command.accepted", "command.consumed"} \subseteq EventType
      /\ "command.consumed" \in FateTypes
  BY Types, Zenon DEF FateTypes
<1>5. Continues(<<>>, A, runs', interactions', commands')
  BY <1>4, Answerable, EvContinues, Zenon
<1>6. Continues(<<>>, B, runs', interactions', commands')
  <2>1. Vouches(runs', interactions', commands', [type |-> "command.accepted", run |-> c, about |-> {c}])
    BY <1>3, Answerable, Zenon
  <2> QED BY <1>4, <2>1, EvContinues, Zenon
<1>7. Continues(<<>>, C, runs', interactions', commands')
  <2>1. Vouches(runs', interactions', commands', [type |-> "command.consumed", run |-> c, about |-> {c}])
    BY <1>3, <1>4, Answerable, Zenon
  <2> QED BY <1>4, <2>1, EvContinues, Zenon
<1> HIDE DEF A, B, C
<1>8. Continues(events, events \o A, runs', interactions', commands')
  BY <1>1, <1>5, StillSo, BothContinue, Zenon
<1>9. Continues(events, (events \o A) \o B, runs', interactions', commands')
  BY <1>1, <1>6, <1>8, BothContinue, Zenon
<1>10. Continues(events, ((events \o A) \o B) \o C, runs', interactions', commands')
  BY <1>1, <1>7, <1>9, BothContinue, Zenon
<1>11. ((events \o A) \o B) \o <<>> = (events \o A) \o B
  <2>1. (events \o A) \o B \in Seq(Entry)
    BY <1>9, Zenon DEF Continues
  <2> QED BY <2>1
<1> QED BY <1>2, <1>9, <1>10, <1>11, Zenon

\* The end of a run, by its owner.
LEMMA FinishOnward ==
  ASSUME IInv, LogSound, Next, NEW o \in owners, finish(o)
  PROVE  Continues(events, events', runs', interactions', commands')
<1> DEFINE r == o.run
<1>1. TypeOK /\ events \in Seq(Entry) /\ r \in Command
  BY Zenon DEF IInv, Lifecycle, LogSound, TypeOK, Owner
<1> HIDE DEF r
<1>2. /\ {r} \in SUBSET (Command \cup Call) /\ Dispatching({r}) \in SUBSET (Command \cup Call)
      /\ Undrained(r) \in SUBSET (Command \cup Call) /\ Undrained(r) \subseteq Command
  BY <1>1, Zenon DEF Dispatching, Undrained
<1>3. /\ {"message.completed", "tool.outcome_unknown"} \subseteq Idle \cap EventType
      /\ "command.rejected" \in FateTypes \cap EventType
      /\ "completed" \in Terminal /\ RunEvent["completed"] = "run.completed"
      /\ \A s \in Terminal : RunEvent[s] \in EventType
      /\ FailureStates \subseteq Terminal
  BY Types, EndStates, Zenon DEF FateTypes, Terminal
<1>4. ASSUME NEW s \in Terminal, runs' = [runs EXCEPT ![r] = Ended(runs[r], s)]
      PROVE  Continues(<<>>, Ev(RunEvent[s], r, {r}), runs', interactions', commands')
  <2>1. runs'[r] = Ended(runs[r], s) /\ runs[r] \in RunRow
    BY <1>1, <1>4, Zenon DEF TypeOK
  <2>2. Ended(runs[r], s).state = s
    BY <2>1, EndedRow, Zenon
  <2>3. Vouches(runs', interactions', commands', [type |-> RunEvent[s], run |-> r, about |-> {r}])
    BY <1>1, <2>1, <2>2, Answerable, Zenon
  <2> QED BY <1>1, <1>2, <1>3, <2>3, EvContinues, Zenon
<1>5. CASE Complete(o)
  <2> DEFINE A == Ev("message.completed", r, {r})
             B == Ev("run.completed", r, {r})
  <2>1. runs' = [runs EXCEPT ![r] = Ended(runs[r], "completed")] /\ events' = (events \o A) \o B
    BY <1>5, Zenon DEF Complete, r
  <2>2. Continues(<<>>, A, runs', interactions', commands')
    BY <1>1, <1>2, <1>3, Answerable, EvContinues, Zenon
  <2>3. Continues(<<>>, B, runs', interactions', commands')
    BY <1>3, <1>4, <2>1, Zenon
  <2> HIDE DEF A, B
  <2>4. Continues(events, events \o A, runs', interactions', commands')
    BY <1>1, <2>2, StillSo, BothContinue, Zenon
  <2> QED BY <1>1, <2>1, <2>3, <2>4, BothContinue, Zenon
<1>6. ASSUME NEW s \in FailureStates, Fail(o, s)
      PROVE  Continues(events, events', runs', interactions', commands')
  <2> DEFINE A == Ev("tool.outcome_unknown", r, Dispatching({r}))
             B == Ev("command.rejected", r, Undrained(r))
             C == Ev(RunEvent[s], r, {r})
  <2>1. /\ runs' = [runs EXCEPT ![r] = Ended(runs[r], s)] /\ s \in Terminal
        /\ events' = ((events \o A) \o B) \o C
    BY <1>3, <1>6, Zenon DEF Fail, r
  <2>2. Continues(<<>>, A, runs', interactions', commands')
    BY <1>1, <1>2, <1>3, Answerable, EvContinues, Zenon
  <2>3. Continues(<<>>, B, runs', interactions', commands')
    <3>1. ASSUME NEW c \in Undrained(r) PROVE c \in Command /\ commands'[c].exec # None
      <4>1. c \in Command /\ commands[c].exec # None
        BY <1>1, NoneAssumption, Zenon DEF Undrained
      <4> QED BY <4>1, CommandsKept, Zenon DEF CommandKept
    <3>2. Vouches(runs', interactions', commands',
                  [type |-> "command.rejected", run |-> r, about |-> Undrained(r)])
      BY <1>1, <1>3, <3>1, Answerable, Zenon
    <3> QED BY <1>1, <1>2, <1>3, <3>2, EvContinues, Zenon
  <2>4. Continues(<<>>, C, runs', interactions', commands')
    BY <1>4, <2>1, Zenon
  <2> HIDE DEF A, B, C
  <2>5. Continues(events, events \o A, runs', interactions', commands')
    BY <1>1, <2>2, StillSo, BothContinue, Zenon
  <2>6. Continues(events, (events \o A) \o B, runs', interactions', commands')
    BY <1>1, <2>3, <2>5, BothContinue, Zenon
  <2> QED BY <1>1, <2>1, <2>4, <2>6, BothContinue, Zenon
<1> QED BY <1>5, <1>6, Zenon DEF finish

\* Every step of the journal goes on with the log, and says what is so.
LEMMA LogOnward ==
  ASSUME IInv, LogSound, Next
  PROVE  Continues(events, events', runs', interactions', commands')
<1> DEFINE Goal == Continues(events, events', runs', interactions', commands')
<1>1. TypeOK /\ Lifecycle /\ events \in Seq(Entry)
      /\ Continues(events, events, runs', interactions', commands')
  BY StillSo, Zenon DEF IInv, Lifecycle, LogSound
<1>2. ASSUME events' = events PROVE Goal
  BY <1>1, <1>2, Zenon
<1>3. ASSUME NEW type \in EventType, NEW r \in Command, NEW about \in SUBSET (Command \cup Call),
             Vouches(runs', interactions', commands', [type |-> type, run |-> r, about |-> about]),
             events' = events \o Ev(type, r, about)
      PROVE  Goal
  <2>1. Continues(<<>>, Ev(type, r, about), runs', interactions', commands')
    BY <1>3, EvContinues, Zenon
  <2> QED BY <1>1, <1>3, <2>1, BothContinue, Zenon
<1>4. ASSUME NEW type \in Idle, NEW r \in Command, NEW x \in Command \cup Call,
             events' = events \o Ev(type, r, {x})
      PROVE  Goal
  <2>1. type \in EventType /\ {x} \in SUBSET (Command \cup Call)
    BY Types, Zenon
  <2>2. Vouches(runs', interactions', commands', [type |-> type, run |-> r, about |-> {x}])
    BY Answerable, Zenon
  <2> QED BY <1>3, <1>4, <2>1, <2>2, Zenon
<1>5. ASSUME NEW R \in SUBSET Lost, runs' = RunsSwept(R), events' = events \o SweepEvents(R)
      PROVE  Goal
  BY <1>5, SweepOnward, Zenon
<1>6. ASSUME NEW c \in Command, Unowned(c)
      PROVE  Goal
  <2> HIDE DEF Goal
  <2>0. {c} \cap Lost \in SUBSET Lost /\ {} \in SUBSET Lost
    BY Zenon
  <2>1. CASE Admit(c)
    BY <2>1, AdmitOnward, Zenon DEF Goal
  <2>2. ASSUME NEW i \in Command, ReplyTooLate(c, i)
        PROVE  Goal
    BY <1>5, <2>0, <2>2, Zenon DEF ReplyTooLate
  <2>3. ASSUME NEW i \in Command, NEW approve \in BOOLEAN, ReplyInTime(c, i, approve)
        PROVE  Goal
    BY <2>3, ReplyOnward, Zenon DEF Goal
  <2>4. ASSUME NEW p \in Replica, Claim(c, p)
        PROVE  Goal
    <3>1. "run.started" \in Idle
      BY Types, Zenon
    <3> QED BY <1>4, <2>4, <3>1, Zenon DEF Claim
  <2>5. CASE Reap(c)
    BY <1>5, <2>0, <2>5, Zenon DEF Reap
  <2> QED BY <1>2, <1>6, <2>1, <2>2, <2>3, <2>4, <2>5, Zenon
          DEF Unowned, reply, LeaseTick, InteractionTimeout
<1>7. ASSUME NEW o \in owners, Owned(o)
      PROVE  Goal
  <2> HIDE DEF Goal
  <2>0. o \in Owner /\ o.run \in Command /\ {o.run} \in SUBSET (Command \cup Call)
    BY <1>1, Zenon DEF TypeOK, Owner
  <2>1. ASSUME NEW d \in Digest, ResolveDefinition(o, d)
        PROVE  Goal
    <3>1. events \o <<>> = events
      BY <1>1
    <3>2. "definition_changed" \in Idle
      BY Types, Zenon
    <3> QED BY <1>2, <1>4, <2>0, <2>1, <3>1, <3>2, Zenon DEF ResolveDefinition
  <2>2. ASSUME NEW S \in SUBSET Command, Included(o, S)
        PROVE  Goal
    <3>1. ASSUME NEW c \in S PROVE c \in Command /\ commands'[c].exec # None
      <4>1. c \in Command /\ commands[c].exec # None
        BY <2>0, <2>2, NoneAssumption, Zenon DEF Included, Undrained
      <4> QED BY <4>1, CommandsKept, Zenon DEF CommandKept
    <3>2. "command.included" \in FateTypes \cap EventType /\ S \in SUBSET (Command \cup Call)
      BY Types, Zenon DEF FateTypes
    <3>3. Vouches(runs', interactions', commands',
                  [type |-> "command.included", run |-> o.run, about |-> S])
      BY <2>0, <3>1, <3>2, Answerable, Zenon
    <3> QED BY <1>3, <2>0, <2>2, <3>2, <3>3, Zenon DEF Included
  <2>3. ASSUME NEW kind \in {"approval", "clarification"}, NEW k \in Call \cup {None},
               NEW j \in Journey \cup {None}, NEW s \in Shape \cup {None}, Wait(o, kind, k, j, s)
        PROVE  Goal
    <3>1. interactions'[o.run].state = "pending"
      BY <1>1, <2>0, <2>3, WaitRow, Zenon
    <3>2. "run.awaiting_input" \in EventType
      BY Types, Zenon
    <3>3. Vouches(runs', interactions', commands',
                  [type |-> "run.awaiting_input", run |-> o.run, about |-> {o.run}])
      BY <2>0, <3>1, Answerable, Zenon
    <3> QED BY <1>3, <2>0, <2>3, <3>2, <3>3, Zenon DEF Wait
  <2>4. ASSUME NEW i \in Command, Supersede(o, i)
        PROVE  Goal
    <3>1. "interaction.superseded" \in Idle
      BY Types, Zenon
    <3> QED BY <1>4, <2>0, <2>4, <3>1, Zenon DEF Supersede
  <2>5. ASSUME NEW k \in Call, NEW j \in Journey, NEW s \in Shape, BeginAttempt(o, k, j, s)
        PROVE  Goal
    <3>1. "tool.started" \in Idle /\ "interaction.superseded" \in Idle
      BY Types, Zenon
    <3>2. \/ events' = events \o Ev("tool.started", o.run, {k})
          \/ \E i \in Command : events' = events \o Ev("interaction.superseded", o.run, {i})
      BY <2>5, Zenon DEF BeginAttempt, BeginUnapproved, BeginApproved, BeginRetry, Insert
    <3> QED BY <1>4, <2>0, <3>1, <3>2, Zenon
  <2>6. ASSUME NEW k \in Call, NEW n \in 1..2, NEW outcome \in Outcome \ {"none", "dispatching"},
               EndAttempt(o, k, n, outcome)
        PROVE  Goal
    <3>1. ToolEvent[outcome] \in Idle
      BY Types, Zenon
    <3> QED BY <1>4, <2>0, <2>6, <3>1, Zenon DEF EndAttempt
  <2>7. CASE finish(o)
    BY <2>7, FinishOnward, Zenon DEF Goal
  <2> QED BY <1>2, <1>7, <2>1, <2>2, <2>3, <2>4, <2>5, <2>6, <2>7, Zenon
          DEF Owned, Renew, RecordRunScope, Start
<1> QED BY <1>6, <1>7, Zenon DEF Next
============================================================================
