------------------------------ MODULE Session ------------------------------
(***************************************************************************)
(* One session in the desktop: the commands that use its engine, the map   *)
(* of live engines, the sequence numbers of its transcript, and the idle   *)
(* maintenance that puts it to sleep.                                      *)
(*                                                                         *)
(* A command is one call of submit_turn, resolve_approval, wake_session or *)
(* restart_session_runtime.  It takes a step between any two awaits or     *)
(* store calls that another could observe.  An engine has the name of the  *)
(* command that built it.  A turn is reduced to one message of the         *)
(* assistant; what happens inside it is the module Engine.                 *)
(***************************************************************************)
EXTENDS Naturals, FiniteSets, FiniteSetsExt

CONSTANTS
  Commands,   \* calls of commands
  May,        \* what each one may be a call of
  NoEngine,   \* no engine in the map
  MaxSleeps,  \* bound: idle teardowns begun
  MaxCrashes  \* bound: process crashes

Kinds == {"submit", "resolve", "wake", "restart"}

ASSUME SessionAssumption ==
  /\ IsFiniteSet(Commands)
  /\ May \in [Commands -> SUBSET Kinds]
  /\ NoEngine \notin Commands
  /\ MaxSleeps \in Nat /\ MaxCrashes \in Nat

VARIABLES
  messages,   \* sequence numbers in messages
  notices,    \* sequence numbers in notices
  open,       \* the state of the session's unresolved pending row
  runState,   \* run_state
  asleep,     \* sleep_state = "asleep"
  live,       \* engines[session_id]
  active,     \* engines whose turn_active is set
  counter,    \* each engine's sequence
  cmd,        \* the commands: what each calls, where it is, its engine, its
              \* outcome, and the number of the user's message it accepts
  sleeper,    \* idle_sleep_loop
  broken,     \* history: an engine lost its claim or its place while in use
  raced,      \* history: the session was put to sleep under an unclaimed command,
              \* or a command took a step while it was
  mixed,      \* history: an engine wrote while another's counter was in hand
  sleeps, crashes

store == <<messages, notices, open, runState, asleep>>
engines == <<live, active, counter>>
bounds == <<mixed, sleeps, crashes>>
vars == <<store, engines, cmd, sleeper, broken, raced, bounds>>

Fresh(kind) == [kind |-> kind, pc |-> "new", eng |-> NoEngine, outcome |-> "idle", user |-> 0]
Ended(c) == [Fresh(cmd[c].kind) EXCEPT !.pc = "ended"]
Largest(S) == Max(S \cup {0})

Kind(c) == cmd[c].kind
At(c, pc) == cmd[c].pc = pc
Under(c) == cmd[c].pc \notin {"new", "ended"}
Goto(c, pc) == cmd' = [cmd EXCEPT ![c].pc = pc]
End(c) == cmd' = [cmd EXCEPT ![c] = Ended(c)]
Engine(c) == cmd[c].eng
Submits == {c \in Commands : Kind(c) = "submit"}
\* A command that turn_active does not show: on its way to a turn, or a resolution.
Unclaimed(c) ==
  Under(c) /\ (c \in Submits => cmd[c].pc \notin {"turn", "finish"})
\* The session may be put to sleep: by the maintenance, or by a wake that fails.
FallingAsleep(c) ==
  sleeper # "watch" \/ \E d \in Commands \ {c} : Kind(d) = "wake" /\ Under(d)
Step(c) == raced' = (raced \/ FallingAsleep(c))
\* The engine leaves the map; whoever uses it keeps it.
Unlist ==
  /\ live' = NoEngine
  /\ broken' = (broken \/ (live # NoEngine /\ \E c \in Commands : Engine(c) = live))

\* The engines that may yet write: live, used by a command, or built and not
\* yet in the map.
InHand ==
  (({live} \cup {Engine(c) : c \in Commands}) \ {NoEngine})
    \cup {c \in Commands : At(c, "insert")}
Write(c) == mixed' = (mixed \/ InHand # {Engine(c)}) /\ UNCHANGED <<sleeps, crashes>>

-----------------------------------------------------------------------------
Init ==
  /\ messages = {} /\ notices = {} /\ open = "none"
  /\ runState = "idle" /\ asleep = FALSE
  /\ live = NoEngine /\ active = {}
  /\ counter = [c \in Commands |-> 0]
  /\ \E kind \in [Commands -> Kinds] :
       /\ \A c \in Commands : kind[c] \in May[c]
       /\ cmd = [c \in Commands |-> Fresh(kind[c])]
  /\ sleeper = "watch" /\ broken = FALSE /\ raced = FALSE /\ mixed = FALSE
  /\ sleeps = 0 /\ crashes = 0

\* submit_turn reads the largest number in messages ...
Number(c) ==
  /\ At(c, "new") /\ Kind(c) = "submit" /\ Step(c)
  /\ cmd' = [cmd EXCEPT ![c] = [@ EXCEPT !.pc = "accept",
                                         !.user = Largest(messages) + 1]]
  /\ UNCHANGED <<store, engines, sleeper, broken, bounds>>

\* ... and in a second store call records the user's message with the next one;
\* then it wakes the session, and no await lies between.  A row that got the number
\* first fails the submit: the message is not recorded.
Accept(c) ==
  /\ At(c, "accept") /\ Step(c)
  /\ IF cmd[c].user \in messages
     THEN runState' = "error" /\ End(c) /\ UNCHANGED <<messages, asleep>>
     ELSE /\ messages' = messages \cup {cmd[c].user}
          /\ asleep' = FALSE /\ runState' = "running" /\ Goto(c, "find")
  /\ UNCHANGED <<notices, open, engines, sleeper, broken, bounds>>

\* The other commands are called: a resolution for a row that is shown, a wake
\* for a sleeping session.  Both begin with wake_session_inner.
Call(c) ==
  /\ At(c, "new") /\ Step(c)
  /\ \/ Kind(c) = "resolve" /\ open # "none" /\ Goto(c, "find") /\ asleep' = FALSE
     \/ Kind(c) = "wake" /\ asleep /\ Goto(c, "find") /\ asleep' = FALSE
     \/ Kind(c) = "restart" /\ runState # "running" /\ Goto(c, "restart")
        /\ UNCHANGED asleep
  /\ UNCHANGED <<messages, notices, open, runState, engines, sleeper, broken, bounds>>

\* restart_session_runtime_inner refuses while a turn is active.
Restart(c) ==
  /\ At(c, "restart") /\ Step(c)
  /\ IF live \in active
     THEN End(c) /\ UNCHANGED <<live, broken>>
     ELSE Goto(c, "build") /\ Unlist
  /\ UNCHANGED <<store, active, counter, sleeper, bounds>>

\* engine_for_with_context: the live engine is used as it is ...
FindTrusting(c) ==  \* mutant: a runtime is taken for granted
  /\ At(c, "find") /\ Step(c)
  /\ cmd' = [cmd EXCEPT ![c] =
                [@ EXCEPT !.eng = live,
                          !.pc = IF Kind(c) = "wake" THEN "awake" ELSE "have"]]
  /\ UNCHANGED <<store, engines, sleeper, broken, bounds>>

Find(c) ==
  /\ At(c, "find") /\ Step(c)
  /\ cmd' = [cmd EXCEPT ![c] =
                [@ EXCEPT !.eng = live,
                          !.pc = IF live = NoEngine THEN "build"
                                 ELSE IF Kind(c) = "wake" THEN "awake" ELSE "have"]]
  /\ UNCHANGED <<store, engines, sleeper, broken, bounds>>

\* ... unless its capabilities are old and have changed, turn or no turn.
Recheck(c) ==
  /\ At(c, "find") /\ Kind(c) # "wake" /\ live # NoEngine /\ Step(c)
  /\ Unlist
  /\ Goto(c, "build")
  /\ UNCHANGED <<store, active, counter, sleeper, bounds>>

\* TurnEngine::new reads the largest number in use ...
Build(c) ==
  /\ At(c, "build") /\ Step(c)
  /\ counter' = [counter EXCEPT ![c] = Largest(messages \cup notices)]
  /\ Goto(c, "insert")
  /\ UNCHANGED <<store, live, active, sleeper, broken, bounds>>

\* ... and several awaits later the first engine to arrive takes the place.
InsertOver(c) ==  \* mutant: insert instead of or_insert
  /\ At(c, "insert") /\ Step(c)
  /\ live' = c
  /\ IF Kind(c) = "restart" THEN End(c)
     ELSE cmd' = [cmd EXCEPT ![c] =
                     [@ EXCEPT !.eng = c,
                               !.pc = IF Kind(c) = "wake" THEN "awake" ELSE "have"]]
  /\ UNCHANGED <<store, active, counter, sleeper, broken, bounds>>

Insert(c) ==
  /\ At(c, "insert") /\ Step(c)
  /\ live' = IF live = NoEngine THEN c ELSE live
  /\ IF Kind(c) = "restart" THEN End(c)
     ELSE cmd' = [cmd EXCEPT ![c] =
                     [@ EXCEPT !.eng = live',
                               !.pc = IF Kind(c) = "wake" THEN "awake" ELSE "have"]]
  /\ UNCHANGED <<store, active, counter, sleeper, broken, bounds>>

\* A submit that fails before its turn leaves the session in error, ...
SetupFails(c) ==
  /\ cmd[c].pc \in {"find", "build"} /\ Kind(c) # "wake" /\ Step(c)
  /\ runState' = IF Kind(c) = "submit" THEN "error" ELSE runState
  /\ \/ UNCHANGED <<live, broken>>
     \/ At(c, "find") /\ Unlist  \* the recheck failed
  /\ End(c)
  /\ UNCHANGED <<messages, notices, open, asleep, active, counter, sleeper, bounds>>

\* ... and a wake that fails releases the runtime and restores the sleep.
WakeFails(c) ==
  /\ At(c, "build") /\ Kind(c) = "wake" /\ Step(c)
  /\ Unlist
  /\ runState' = "sleeping" /\ asleep' = TRUE
  /\ End(c)
  /\ UNCHANGED <<messages, notices, open, active, counter, sleeper, bounds>>

\* mark_session_awake_idle, whatever runs by now.
MarkAwake(c) ==
  /\ At(c, "awake") /\ Step(c)
  /\ runState' = "idle" /\ asleep' = FALSE
  /\ End(c)
  /\ UNCHANGED <<messages, notices, open, engines, sleeper, broken, bounds>>

-----------------------------------------------------------------------------
(* The engine's part *)

Begin(c) ==
  /\ At(c, "have") /\ Kind(c) = "submit" /\ Step(c)
  /\ IF Engine(c) \in active
     THEN End(c) /\ UNCHANGED <<active, runState>>  \* TurnAlreadyRunning
     ELSE active' = active \cup {Engine(c)} /\ runState' = "running" /\ Goto(c, "turn")
  /\ UNCHANGED <<messages, notices, open, asleep, live, counter, sleeper, broken, bounds>>

\* A resolution takes the row and claims nothing.
Take(c) ==
  /\ At(c, "have") /\ Kind(c) = "resolve" /\ Step(c)
  /\ runState' = "running"
  /\ open' = "none"
  /\ Goto(c, IF open = "none" THEN "finish" ELSE "turn")
  /\ UNCHANGED <<messages, notices, asleep, engines, sleeper, broken, bounds>>

\* messages has at most one row of a number: storing a second one fails the turn.
OutcomeReplaced(n) == "idle"  \* mutant: the second row replaces the first
Outcome(n) == IF n \in messages THEN "error" ELSE "idle"

\* The assistant's message gets the engine's next number.  The model may ask for
\* the user.
Reply(c) ==
  LET n == counter[Engine(c)] + 1 IN
  /\ At(c, "turn") /\ Step(c) /\ Write(c)
  /\ counter' = [counter EXCEPT ![Engine(c)] = n]
  /\ messages' = messages \cup {n}
  /\ open' \in IF Outcome(n) = "error" THEN {open} ELSE {open, "pending", "ask_user"}
  /\ cmd' = [cmd EXCEPT ![c] = [@ EXCEPT !.pc = "finish", !.outcome = Outcome(n)]]
  /\ UNCHANGED <<notices, runState, asleep, live, active, sleeper, broken>>

ProviderFails(c) ==
  LET n == counter[Engine(c)] + 1 IN
  /\ At(c, "turn") /\ Step(c) /\ Write(c)
  /\ counter' = [counter EXCEPT ![Engine(c)] = n]
  /\ notices' = notices \cup {n}
  /\ cmd' = [cmd EXCEPT ![c] = [@ EXCEPT !.pc = "finish", !.outcome = "error"]]
  /\ UNCHANGED <<messages, open, runState, asleep, live, active, sleeper, broken>>

\* finish_turn clears turn_active, whoever set it, and writes the status.
FinishQuietly(c) ==  \* mutant: an error is left to the caller
  /\ At(c, "finish") /\ Step(c)
  /\ active' = active \ {Engine(c)}
  /\ broken' = (broken \/ \E d \in Submits \ {c} : Engine(d) = Engine(c) /\ At(d, "turn"))
  /\ runState' = IF cmd[c].outcome = "error" THEN runState ELSE "idle"
  /\ End(c)
  /\ UNCHANGED <<messages, notices, open, asleep, live, counter, sleeper, bounds>>

Finish(c) ==
  /\ At(c, "finish") /\ Step(c)
  /\ active' = active \ {Engine(c)}
  /\ broken' = (broken \/ \E d \in Submits \ {c} : Engine(d) = Engine(c) /\ At(d, "turn"))
  /\ runState' = cmd[c].outcome
  /\ End(c)
  /\ UNCHANGED <<messages, notices, open, asleep, live, counter, sleeper, bounds>>

-----------------------------------------------------------------------------
(* idle_sleep_loop and sleep_session_inner *)

CanSleepOpen ==  \* mutant: pending rows are not read
  ~asleep /\ runState = "idle" /\ live \notin active
CanIdleSleep == ~asleep /\ runState = "idle" /\ live \notin active /\ open # "pending"

SleepCheck ==
  /\ sleeper = "watch" /\ sleeps < MaxSleeps
  /\ CanIdleSleep
  /\ sleeps' = sleeps + 1
  /\ sleeper' = "teardown"
  /\ raced' = (raced \/ \E c \in Commands : Unclaimed(c))
  /\ UNCHANGED <<store, engines, cmd, broken, mixed, crashes>>

Teardown ==
  /\ sleeper = "teardown"
  /\ Unlist
  /\ sleeper' = "mark"
  /\ UNCHANGED <<store, active, counter, cmd, raced, bounds>>

\* A surface or an IDE of the session is open.
TeardownRefused ==
  /\ sleeper = "teardown"
  /\ sleeper' = "watch"
  /\ UNCHANGED <<store, engines, cmd, broken, raced, bounds>>

MarkSleeping ==
  /\ sleeper = "mark"
  /\ runState' = "sleeping" /\ asleep' = TRUE
  /\ sleeper' = "watch"
  /\ UNCHANGED <<messages, notices, open, engines, cmd, broken, raced, bounds>>

\* The next process finds the store; reconcile_running_sessions.
Crash ==
  /\ crashes < MaxCrashes /\ crashes' = crashes + 1
  /\ live' = NoEngine /\ active' = {} /\ counter' = [c \in Commands |-> 0]
  /\ cmd' = [c \in Commands |-> IF Under(c) THEN Ended(c) ELSE cmd[c]]
  /\ sleeper' = "watch"
  /\ runState' = IF runState = "running" THEN "interrupted" ELSE runState
  /\ UNCHANGED <<messages, notices, open, asleep, broken, raced, mixed, sleeps>>

-----------------------------------------------------------------------------
Lookup(c) == Find(c) \/ Recheck(c) \/ Build(c) \/ Insert(c) \/ SetupFails(c)
Turn(c) == Begin(c) \/ Take(c) \/ Reply(c) \/ ProviderFails(c) \/ Finish(c)
Proceed(c) ==
  Restart(c) \/ Lookup(c) \/ WakeFails(c) \/ MarkAwake(c) \/ Turn(c)
Sleep == SleepCheck \/ Teardown \/ TeardownRefused \/ MarkSleeping

Next ==
  \/ \E c \in Commands : Number(c) \/ Accept(c) \/ Call(c) \/ Proceed(c)
  \/ Sleep \/ Crash

Spec == Init /\ [][Next]_vars

-----------------------------------------------------------------------------
Pcs == {"new", "accept", "restart", "find", "build", "insert", "awake", "have",
        "turn", "finish", "ended"}

SessionTypeOK ==
  /\ messages \subseteq Nat /\ notices \subseteq Nat
  /\ open \in {"none", "pending", "ask_user"}
  /\ runState \in {"idle", "running", "error", "sleeping", "interrupted"}
  /\ asleep \in BOOLEAN
  /\ live \in Commands \cup {NoEngine} /\ active \subseteq Commands
  /\ counter \in [Commands -> Nat]
  /\ cmd \in [Commands -> [kind : Kinds, pc : Pcs, eng : Commands \cup {NoEngine},
                           outcome : {"idle", "error"}, user : Nat]]
  /\ sleeper \in {"watch", "teardown", "mark"}
  /\ broken \in BOOLEAN /\ raced \in BOOLEAN /\ mixed \in BOOLEAN
  /\ sleeps \in Nat /\ crashes \in Nat
  /\ \A c \in Commands : cmd[c].pc \in {"have", "turn", "finish"}
                           => Engine(c) \in Commands

\* Two submits never run a turn of the session at the same time, however they
\* interleave, unless an engine was taken out of the map while in use or a
\* resolution's end cleared another's turn_active.
OneTurnAtATime == ~broken => Cardinality({c \in Submits : At(c, "turn")}) <= 1

\* In the transcript an answer comes after the message it answers, although the
\* two are numbered by different counters, as long as the engines that wrote were
\* the only ones at their time.
AnswersFollow ==
  [][\A c \in Submits :
       ~mixed' /\ At(c, "turn") /\ cmd'[c].outcome = "idle" /\ cmd'[c].pc = "finish"
         => counter'[Engine(c)] > cmd[c].user]_vars

\* When no command is under way the session is not left "running".
NotLeftRunning == (\A c \in Commands : ~Under(c)) => runState # "running"

\* A session is asleep only with no runtime, no turn and no approval open, unless
\* it was put to sleep under a command that turn_active does not show, a command
\* took a step while it was, or an engine had been lost before.  (A restart gives
\* a sleeping session a runtime and leaves it asleep.)
SleepsQuietly ==
  ~raced /\ ~broken /\ asleep =>
    /\ live = NoEngine \/ Kind(live) = "restart"
    /\ active = {} /\ open # "pending"

\* A turn whose message is recorded runs and is answered
\* (the test recorded_user_turn_runs_without_appending_a_duplicate_message): the
\* number of the answer is not that of the very message it answers.
RecordedTurnRuns ==
  \A c \in Submits : At(c, "turn") => counter[Engine(c)] + 1 # cmd[c].user
=============================================================================
