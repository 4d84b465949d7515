---------------------------- MODULE GoalPlanner ----------------------------
(***************************************************************************)
(* Planning rounds of one autonomous goal (run_goal_planner).              *)
(*                                                                         *)
(* The planner's loop, the user, event rules and automations all call      *)
(* run_goal_planner; a set of running keys admits one of them at a time.   *)
(* A round checks the goal's limits, asks the goal's session for steps in  *)
(* an awaited turn, and puts the steps into the work queue under one       *)
(* dedup key per step.  For a goal that only proposes, each step is first  *)
(* enqueued ready and then held in a second call.  The runner, the agents  *)
(* and the operator work on the rows meanwhile.                            *)
(*                                                                         *)
(* Every store call is a step.  A tick is one period of the planner's      *)
(* loop; the calls between the clock's reading and the turn, none of which *)
(* waits for anything, take no time.  A row is seen by its status: leases, *)
(* attempts and backoff are the subject of WorkQueue.                      *)
(***************************************************************************)
EXTENDS Integers, FiniteSetsExt

CONSTANTS
  Steps,         \* step keys the planner may name, one dedup key each
  Callers,       \* who may call run_goal_planner
  Loop,          \* the periodic caller
  NoStep,        \* no step is being held
  Autonomy,      \* autonomy_level: "propose" or "execute"
  MaxInFlight,   \* max_in_flight
  MaxRounds,     \* max_rounds_per_hour
  FailureLimit,  \* failure_limit
  Cadence,       \* cadence_seconds, in ticks
  Hour,          \* the window of max_rounds_per_hour, in ticks
  MaxTurmoil     \* bound: calls by others than the loop, changes of the goal's
                 \* status, requeued dead letters and crashes, together

ASSUME PlannerAssumption ==
  /\ IsFiniteSet(Steps) /\ NoStep \notin Steps /\ Loop \in Callers
  /\ Autonomy \in {"propose", "execute"}
  /\ MaxInFlight \in Nat \ {0} /\ MaxRounds \in Nat \ {0} /\ FailureLimit \in Nat \ {0}
  /\ Cadence \in Nat \ {0} /\ Hour \in Nat \ {0}
  /\ MaxTurmoil \in Nat

VARIABLES
  goalStatus,   \* status of the goal
  failures,     \* consecutive_failures
  cadenceLeft,  \* ticks until cadence_seconds have passed since last_planned_at
  rounds,       \* the number of rounds on record that began so many ticks ago
  row,          \* status of each step's row in work_queue, "absent" if none
  planning,     \* whether the goal's key is in trigger_runs
  run,          \* each caller's progress through run_goal_planner
  due,          \* the loop's interval has elapsed
  reactivated,  \* history: the user made the goal active since it last paused itself
  requeues,     \* history: dead letters requeued
  turmoil       \* what MaxTurmoil bounds, so far

goalVars == <<goalStatus, failures, cadenceLeft, rounds, reactivated>>
bounds == <<requeues, turmoil>>
vars == <<goalVars, row, planning, run, due, bounds>>

\* A round older than the hour is past counting; how much older makes no difference.
Ages == 0..Hour + 1

Open == {"ready", "running", "pending_approval"}
Counted(statuses) == Cardinality({s \in Steps : row[s] \in statuses})

Resting == [pc |-> "idle", age |-> 0, inFlight |-> 0, todo |-> {}, held |-> NoStep]

At(c, pc) == run[c].pc = pc
Goto(c, pc) == run' = [run EXCEPT ![c].pc = pc]
\* The rest of the function is left; its locals are gone.
Leave(c) == run' = [run EXCEPT ![c] = [Resting EXCEPT !.pc = "end"]]

\* Between Utc::now() and the turn.
Checking(c) == run[c].pc \in {"begin", "allowed", "count", "mark"}

Disturb == turmoil < MaxTurmoil /\ turmoil' = turmoil + 1

-----------------------------------------------------------------------------
Init ==
  /\ goalStatus = "active" /\ failures = 0 /\ cadenceLeft = 0
  /\ rounds = [age \in Ages |-> 0]
  /\ reactivated = FALSE
  /\ row = [s \in Steps |-> "absent"]
  /\ planning = FALSE /\ run = [c \in Callers |-> Resting] /\ due = TRUE
  /\ requeues = 0 /\ turmoil = 0

(***************************************************************************)
(* The key's insertion.  The loop lists the active goals and then calls    *)
(* them one after another, so that a goal's status may have changed; the   *)
(* others do not look at it.  A caller that finds the key gives up.        *)
(***************************************************************************)
StartAnyway(c) ==  \* mutant: the key's presence is not looked at
  /\ At(c, "idle")
  /\ IF c = Loop THEN due /\ due' = FALSE /\ UNCHANGED turmoil
     ELSE Disturb /\ UNCHANGED due
  /\ Goto(c, "begin") /\ planning' = TRUE
  /\ UNCHANGED <<goalVars, row, requeues>>

Start(c) ==
  /\ At(c, "idle")
  /\ IF c = Loop THEN due /\ due' = FALSE /\ UNCHANGED turmoil
     ELSE Disturb /\ UNCHANGED due
  /\ IF planning THEN UNCHANGED <<run, planning>> ELSE Goto(c, "begin") /\ planning' = TRUE
  /\ UNCHANGED <<goalVars, row, requeues>>

\* Too many dead letters pause the goal, whatever its status was.
CheckDeadLetters(c) ==
  /\ At(c, "begin")
  /\ Goto(c, IF Counted({"dead_letter"}) >= FailureLimit THEN "pause" ELSE "allowed")
  /\ UNCHANGED <<goalVars, row, planning, due, bounds>>

Pause(c) ==
  /\ At(c, "pause")
  /\ goalStatus' = "paused" /\ reactivated' = FALSE
  /\ Leave(c)
  /\ UNCHANGED <<failures, cadenceLeft, rounds, row, planning, due, bounds>>

\* goal_planning_allowed.
Number(ages) == MapThenSumSet(LAMBDA age : ages[age], Ages)
WithinLimits == cadenceLeft = 0 /\ Number(rounds) < MaxRounds

CheckAllowed(c) ==
  /\ At(c, "allowed")
  /\ IF goalStatus = "active" /\ WithinLimits THEN Goto(c, "count") ELSE Leave(c)
  /\ UNCHANGED <<goalVars, row, planning, due, bounds>>

\* goal_in_flight_count; the number is kept for the end of the turn.
CountInFlight(c) ==
  /\ At(c, "count")
  /\ IF Counted(Open) >= MaxInFlight THEN Leave(c)
     ELSE run' = [run EXCEPT ![c] = [@ EXCEPT !.pc = "mark", !.inFlight = Counted(Open)]]
  /\ UNCHANGED <<goalVars, row, planning, due, bounds>>

\* mark_goal_planned, before the turn, with the time read at the beginning.
MarkPlanned(c) ==
  /\ At(c, "mark")
  /\ cadenceLeft' = Cadence
  /\ Goto(c, "turn")
  /\ UNCHANGED <<goalStatus, failures, rounds, reactivated, row,
                 planning, due, bounds>>

(***************************************************************************)
(* The turn: no engine (nothing is recorded), an error or an answer that   *)
(* cannot be parsed, or steps, which must fit the room there was before.   *)
(***************************************************************************)
TurnImpossible(c) ==
  /\ At(c, "turn")
  /\ Leave(c)
  /\ UNCHANGED <<goalVars, row, planning, due, bounds>>

Fail(c) == run' = [run EXCEPT ![c] = [@ EXCEPT !.pc = "failed", !.inFlight = 0]]

TurnFails(c) ==
  /\ At(c, "turn")
  /\ Fail(c)
  /\ UNCHANGED <<goalVars, row, planning, due, bounds>>

FitsAlone(c, S) == Cardinality(S) <= MaxInFlight  \* mutant: rows in flight not subtracted

Fits(c, S) == Cardinality(S) <= MaxInFlight - run[c].inFlight

TurnAnswers(c, S) ==
  /\ At(c, "turn")
  /\ IF Fits(c, S)
     THEN run' = [run EXCEPT ![c] = [@ EXCEPT !.pc = "enqueue", !.inFlight = 0, !.todo = S]]
     ELSE Fail(c)
  /\ UNCHANGED <<goalVars, row, planning, due, bounds>>

\* A round counts for an hour from its start, and is recorded at its end.
RecordRoundAnyAge(c) ==  \* mutant: a round that took longer counted too
  rounds' = [rounds EXCEPT ![run[c].age] = @ + 1]

RecordRound(c) ==
  rounds' = IF run[c].age <= Hour THEN [rounds EXCEPT ![run[c].age] = @ + 1] ELSE rounds

RecordFailedRound(c) ==
  /\ At(c, "failed")
  /\ RecordRound(c)
  /\ Goto(c, "failure")
  /\ UNCHANGED <<goalStatus, failures, cadenceLeft, reactivated, row,
                 planning, due, bounds>>

\* record_goal_failure.
FailsOnceMore == failures + 1 > FailureLimit  \* mutant: off by one

FailsTooOften == failures + 1 >= FailureLimit

RecordFailure(c) ==
  /\ At(c, "failure")
  /\ failures' = failures + 1
  /\ goalStatus' = IF FailsTooOften THEN "paused" ELSE goalStatus
  /\ reactivated' = (reactivated /\ ~FailsTooOften)
  /\ Leave(c)
  /\ UNCHANGED <<cadenceLeft, rounds, row, planning, due, bounds>>

(***************************************************************************)
(* The next step: enqueue_work_item inserts its row or returns the one     *)
(* that has its key, and the row returned decides whether to hold it.      *)
(***************************************************************************)
EnqueueStep(c, s) ==
  /\ At(c, "enqueue") /\ s \in run[c].todo
  /\ row' = IF row[s] = "absent" THEN [row EXCEPT ![s] = "ready"] ELSE row
  /\ run' = IF Autonomy = "propose" /\ row'[s] = "ready"
            THEN [run EXCEPT ![c] = [@ EXCEPT !.todo = run[c].todo \ {s}, !.pc = "hold",
                                              !.held = s]]
            ELSE [run EXCEPT ![c].todo = @ \ {s}]
  /\ UNCHANGED <<goalVars, planning, due, bounds>>

\* hold_work_item_for_approval; a row no longer ready ends the round unrecorded.
HoldStep(c) ==
  /\ At(c, "hold")
  /\ LET s == run[c].held
     IN  IF row[s] = "ready"
         THEN /\ row' = [row EXCEPT ![s] = "pending_approval"]
              /\ run' = [run EXCEPT ![c] = [@ EXCEPT !.pc = "enqueue", !.held = NoStep]]
         ELSE Leave(c) /\ UNCHANGED row
  /\ UNCHANGED <<goalVars, planning, due, bounds>>

RecordSucceededRound(c) ==
  /\ At(c, "enqueue") /\ run[c].todo = {}
  /\ RecordRound(c)
  /\ Goto(c, "success")
  /\ UNCHANGED <<goalStatus, failures, cadenceLeft, reactivated, row,
                 planning, due, bounds>>

RecordSuccess(c) ==
  /\ At(c, "success")
  /\ failures' = 0
  /\ Leave(c)
  /\ UNCHANGED <<goalStatus, cadenceLeft, rounds, reactivated, row,
                 planning, due, bounds>>

\* The key's removal, after every outcome.
FinishKeepingKey(c) ==  \* mutant: an early return leaves the key
  /\ At(c, "end")
  /\ run' = [run EXCEPT ![c] = Resting]
  /\ UNCHANGED <<goalVars, row, planning, due, bounds>>

Finish(c) ==
  /\ At(c, "end")
  /\ run' = [run EXCEPT ![c] = Resting]
  /\ planning' = FALSE
  /\ UNCHANGED <<goalVars, row, due, bounds>>

-----------------------------------------------------------------------------
(***************************************************************************)
(* The queue's other users.  A run ends succeeded or cancelled ("over"),   *)
(* buried, ready for a retry, or held by its agent or by the runner.       *)
(***************************************************************************)
Claim(s) ==
  /\ row[s] = "ready"
  /\ row' = [row EXCEPT ![s] = "running"]
  /\ UNCHANGED <<goalVars, planning, run, due, bounds>>

Settle(s, outcome) ==
  /\ row[s] = "running"
  /\ row' = [row EXCEPT ![s] = outcome]
  /\ UNCHANGED <<goalVars, planning, run, due, bounds>>

Approve(s) ==
  /\ row[s] = "pending_approval"
  /\ row' = [row EXCEPT ![s] = "ready"]
  /\ UNCHANGED <<goalVars, planning, run, due, bounds>>

Cancel(s) ==
  /\ row[s] \in {"ready", "running"}
  /\ row' = [row EXCEPT ![s] = "over"]
  /\ UNCHANGED <<goalVars, planning, run, due, bounds>>

Requeue(s) ==
  /\ row[s] = "dead_letter"
  /\ Disturb
  /\ row' = [row EXCEPT ![s] = "ready"]
  /\ requeues' = requeues + 1
  /\ UNCHANGED <<goalVars, planning, run, due>>

(***************************************************************************)
(* set_autonomous_goal_status; consecutive_failures stays.                 *)
(***************************************************************************)
SetStatus(status) ==
  /\ Disturb
  /\ goalStatus' = status
  /\ reactivated' = (reactivated \/ status = "active")
  /\ UNCHANGED <<failures, cadenceLeft, rounds, row, planning, run, due, requeues>>

Older(r) == IF r.pc = "idle" \/ r.age > Hour THEN r ELSE [r EXCEPT !.age = @ + 1]

Tick ==
  /\ \A c \in Callers : ~Checking(c)
  /\ due' = TRUE
  /\ cadenceLeft' = IF cadenceLeft > 0 THEN cadenceLeft - 1 ELSE 0
  /\ rounds' = [age \in Ages |-> IF age \in 1..Hour THEN rounds[age - 1] ELSE 0]
  /\ run' = [c \in Callers |-> Older(run[c])]
  /\ UNCHANGED <<goalStatus, failures, reactivated, row, planning, bounds>>

Crash ==
  /\ Disturb
  /\ run' = [c \in Callers |-> Resting]
  /\ planning' = FALSE /\ due' = TRUE
  /\ UNCHANGED <<goalVars, row, requeues>>

PlannerStep(c) ==
  \/ CheckDeadLetters(c) \/ Pause(c) \/ CheckAllowed(c) \/ CountInFlight(c)
  \/ MarkPlanned(c)
  \/ TurnImpossible(c) \/ TurnFails(c) \/ \E S \in SUBSET Steps : TurnAnswers(c, S)
  \/ RecordFailedRound(c) \/ RecordFailure(c)
  \/ \E s \in Steps : EnqueueStep(c, s)
  \/ HoldStep(c) \/ RecordSucceededRound(c) \/ RecordSuccess(c) \/ Finish(c)

QueueStep(s) ==
  \/ Claim(s)
  \/ \E outcome \in {"over", "dead_letter", "ready", "pending_approval"} :
       Settle(s, outcome)
  \/ Approve(s) \/ Cancel(s) \/ Requeue(s)

Next ==
  \/ \E c \in Callers : Start(c) \/ PlannerStep(c)
  \/ \E s \in Steps : QueueStep(s)
  \/ \E status \in {"active", "paused", "done"} : SetStatus(status)
  \/ Tick \/ Crash

Spec == Init /\ [][Next]_vars

(***************************************************************************)
(* Time passes, the loop calls whenever its interval has elapsed, a round  *)
(* goes on (the engine bounds its turns).  Nobody need work on the rows.   *)
(***************************************************************************)
FairSpec ==
  /\ Spec /\ WF_vars(Tick) /\ WF_vars(Start(Loop))
  /\ \A c \in Callers : WF_vars(PlannerStep(c))

-----------------------------------------------------------------------------
Pcs == {"idle", "begin", "pause", "allowed", "count", "mark", "turn", "failed",
        "failure", "enqueue", "hold", "success", "end"}

Progress == [pc : Pcs, age : Ages, inFlight : Nat,
             todo : SUBSET Steps, held : Steps \cup {NoStep}]

ControlTypeOK ==
  /\ goalStatus \in {"active", "paused", "done"}
  /\ failures \in Nat /\ cadenceLeft \in 0..Cadence
  /\ row \in [Steps -> Open \cup {"absent", "over", "dead_letter"}]
  /\ planning \in BOOLEAN /\ due \in BOOLEAN /\ reactivated \in BOOLEAN
  /\ run \in [Callers -> Progress]
  /\ \A c \in Callers : At(c, "hold") => run[c].held \in Steps
  /\ requeues \in Nat /\ turmoil \in 0..MaxTurmoil

\* The variables have their types, and no round older than the hour is on record.
PlannerTypeOK == ControlTypeOK /\ rounds \in [Ages -> Nat] /\ rounds[Hour + 1] = 0

(***************************************************************************)
(* The goal's open rows never exceed max_in_flight, although the number is *)
(* read before the turn and used after it; only the operator goes beyond,  *)
(* by one row per dead letter requeued.                                    *)
(***************************************************************************)
InFlightBounded == Counted(Open) <= MaxInFlight + requeues

(***************************************************************************)
(* A turn is begun only when cadence_seconds have passed since the last    *)
(* beginning and fewer than max_rounds_per_hour are on record, although    *)
(* the limits are checked three calls before the beginning is recorded,    *)
(* and whichever crash cut the last round short.                           *)
(***************************************************************************)
BeginsWithinLimits ==
  [][\A c \in Callers : At(c, "mark") /\ At(c, "turn")' =>
       cadenceLeft = 0 /\ Number(rounds) < MaxRounds]_vars

(***************************************************************************)
(* A goal whose rounds failed failure_limit times in a row is active only  *)
(* if the user made it so since: each further failure pauses it again.     *)
(***************************************************************************)
FailingGoalPauses == failures >= FailureLimit /\ goalStatus = "active" => reactivated

(***************************************************************************)
(* A goal that may be planned is planned: again and again a turn is under  *)
(* way, the goal is not active, or it has all the rows it may have.        *)
(***************************************************************************)
PlanningResumes ==
  []<>(\/ \E c \in Callers : At(c, "turn")
       \/ goalStatus # "active"
       \/ Counted(Open) >= MaxInFlight
       \/ Counted({"dead_letter"}) >= FailureLimit)

=============================================================================
