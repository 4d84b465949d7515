------------------------- MODULE GoalPlannerProofs -------------------------
(***************************************************************************)
(* Theorems about GoalPlanner for every set of steps and callers, every    *)
(* limit and any number of disturbances.                                   *)
(***************************************************************************)
EXTENDS GoalPlanner, FiniteSetTheorems, TLAPS

(***************************************************************************)
(* At most one caller is inside run_goal_planner, and the key is present   *)
(* while it is.                                                            *)
(***************************************************************************)
OnePlanner ==
  /\ \A a, b \in Callers : ~At(a, "idle") /\ ~At(b, "idle") => a = b
  /\ \A c \in Callers : ~At(c, "idle") => planning

(***************************************************************************)
(* A caller that has passed the check is still within the limits.          *)
(***************************************************************************)
StillAllowed == \A c \in Callers : At(c, "count") \/ At(c, "mark") => WithinLimits

(***************************************************************************)
(* What the round adds fits: rows in flight are at most those counted      *)
(* before the turn, and with the steps still to be enqueued at most        *)
(* max_in_flight, the requeued dead letters apart.                         *)
(***************************************************************************)
RoomKept ==
  \A c \in Callers :
    /\ At(c, "mark") \/ At(c, "turn") =>
         /\ run[c].inFlight <= MaxInFlight
         /\ Counted(Open) <= run[c].inFlight + requeues
    /\ At(c, "enqueue") \/ At(c, "hold") =>
         Counted(Open) + Cardinality(run[c].todo) <= MaxInFlight + requeues

Control == ControlTypeOK /\ OnePlanner
IInv == Control /\ StillAllowed /\ FailingGoalPauses /\ RoomKept /\ InFlightBounded

-----------------------------------------------------------------------------
(***************************************************************************)
(* The number of rows in some statuses is a natural number.                *)
(***************************************************************************)
LEMMA CountedType ==
  ASSUME NEW statuses
  PROVE  /\ Counted(statuses) \in Nat
         /\ IsFiniteSet({s \in Steps : row[s] \in statuses})
<1>1. IsFiniteSet({s \in Steps : row[s] \in statuses})
  BY PlannerAssumption, FS_Subset
<1> QED
  BY <1>1, FS_CardinalityType DEF Counted

(***************************************************************************)
(* A change of one row opens at most one, and none if the row was open or  *)
(* is closed by the change.                                                *)
(***************************************************************************)
LEMMA OneRowChanges ==
  ASSUME NEW s \in Steps, NEW v, row \in [Steps -> Open \cup {"absent", "over", "dead_letter"}],
         row' = [row EXCEPT ![s] = v]
  PROVE  /\ Counted(Open)' \in Nat
         /\ Counted(Open)' <= Counted(Open) + 1
         /\ row[s] \in Open \/ v \notin Open => Counted(Open)' <= Counted(Open)
<1> DEFINE O == {t \in Steps : row[t] \in Open}
           P == {t \in Steps : row'[t] \in Open}
<1>1. IsFiniteSet(O) /\ Cardinality(O) \in Nat
  BY CountedType DEF Counted
<1>2. IsFiniteSet(O \cup {s}) /\ Cardinality(O \cup {s}) <= Cardinality(O) + 1
  <2>1. Cardinality(O \cup {s}) = IF s \in O THEN Cardinality(O) ELSE Cardinality(O) + 1
    BY <1>1, FS_AddElement
  <2> QED
    BY <1>1, <2>1, FS_AddElement
<1>3. P \in SUBSET (O \cup {s})
  OBVIOUS
<1>4. IsFiniteSet(P) /\ Cardinality(P) <= Cardinality(O \cup {s})
  BY <1>2, <1>3, FS_Subset
<1>5. Cardinality(P) \in Nat /\ Cardinality(O \cup {s}) \in Nat
  BY <1>2, <1>4, FS_CardinalityType
<1>6. Cardinality(P) <= Cardinality(O) + 1
  BY <1>1, <1>2, <1>4, <1>5
<1>7. ASSUME row[s] \in Open \/ v \notin Open PROVE Cardinality(P) <= Cardinality(O)
  <2>1. P \in SUBSET O
    BY <1>7
  <2> QED
    BY <1>1, <2>1, FS_Subset
<1> QED
  BY <1>5, <1>6, <1>7 DEF Counted

-----------------------------------------------------------------------------
(***************************************************************************)
(* Before the first round nothing is recorded, enqueued or under way.      *)
(***************************************************************************)
LEMMA InitIInv == Init => IInv
<1> SUFFICES ASSUME Init PROVE IInv
  OBVIOUS
<1> USE PlannerAssumption DEF Init, At, Resting
<1>1. ControlTypeOK
  <2>1. Resting \in Progress
    BY DEF Progress, Pcs, Ages
  <2>2. run \in [Callers -> Progress]
    BY <2>1
  <2>3. row \in [Steps -> Open \cup {"absent", "over", "dead_letter"}]
    OBVIOUS
  <2>4. \A c \in Callers : ~At(c, "hold")
    OBVIOUS
  <2>5. cadenceLeft \in 0..Cadence /\ turmoil \in 0..MaxTurmoil /\ requeues \in Nat
    OBVIOUS
  <2>6. goalStatus = "active" /\ failures = 0 /\ reactivated = FALSE /\ planning = FALSE /\ due = TRUE
    OBVIOUS
  <2> HIDE DEF Init
  <2> QED
    BY <2>2, <2>3, <2>4, <2>5, <2>6 DEF ControlTypeOK
<1>2. OnePlanner /\ StillAllowed
  BY DEF OnePlanner, StillAllowed
<1>3. FailingGoalPauses
  BY DEF FailingGoalPauses
<1>4. Counted(Open) = 0
  <2>1. {s \in Steps : row[s] \in Open} = {}
    BY DEF Open
  <2> QED
    BY <2>1, FS_EmptySet DEF Counted
<1>5. RoomKept /\ InFlightBounded
  BY <1>4 DEF RoomKept, InFlightBounded
<1> QED
  BY <1>1, <1>2, <1>3, <1>5 DEF IInv, Control

(***************************************************************************)
(* What the updates of a round leave in it, field by field.                *)
(***************************************************************************)
Becomes(c, pc, inFlight, todo, held) ==
  /\ run' = [run EXCEPT ![c] = run'[c]]
  /\ run'[c] \in [pc : {pc}, age : {run[c].age}, inFlight : {inFlight}, todo : {todo},
                  held : {held}]

\* The round fails.
LEMMA FailMoves ==
  ASSUME run \in [Callers -> Progress], NEW c \in Callers, Fail(c)
  PROVE  Becomes(c, "failed", 0, run[c].todo, run[c].held)
BY DEF Fail, Becomes, Progress

\* It ends at the limit of open rows, or goes on below it.
LEMMA CountMoves ==
  ASSUME run \in [Callers -> Progress], NEW c \in Callers, CountInFlight(c)
  PROVE  \/ Leave(c)
         \/ /\ Counted(Open) < MaxInFlight
            /\ Becomes(c, "mark", Counted(Open), run[c].todo, run[c].held)
<1>1. PICK n \in Nat : n = Counted(Open)
  BY CountedType
<1>2. ASSUME run' = [run EXCEPT ![c] = [@ EXCEPT !.pc = "mark", !.inFlight = n]]
      PROVE  Becomes(c, "mark", n, run[c].todo, run[c].held)
  BY <1>2 DEF Becomes, Progress
<1>3. CASE n >= MaxInFlight
  BY <1>1, <1>3 DEF CountInFlight
<1>4. CASE n < MaxInFlight
  <2>1. ~(n >= MaxInFlight)
    BY <1>1, <1>4, PlannerAssumption
  <2> QED
    BY <1>1, <1>2, <1>4, <2>1 DEF CountInFlight
<1> QED
  BY <1>1, <1>3, <1>4, PlannerAssumption

\* The steps of the answer are to be enqueued, if they fit.
LEMMA AnswerMoves ==
  ASSUME run \in [Callers -> Progress], NEW c \in Callers, NEW S, TurnAnswers(c, S)
  PROVE  IF Fits(c, S)
         THEN Becomes(c, "enqueue", 0, S, run[c].held)
         ELSE Becomes(c, "failed", 0, run[c].todo, run[c].held)
<1>1. ASSUME run' = [run EXCEPT ![c] = [@ EXCEPT !.pc = "enqueue", !.inFlight = 0, !.todo = S]]
      PROVE  Becomes(c, "enqueue", 0, S, run[c].held)
  BY <1>1 DEF Becomes, Progress
<1> QED
  BY <1>1, FailMoves DEF TurnAnswers

\* A step is enqueued, and held or not.
LEMMA EnqueueMoves ==
  ASSUME run \in [Callers -> Progress], NEW c \in Callers, NEW s, EnqueueStep(c, s)
  PROVE  \/ Becomes(c, "hold", run[c].inFlight, run[c].todo \ {s}, s)
         \/ Becomes(c, "enqueue", run[c].inFlight, run[c].todo \ {s}, run[c].held)
<1>1. PICK S : S = run[c].todo \ {s}
  OBVIOUS
<1>2. ASSUME run' = [run EXCEPT ![c] = [@ EXCEPT !.todo = S, !.pc = "hold", !.held = s]]
      PROVE  Becomes(c, "hold", run[c].inFlight, S, s)
  BY <1>2 DEF Becomes, Progress
<1>3. ASSUME run' = [run EXCEPT ![c].todo = S], run[c].pc = "enqueue"
      PROVE  Becomes(c, "enqueue", run[c].inFlight, S, run[c].held)
  BY <1>3 DEF Becomes, Progress
<1> QED
  BY <1>1, <1>2, <1>3 DEF EnqueueStep, At

\* A held step; the round ends if the store refuses.
LEMMA HoldMoves ==
  ASSUME run \in [Callers -> Progress], NEW c \in Callers, HoldStep(c)
  PROVE  \/ Leave(c) /\ row' = row
         \/ Becomes(c, "enqueue", run[c].inFlight, run[c].todo, NoStep)
<1>1. ASSUME run' = [run EXCEPT ![c] = [@ EXCEPT !.pc = "enqueue", !.held = NoStep]]
      PROVE  Becomes(c, "enqueue", run[c].inFlight, run[c].todo, NoStep)
  BY <1>1 DEF Becomes, Progress
<1> QED
  BY <1>1 DEF HoldStep

(***************************************************************************)
(* A step of one caller's round: it is inside, keeps the key until it      *)
(* leaves, and moves no other caller.                                      *)
(***************************************************************************)
LEMMA RoundMovesOne ==
  ASSUME ControlTypeOK, NEW c \in Callers, PlannerStep(c)
  PROVE  /\ ~At(c, "idle")
         /\ \A d \in Callers : d # c => run'[d] = run[d]
         /\ planning' = planning \/ run'[c].pc = "idle"
<1> USE DEF ControlTypeOK, At, Goto, Leave
<1>1. CASE CheckDeadLetters(c) \/ Pause(c) \/ CheckAllowed(c)
  BY <1>1 DEF CheckDeadLetters, Pause, CheckAllowed, Resting
<1>2. CASE CountInFlight(c) \/ MarkPlanned(c) \/ TurnImpossible(c) \/ TurnFails(c)
  BY <1>2 DEF CountInFlight, MarkPlanned, TurnImpossible, TurnFails, Fail, Resting
<1>3. ASSUME NEW S \in SUBSET Steps, TurnAnswers(c, S)
      PROVE  ~At(c, "idle") /\ planning' = planning /\ \A d \in Callers : d # c => run'[d] = run[d]
  BY <1>3 DEF TurnAnswers, Fail
<1>4. CASE RecordFailedRound(c) \/ RecordFailure(c)
  BY <1>4 DEF RecordFailedRound, RecordFailure, Resting
<1>5. ASSUME NEW s \in Steps, EnqueueStep(c, s)
      PROVE  ~At(c, "idle") /\ planning' = planning /\ \A d \in Callers : d # c => run'[d] = run[d]
  BY <1>5 DEF EnqueueStep
<1>6. CASE HoldStep(c) \/ RecordSucceededRound(c) \/ RecordSuccess(c)
  BY <1>6 DEF HoldStep, RecordSucceededRound, RecordSuccess, Resting
<1>7. CASE Finish(c)
  BY <1>7 DEF Finish, Resting
<1> QED
  BY <1>1, <1>2, <1>3, <1>4, <1>5, <1>6, <1>7 DEF PlannerStep

(***************************************************************************)
(* Every step keeps the types of the control state.                        *)
(***************************************************************************)
LEMMA RoundTypes ==
  ASSUME ControlTypeOK, NEW c \in Callers, PlannerStep(c)
  PROVE  ControlTypeOK'
<1> USE PlannerAssumption DEF ControlTypeOK, At, Goto
<1>1. /\ run[c] \in Progress
      /\ [Resting EXCEPT !.pc = "end"] \in Progress /\ Resting \in Progress
  BY DEF Progress, Resting, Pcs, Ages
<1>2. \A p \in Pcs : [run EXCEPT ![c].pc = p] \in [Callers -> Progress]
  BY <1>1 DEF Progress
<1>3. Leave(c) => /\ run' \in [Callers -> Progress]
                  /\ \A d \in Callers : At(d, "hold")' => run'[d].held \in Steps
  BY <1>1 DEF Leave, Resting
<1>4. ASSUME NEW p \in Pcs, p # "hold", Goto(c, p)
      PROVE  /\ run' \in [Callers -> Progress]
             /\ \A d \in Callers : At(d, "hold")' => run'[d].held \in Steps
  BY <1>2, <1>4 DEF Progress
<1>5. CASE CheckDeadLetters(c) \/ CheckAllowed(c)
  BY <1>3, <1>4, <1>5 DEF CheckDeadLetters, CheckAllowed, goalVars, bounds, Pcs
<1>6. CASE Pause(c)
  BY <1>3, <1>6 DEF Pause, bounds
<1>7. CASE CountInFlight(c)
  <2>1. Counted(Open) \in Nat
    BY CountedType
  <2>2. [run EXCEPT ![c] = [@ EXCEPT !.pc = "mark",
                                     !.inFlight = Counted(Open)]] \in [Callers -> Progress]
    BY <1>1, <2>1 DEF Progress, Pcs
  <2>3. /\ run' \in [Callers -> Progress]
        /\ \A d \in Callers : At(d, "hold")' => run'[d].held \in Steps
    <3>1. CASE Leave(c)
      BY <1>3, <3>1
    <3>2. CASE run' = [run EXCEPT ![c] = [@ EXCEPT !.pc = "mark",
                                                   !.inFlight = Counted(Open)]]
      BY <2>2, <3>2 DEF Progress
    <3> QED
      BY <1>7, <3>1, <3>2 DEF CountInFlight
  <2> QED
    BY <1>7, <2>3 DEF CountInFlight, goalVars, bounds
<1>8. CASE MarkPlanned(c)
  BY <1>4, <1>8 DEF MarkPlanned, bounds, Pcs
<1>9. Fail(c) => /\ run' \in [Callers -> Progress]
                 /\ \A d \in Callers : At(d, "hold")' => run'[d].held \in Steps
  <2>1. [run EXCEPT ![c] = [@ EXCEPT !.pc = "failed",
                                     !.inFlight = 0]] \in [Callers -> Progress]
    BY <1>1 DEF Progress, Pcs
  <2> QED
    BY <2>1 DEF Fail, Progress
<1>10. CASE TurnImpossible(c) \/ TurnFails(c)
  BY <1>3, <1>9, <1>10 DEF TurnImpossible, TurnFails, goalVars, bounds
<1>11. ASSUME NEW S \in SUBSET Steps, TurnAnswers(c, S) PROVE ControlTypeOK'
  <2>1. [run EXCEPT ![c] = [@ EXCEPT !.pc = "enqueue", !.inFlight = 0, !.todo = S]]
          \in [Callers -> Progress]
    BY <1>1 DEF Progress, Pcs
  <2>2. /\ run' \in [Callers -> Progress]
        /\ \A d \in Callers : At(d, "hold")' => run'[d].held \in Steps
    <3>1. CASE Fail(c)
      BY <1>9, <3>1
    <3>2. CASE run' = [run EXCEPT ![c] = [@ EXCEPT !.pc = "enqueue",
                                                   !.inFlight = 0,
                                                   !.todo = S]]
      BY <2>1, <3>2 DEF Progress
    <3> QED
      BY <1>11, <3>1, <3>2 DEF TurnAnswers
  <2> QED
    BY <1>11, <2>2 DEF TurnAnswers, goalVars, bounds
<1>12. CASE RecordFailedRound(c) \/ RecordSucceededRound(c)
  BY <1>4, <1>12 DEF RecordFailedRound, RecordSucceededRound, bounds, Pcs
<1>13. CASE RecordFailure(c)
  <2>1. failures' \in Nat /\ reactivated' \in BOOLEAN
    BY <1>13 DEF RecordFailure, FailsTooOften
  <2> QED
    BY <1>3, <1>13, <2>1 DEF RecordFailure, bounds
<1>14. CASE RecordSuccess(c)
  BY <1>3, <1>14 DEF RecordSuccess, bounds
<1>15. ASSUME NEW s \in Steps, EnqueueStep(c, s) PROVE ControlTypeOK'
  <2>1. row' \in [Steps -> Open \cup {"absent", "over", "dead_letter"}]
    BY <1>15 DEF EnqueueStep, Open
  <2>2. run' \in [Callers -> Progress]
    BY <1>1, <1>15, EnqueueMoves DEF Becomes, Progress, Pcs
  <2>3. \A d \in Callers : At(d, "hold")' => run'[d].held \in Steps
    BY <1>15, EnqueueMoves DEF Becomes, Progress
  <2> QED
    BY <1>15, <2>1, <2>2, <2>3 DEF EnqueueStep, goalVars, bounds
<1>16. CASE HoldStep(c)
  <2>1. row' \in [Steps -> Open \cup {"absent", "over", "dead_letter"}]
    BY <1>16 DEF HoldStep, Open
  <2>2. [run EXCEPT ![c] = [@ EXCEPT !.pc = "enqueue",
                                     !.held = NoStep]] \in [Callers -> Progress]
    BY <1>1 DEF Progress, Pcs
  <2>3. \A d \in Callers : At(d, "hold")' => run'[d].held \in Steps
    BY <1>3, <1>16, HoldMoves DEF Becomes, Progress
  <2> QED
    BY <1>3, <1>16, <2>1, <2>2, <2>3 DEF HoldStep, goalVars, bounds
<1>17. CASE Finish(c)
  BY <1>1, <1>17 DEF Finish, goalVars, bounds, Resting
<1> QED
  BY <1>5, <1>6, <1>7, <1>8, <1>10, <1>11, <1>12, <1>13, <1>14, <1>15, <1>16, <1>17 DEF PlannerStep

(***************************************************************************)
(* What the queue's other users do: one row changes and no round moves; a  *)
(* row that is opened was a dead letter and is counted as requeued.        *)
(***************************************************************************)
LEMMA QueueMovesOneRow ==
  ASSUME ControlTypeOK, NEW s \in Steps, QueueStep(s)
  PROVE  /\ UNCHANGED <<goalVars, planning, run, due>>
         /\ row' \in [Steps -> Open \cup {"absent", "over", "dead_letter"}]
         /\ requeues' \in Nat /\ turmoil' \in 0..MaxTurmoil
         /\ requeues' >= requeues
         /\ Counted(Open)' \in Nat
         /\ Counted(Open)' - requeues' <= Counted(Open) - requeues
<1> DEFINE Goal == /\ UNCHANGED <<goalVars, planning, run, due>>
                   /\ row' \in [Steps -> Open \cup {"absent", "over", "dead_letter"}]
                   /\ requeues' \in Nat /\ turmoil' \in 0..MaxTurmoil
                   /\ requeues' >= requeues
                   /\ Counted(Open)' \in Nat
                   /\ Counted(Open)' - requeues' <= Counted(Open) - requeues
<1>1. Counted(Open) \in Nat
  BY CountedType
<1>2. ASSUME NEW v \in Open \cup {"over", "dead_letter"}, row' = [row EXCEPT ![s] = v],
             row[s] \in Open, UNCHANGED <<goalVars, planning, run, due, bounds>>
      PROVE  Goal
  <2>1. Counted(Open)' \in Nat /\ Counted(Open)' <= Counted(Open)
    BY <1>2, OneRowChanges DEF ControlTypeOK
  <2>2. row' \in [Steps -> Open \cup {"absent", "over", "dead_letter"}]
    BY <1>2 DEF ControlTypeOK
  <2> QED
    BY <1>1, <1>2, <2>1, <2>2 DEF ControlTypeOK, bounds
<1>3. CASE Claim(s) \/ Approve(s) \/ Cancel(s)
  BY <1>2, <1>3 DEF Claim, Approve, Cancel, Open
<1>4. ASSUME NEW outcome \in {"over", "dead_letter", "ready", "pending_approval"},
             Settle(s, outcome)
      PROVE  Goal
  BY <1>2, <1>4 DEF Settle, Open
<1>5. CASE Requeue(s)
  <2>1. Counted(Open)' \in Nat /\ Counted(Open)' <= Counted(Open) + 1
    BY <1>5, OneRowChanges DEF Requeue, ControlTypeOK
  <2>2. row' \in [Steps -> Open \cup {"absent", "over", "dead_letter"}]
    BY <1>5 DEF Requeue, ControlTypeOK, Open
  <2>3. turmoil' \in 0..MaxTurmoil
    BY <1>5, PlannerAssumption DEF Requeue, Disturb, ControlTypeOK
  <2>4. requeues \in Nat /\ requeues' = requeues + 1
    BY <1>5 DEF Requeue, ControlTypeOK
  <2> QED
    BY <1>1, <1>5, <2>1, <2>2, <2>3, <2>4 DEF Requeue
<1> QED
  BY <1>3, <1>4, <1>5 DEF QueueStep

(***************************************************************************)
(* A tick moves no round and keeps what the round knows.                   *)
(***************************************************************************)
LEMMA TickAges ==
  ASSUME ControlTypeOK, Tick
  PROVE  /\ ControlTypeOK'
         /\ \A c \in Callers : /\ run'[c].pc = run[c].pc
                               /\ run'[c].inFlight = run[c].inFlight
                               /\ run'[c].todo = run[c].todo
<1>1. \A c \in Callers : run[c] \in Progress
  BY DEF ControlTypeOK
<1>2. \A c \in Callers : /\ Older(run[c]) \in Progress
                         /\ Older(run[c]).pc = run[c].pc
                         /\ Older(run[c]).inFlight = run[c].inFlight
                         /\ Older(run[c]).todo = run[c].todo
                         /\ Older(run[c]).held = run[c].held
  BY <1>1, PlannerAssumption DEF Older, Progress, Ages
<1>3. \A c \in Callers : run'[c] = Older(run[c])
  BY DEF Tick
<1>4. run' \in [Callers -> Progress]
  BY <1>2 DEF Tick
<1>5. \A c \in Callers : At(c, "hold")' => run'[c].held \in Steps
  BY <1>2, <1>3 DEF ControlTypeOK, At
<1>6. cadenceLeft' \in 0..Cadence
  BY PlannerAssumption DEF Tick, ControlTypeOK
<1>7. ControlTypeOK'
  BY <1>4, <1>5, <1>6 DEF Tick, ControlTypeOK, bounds
<1> QED
  BY <1>2, <1>3, <1>7

(***************************************************************************)
(* Every step keeps the types and admits one planner at a time.            *)
(***************************************************************************)
LEMMA StepControl == Control /\ [Next]_vars => Control'
<1> SUFFICES ASSUME Control, [Next]_vars PROVE ControlTypeOK' /\ OnePlanner'
  BY DEF Control
<1> USE PlannerAssumption
<1>1. ASSUME NEW c \in Callers, Start(c) PROVE ControlTypeOK' /\ OnePlanner'
  <2>1. turmoil' \in 0..MaxTurmoil
    BY <1>1 DEF Start, Disturb, Control, ControlTypeOK
  <2>2. due' \in BOOLEAN
    BY <1>1 DEF Start, Control, ControlTypeOK
  <2>3. CASE planning
    BY <1>1, <2>1, <2>2, <2>3 DEF Start, Control, ControlTypeOK, OnePlanner, At, goalVars
  <2>4. CASE ~planning
    <3>1. /\ planning' = TRUE
          /\ run' = [run EXCEPT ![c].pc = "begin"]
          /\ UNCHANGED <<goalStatus, failures, cadenceLeft, reactivated, row, requeues>>
      BY <1>1, <2>4 DEF Start, Goto, goalVars
    <3>2. run' \in [Callers -> Progress]
      BY <3>1 DEF Control, ControlTypeOK, Progress, Pcs
    <3>3. /\ \A d \in Callers : d # c => run'[d].pc = "idle"
          /\ run'[c].pc = "begin"
      BY <2>4, <3>1 DEF Control, ControlTypeOK, OnePlanner, At, Progress
    <3>4. OnePlanner'
      BY <3>1, <3>3 DEF OnePlanner, At
    <3>5. \A d \in Callers : ~At(d, "hold")'
      BY <3>3 DEF At
    <3> QED
      BY <2>1, <2>2, <3>1, <3>2, <3>4, <3>5 DEF Control, ControlTypeOK
  <2> QED
    BY <2>3, <2>4 DEF Control, ControlTypeOK
<1>2. ASSUME NEW c \in Callers, PlannerStep(c) PROVE ControlTypeOK' /\ OnePlanner'
  <2>1. ControlTypeOK'
    BY <1>2, RoundTypes DEF Control
  <2>2. /\ ~At(c, "idle")
        /\ \A d \in Callers : d # c => run'[d] = run[d]
        /\ planning' = planning \/ run'[c].pc = "idle"
    BY <1>2, RoundMovesOne DEF Control
  <2>3. \A d \in Callers : d # c => run'[d].pc = "idle"
    BY <2>2 DEF Control, OnePlanner, At
  <2> QED
    BY <2>1, <2>2, <2>3 DEF Control, OnePlanner, At
<1>3. ASSUME NEW s \in Steps, QueueStep(s) PROVE ControlTypeOK' /\ OnePlanner'
  <2>1. /\ UNCHANGED <<goalVars, planning, run, due>>
        /\ row' \in [Steps -> Open \cup {"absent", "over", "dead_letter"}]
        /\ requeues' \in Nat /\ turmoil' \in 0..MaxTurmoil
    BY <1>3, QueueMovesOneRow DEF Control
  <2> QED
    BY <2>1 DEF Control, ControlTypeOK, OnePlanner, At, goalVars
<1>4. ASSUME NEW status \in {"active", "paused", "done"}, SetStatus(status)
      PROVE  ControlTypeOK' /\ OnePlanner'
  <2>1. turmoil' \in 0..MaxTurmoil
    BY <1>4 DEF SetStatus, Disturb, Control, ControlTypeOK
  <2>2. reactivated' \in BOOLEAN
    BY <1>4 DEF SetStatus, Control, ControlTypeOK
  <2> QED
    BY <1>4, <2>1, <2>2 DEF SetStatus, Control, ControlTypeOK, OnePlanner, At
<1>5. CASE Tick
  <2>1. ControlTypeOK' /\ \A c \in Callers : run'[c].pc = run[c].pc
    BY <1>5, TickAges DEF Control
  <2> QED
    BY <1>5, <2>1 DEF Tick, Control, OnePlanner, At
<1>6. CASE Crash
  <2>1. turmoil' \in 0..MaxTurmoil
    BY <1>6 DEF Crash, Disturb, Control, ControlTypeOK
  <2>2. run' \in [Callers -> Progress] /\ \A c \in Callers : run'[c].pc = "idle"
    BY <1>6 DEF Crash, Resting, Progress, Pcs, Ages
  <2> QED
    BY <1>6, <2>1, <2>2 DEF Crash, Control, ControlTypeOK, OnePlanner, At, goalVars
<1>7. CASE UNCHANGED vars
  BY <1>7 DEF vars, goalVars, bounds, Control, ControlTypeOK, OnePlanner, At
<1> QED
  BY <1>1, <1>2, <1>3, <1>4, <1>5, <1>6, <1>7 DEF Next

(***************************************************************************)
(* A step that leaves a caller past the check found it there or checked,   *)
(* and neither the cadence nor the rounds moved: only a round's own end    *)
(* records, and only a tick, which waits for the beginning, ages.          *)
(***************************************************************************)
LEMMA StepAllowed == Control /\ StillAllowed /\ [Next]_vars => StillAllowed'
<1> SUFFICES ASSUME Control, StillAllowed, [Next]_vars,
                    NEW c \in Callers, run'[c].pc \in {"count", "mark"}
             PROVE  WithinLimits'
  BY DEF StillAllowed, At
<1> USE DEF Control, ControlTypeOK, At
<1>1. ASSUME cadenceLeft' = cadenceLeft, rounds' = rounds, run'[c].pc = run[c].pc
      PROVE  WithinLimits'
  BY <1>1 DEF StillAllowed, WithinLimits
<1>2. ASSUME NEW d \in Callers, Start(d) PROVE WithinLimits'
  <2>1. run'[c].pc = run[c].pc
    BY <1>2 DEF Start, Goto, Progress
  <2> QED
    BY <1>1, <1>2, <2>1 DEF Start, goalVars
<1>3. ASSUME NEW d \in Callers, PlannerStep(d) PROVE WithinLimits'
  <2>1. CASE d # c
    <3>1. ~At(d, "idle") /\ run'[c] = run[c]
      BY <1>3, <2>1, RoundMovesOne
    <3> QED
      BY <2>1, <3>1 DEF OnePlanner
  <2>2. CASE d = c
    <3>1. CheckAllowed(c) \/ CountInFlight(c)
      <4>1. run[c] \in Progress
        OBVIOUS
      <4>2. ASSUME NEW S \in SUBSET Steps, TurnAnswers(c, S) PROVE FALSE
        BY <4>1, <4>2, AnswerMoves DEF Becomes, Progress
      <4>3. ASSUME NEW s \in Steps, EnqueueStep(c, s) PROVE FALSE
        BY <4>1, <4>3 DEF EnqueueStep, Progress
      <4>4. ~CheckDeadLetters(c) /\ ~MarkPlanned(c) /\ ~RecordFailedRound(c) /\ ~RecordSucceededRound(c)
        BY <4>1 DEF CheckDeadLetters, MarkPlanned, RecordFailedRound, RecordSucceededRound, Goto, Progress
      <4>5. ~Leave(c)
        BY <4>1 DEF Leave, Resting
      <4>6. ~Pause(c) /\ ~TurnImpossible(c) /\ ~RecordFailure(c) /\ ~RecordSuccess(c)
        BY <4>5 DEF Pause, TurnImpossible, RecordFailure, RecordSuccess
      <4>7. ~TurnFails(c) /\ ~Finish(c)
        BY <4>1, FailMoves DEF TurnFails, Finish, Resting, Becomes, Progress
      <4>8. ~HoldStep(c)
        BY <4>1, <4>5, HoldMoves DEF Becomes, Progress
      <4> QED
        BY <1>3, <2>2, <4>2, <4>3, <4>4, <4>6, <4>7, <4>8 DEF PlannerStep
    <3>2. CASE CheckAllowed(c)
      <4>1. WithinLimits
        BY <3>2 DEF CheckAllowed, Leave, Resting
      <4> QED
        BY <3>2, <4>1 DEF CheckAllowed, goalVars, WithinLimits
    <3>3. CASE CountInFlight(c)
      BY <3>3 DEF CountInFlight, goalVars, StillAllowed, WithinLimits
    <3> QED
      BY <3>1, <3>2, <3>3
  <2> QED
    BY <2>1, <2>2
<1>4. ASSUME NEW s \in Steps, QueueStep(s) PROVE WithinLimits'
  BY <1>1, <1>4, QueueMovesOneRow DEF goalVars
<1>5. ASSUME NEW status \in {"active", "paused", "done"}, SetStatus(status) PROVE WithinLimits'
  BY <1>1, <1>5 DEF SetStatus
<1>6. CASE Tick
  <2>1. run'[c].pc = run[c].pc /\ ~Checking(c)
    BY <1>6, TickAges DEF Tick
  <2> QED
    BY <2>1 DEF Checking
<1>7. CASE Crash
  BY <1>7 DEF Crash, Resting
<1>8. CASE UNCHANGED vars
  BY <1>1, <1>8 DEF vars, goalVars
<1> QED
  BY <1>2, <1>3, <1>4, <1>5, <1>6, <1>7, <1>8 DEF Next

(***************************************************************************)
(* Failures grow only together with the test that pauses the goal, and     *)
(* only the user makes it active.                                          *)
(***************************************************************************)
LEMMA StepFailing == Control /\ FailingGoalPauses /\ [Next]_vars => FailingGoalPauses'
<1> SUFFICES ASSUME Control, FailingGoalPauses, [Next]_vars PROVE FailingGoalPauses'
  OBVIOUS
<1> USE PlannerAssumption DEF Control, ControlTypeOK, FailingGoalPauses
<1>1. ASSUME UNCHANGED <<goalStatus, failures, reactivated>> PROVE FailingGoalPauses'
  BY <1>1
<1>2. ASSUME NEW c \in Callers, Start(c) PROVE FailingGoalPauses'
  BY <1>1, <1>2 DEF Start, goalVars
<1>3. ASSUME NEW c \in Callers, PlannerStep(c) PROVE FailingGoalPauses'
  <2>1. CASE CheckDeadLetters(c) \/ CheckAllowed(c) \/ CountInFlight(c) \/ TurnImpossible(c)
             \/ TurnFails(c) \/ HoldStep(c) \/ Finish(c)
    BY <1>1, <2>1 DEF CheckDeadLetters, CheckAllowed, CountInFlight, TurnImpossible, TurnFails,
                      HoldStep, Finish, goalVars
  <2>2. CASE MarkPlanned(c) \/ RecordFailedRound(c) \/ RecordSucceededRound(c)
    BY <1>1, <2>2 DEF MarkPlanned, RecordFailedRound, RecordSucceededRound
  <2>3. ASSUME NEW S \in SUBSET Steps, TurnAnswers(c, S) PROVE FailingGoalPauses'
    BY <1>1, <2>3 DEF TurnAnswers, goalVars
  <2>4. ASSUME NEW s \in Steps, EnqueueStep(c, s) PROVE FailingGoalPauses'
    BY <1>1, <2>4 DEF EnqueueStep, goalVars
  <2>5. CASE Pause(c)
    BY <2>5 DEF Pause
  <2>6. CASE RecordFailure(c)
    BY <2>6 DEF RecordFailure, FailsTooOften
  <2>7. CASE RecordSuccess(c)
    BY <2>7 DEF RecordSuccess
  <2> QED
    BY <1>3, <2>1, <2>2, <2>3, <2>4, <2>5, <2>6, <2>7 DEF PlannerStep
<1>4. ASSUME NEW s \in Steps, QueueStep(s) PROVE FailingGoalPauses'
  BY <1>1, <1>4, QueueMovesOneRow DEF goalVars
<1>5. ASSUME NEW status \in {"active", "paused", "done"}, SetStatus(status)
      PROVE  FailingGoalPauses'
  BY <1>5 DEF SetStatus
<1>6. CASE Tick
  BY <1>1, <1>6 DEF Tick
<1>7. CASE Crash
  BY <1>1, <1>7 DEF Crash, goalVars
<1>8. CASE UNCHANGED vars
  BY <1>1, <1>8 DEF vars, goalVars
<1> QED
  BY <1>2, <1>3, <1>4, <1>5, <1>6, <1>7, <1>8 DEF Next

(***************************************************************************)
(* A step that opens no row beyond those requeued, and brings no caller    *)
(* into the turn or to the steps' enqueuing, keeps the room.               *)
(***************************************************************************)
LEMMA RoomStays ==
  ASSUME Control, Control', RoomKept, InFlightBounded,
         Counted(Open)' - requeues' <= Counted(Open) - requeues,
         \A c \in Callers :
           /\ run'[c].pc \in {"mark", "turn"} =>
                run[c].pc \in {"mark", "turn"} /\ run'[c].inFlight = run[c].inFlight
           /\ run'[c].pc \in {"enqueue", "hold"} =>
                run[c].pc \in {"enqueue", "hold"} /\ run'[c].todo = run[c].todo
  PROVE  RoomKept' /\ InFlightBounded'
<1>1. Counted(Open) \in Nat
  BY CountedType
<1>2. Counted(Open)' \in Nat
  <2>1. IsFiniteSet({s \in Steps : row'[s] \in Open})
    BY PlannerAssumption, FS_Subset
  <2> QED
    BY <2>1, FS_CardinalityType DEF Counted
<1>3. requeues \in Nat /\ requeues' \in Nat /\ MaxInFlight \in Nat
  BY PlannerAssumption DEF Control, ControlTypeOK
<1> DEFINE n == Counted(Open)  m == Counted(Open)'
<1>4. InFlightBounded'
  <2>1. n <= MaxInFlight + requeues
    BY DEF InFlightBounded
  <2>2. m <= MaxInFlight + requeues'
    <3> HIDE DEF n, m
    <3> QED
      BY <1>1, <1>2, <1>3, <2>1 DEF n, m
  <2> QED
    BY <2>2 DEF InFlightBounded
<1>5. ASSUME NEW c \in Callers, run'[c].pc \in {"mark", "turn"}
      PROVE  run'[c].inFlight <= MaxInFlight /\ m <= run'[c].inFlight + requeues'
  <2>1. /\ run'[c].inFlight = run[c].inFlight /\ run[c].inFlight \in Nat
        /\ run[c].inFlight <= MaxInFlight /\ n <= run[c].inFlight + requeues
    BY <1>5 DEF RoomKept, At, Control, ControlTypeOK, Progress
  <2> HIDE DEF n, m
  <2> QED
    BY <1>1, <1>2, <1>3, <2>1 DEF n, m
<1>6. ASSUME NEW c \in Callers, run'[c].pc \in {"enqueue", "hold"}
      PROVE  m + Cardinality(run'[c].todo) <= MaxInFlight + requeues'
  <2>1. run'[c].todo = run[c].todo /\ run[c].todo \in SUBSET Steps
    BY <1>6 DEF Control, ControlTypeOK, Progress
  <2>2. n + Cardinality(run[c].todo) <= MaxInFlight + requeues
    BY <1>6 DEF RoomKept, At
  <2>3. Cardinality(run[c].todo) \in Nat
    BY <2>1, PlannerAssumption, FS_Subset, FS_CardinalityType
  <2> HIDE DEF n, m
  <2> QED
    BY <1>1, <1>2, <1>3, <2>1, <2>2, <2>3 DEF n, m
<1> QED
  BY <1>4, <1>5, <1>6 DEF RoomKept, At

(***************************************************************************)
(* Every step keeps the room.  The three that matter: the count, which is  *)
(* taken below max_in_flight; the answer, which is measured against that   *)
(* count; the enqueuing, which opens at most one row for one step less.    *)
(***************************************************************************)
LEMMA StepRoom == Control /\ RoomKept /\ InFlightBounded /\ [Next]_vars
                    => RoomKept' /\ InFlightBounded'
<1> SUFFICES ASSUME Control, RoomKept, InFlightBounded, [Next]_vars
             PROVE  RoomKept' /\ InFlightBounded'
  OBVIOUS
<1>1. Control'
  BY StepControl
<1>2. Counted(Open) \in Nat /\ requeues \in Nat /\ MaxInFlight \in Nat
  BY CountedType, PlannerAssumption DEF Control, ControlTypeOK
<1>3. row' = row => Counted(Open)' = Counted(Open)
  BY DEF Counted
<1> DEFINE Kept == RoomKept' /\ InFlightBounded'
<1> DEFINE NoneComes ==
      \A c \in Callers :
        /\ run'[c].pc \in {"mark", "turn"} =>
             run[c].pc \in {"mark", "turn"} /\ run'[c].inFlight = run[c].inFlight
        /\ run'[c].pc \in {"enqueue", "hold"} =>
             run[c].pc \in {"enqueue", "hold"} /\ run'[c].todo = run[c].todo
<1>4. ASSUME NoneComes, row' = row, requeues' = requeues PROVE Kept
  <2>1. Counted(Open)' - requeues' <= Counted(Open) - requeues
    BY <1>2, <1>3, <1>4
  <2> QED
    BY <1>1, <1>4, <2>1, RoomStays
<1>5. \A c \in Callers : run[c] \in Progress
  BY DEF Control, ControlTypeOK
<1>6. run \in [Callers -> Progress]
  BY DEF Control, ControlTypeOK
<1> DEFINE RoomOf(c) ==
      /\ run'[c].pc \in {"mark", "turn"} =>
           run'[c].inFlight <= MaxInFlight /\ Counted(Open)' <= run'[c].inFlight + requeues'
      /\ run'[c].pc \in {"enqueue", "hold"} =>
           Counted(Open)' + Cardinality(run'[c].todo) <= MaxInFlight + requeues'
<1>7. ASSUME NEW c \in Callers, run[c].pc # "idle", RoomOf(c), requeues' = requeues,
              Counted(Open)' <= MaxInFlight + requeues,
              \A d \in Callers : d # c => run'[d] = run[d]
       PROVE  Kept
  <2>1. \A d \in Callers : d # c => run'[d].pc = "idle"
    BY <1>7 DEF Control, OnePlanner, At
  <2>2. RoomKept'
    BY <1>7, <2>1 DEF RoomKept, At
  <2> QED
    BY <1>7, <2>2 DEF InFlightBounded
<1>8. ASSUME NEW c \in Callers, run[c].pc # "idle", RoomOf(c), requeues' = requeues, row' = row,
              \A d \in Callers : d # c => run'[d] = run[d]
       PROVE  Kept
  BY <1>3, <1>8, <1>7 DEF InFlightBounded
<1>9. ASSUME NEW c \in Callers, Start(c) PROVE Kept
  <2>1. NoneComes
    BY <1>5, <1>6, <1>9 DEF Start, Goto, Progress
  <2> QED
    BY <1>4, <1>9, <2>1 DEF Start
<1>10. ASSUME NEW c \in Callers, PlannerStep(c) PROVE Kept
  <2>1. Leave(c) => NoneComes
    BY <1>5, <1>6 DEF Leave, Resting
  <2>2. Fail(c) => NoneComes
    BY <1>5, <1>6 DEF Fail, Progress
  <2>3. ASSUME NEW p \in Pcs \ {"mark", "turn", "enqueue", "hold"}, Goto(c, p) PROVE NoneComes
    BY <1>5, <1>6, <2>3 DEF Goto, Progress
  <2>4. CASE CheckDeadLetters(c) \/ CheckAllowed(c)
    <3>1. NoneComes
      BY <2>1, <2>3, <2>4 DEF CheckDeadLetters, CheckAllowed, Pcs
    <3> QED
      BY <1>4, <2>4, <3>1 DEF CheckDeadLetters, CheckAllowed, bounds
  <2>5. CASE Pause(c) \/ RecordFailure(c) \/ RecordSuccess(c) \/ TurnImpossible(c)
    <3>1. NoneComes
      BY <2>1, <2>5 DEF Pause, RecordFailure, RecordSuccess, TurnImpossible
    <3> QED
      BY <1>4, <2>5, <3>1 DEF Pause, RecordFailure, RecordSuccess, TurnImpossible, bounds
  <2>6. CASE RecordFailedRound(c) \/ RecordSucceededRound(c)
    <3>1. NoneComes
      BY <2>3, <2>6 DEF RecordFailedRound, RecordSucceededRound, Pcs
    <3> QED
      BY <1>4, <2>6, <3>1 DEF RecordFailedRound, RecordSucceededRound, bounds
  <2>7. CASE TurnFails(c)
    BY <1>4, <2>2, <2>7 DEF TurnFails, bounds
  <2>8. CASE MarkPlanned(c)
    <3>1. NoneComes
      BY <1>5, <1>6, <2>8 DEF MarkPlanned, Goto, At, Progress
    <3> QED
      BY <1>4, <2>8, <3>1 DEF MarkPlanned, bounds
  <2>9. CASE Finish(c)
    <3>1. NoneComes
      BY <1>5, <1>6, <2>9 DEF Finish, Resting
    <3> QED
      BY <1>4, <2>9, <3>1 DEF Finish, bounds
  <2>10. CASE CountInFlight(c)
    <3>1. row' = row /\ requeues' = requeues
      BY <2>10 DEF CountInFlight, bounds
    <3>2. CASE Leave(c)
      BY <1>4, <2>1, <3>1, <3>2
    <3>3. CASE ~Leave(c)
      <4>1. /\ run'[c].pc = "mark" /\ run'[c].inFlight = Counted(Open)
            /\ \A d \in Callers : d # c => run'[d] = run[d]
            /\ Counted(Open) < MaxInFlight
        BY <1>5, <1>6, <2>10, <3>3, CountMoves DEF Becomes, Progress
      <4>2. RoomOf(c)
        BY <1>2, <1>3, <3>1, <4>1
      <4>3. run[c].pc # "idle"
        BY <1>10, RoundMovesOne DEF Control, At
      <4> QED
        BY <3>1, <4>1, <4>2, <4>3, <1>8
    <3> QED
      BY <3>2, <3>3
  <2>11. ASSUME NEW S \in SUBSET Steps, TurnAnswers(c, S) PROVE Kept
    <3>1. row' = row /\ requeues' = requeues
      BY <2>11 DEF TurnAnswers, bounds
    <3>2. CASE ~Fits(c, S)
      BY <1>4, <2>2, <2>11, <3>1, <3>2 DEF TurnAnswers
    <3>3. CASE Fits(c, S)
      <4>1. /\ run'[c].pc = "enqueue" /\ run'[c].todo = S
            /\ \A d \in Callers : d # c => run'[d] = run[d]
        BY <1>5, <1>6, <2>11, <3>3 DEF TurnAnswers, Progress
      <4>2. Counted(Open) <= run[c].inFlight + requeues /\ run[c].inFlight \in Nat
        BY <1>5, <2>11 DEF TurnAnswers, RoomKept, At, Progress
      <4>3. Cardinality(S) \in Nat /\ Cardinality(S) <= MaxInFlight - run[c].inFlight
        BY <3>3, PlannerAssumption, FS_Subset, FS_CardinalityType DEF Fits
      <4>4. Counted(Open) + Cardinality(S) <= MaxInFlight + requeues
        BY <1>2, <4>2, <4>3
      <4>5. RoomOf(c)
        BY <1>3, <3>1, <4>1, <4>4
      <4>6. run[c].pc # "idle"
        BY <1>10, RoundMovesOne DEF Control, At
      <4> QED
        BY <1>8, <3>1, <4>1, <4>5, <4>6
    <3> QED
      BY <3>2, <3>3
  <2>12. ASSUME NEW s \in Steps, EnqueueStep(c, s) PROVE Kept
    <3>1. /\ run[c].pc = "enqueue" /\ s \in run[c].todo /\ requeues' = requeues
          /\ run'[c].pc \in {"enqueue", "hold"} /\ run'[c].todo = run[c].todo \ {s}
          /\ \A d \in Callers : d # c => run'[d] = run[d]
      BY <1>5, <1>6, <2>12, EnqueueMoves DEF EnqueueStep, At, bounds, Becomes, Progress
    <3>2. /\ IsFiniteSet(run[c].todo)
          /\ Cardinality(run[c].todo) \in Nat /\ Cardinality(run'[c].todo) \in Nat
          /\ Cardinality(run'[c].todo) = Cardinality(run[c].todo) - 1
      <4>1. IsFiniteSet(run[c].todo)
        BY <1>5, PlannerAssumption, FS_Subset DEF Progress
      <4>2. IsFiniteSet(run'[c].todo)
        BY <3>1, <4>1, FS_RemoveElement
      <4> QED
        BY <3>1, <4>1, <4>2, FS_CardinalityType, FS_RemoveElement
    <3>3. Counted(Open)' \in Nat /\ Counted(Open)' <= Counted(Open) + 1
      <4>1. CASE row' = row
        BY <1>2, <1>3, <4>1
      <4>2. CASE row' = [row EXCEPT ![s] = "ready"]
        BY <4>2, OneRowChanges DEF Control, ControlTypeOK
      <4> QED
        BY <2>12, <4>1, <4>2 DEF EnqueueStep
    <3>4. Counted(Open) + Cardinality(run[c].todo) <= MaxInFlight + requeues
      BY <3>1 DEF RoomKept, At
    <3>5. Counted(Open)' + Cardinality(run'[c].todo) <= MaxInFlight + requeues
      BY <1>2, <3>2, <3>3, <3>4
    <3>6. Counted(Open)' <= MaxInFlight + requeues
      BY <1>2, <3>2, <3>3, <3>4
    <3>7. RoomOf(c)
      BY <3>1, <3>5
    <3> QED
      BY <1>7, <3>1, <3>6, <3>7
  <2>13. CASE HoldStep(c)
    <3>1. requeues' = requeues
      BY <2>13 DEF HoldStep, bounds
    <3>2. CASE Leave(c) /\ row' = row
      BY <1>4, <2>1, <3>1, <3>2
    <3>3. CASE ~(Leave(c) /\ row' = row)
      <4>1. /\ run[c].held \in Steps /\ row[run[c].held] = "ready"
            /\ row' = [row EXCEPT ![run[c].held] = "pending_approval"]
        BY <2>13, <3>3 DEF HoldStep, Control, ControlTypeOK
      <4>2. Counted(Open)' \in Nat /\ Counted(Open)' <= Counted(Open)
        BY <4>1, OneRowChanges DEF Control, ControlTypeOK, Open
      <4>3. NoneComes
        BY <1>5, <1>6, <2>13, <3>3, HoldMoves DEF HoldStep, At, Becomes, Progress
      <4>4. Counted(Open)' - requeues' <= Counted(Open) - requeues
        BY <1>2, <3>1, <4>2
      <4> QED
        BY <1>1, <4>3, <4>4, RoomStays
    <3> QED
      BY <3>2, <3>3
  <2> QED
    BY <1>10, <2>4, <2>5, <2>6, <2>7, <2>8, <2>9, <2>10, <2>11, <2>12, <2>13 DEF PlannerStep
<1>11. ASSUME NEW s \in Steps, QueueStep(s) PROVE Kept
  <2>1. run' = run /\ Counted(Open)' - requeues' <= Counted(Open) - requeues
    BY <1>11, QueueMovesOneRow DEF Control
  <2> QED
    BY <1>1, <2>1, RoomStays
<1>12. ASSUME NEW status \in {"active", "paused", "done"}, SetStatus(status) PROVE Kept
  BY <1>4, <1>12 DEF SetStatus
<1>13. CASE Tick
  <2>1. NoneComes
    BY <1>13, TickAges DEF Control
  <2> QED
    BY <1>4, <1>13, <2>1 DEF Tick, bounds
<1>14. CASE Crash
  <2>1. NoneComes
    BY <1>14 DEF Crash, Resting
  <2> QED
    BY <1>4, <1>14, <2>1 DEF Crash
<1>15. CASE UNCHANGED vars
  BY <1>4, <1>15 DEF vars, bounds
<1> QED
  BY <1>9, <1>10, <1>11, <1>12, <1>13, <1>14, <1>15 DEF Next

\* Every part of the inductive invariant is kept.
LEMMA StepIInv == IInv /\ [Next]_vars => IInv'
BY StepControl, StepAllowed, StepFailing, StepRoom DEF IInv

(***************************************************************************)
(* The inductive invariant holds in every reachable state.                 *)
(***************************************************************************)
THEOREM PlannerInvariant == Spec => []IInv
BY InitIInv, StepIInv, PTL DEF Spec

-----------------------------------------------------------------------------
(***************************************************************************)
(* Only the end of a round records one, under an age within the hour, and  *)
(* only a tick ages those on record; the hour's last falls off.            *)
(***************************************************************************)
RoundsInHour == rounds \in [Ages -> Nat] /\ rounds[Hour + 1] = 0

\* A round is on record for an hour at most.
LEMMA StepRounds == ControlTypeOK /\ RoundsInHour /\ [Next]_vars => RoundsInHour'
<1> SUFFICES ASSUME ControlTypeOK, RoundsInHour, [Next]_vars
             PROVE  RoundsInHour'
  OBVIOUS
<1>1. rounds' = rounds => RoundsInHour'
  BY DEF RoundsInHour
<1>2. ASSUME NEW c \in Callers, RecordRound(c) PROVE RoundsInHour'
  <2>1. run[c].age \in Ages
    BY DEF ControlTypeOK, Progress
  <2> QED
    BY <1>2, <2>1, PlannerAssumption DEF RecordRound, RoundsInHour, Ages
<1>3. ASSUME NEW c \in Callers, Start(c) \/ PlannerStep(c) PROVE RoundsInHour'
  <2>1. CASE RecordFailedRound(c) \/ RecordSucceededRound(c)
    BY <1>2, <2>1 DEF RecordFailedRound, RecordSucceededRound
  <2>2. CASE ~(RecordFailedRound(c) \/ RecordSucceededRound(c))
    BY <1>1, <1>3, <2>2 DEF PlannerStep, Start, CheckDeadLetters, Pause, CheckAllowed,
       CountInFlight, MarkPlanned, TurnImpossible, TurnFails, TurnAnswers, RecordFailure,
       EnqueueStep, HoldStep, RecordSuccess, Finish, goalVars
  <2> QED
    BY <2>1, <2>2
<1>4. ASSUME NEW s \in Steps, QueueStep(s) PROVE RoundsInHour'
  BY <1>1, <1>4, QueueMovesOneRow DEF goalVars
<1>5. CASE Tick
  <2>1. Hour \in Nat /\ \A age \in 1..Hour : age - 1 \in Ages
    BY PlannerAssumption DEF Ages
  <2>2. rounds' = [age \in Ages |-> IF age \in 1..Hour THEN rounds[age - 1] ELSE 0]
    BY <1>5 DEF Tick
  <2>3. rounds' \in [Ages -> Nat]
    BY <2>1, <2>2 DEF RoundsInHour
  <2>4. Hour + 1 \in Ages /\ Hour + 1 \notin 1..Hour
    BY <2>1 DEF Ages
  <2> QED
    BY <2>2, <2>3, <2>4 DEF RoundsInHour
<1>6. ASSUME NEW status \in {"active", "paused", "done"}, SetStatus(status) PROVE RoundsInHour'
  BY <1>1, <1>6 DEF SetStatus
<1>7. CASE Crash \/ UNCHANGED vars
  BY <1>1, <1>7 DEF Crash, vars, goalVars
<1> QED
  BY <1>3, <1>4, <1>5, <1>6, <1>7 DEF Next

(***************************************************************************)
(* Type correctness, and no round older than the hour is on record: such a *)
(* round does not count towards max_rounds_per_hour.                       *)
(***************************************************************************)
THEOREM PlannerTypeCorrect == Spec => []PlannerTypeOK
<1>1. IInv => ControlTypeOK
  BY DEF IInv, Control
<1>2. Init => RoundsInHour
  <2>1. Hour + 1 \in Ages
    BY PlannerAssumption DEF Ages
  <2> QED
    BY <2>1 DEF Init, RoundsInHour
<1>3. Spec => []RoundsInHour
  BY <1>1, <1>2, StepRounds, PlannerInvariant, PTL DEF Spec
<1> QED
  BY <1>1, <1>3, PlannerInvariant, PTL DEF PlannerTypeOK, RoundsInHour

(***************************************************************************)
(* Whoever calls run_goal_planner, and whatever crashes between, the limit *)
(* on rows in flight holds, for every limit and every number of steps.     *)
(***************************************************************************)
THEOREM InFlightLimit == Spec => []InFlightBounded
<1>1. IInv => InFlightBounded
  BY DEF IInv
<1> QED
  BY <1>1, PlannerInvariant, PTL

(***************************************************************************)
(* A goal that failed failure_limit times in a row is active only by the   *)
(* user's own doing.                                                       *)
(***************************************************************************)
THEOREM FailuresPause == Spec => []FailingGoalPauses
<1>1. IInv => FailingGoalPauses
  BY DEF IInv
<1> QED
  BY <1>1, PlannerInvariant, PTL

(***************************************************************************)
(* Every turn begins within the cadence and the hourly limit, although     *)
(* they are checked two store calls earlier.                               *)
(***************************************************************************)
THEOREM LimitsHoldAtTurn == Spec => BeginsWithinLimits
<1>1. IInv => ((\A c \in Callers : At(c, "mark") /\ At(c, "turn")' =>
                 cadenceLeft = 0 /\ Number(rounds) < MaxRounds))
  BY DEF IInv, StillAllowed, WithinLimits
<1> QED
  BY <1>1, PlannerInvariant, PTL DEF BeginsWithinLimits
=============================================================================
