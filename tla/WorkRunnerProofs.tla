-------------------------- MODULE WorkRunnerProofs --------------------------
(***************************************************************************)
(* The runner on top of the queue, for any number of permits, rows,        *)
(* sessions and crashes: it keeps to the queue's operations, so that what  *)
(* WorkQueueProofs says of the queue holds of the runner, and the runs of  *)
(* one row do not get in each other's way.                                 *)
(***************************************************************************)
EXTENDS WorkRunner, WorkQueueProofs

(***************************************************************************)
(* The types of the runner's part, and what a task has where.              *)
(***************************************************************************)
TaskType ==
  [pc : Pcs, item : Items \cup {NoItem}, session : Sessions \cup {NoSession},
   generation : Nat, previous : SUBSET BOOLEAN, result : Results,
   reported : Outcomes \cup {"none"}, disposition : Dispositions]
Placed ==
  \A t \in Slots :
    /\ task[t].pc = "idle" <=> task[t].item = NoItem
    /\ task[t].pc \in {"read", "flagged", "bound", "stopping", "submit", "turn", "ended", "judged"}
         => task[t].session \in Sessions
    /\ task[t].pc # "idle" => task[t].generation > 0
RunnerShape ==
  /\ kind \in [Items -> Kinds] /\ task \in [Slots -> TaskType] /\ Placed
  /\ unattended \in [Sessions -> BOOLEAN]
  /\ turnActive \in [Sessions -> BOOLEAN] /\ userTurn \in [Sessions -> BOOLEAN]
  /\ crashes \in 0..MaxCrashes

\* A name a task writes under is a worker's, and its generation was handed out.
LEMMA WriterIsKnown ==
  ASSUME TypeOK, RunnerShape, NEW t \in Slots, MayWrite(t)
  PROVE  /\ task[t].item \in Items
         /\ task[t].generation \in 1..leaseGeneration[task[t].item]
         /\ t \in Workers
         /\ task[t].session \in Sessions => task[t].session \in Workers
<1>1. task[t].pc # "idle" /\ Holds(task[t].item, WorkerName(t), task[t].generation)
  BY DEF MayWrite
<1>2. task[t].item \in Items /\ task[t].generation \in Nat /\ task[t].generation > 0
  BY <1>1 DEF RunnerShape, TaskType, Placed
<1>3. leaseGeneration[task[t].item] = task[t].generation
  BY <1>1 DEF Holds
<1> QED
  BY <1>2, <1>3, RunnerAssumption

\* The lease the runner asks for has a length the queue accepts.
LEMMA LeaseLength == LEASE_SECONDS \in LeaseLengths
BY RunnerAssumption DEF LEASE_SECONDS

(***************************************************************************)
(* Whatever the runner, its agents, the user or the clock do, the queue    *)
(* sees one of its own operations or nothing.                              *)
(***************************************************************************)
LEMMA QueueSeesItsOwn ==
  ASSUME TypeOK, RunnerShape, [Next]_vars
  PROVE  [QueueNext]_queueVars
<1> DEFINE Goal == QueueNext \/ UNCHANGED queueVars
<1> SUFFICES Goal
  OBVIOUS
<1>1. ASSUME NEW t \in Slots, NEW i \in Items, ClaimRun(t, i) PROVE Goal
  <2>1. t \in Workers
    BY RunnerAssumption
  <2> QED
    BY <1>1, <2>1, LeaseLength DEF ClaimRun, QueueNext, ClaimAny
<1>2. CASE ClaimEmpty
  BY <1>2 DEF ClaimEmpty, QueueNext, ClaimAny
<1>3. ASSUME NEW i \in Items, NEW w \in Workers, NEW g \in 1..leaseGeneration[i], Fenced(i, w, g)
      PROVE  Goal
  BY <1>3 DEF QueueNext
<1>4. ASSUME NEW t \in Slots, NeedHuman(t) \/ AskHuman(t) \/ RebindLease(t) PROVE Goal
  <2> DEFINE i == task[t].item
             g == task[t].generation
  <2>1. task[t].pc \in {"claimed", "asking", "flagged"} /\ task[t].pc # "idle" /\ WorkerName(t) = t
    BY <1>4 DEF NeedHuman, AskHuman, RebindLease, At, WorkerName
  <2>2. CASE ~MayWrite(t)
    BY <1>4, <2>1, <2>2 DEF NeedHuman, AskHuman, RebindLease, IfHeld, MayWrite, SaveAccepted
  <2>3. CASE MayWrite(t)
    <3>1. i \in Items /\ g \in 1..leaseGeneration[i] /\ t \in Workers
      BY <2>3, WriterIsKnown
    <3>2. At(t, "flagged") => task[t].session \in Workers
      BY RunnerAssumption DEF RunnerShape, Placed, At
    <3>3. Fenced(i, t, g) \/ UNCHANGED queueVars
      BY <1>4, <2>3, <3>2 DEF NeedHuman, AskHuman, RebindLease, IfHeld, Fenced
    <3> HIDE DEF i, g
    <3> QED
      BY <1>3, <3>1, <3>3
  <2> QED
    BY <2>2, <2>3
<1>5. ASSUME NEW t \in Slots, NEW next \in {"submit", "stopping"}, NEW outcome \in Outcomes,
             \/ PrepareRepair(t, next) \/ StopRepair(t) \/ AgentReports(t, outcome)
             \/ Heartbeat(t) \/ Settle(t)
      PROVE  Goal
  <2> DEFINE i == task[t].item
             g == task[t].generation
             w == task[t].session
  <2>1. task[t].pc \in {"bound", "stopping", "submit", "turn", "judged"}
    BY <1>5 DEF PrepareRepair, StopRepair, AgentReports, Heartbeat, Settle, At
  <2>2. task[t].pc # "idle" /\ WorkerName(t) = w /\ w \in Workers
    BY <2>1, RunnerAssumption DEF RunnerShape, Placed, WorkerName
  <2>3. CASE ~MayWrite(t)
    BY <1>5, <2>2, <2>3 DEF PrepareRepair, StopRepair, AgentReports, Heartbeat, Settle, IfHeld,
       MayWrite, SaveAccepted, Complete
  <2>4. CASE MayWrite(t)
    <3>1. i \in Items /\ g \in 1..leaseGeneration[i]
      BY <2>4, WriterIsKnown
    <3>2. "failed" \in Outcomes
      BY DEF Outcomes
    <3>3. Fenced(i, w, g) \/ UNCHANGED queueVars
      BY <1>5, <2>2, <2>4, <3>2, LeaseLength
         DEF PrepareRepair, StopRepair, AgentReports, Heartbeat, Settle, IfHeld, Fenced
    <3> HIDE DEF i, g, w
    <3> QED
      BY <1>3, <2>2, <3>1, <3>3
  <2> QED
    BY <2>3, <2>4
<1>6. ASSUME NEW i \in Items, Queue(Enqueue(i) \/ Cancel(i) \/ Approve(i)) PROVE Goal
  BY <1>6 DEF Queue, QueueNext, Operator
<1>7. CASE Queue(Tick)
  BY <1>7 DEF Queue, QueueNext
<1>8. CASE UNCHANGED queueVars
  BY <1>8
<1>9. Outcomes # {}
  BY DEF Outcomes
<1> HIDE DEF Goal
<1>10. ASSUME NEW t \in Slots, Advance(t) PROVE Goal
  <2>1. CASE NeedHuman(t) \/ AskHuman(t) \/ RebindLease(t)
    BY <1>4, <2>1
  <2>2. CASE PrepareRepair(t, "submit") \/ PrepareRepair(t, "stopping") \/ StopRepair(t) \/ Settle(t)
    BY <1>5, <1>9, <2>2
  <2>3. CASE ReadUnattended(t) \/ SetUnattended(t) \/ CreateSession(t) \/ Prepare(t)
             \/ BeginTurn(t) \/ LoseLease(t) \/ Judge(t) \/ Leave(t)
    BY <1>8, <2>3 DEF ReadUnattended, SetUnattended, CreateSession, Prepare, BeginTurn, LoseLease,
       Judge, Leave
  <2> QED
    BY <1>10, <2>1, <2>2, <2>3 DEF Advance
<1>11. ASSUME NEW t \in Slots, EndTurn(t) PROVE Goal
  BY <1>8, <1>11 DEF EndTurn, TurnEnds
<1>12. ASSUME NEW t \in Slots, Heartbeat(t) \/ \E outcome \in Outcomes : AgentReports(t, outcome)
       PROVE  Goal
  BY <1>5, <1>9, <1>12
<1>13. ASSUME NEW s \in UserSessions, UserTurn(s) \/ UserTurnEnds(s) PROVE Goal
  BY <1>8, <1>13 DEF UserTurn, UserTurnEnds
<1>14. CASE Crash
  BY <1>8, <1>14 DEF Crash
<1>15. CASE UNCHANGED vars
  BY <1>8, <1>15 DEF vars
<1> QED
  BY <1>1, <1>2, <1>6, <1>7, <1>10, <1>11, <1>12, <1>13, <1>14, <1>15 DEF Next, Poll


-----------------------------------------------------------------------------
(***************************************************************************)
(* The fields a task's steps write keep their types.                       *)
(***************************************************************************)
LEMMA FieldsTyped ==
  ASSUME NEW f \in [Slots -> TaskType], NEW t \in Slots, NEW p \in Pcs
  PROVE  /\ \A o \in Outcomes : [f EXCEPT ![t].reported = o] \in [Slots -> TaskType]
         /\ \A q \in SUBSET BOOLEAN :
              [f EXCEPT ![t] = [@ EXCEPT !.pc = p, !.previous = q]] \in [Slots -> TaskType]
         /\ \A s \in Sessions :
              [f EXCEPT ![t] = [@ EXCEPT !.pc = p, !.session = s]] \in [Slots -> TaskType]
         /\ \A x \in Results :
              [f EXCEPT ![t] = [@ EXCEPT !.pc = p, !.result = x]] \in [Slots -> TaskType]
         /\ \A d \in Dispositions :
              /\ [f EXCEPT ![t] = [@ EXCEPT !.pc = p, !.disposition = d]] \in [Slots -> TaskType]
              /\ \A x \in Results :
                   [f EXCEPT ![t] = [@ EXCEPT !.pc = p, !.result = x, !.disposition = d]]
                     \in [Slots -> TaskType]
<1> DEFINE r == f[t]
<1>1. r \in TaskType
  OBVIOUS
<1>2. /\ \A o \in Outcomes : [r EXCEPT !.reported = o] \in TaskType
      /\ \A q \in SUBSET BOOLEAN : [r EXCEPT !.pc = p, !.previous = q] \in TaskType
      /\ \A s \in Sessions : [r EXCEPT !.pc = p, !.session = s] \in TaskType
      /\ \A x \in Results : [r EXCEPT !.pc = p, !.result = x] \in TaskType
      /\ \A d \in Dispositions : [r EXCEPT !.pc = p, !.disposition = d] \in TaskType
      /\ \A d \in Dispositions, x \in Results :
           [r EXCEPT !.pc = p, !.result = x, !.disposition = d] \in TaskType
  <2> HIDE DEF r
  <2> QED
    BY <1>1 DEF TaskType
<1> QED
  BY <1>2

(***************************************************************************)
(* What a step may do to a task: claim a row under a number nobody has had,*)
(* go on with it, record the agent's answer, which ends the lease, or let  *)
(* go of it.                                                               *)
(***************************************************************************)
Takes(t) ==
  \E i \in Items :
    /\ task'[t].pc # "idle" /\ task'[t].item = i /\ task'[t].reported = "none"
    /\ task'[t].generation = leaseGeneration[i] + 1
    /\ leaseGeneration'[i] = leaseGeneration[i] + 1
GoesOn(t) ==
  /\ task[t].pc # "idle" /\ task'[t].pc # "idle"
  /\ task'[t].item = task[t].item /\ task'[t].generation = task[t].generation
Answers(t) == GoesOn(t) /\ leaseLeft'[task[t].item] = 0
Moves(t) ==
  /\ \A u \in Slots \ {t} : task'[u] = task[u]
  /\ \/ Takes(t)
     \/ GoesOn(t) /\ task'[t].reported = task[t].reported
     \/ Answers(t)
     \/ task'[t] = Idle
TaskStep ==
  \/ task' = task
  \/ \A t \in Slots : task'[t] = Idle
  \/ \E t \in Slots : Moves(t)

\* A slot with nothing to do is a task.
LEMMA IdleTyped == Idle \in TaskType
BY DEF Idle, TaskType, Pcs, Results, Dispositions

(***************************************************************************)
(* Every step keeps the types and is one of those moves.                   *)
(***************************************************************************)
LEMMA ClaimMoves ==
  ASSUME TypeOK, RunnerShape, NEW t \in Slots, NEW i \in Items, ClaimRun(t, i)
  PROVE  RunnerShape' /\ Moves(t)
<1> DEFINE r == [Idle EXCEPT !.pc = "claimed", !.item = i, !.session = kind[i].session,
                             !.generation = leaseGeneration[i] + 1]
<1>1. /\ r.pc = "claimed" /\ r.item = i /\ r.session = kind[i].session
      /\ r.generation = leaseGeneration[i] + 1 /\ r.reported = "none"
  BY DEF Idle
<1>2. r \in TaskType
  <2>1. kind[i] \in [session : Sessions \cup {NoSession}, repair : BOOLEAN]
    BY RunnerAssumption DEF RunnerShape
  <2>2. /\ kind[i].session \in Sessions \cup {NoSession} /\ leaseGeneration[i] + 1 \in Nat
        /\ "claimed" \in Pcs
    BY <2>1 DEF TypeOK, Pcs
  <2>3. \A p \in Pcs, s \in Sessions \cup {NoSession}, n \in Nat :
          [Idle EXCEPT !.pc = p, !.item = i, !.session = s, !.generation = n] \in TaskType
    BY IdleTyped DEF TaskType
  <2> QED
    BY <2>2, <2>3
<1>3. task' = [task EXCEPT ![t] = r] /\ leaseGeneration'[i] = leaseGeneration[i] + 1
  BY DEF ClaimRun, Claim, TypeOK
<1> HIDE DEF r
<1>4. task'[t] = r /\ \A u \in Slots \ {t} : task'[u] = task[u]
  BY <1>3 DEF RunnerShape
<1>5. task' \in [Slots -> TaskType]
  BY <1>2, <1>3 DEF RunnerShape
<1>6. Placed'
  BY <1>1, <1>4, RunnerAssumption DEF RunnerShape, Placed, TypeOK
<1>7. Takes(t)
  BY <1>1, <1>3, <1>4 DEF Takes
<1> QED
  BY <1>4, <1>5, <1>6, <1>7 DEF ClaimRun, RunnerShape, Moves, engines

\* The steps at which a task has a session.
HasSession(r) ==
  r.pc \in {"read", "flagged", "bound", "stopping", "submit", "turn", "ended", "judged"}
    => r.session \in Sessions

(***************************************************************************)
(* A task that rewrites other fields than its row, number and report goes  *)
(* on.                                                                     *)
(***************************************************************************)
LEMMA Rewrites ==
  ASSUME RunnerShape, NEW t \in Slots, task' \in [Slots -> TaskType],
         \A u \in Slots \ {t} : task'[u] = task[u],
         task[t].pc # "idle", task'[t].pc # "idle", HasSession(task'[t]),
         task'[t].item = task[t].item, task'[t].generation = task[t].generation,
         task'[t].reported = task[t].reported
  PROVE  Placed' /\ Moves(t)
<1>1. Placed'
  BY DEF RunnerShape, Placed, HasSession
<1>2. GoesOn(t)
  BY DEF GoesOn
<1> QED
  BY <1>1, <1>2 DEF Moves

\* A task that only changes its program counter goes on.
LEMMA GotoMoves ==
  ASSUME RunnerShape, NEW t \in Slots, NEW p \in Pcs \ {"idle"}, task[t].pc # "idle",
         \/ p \in {"exit", "asking"} \/ task[t].session \in Sessions, Goto(t, p)
  PROVE  task' \in [Slots -> TaskType] /\ Placed' /\ Moves(t)
<1>1. \A q \in TaskType : [q EXCEPT !.pc = p] \in TaskType
  BY DEF TaskType
<1>2. task' \in [Slots -> TaskType]
  BY <1>1 DEF RunnerShape, Goto
<1>3. /\ \A u \in Slots \ {t} : task'[u] = task[u]
      /\ task'[t].pc = p /\ task'[t].item = task[t].item /\ task'[t].session = task[t].session
      /\ task'[t].generation = task[t].generation /\ task'[t].reported = task[t].reported
  BY DEF TaskType, RunnerShape, Goto
<1>4. HasSession(task'[t])
  BY <1>3 DEF HasSession
<1> QED
  BY <1>2, <1>3, <1>4, Rewrites

(***************************************************************************)
(* A step a task takes by itself.                                          *)
(***************************************************************************)
LEMMA AdvanceMoves ==
  ASSUME TypeOK, RunnerShape, NEW t \in Slots, Advance(t)
  PROVE  RunnerShape' /\ Moves(t)
<1> DEFINE Goal == task' \in [Slots -> TaskType] /\ Placed' /\ Moves(t)
<1>1. CASE ReadUnattended(t)
  <2> DEFINE q == {unattended[task[t].session]}
  <2>1. task[t].session \in Sessions /\ task[t].pc = "claimed" /\ "read" \in Pcs
    BY <1>1 DEF ReadUnattended, RunnerShape, TaskType, At, Pcs
  <2>2. q \in SUBSET BOOLEAN
    BY <2>1 DEF RunnerShape
  <2>3. task' = [task EXCEPT ![t] = [@ EXCEPT !.pc = "read", !.previous = q]]
    BY <1>1 DEF ReadUnattended
  <2> HIDE DEF q
  <2>4. task' \in [Slots -> TaskType]
    BY <2>1, <2>2, <2>3, FieldsTyped DEF RunnerShape, Results, Outcomes, Dispositions
  <2>5. /\ \A u \in Slots \ {t} : task'[u] = task[u]
        /\ task'[t].pc = "read" /\ task'[t].item = task[t].item /\ task'[t].session = task[t].session
        /\ task'[t].generation = task[t].generation /\ task'[t].reported = task[t].reported
    BY <2>3 DEF TaskType, RunnerShape
  <2>6. HasSession(task'[t]) /\ task[t].pc # "idle"
    BY <2>1, <2>5 DEF HasSession
  <2>7. Goal
    BY <2>4, <2>5, <2>6, Rewrites
  <2> QED
    BY <1>1, <2>7 DEF ReadUnattended, RunnerShape, engines
<1>2. CASE CreateSession(t)
  <2> DEFINE s == FreshOf[t]
  <2>1. s \in Sessions /\ task[t].pc = "claimed" /\ "flagged" \in Pcs
    BY <1>2, RunnerAssumption DEF CreateSession, At, Pcs
  <2>3. task' = [task EXCEPT ![t] = [@ EXCEPT !.pc = "flagged", !.session = s]]
    BY <1>2 DEF CreateSession
  <2> HIDE DEF s
  <2>4. task' \in [Slots -> TaskType]
    BY <2>1, <2>3, FieldsTyped DEF RunnerShape, Results, Outcomes, Dispositions
  <2>5. /\ \A u \in Slots \ {t} : task'[u] = task[u]
        /\ task'[t].pc = "flagged" /\ task'[t].item = task[t].item /\ task'[t].session = s
        /\ task'[t].generation = task[t].generation /\ task'[t].reported = task[t].reported
    BY <2>3 DEF TaskType, RunnerShape
  <2>6. HasSession(task'[t]) /\ task[t].pc # "idle"
    BY <2>1, <2>5 DEF HasSession
  <2>7. Goal
    BY <2>4, <2>5, <2>6, Rewrites
  <2> QED
    BY <1>2, <2>7 DEF CreateSession, RunnerShape, engines
<1>3. CASE BeginTurn(t) /\ ~IsRepair(t) /\ turnActive[task[t].session]
  <2>1. task[t].session \in Sessions /\ task[t].pc = "submit" /\ "ended" \in Pcs /\ "error" \in Results
    BY <1>3 DEF BeginTurn, At, Pcs, Results, RunnerShape, Placed
  <2>3. task' = [task EXCEPT ![t] = [@ EXCEPT !.pc = "ended", !.result = "error"]]
    BY <1>3 DEF BeginTurn
  <2>4. task' \in [Slots -> TaskType]
    BY <2>1, <2>3, FieldsTyped DEF RunnerShape, Outcomes, Dispositions
  <2>5. /\ \A u \in Slots \ {t} : task'[u] = task[u]
        /\ task'[t].pc = "ended" /\ task'[t].item = task[t].item /\ task'[t].session = task[t].session
        /\ task'[t].generation = task[t].generation /\ task'[t].reported = task[t].reported
    BY <2>3 DEF TaskType, RunnerShape
  <2>6. HasSession(task'[t]) /\ task[t].pc # "idle"
    BY <2>1, <2>5 DEF HasSession
  <2>7. Goal
    BY <2>4, <2>5, <2>6, Rewrites
  <2> QED
    BY <1>3, <2>7 DEF BeginTurn, RunnerShape, engines
<1>4. CASE LoseLease(t)
  <2>1. task[t].pc \in {"submit", "turn"} /\ "exit" \in Pcs /\ "LostLease" \in Dispositions
    BY <1>4 DEF LoseLease, Pcs, Dispositions
  <2>3. task' = [task EXCEPT ![t] = [@ EXCEPT !.pc = "exit", !.disposition = "LostLease"]]
    BY <1>4 DEF LoseLease
  <2>0. task[t].session \in Sessions
    BY <2>1 DEF RunnerShape, Placed
  <2>4. task' \in [Slots -> TaskType]
    BY <2>0, <2>1, <2>3, FieldsTyped DEF RunnerShape, Results, Outcomes
  <2>5. /\ \A u \in Slots \ {t} : task'[u] = task[u]
        /\ task'[t].pc = "exit" /\ task'[t].item = task[t].item /\ task'[t].session = task[t].session
        /\ task'[t].generation = task[t].generation /\ task'[t].reported = task[t].reported
    BY <2>3 DEF TaskType, RunnerShape
  <2>6. HasSession(task'[t]) /\ task[t].pc # "idle"
    BY <2>1, <2>5 DEF HasSession
  <2>7. Goal
    BY <2>4, <2>5, <2>6, Rewrites
  <2> QED
    BY <1>4, <2>7 DEF LoseLease, RunnerShape, engines
<1>5. CASE Judge(t)
  <2> DEFINE d == DispositionOf(t)
  <2>1. task[t].session \in Sessions /\ task[t].pc = "ended" /\ "judged" \in Pcs /\ "none" \in Results
    BY <1>5 DEF Judge, At, Pcs, Results, RunnerShape, Placed
  <2>2. d \in Dispositions
    BY DEF DispositionOf, Dispositions
  <2>3. task' = [task EXCEPT ![t] = [@ EXCEPT !.pc = "judged",
                                              !.result = "none",
                                              !.disposition = d]]
    BY <1>5 DEF Judge
  <2> HIDE DEF d
  <2>4. task' \in [Slots -> TaskType]
    BY <2>1, <2>2, <2>3, FieldsTyped DEF RunnerShape, Outcomes
  <2>5. /\ \A u \in Slots \ {t} : task'[u] = task[u]
        /\ task'[t].pc = "judged" /\ task'[t].item = task[t].item /\ task'[t].session = task[t].session
        /\ task'[t].generation = task[t].generation /\ task'[t].reported = task[t].reported
    BY <2>3 DEF TaskType, RunnerShape
  <2>6. HasSession(task'[t]) /\ task[t].pc # "idle"
    BY <2>1, <2>5 DEF HasSession
  <2>7. Goal
    BY <2>4, <2>5, <2>6, Rewrites
  <2> QED
    BY <1>5, <2>7 DEF Judge, RunnerShape, engines
<1>6. CASE Leave(t)
  <2>1. task' = [task EXCEPT ![t] = Idle]
    BY <1>6 DEF Leave
  <2>2. task' \in [Slots -> TaskType]
    BY <2>1, IdleTyped DEF RunnerShape
  <2>3. task'[t] = Idle /\ \A u \in Slots \ {t} : task'[u] = task[u]
    BY <2>1 DEF RunnerShape
  <2>4. Idle.pc = "idle" /\ Idle.item = NoItem
    BY DEF Idle
  <2>5. Placed'
    BY <2>3, <2>4 DEF RunnerShape, Placed
  <2>6. unattended' \in [Sessions -> BOOLEAN]
    <3>1. (TRUE \in task[t].previous) \in BOOLEAN
      OBVIOUS
    <3>2. unattended \in [Sessions -> BOOLEAN]
      BY DEF RunnerShape
    <3>3. \A v \in BOOLEAN : [unattended EXCEPT ![task[t].session] = v] \in [Sessions -> BOOLEAN]
      BY <3>2
    <3> QED
      BY <1>6, <3>1, <3>2, <3>3 DEF Leave
  <2>7. Moves(t)
    BY <2>3 DEF Moves
  <2> QED
    BY <1>6, <2>2, <2>5, <2>6, <2>7 DEF Leave, RunnerShape, engines
<1>7. CASE \/ SetUnattended(t) \/ NeedHuman(t) \/ AskHuman(t) \/ RebindLease(t) \/ Prepare(t)
           \/ PrepareRepair(t, "submit") \/ PrepareRepair(t, "stopping") \/ StopRepair(t) \/ Settle(t)
           \/ BeginTurn(t) /\ (IsRepair(t) \/ ~turnActive[task[t].session])
  <2>1. PICK p \in {"flagged", "asking", "exit", "bound", "submit", "stopping", "turn"} : Goto(t, p)
    BY <1>7 DEF SetUnattended, NeedHuman, AskHuman, RebindLease, Prepare, PrepareRepair, StopRepair,
       Settle, BeginTurn
  <2>2. p \in Pcs \ {"idle"}
    BY DEF Pcs
  <2>3. task[t].pc # "idle" /\ (p \in {"exit", "asking"} \/ task[t].session \in Sessions)
    <3>1. p \in {"exit", "asking"} \/ task[t].pc \in {"read", "flagged", "bound", "stopping", "submit", "judged"}
      BY <1>7, <2>1
         DEF SetUnattended, NeedHuman, AskHuman, RebindLease, Prepare, PrepareRepair, StopRepair,
             Settle, BeginTurn, At, Goto, RunnerShape, TaskType
    <3>2. task[t].pc # "idle"
      BY <1>7 DEF SetUnattended, NeedHuman, AskHuman, RebindLease, Prepare, PrepareRepair, StopRepair,
             Settle, BeginTurn, At
    <3> QED
      BY <3>1, <3>2 DEF RunnerShape, Placed
  <2>4. Goal
    BY <2>1, <2>2, <2>3, GotoMoves
  <2>5. /\ kind' = kind /\ userTurn' = userTurn /\ crashes' = crashes
        /\ unattended' \in [Sessions -> BOOLEAN] /\ turnActive' \in [Sessions -> BOOLEAN]
    BY <1>7 DEF SetUnattended, NeedHuman, AskHuman, RebindLease, Prepare, PrepareRepair, StopRepair,
             Settle, BeginTurn, engines, RunnerShape
  <2> QED
    BY <2>4, <2>5 DEF RunnerShape
<1> QED
  BY <1>1, <1>2, <1>3, <1>4, <1>5, <1>6, <1>7 DEF Advance

(***************************************************************************)
(* The agent's answer and the end of its turn.                             *)
(***************************************************************************)
LEMMA TurnMoves ==
  ASSUME TypeOK, RunnerShape, NEW t \in Slots,
         EndTurn(t) \/ \E outcome \in Outcomes : AgentReports(t, outcome)
  PROVE  RunnerShape' /\ Moves(t)
<1>0. task[t].pc = "turn" /\ task[t].session \in Sessions /\ "ended" \in Pcs
  BY DEF EndTurn, TurnEnds, AgentReports, At, Pcs, RunnerShape, Placed
<1>1. CASE EndTurn(t)
  <2>1. PICK x \in {"ok", "error", "pending"} : TurnEnds(t, x)
    BY <1>1 DEF EndTurn
  <2>2. x \in Results
    BY DEF Results
  <2>3. task' = [task EXCEPT ![t] = [@ EXCEPT !.pc = "ended", !.result = x]]
    BY <2>1 DEF TurnEnds
  <2>4. task' \in [Slots -> TaskType]
    BY <1>0, <2>2, <2>3, FieldsTyped DEF RunnerShape
  <2>5. /\ \A u \in Slots \ {t} : task'[u] = task[u]
        /\ task'[t].pc = "ended" /\ task'[t].item = task[t].item /\ task'[t].session = task[t].session
        /\ task'[t].generation = task[t].generation /\ task'[t].reported = task[t].reported
    BY <2>3 DEF TaskType, RunnerShape
  <2>6. HasSession(task'[t]) /\ task[t].pc # "idle"
    BY <1>0, <2>5 DEF HasSession
  <2>7. Placed' /\ Moves(t)
    BY <2>4, <2>5, <2>6, Rewrites
  <2> QED
    BY <2>1, <2>4, <2>7 DEF TurnEnds, RunnerShape, engines
<1>2. ASSUME NEW outcome \in Outcomes, AgentReports(t, outcome) PROVE RunnerShape' /\ Moves(t)
  <2>1. task' = [task EXCEPT ![t].reported = outcome]
    BY <1>2 DEF AgentReports
  <2>2. task' \in [Slots -> TaskType]
    BY <1>0, <2>1, FieldsTyped DEF RunnerShape
  <2>3. /\ \A u \in Slots \ {t} : task'[u] = task[u]
        /\ task'[t].pc = "turn" /\ task'[t].item = task[t].item /\ task'[t].session = task[t].session
        /\ task'[t].generation = task[t].generation
    BY <1>0, <2>1 DEF TaskType, RunnerShape
  <2>4. Placed'
    BY <1>0, <2>3 DEF RunnerShape, Placed
  <2>5. task[t].item \in Items
    BY <1>0 DEF RunnerShape, Placed, TaskType
  <2>6. leaseLeft'[task[t].item] = 0
    BY <1>2, <2>5 DEF AgentReports, Complete, TypeOK
  <2>7. Answers(t)
    BY <1>0, <2>3, <2>6 DEF Answers, GoesOn
  <2>8. Moves(t)
    BY <2>3, <2>7 DEF Moves
  <2> QED
    BY <1>2, <2>2, <2>4, <2>8 DEF AgentReports, RunnerShape, engines
<1> QED
  BY <1>1, <1>2

\* Every step of the system keeps the types and moves one task, or none, or all of them.
LEMMA EveryTaskSteps ==
  ASSUME TypeOK, RunnerShape, [Next]_vars
  PROVE  RunnerShape' /\ TaskStep
<1> DEFINE Goal == RunnerShape' /\ TaskStep
<1> SUFFICES Goal
  OBVIOUS
<1>1. ASSUME UNCHANGED runnerVars PROVE Goal
  BY <1>1 DEF runnerVars, engines, RunnerShape, Placed, TaskStep
<1>2. ASSUME NEW s \in UserSessions, UserTurn(s) \/ UserTurnEnds(s) PROVE Goal
  <2>1. task' = task /\ kind' = kind /\ unattended' = unattended /\ crashes' = crashes
    BY <1>2 DEF UserTurn, UserTurnEnds
  <2>2. turnActive' \in [Sessions -> BOOLEAN] /\ userTurn' \in [Sessions -> BOOLEAN]
    BY <1>2 DEF UserTurn, UserTurnEnds, RunnerShape
  <2> QED
    BY <2>1, <2>2 DEF RunnerShape, Placed, TaskStep
<1>3. CASE Crash
  <2>1. /\ task' \in [Slots -> TaskType]
        /\ \A t \in Slots : task'[t] = Idle
    BY <1>3, IdleTyped DEF Crash
  <2>2. Idle.pc = "idle" /\ Idle.item = NoItem
    BY DEF Idle
  <2>3. Placed'
    BY <2>1, <2>2 DEF Placed
  <2>4. crashes' \in 0..MaxCrashes
    BY <1>3, RunnerAssumption DEF Crash, RunnerShape
  <2> QED
    BY <1>3, <2>1, <2>3, <2>4 DEF Crash, RunnerShape, TaskStep
<1>4. ASSUME NEW t \in Slots, RunnerShape' /\ Moves(t) PROVE Goal
  BY <1>4 DEF TaskStep
<1> HIDE DEF Goal
<1>5. ASSUME NEW t \in Slots, NEW i \in Items, ClaimRun(t, i) PROVE Goal
  BY <1>4, <1>5, ClaimMoves
<1>6. ASSUME NEW t \in Slots, Advance(t) PROVE Goal
  BY <1>4, <1>6, AdvanceMoves
<1>7. ASSUME NEW t \in Slots, EndTurn(t) \/ \E outcome \in Outcomes : AgentReports(t, outcome)
      PROVE  Goal
  BY <1>4, <1>7, TurnMoves
<1>8. ASSUME NEW t \in Slots, Heartbeat(t) PROVE Goal
  BY <1>1, <1>8 DEF Heartbeat
<1>9. CASE Queue(Tick) \/ ClaimEmpty \/ \E i \in Items : Queue(Enqueue(i) \/ Cancel(i) \/ Approve(i))
  BY <1>1, <1>9 DEF Queue, ClaimEmpty
<1>10. CASE UNCHANGED vars
  BY <1>1, <1>10 DEF vars
<1> QED
  BY <1>2, <1>3, <1>5, <1>6, <1>7, <1>8, <1>9, <1>10 DEF Next, Poll

-----------------------------------------------------------------------------
RunnerInv == TypeOK /\ RunnerShape

\* The runner's invariant holds of every reachable state.
LEMMA ShapeHolds == Spec => []RunnerInv
<1>1. Init => RunnerInv
  <2> SUFFICES ASSUME Init PROVE RunnerInv
    OBVIOUS
  <2>1. TypeOK
    BY DEF Init, QueueInit, TypeOK, Status
  <2>2. task \in [Slots -> TaskType] /\ \A t \in Slots : task[t] = Idle
    BY IdleTyped DEF Init
  <2>3. Idle.pc = "idle" /\ Idle.item = NoItem
    BY DEF Idle
  <2>4. Placed
    BY <2>2, <2>3 DEF Placed
  <2>5. 0 \in 0..MaxCrashes
    BY RunnerAssumption
  <2> QED
    BY <2>1, <2>2, <2>4, <2>5 DEF Init, RunnerInv, RunnerShape
<1>2. RunnerInv /\ [Next]_vars => RunnerInv'
  <2> SUFFICES ASSUME TypeOK, RunnerShape, [Next]_vars PROVE TypeOK' /\ RunnerShape'
    BY DEF RunnerInv
  <2> QED
    BY EveryTaskSteps, QueueSeesItsOwn, QueueStepKeepsType
<1> QED
  BY <1>1, <1>2, PTL DEF Spec

(***************************************************************************)
(* Every column of the runner's part and of the queue below it keeps its   *)
(* type through claims, agents, users, crashes and late answers.           *)
(***************************************************************************)
THEOREM RunnerTypeCorrect == Spec => []RunnerTypeOK
<1>1. RunnerInv => RunnerTypeOK
  BY DEF RunnerInv, RunnerTypeOK, RunnerShape, Placed, TaskType
<1> QED
  BY <1>1, ShapeHolds, PTL

(***************************************************************************)
(* The runner keeps to the queue's operations: a behaviour of the runner,  *)
(* its agents, users and crashes is, for the queue, a behaviour of its own *)
(* specification, so that fencing, the retry budget, finality and the      *)
(* refinement of LeasedWork hold of it.                                    *)
(***************************************************************************)
THEOREM RunnerUsesTheQueue == Spec => QueueSpec
<1>1. Init => QueueInit
  BY DEF Init
<1>2. RunnerInv /\ [Next]_vars => [QueueNext]_queueVars
  BY QueueSeesItsOwn DEF RunnerInv
<1> QED
  BY <1>1, <1>2, ShapeHolds, PTL DEF Spec, QueueSpec

\* What WorkQueueProofs established, for the runner.
LEMMA LeasesHold == Spec => [](LeaseCoherent /\ Claimed)
BY RunnerUsesTheQueue, OwnerIffRunning, RunningWasClaimed, PTL

-----------------------------------------------------------------------------
(***************************************************************************)
(* The runs of one row carry different numbers, none of them beyond the    *)
(* row's own, and a run that reported has lost its lease for good.         *)
(***************************************************************************)
Numbered ==
  /\ \A t \in Slots : task[t].pc # "idle" => task[t].generation <= leaseGeneration[task[t].item]
  /\ \A a, b \in Slots :
       a # b /\ task[a].pc # "idle" /\ task[b].pc # "idle" /\ task[a].item = task[b].item
         => task[a].generation # task[b].generation
Reported ==
  \A t \in Slots :
    task[t].pc # "idle" /\ task[t].reported # "none" => ~Live(task[t].item, task[t].generation)
RunsInv == RunnerInv /\ LeaseCoherent /\ Claimed /\ Numbered /\ Reported

\* A row's number only grows, and a number that lapsed stays lapsed.
LEMMA RowsOnlyGrow ==
  ASSUME RunsInv, [Next]_vars, NEW i \in Items
  PROVE  /\ leaseGeneration[i] <= leaseGeneration'[i]
         /\ \A g \in 1..leaseGeneration[i] : ~Live(i, g) => ~Live(i, g)'
<1>1. TypeOK /\ [QueueNext]_queueVars
  BY QueueSeesItsOwn DEF RunsInv, RunnerInv
<1>2. TypeOK' /\ RowStep(i)
  BY <1>1, EveryRowSteps, QueueStepKeepsType DEF RunsInv
<1>3. leaseGeneration[i] <= leaseGeneration'[i]
  BY <1>1, <1>2 DEF RowStep, SameRow, TypeOK
<1>4. ASSUME NEW g \in 1..leaseGeneration[i], Live(i, g)' PROVE Live(i, g)
  <2>1. Authority(i)' = g /\ g # 0 /\ g <= leaseGeneration[i]
    BY <1>1, <1>4 DEF Live, Authority, TypeOK
  <2>2. Authority(i) = g
    BY <1>1, <1>2, <2>1 DEF RowStep, SameRow, TypeOK
  <2> QED
    BY <2>1, <2>2 DEF Live, Authority
<1> QED
  BY <1>3, <1>4

\* What a working task knows of its row.
LEMMA WorkingTask ==
  ASSUME RunsInv, NEW t \in Slots, task[t].pc # "idle"
  PROVE  task[t].item \in Items /\ task[t].generation \in 1..leaseGeneration[task[t].item]
BY DEF RunsInv, RunnerInv, RunnerShape, Placed, TaskType, TypeOK, Numbered

\* The numbers stay apart: only a claim brings one, and it is new.
LEMMA NumbersKept ==
  ASSUME RunsInv, [Next]_vars
  PROVE  Numbered'
<1>1. TypeOK /\ RunnerShape /\ TypeOK' /\ RunnerShape' /\ TaskStep
  BY EveryTaskSteps, QueueSeesItsOwn, QueueStepKeepsType DEF RunsInv, RunnerInv
<1>2. \A t \in Slots : task[t].pc # "idle" =>
        task[t].item \in Items /\ task[t].generation \in 1..leaseGeneration[task[t].item]
  BY WorkingTask
<1>3. \A i \in Items : leaseGeneration[i] <= leaseGeneration'[i] /\ leaseGeneration[i] \in Nat
                       /\ leaseGeneration'[i] \in Nat
  BY <1>1, RowsOnlyGrow DEF TypeOK
<1>4. Idle.pc = "idle"
  BY DEF Idle
<1>5. CASE task' = task
  BY <1>2, <1>3, <1>5 DEF RunsInv, Numbered
<1>6. CASE \A t \in Slots : task'[t] = Idle
  BY <1>4, <1>6 DEF Numbered
<1>7. ASSUME NEW t \in Slots, Moves(t) PROVE Numbered'
  <2>1. \A u \in Slots \ {t} : task'[u] = task[u]
    BY <1>7 DEF Moves
  <2>2. CASE task'[t] = Idle
    BY <1>2, <1>3, <1>4, <2>1, <2>2 DEF RunsInv, Numbered
  <2>3. CASE GoesOn(t)
    BY <1>2, <1>3, <2>1, <2>3 DEF GoesOn, RunsInv, Numbered
  <2>4. CASE Takes(t)
    <3>1. PICK i \in Items : /\ task'[t].item = i /\ task'[t].generation = leaseGeneration[i] + 1
                             /\ leaseGeneration'[i] = leaseGeneration[i] + 1
      BY <2>4 DEF Takes
    <3>2. \A u \in Slots \ {t} : task[u].pc # "idle" /\ task[u].item = i
                                   => task[u].generation # leaseGeneration[i] + 1
      BY <1>2, <1>3, <3>1
    <3> QED
      BY <1>2, <1>3, <2>1, <3>1, <3>2 DEF RunsInv, Numbered
  <2> QED
    BY <1>7, <2>2, <2>3, <2>4 DEF Moves, Answers
<1> QED
  BY <1>1, <1>5, <1>6, <1>7 DEF TaskStep

\* An answer ends the lease, and no later step revives the number.
LEMMA ReportsKept ==
  ASSUME RunsInv, [Next]_vars
  PROVE  Reported'
<1>1. TypeOK /\ RunnerShape /\ TypeOK' /\ TaskStep
  BY EveryTaskSteps, QueueSeesItsOwn, QueueStepKeepsType DEF RunsInv, RunnerInv
<1>2. \A t \in Slots : task[t].pc # "idle" =>
        task[t].item \in Items /\ task[t].generation \in 1..leaseGeneration[task[t].item]
  BY WorkingTask
<1>3. \A i \in Items : \A g \in 1..leaseGeneration[i] : ~Live(i, g) => ~Live(i, g)'
  BY RowsOnlyGrow
<1>4. Idle.pc = "idle"
  BY DEF Idle
<1>5. ASSUME NEW u \in Slots, task[u].pc # "idle", task'[u].item = task[u].item,
             task'[u].generation = task[u].generation, task[u].reported # "none"
      PROVE  ~Live(task[u].item, task[u].generation)'
  BY <1>2, <1>3, <1>5 DEF RunsInv, Reported
<1>6. ASSUME NEW u \in Slots, task'[u] = task[u], task'[u].pc # "idle", task'[u].reported # "none"
      PROVE  ~Live(task[u].item, task[u].generation)'
  BY <1>5, <1>6
<1>7. ASSUME NEW t \in Slots, Moves(t), task'[t].pc # "idle", task'[t].reported # "none"
      PROVE  ~Live(task[t].item, task[t].generation)'
  <2>1. CASE GoesOn(t) /\ task'[t].reported = task[t].reported
    BY <1>5, <1>7, <2>1 DEF GoesOn
  <2>2. CASE Answers(t)
    BY <2>2 DEF Answers, GoesOn, Live
  <2>3. ~Takes(t) /\ task'[t] # Idle
    BY <1>4, <1>7 DEF Takes
  <2> QED
    BY <1>7, <2>1, <2>2, <2>3 DEF Moves
<1> SUFFICES ASSUME NEW u \in Slots, task'[u].pc # "idle", task'[u].reported # "none"
             PROVE  ~Live(task[u].item, task[u].generation)'
  BY DEF Reported, Live
<1>8. ASSUME NEW t \in Slots, Moves(t) PROVE t = u \/ task'[u] = task[u]
  BY <1>8 DEF Moves
<1> QED
  BY <1>1, <1>4, <1>6, <1>7, <1>8 DEF TaskStep

\* All of it holds of every reachable state.
LEMMA RunsHold == Spec => []RunsInv
<1>1. Init => Numbered /\ Reported
  <2>1. Idle.pc = "idle"
    BY DEF Idle
  <2> QED
    BY <2>1 DEF Init, Numbered, Reported
<1>2. RunnerInv /\ LeaseCoherent /\ Claimed /\ Numbered /\ Reported /\ [Next]_vars
        => Numbered' /\ Reported'
  BY NumbersKept, ReportsKept DEF RunsInv
<1>3. RunnerInv /\ LeaseCoherent /\ Claimed /\ Numbered /\ Reported => RunsInv
  BY DEF RunsInv
<1> QED
  BY <1>1, <1>2, <1>3, ShapeHolds, LeasesHold, PTL DEF Spec

(***************************************************************************)
(* Two runs of one row, in one session and under one owner name, never     *)
(* both pass the store's lease check: their numbers differ, and the row    *)
(* has one.                                                                *)
(***************************************************************************)
THEOREM OverlappingRunsHaveOneWriter == Spec => []OneWriter
<1>1. RunsInv => OneWriter
  BY DEF RunsInv, Numbered, OneWriter, MayWrite, Holds
<1> QED
  BY <1>1, RunsHold, PTL

(***************************************************************************)
(* A run that reported its outcome, or was superseded, changes nothing of  *)
(* its row whatever run_item does after it: its number has lapsed, and     *)
(* every write it makes is refused.                                        *)
(***************************************************************************)
THEOREM FinishedRunsAreHarmless == Spec => FinishedRunIsHarmless
<1> DEFINE Harmless(t) ==
      LET i == task[t].item
      IN  /\ task[t].pc # "idle" /\ task'[t] # task[t]
          /\ task[t].reported # "none" \/ leaseGeneration[i] # task[t].generation
          => /\ status'[i] = status[i] /\ leaseOwner'[i] = leaseOwner[i]
             /\ attempts'[i] = attempts[i] /\ progress'[i] = progress[i]
<1>1. ASSUME RunsInv, [Next]_vars, NEW t \in Slots PROVE Harmless(t)
  <2> DEFINE i == task[t].item
             g == task[t].generation
  <2> SUFFICES ASSUME task[t].pc # "idle", task'[t] # task[t],
                      task[t].reported # "none" \/ leaseGeneration[i] # g
               PROVE  UNCHANGED queueVars
    BY DEF queueVars
  <2>1. \A w : ~Holds(i, w, g)
    BY <1>1 DEF RunsInv, Reported, Holds, Live
  <2>2. ~MayWrite(t)
    BY <2>1 DEF MayWrite
  <2>3. task \in [Slots -> TaskType] /\ RunnerShape
    BY <1>1 DEF RunsInv, RunnerInv, RunnerShape
  <2>4. \A u \in Slots \ {t} :
          /\ ~Advance(u) /\ ~EndTurn(u) /\ \A j \in Items : ~ClaimRun(u, j)
          /\ \A outcome \in Outcomes : ~AgentReports(u, outcome)
    <3>1. TypeOK
      BY <1>1 DEF RunsInv, RunnerInv
    <3> QED
      BY <2>3, <3>1, ClaimMoves, AdvanceMoves, TurnMoves DEF Moves
  <2>5. CASE Advance(t)
    <3>1. CASE ReadUnattended(t) \/ SetUnattended(t) \/ CreateSession(t) \/ Prepare(t)
               \/ BeginTurn(t) \/ LoseLease(t) \/ Judge(t) \/ Leave(t)
      BY <3>1 DEF ReadUnattended, SetUnattended, CreateSession, Prepare, BeginTurn, LoseLease, Judge, Leave
    <3>2. CASE NeedHuman(t) \/ PrepareRepair(t, "submit") \/ PrepareRepair(t, "stopping")
      BY <2>1, <3>2 DEF NeedHuman, PrepareRepair, SaveAccepted
    <3>3. CASE AskHuman(t) \/ RebindLease(t) \/ StopRepair(t) \/ Settle(t)
      BY <2>2, <3>3 DEF AskHuman, RebindLease, StopRepair, Settle, IfHeld
    <3> QED
      BY <2>5, <3>1, <3>2, <3>3 DEF Advance
  <2>6. ASSUME NEW outcome \in Outcomes PROVE ~AgentReports(t, outcome)
    BY <2>1 DEF AgentReports, Complete
  <2>7. \A j \in Items : ~ClaimRun(t, j)
    BY DEF ClaimRun, At
  <2>8. CASE EndTurn(t)
    BY <2>8 DEF EndTurn, TurnEnds
  <2>9. ASSUME UNCHANGED task PROVE FALSE
    BY <2>9
  <2>10. CASE Crash
    BY <2>10 DEF Crash
  <2>11. ~Queue(Tick) /\ ~ClaimEmpty /\ ~UNCHANGED vars
         /\ \A j \in Items : ~Queue(Enqueue(j) \/ Cancel(j) \/ Approve(j))
    BY <2>9 DEF Queue, ClaimEmpty, vars, runnerVars
  <2>12. \A u \in Slots : ~Heartbeat(u)
    BY <2>9 DEF Heartbeat, runnerVars
  <2>13. \A s \in UserSessions : ~UserTurn(s) /\ ~UserTurnEnds(s)
    BY <2>9 DEF UserTurn, UserTurnEnds
  <2> HIDE DEF i, g
  <2> QED
    BY <1>1, <2>4, <2>5, <2>6, <2>7, <2>8, <2>10, <2>11, <2>12, <2>13 DEF Next, Poll
<1>2. RunsInv /\ [Next]_vars => [\A t \in Slots : Harmless(t)]_vars
  BY <1>1
<1> QED
  BY <1>2, RunsHold, PTL DEF Spec, FinishedRunIsHarmless
=============================================================================
