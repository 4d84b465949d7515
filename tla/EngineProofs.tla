---------------------------- MODULE EngineProofs ----------------------------
(***************************************************************************)
(* Theorems about Engine for any tool calls, tasks and bounds.             *)
(***************************************************************************)
EXTENDS Engine, FiniteSetTheorems, WellFoundedInduction, TLAPS

(***************************************************************************)
(* The next call of a list of calls of the message is one of the list: of  *)
(* their positions one is least.                                           *)
(***************************************************************************)
LEMMA NextIsOne ==
  ASSUME NEW t, batch \in Seq(Calls), task[t].todo \subseteq Asked, task[t].todo # {}
  PROVE  Next1(t) \in task[t].todo
<1> DEFINE places == {Position(c) : c \in task[t].todo}
<1>1. \A c \in Asked : Position(c) \in Nat
  <2> SUFFICES ASSUME NEW c \in Asked PROVE Position(c) \in DOMAIN batch
    OBVIOUS
  <2> QED
    BY DEF Asked, Position
<1>2. places \subseteq Nat /\ places # {}
  BY <1>1
<1>3. PICK m \in places : \A n \in places : m <= n
  <2> HIDE DEF places
  <2>1. PICK m \in places : \A n \in places : <<n, m>> \notin OpToRel(<, Nat)
    BY <1>2, NatLessThanWellFounded, WFMin
  <2>2. ASSUME NEW n \in places, ~(m <= n) PROVE FALSE
    <3>1. <<n, m>> \in {pair \in Nat \X Nat : pair[1] < pair[2]}
      BY <1>2, <2>2
    <3> QED
      BY <2>1, <3>1 DEF OpToRel
  <2> QED
    BY <2>2
<1>4. PICK c \in task[t].todo : m = Position(c)
  BY <1>3
<1>5. \A d \in task[t].todo : Position(c) <= Position(d)
  <2> SUFFICES ASSUME NEW d \in task[t].todo PROVE Position(c) <= Position(d)
    OBVIOUS
  <2>1. Position(d) \in places
    OBVIOUS
  <2> QED
    BY <1>3, <1>4, <2>1
<1> QED
  BY <1>5 DEF Next1

\* It stays the next as long as the list and the message stay.
LEMMA NextKept ==
  ASSUME NEW t, UNCHANGED batch, task'[t].todo = task[t].todo
  PROVE  Next1(t)' = Next1(t)
BY DEF Next1, Position

-----------------------------------------------------------------------------
(***************************************************************************)
(* What the updates of a task leave in it, field by field.                 *)
(***************************************************************************)
Becomes(t, pc, todo, reads, held, outcome) ==
  /\ task' = [task EXCEPT ![t] = task'[t]]
  /\ task'[t] \in [pc : {pc}, kind : {task[t].kind}, todo : {todo}, reads : {reads},
                   held : {held}, target : {task[t].target}, outcome : {outcome}]

\* The next call has its result in memory.
LEMMA HoldMoves ==
  ASSUME task \in [Tasks -> TaskType], NEW t \in Tasks, Hold(t)
  PROVE  Becomes(t, "execute", Later(t), task[t].reads, task[t].held \cup {Next1(t)},
                 task[t].outcome)
<1>1. PICK s, x : s = Later(t) /\ x = task[t].held \cup {Next1(t)}
  OBVIOUS
<1>2. task' = [task EXCEPT ![t] = [@ EXCEPT !.pc = "execute", !.todo = s, !.held = x]]
  BY <1>1 DEF Hold
<1>3. Becomes(t, "execute", s, task[t].reads, x, task[t].outcome)
  BY <1>2 DEF TaskType, Becomes
<1> QED
  BY <1>1, <1>3

\* One read more is deferred.
LEMMA DeferReadMoves ==
  ASSUME task \in [Tasks -> TaskType], NEW t \in Tasks, DeferRead(t)
  PROVE  Becomes(t, "execute", Later(t), task[t].reads \cup {Next1(t)}, task[t].held,
                 task[t].outcome)
<1>1. PICK s, x : s = Later(t) /\ x = task[t].reads \cup {Next1(t)}
  OBVIOUS
<1>2. task' = [task EXCEPT ![t] = [@ EXCEPT !.todo = s, !.reads = x]] /\ task[t].pc = "execute"
  BY <1>1 DEF DeferRead, At
<1>3. Becomes(t, "execute", s, x, task[t].held, task[t].outcome)
  BY <1>2 DEF TaskType, Becomes
<1> QED
  BY <1>1, <1>3

\* The deferred reads run.
LEMMA RunReadsMoves ==
  ASSUME task \in [Tasks -> TaskType], NEW t \in Tasks, RunReads(t)
  PROVE  Becomes(t, task[t].pc, task[t].todo, {}, task[t].held \cup task[t].reads,
                 task[t].outcome)
<1>1. PICK x : x = task[t].held \cup task[t].reads
  OBVIOUS
<1>2. task' = [task EXCEPT ![t] = [@ EXCEPT !.held = x, !.reads = {}]]
  BY <1>1 DEF RunReads
<1>3. Becomes(t, task[t].pc, task[t].todo, {}, x, task[t].outcome)
  BY <1>2 DEF TaskType, Becomes
<1> QED
  BY <1>1, <1>3

\* The end of a task.
LEMMA FinishMoves ==
  ASSUME task \in [Tasks -> TaskType], NEW t \in Tasks, NEW o, Finish(t, o)
  PROVE  Becomes(t, "finish", task[t].todo, task[t].reads, task[t].held, o)
BY DEF Finish, TaskType, Becomes

\* A new place with a new list.
LEMMA ListMoves ==
  ASSUME task \in [Tasks -> TaskType], NEW t \in Tasks, NEW p, NEW s,
         task' = [task EXCEPT ![t] = [@ EXCEPT !.pc = p, !.todo = s]]
  PROVE  Becomes(t, p, s, task[t].reads, task[t].held, task[t].outcome)
BY DEF TaskType, Becomes

\* A new place.
LEMMA GotoMoves ==
  ASSUME task \in [Tasks -> TaskType], NEW t \in Tasks, NEW p, Goto(t, p)
  PROVE  Becomes(t, p, task[t].todo, task[t].reads, task[t].held, task[t].outcome)
BY DEF Goto, TaskType, Becomes

\* A new place with a new list and new results to persist.
LEMMA BlockMoves ==
  ASSUME task \in [Tasks -> TaskType], NEW t \in Tasks, NEW p, NEW s, NEW h,
         task' = [task EXCEPT ![t] = [@ EXCEPT !.pc = p, !.held = h, !.todo = s]]
  PROVE  Becomes(t, p, s, task[t].reads, h, task[t].outcome)
BY DEF TaskType, Becomes

\* Recovery ends at rows that wait for the user, or tells the reads it will retry
\* from the calls it blocks.
LEMMA RecoverMoves ==
  ASSUME task \in [Tasks -> TaskType], NEW t \in Tasks, Recover(t)
  PROVE  \/ Becomes(t, "finish", task[t].todo, task[t].reads, task[t].held, "pending")
         \/ \E safe \in SUBSET Unanswered :
              /\ Becomes(t, "blocked", safe, task[t].reads, Unanswered \ safe,
                         task[t].outcome)
              /\ safe = {c \in Unanswered : SafeToRetry(c)}
<1>1. CASE \E c \in Unanswered : pending[c] = "pending"
  BY <1>1, FinishMoves DEF Recover
<1>2. CASE ~\E c \in Unanswered : pending[c] = "pending"
  <2>1. PICK safe \in SUBSET Unanswered : safe = {c \in Unanswered : SafeToRetry(c)}
    OBVIOUS
  <2>2. PICK blocked : blocked = Unanswered \ safe
    OBVIOUS
  <2>3. task' = [task EXCEPT ![t] = [@ EXCEPT !.pc = "blocked", !.held = blocked,
                                              !.todo = safe]]
    BY <1>2, <2>1, <2>2 DEF Recover
  <2>4. Becomes(t, "blocked", safe, task[t].reads, blocked, task[t].outcome)
    BY <2>3, BlockMoves
  <2> QED
    BY <2>1, <2>2, <2>4
<1> QED
  BY <1>1, <1>2

\* The reads it retries go through execute_tools; there may be none.
LEMMA RetryMoves ==
  ASSUME task \in [Tasks -> TaskType], NEW t \in Tasks, Retry(t)
  PROVE  \E p \in {"loop", "execute"} :
           /\ Becomes(t, p, task[t].todo, task[t].reads, task[t].held, task[t].outcome)
           /\ task[t].todo = {} <=> p = "loop"
<1>1. PICK p \in {"loop", "execute"} : p = IF task[t].todo = {} THEN "loop" ELSE "execute"
  OBVIOUS
<1>2. Goto(t, p)
  BY <1>1 DEF Retry
<1> QED
  BY <1>1, <1>2, GotoMoves

\* run_loop ends at an interrupt, or consults the model.
LEMMA IterateMoves ==
  ASSUME task \in [Tasks -> TaskType], NEW t \in Tasks, Iterate(t)
  PROVE  \/ Becomes(t, "finish", task[t].todo, task[t].reads, task[t].held, "interrupted")
         \/ Becomes(t, "consult", task[t].todo, task[t].reads, task[t].held, task[t].outcome)
BY FinishMoves, GotoMoves DEF Iterate

\* An answer ends the turn, unless steering is queued.
LEMMA AnswerMoves ==
  ASSUME task \in [Tasks -> TaskType], NEW t \in Tasks, Answer(t)
  PROVE  \/ Becomes(t, "finish", task[t].todo, task[t].reads, task[t].held, "done")
         \/ Becomes(t, "loop", task[t].todo, task[t].reads, task[t].held, task[t].outcome)
BY FinishMoves, GotoMoves DEF Answer

\* A resolution takes its row, or finds it taken.
LEMMA TakePendingMoves ==
  ASSUME task \in [Tasks -> TaskType], NEW t \in Tasks, TakePending(t)
  PROVE  \/ /\ pending[task[t].target] # "pending"
            /\ UNCHANGED <<pending, approved>>
            /\ Becomes(t, "finish", task[t].todo, task[t].reads, task[t].held, "processed")
         \/ /\ pending[task[t].target] = "pending"
            /\ SetPending({task[t].target}, "resolved")
            /\ \E s \in {{}, Remaining(task[t].target)} :
                 /\ Becomes(t, AfterTake(task[t].kind), s, task[t].reads, task[t].held,
                            task[t].outcome)
                 /\ task[t].kind = "answer" => s = {}
                 /\ task[t].kind # "answer" => s = Remaining(task[t].target)
<1>1. CASE pending[task[t].target] # "pending"
  BY <1>1, FinishMoves DEF TakePending
<1>2. CASE pending[task[t].target] = "pending"
  BY <1>2, ListMoves DEF TakePending
<1> QED
  BY <1>1, <1>2

-----------------------------------------------------------------------------
(***************************************************************************)
(* A step works on calls of the message, and of a call it does not hold    *)
(* there is no result, no execution, no row to resolve and no verdict.     *)
(***************************************************************************)
Inside(t) ==
  /\ task[t].todo \cup task[t].reads \cup task[t].held \subseteq Asked
  /\ task[t].pc \in {"take", "mark", "target", "record"} => task[t].target \in Asked
  /\ Idle(t) => task[t] = Resting
Untouched(c) ==
  c \notin Asked =>
    results[c] = 0 /\ ran[c] = 0 /\ pending[c] = "none" /\ verdict[c] = "none"
Placed == (\A t \in Tasks : Inside(t)) /\ (\A c \in Calls : Untouched(c))

\* What a step on the next call of a list takes for granted.
LEMMA Grounds ==
  ASSUME EngineTypeOK, Placed
  PROVE  /\ Asked \subseteq Calls /\ (batch = <<>> => Asked = {})
         /\ \A t \in Tasks : task[t].todo # {} => Next1(t) \in task[t].todo
<1>1. Asked \subseteq Calls /\ (batch = <<>> => Asked = {})
  BY DEF EngineTypeOK, TypedVariables, Asked
<1>2. ASSUME NEW t \in Tasks, task[t].todo # {} PROVE Next1(t) \in task[t].todo
  BY <1>2, NextIsOne DEF EngineTypeOK, TypedVariables, Placed, Inside
<1> QED
  BY <1>1, <1>2

\* A step of a task changes that task only.
LEMMA OneTaskMoves ==
  ASSUME EngineTypeOK, Placed, NEW t \in Tasks, TaskStep(t)
  PROVE  \E k \in TaskType : task' = [task EXCEPT ![t] = k]
<1> DEFINE Goal == task'[t] \in TaskType /\ task' = [task EXCEPT ![t] = task'[t]]
<1>0. /\ task \in [Tasks -> TaskType] /\ batch \in Seq(Calls) /\ Asked \subseteq Calls
      /\ task[t].todo # {} => Next1(t) \in task[t].todo
  BY Grounds DEF EngineTypeOK, TypedVariables
<1>a. {"idle", "loop", "consult", "recover", "blocked", "asked", "execute", "run", "pause",
       "parked", "mark", "target", "record", "requeue", "cancel", "cancelled", "finish", "close"} \subseteq Pcs
  BY DEF Pcs
<1> USE DEF TaskType, At, Resting
<1>1. ASSUME Prepare(t) PROVE Goal
  BY <1>1, <1>0, <1>a DEF Prepare, Goto
<1>2. ASSUME Recover(t) PROVE Goal
  <2>1. Unanswered \subseteq Asked
    BY DEF Unanswered
  <2> QED
    BY <1>2, <2>1, <1>0, <1>a, RecoverMoves DEF Becomes
<1>2a. ASSUME Retry(t) PROVE Goal
  BY <1>2a, <1>0, <1>a, RetryMoves DEF Becomes
<1>3. ASSUME Iterate(t) PROVE Goal
  BY <1>3, <1>0, <1>a, IterateMoves DEF Becomes
<1>4. ASSUME Answer(t) PROVE Goal
  BY <1>4, <1>0, <1>a, AnswerMoves DEF Becomes
<1>5. ASSUME StreamFails(t) PROVE Goal
  BY <1>5, <1>0, <1>a DEF StreamFails, Finish
<1>6. ASSUME NEW b \in Batches, AskTools(t, b) PROVE Goal
  BY <1>6, <1>0, <1>a DEF AskTools, Goto
<1>7. ASSUME KeyRows(t) PROVE Goal
  BY <1>7, <1>0, <1>a DEF KeyRows
<1>8. ASSUME Interrupts(t) PROVE Goal
  BY <1>8, <1>0, <1>a, HoldMoves DEF Interrupts, Later, Becomes
<1>9. ASSUME DeferRead(t) PROVE Goal
  <2>1. task[t].todo # {}
    BY <1>9 DEF DeferRead
  <2> QED
    BY <1>9, <2>1, <1>0, <1>a, DeferReadMoves DEF Later, Becomes
<1>10. ASSUME Dispatch(t) PROVE Goal
  BY <1>10, <1>0, <1>a DEF Dispatch, Goto
<1>11. ASSUME Execute(t) PROVE Goal
  <2>1. Hold(t) /\ task[t].pc = "run" /\ Later(t) \subseteq task[t].todo /\ task[t].todo # {}
    BY <1>11 DEF EngineTypeOK, HasWork, Execute, Later
  <2> QED
    BY <2>1, <1>0, <1>a DEF Hold
<1>12. ASSUME RunReads(t) PROVE Goal
  BY <1>12, <1>0, <1>a, RunReadsMoves DEF Becomes
<1>13. ASSUME NeedUser(t) PROVE Goal
  BY <1>13, <1>0, <1>a DEF NeedUser, Goto
<1>14. ASSUME Persist(t) PROVE Goal
  BY <1>14, <1>0, <1>a DEF Persist
<1>15. ASSUME ParkLater(t) PROVE Goal
  BY <1>15, <1>0, <1>a DEF ParkLater, Goto, Later
<1>16. ASSUME ParkCall(t) PROVE Goal
  BY <1>16, <1>0, <1>a DEF ParkCall, Finish
<1>17. ASSUME LoopAgain(t) PROVE Goal
  BY <1>17, <1>0, <1>a DEF LoopAgain, Goto
<1>18. ASSUME TakePending(t) PROVE Goal
  <2>1. AfterTake(task[t].kind) \in {"mark", "record"} /\ Remaining(task[t].target) \subseteq Asked
    BY DEF AfterTake, Remaining
  <2>2. PICK p \in {"finish", "mark", "record"}, s \in SUBSET Asked :
          \/ Becomes(t, p, task[t].todo, task[t].reads, task[t].held, "processed")
          \/ Becomes(t, p, s, task[t].reads, task[t].held, task[t].outcome)
    BY <1>18, <2>1, <1>0, TakePendingMoves
  <2> QED
    BY <2>2, <1>0, <1>a DEF Becomes
<1>19. ASSUME MarkTarget(t) PROVE Goal
  BY <1>19, <1>0, <1>a DEF MarkTarget, Goto
<1>20. ASSUME RunTarget(t) PROVE Goal
  BY <1>20, <1>0, <1>a DEF RunTarget, Goto
<1>21. ASSUME RecordTarget(t) PROVE Goal
  BY <1>21, <1>0, <1>a DEF RecordTarget, Goto
<1>22. ASSUME Requeue(t) PROVE Goal
  BY <1>22, <1>0, <1>a DEF Requeue, Goto
<1>23. ASSUME CancelRow(t) PROVE Goal
  BY <1>23, <1>0, <1>a DEF CancelRow, Goto
<1>24. ASSUME CancelCall(t) PROVE Goal
  BY <1>24, <1>0, <1>a DEF CancelCall, Pop, Later
<1>25. ASSUME Release(t) PROVE Goal
  BY <1>25, <1>0, <1>a DEF Release, Goto
<1>26. ASSUME Close(t) PROVE Goal
  BY <1>26, <1>0, <1>a DEF Close
<1> HIDE DEF Goal, TaskType
<1>27. Goal
  BY <1>1, <1>2, <1>2a, <1>3, <1>4, <1>5, <1>6, <1>7, <1>8, <1>9, <1>10, <1>11, <1>12,
     <1>13, <1>14, <1>15, <1>16, <1>17, <1>18, <1>19, <1>20, <1>21, <1>22, <1>23,
     <1>24, <1>25, <1>26
     DEF TaskStep, Loop, ExecuteTools, ResolveSteps
<1> QED
  BY <1>27 DEF Goal

\* A step of a task leaves it with what it works on.
LEMMA WorkKept ==
  ASSUME EngineTypeOK, Placed, NEW t \in Tasks, TaskStep(t)
  PROVE  HasWork(t)'
<1>0. task \in [Tasks -> TaskType] /\ HasWork(t)
      /\ (Placed => (task[t].target \in Calls \/ task[t].target = <<>>))
  BY DEF EngineTypeOK, TaskType
<1> USE DEF TaskType, HasWork, At, Resting
<1>1. ASSUME Prepare(t) PROVE HasWork(t)'
  BY <1>1, <1>0 DEF Prepare, Goto
<1>2. ASSUME Recover(t) PROVE HasWork(t)'
  BY <1>2, <1>0, RecoverMoves DEF Recover, Becomes
<1>2a. ASSUME Retry(t) PROVE HasWork(t)'
  BY <1>2a, <1>0, RetryMoves DEF Becomes
<1>3. ASSUME Iterate(t) PROVE HasWork(t)'
  BY <1>3, <1>0, IterateMoves DEF Becomes
<1>4. ASSUME Answer(t) PROVE HasWork(t)'
  BY <1>4, <1>0, AnswerMoves DEF Becomes
<1>5. ASSUME StreamFails(t) PROVE HasWork(t)'
  BY <1>5, <1>0 DEF StreamFails, Finish
<1>6. ASSUME NEW b \in Batches, AskTools(t, b) PROVE HasWork(t)'
  BY <1>6, <1>0 DEF AskTools, Goto
<1>7. ASSUME KeyRows(t) PROVE HasWork(t)'
  BY <1>7, <1>0 DEF KeyRows
<1>8. ASSUME Interrupts(t) PROVE HasWork(t)'
  BY <1>8, <1>0, HoldMoves DEF Interrupts, Later, Becomes
<1>9. ASSUME DeferRead(t) PROVE HasWork(t)'
  BY <1>9, <1>0 DEF DeferRead, Later
<1>10. ASSUME Dispatch(t) PROVE HasWork(t)'
  BY <1>10, <1>0 DEF Dispatch, Goto
<1>11. ASSUME Execute(t) PROVE HasWork(t)'
  BY <1>11, <1>0, HoldMoves DEF Execute, Later, Becomes
<1>12. ASSUME RunReads(t) PROVE HasWork(t)'
  BY <1>12, <1>0, RunReadsMoves DEF Becomes
<1>13. ASSUME NeedUser(t) PROVE HasWork(t)'
  BY <1>13, <1>0 DEF NeedUser, Goto
<1>14. ASSUME Persist(t) PROVE HasWork(t)'
  BY <1>14, <1>0 DEF Persist
<1>15. ASSUME ParkLater(t) PROVE HasWork(t)'
  BY <1>15, <1>0 DEF ParkLater, Goto, Later
<1>16. ASSUME ParkCall(t) PROVE HasWork(t)'
  BY <1>16, <1>0 DEF ParkCall, Finish
<1>17. ASSUME LoopAgain(t) PROVE HasWork(t)'
  BY <1>17, <1>0 DEF LoopAgain, Goto
<1>18. ASSUME TakePending(t) PROVE HasWork(t)'
  BY <1>18, <1>0, TakePendingMoves DEF TakePending, AfterTake, Becomes
<1>19. ASSUME MarkTarget(t) PROVE HasWork(t)'
  BY <1>19, <1>0 DEF MarkTarget, Goto
<1>20. ASSUME RunTarget(t) PROVE HasWork(t)'
  BY <1>20, <1>0 DEF RunTarget, Goto
<1>21. ASSUME RecordTarget(t) PROVE HasWork(t)'
  BY <1>21, <1>0 DEF RecordTarget, Goto
<1>22. ASSUME Requeue(t) PROVE HasWork(t)'
  BY <1>22, <1>0 DEF Requeue, Goto
<1>23. ASSUME CancelRow(t) PROVE HasWork(t)'
  BY <1>23, <1>0 DEF CancelRow, Goto
<1>24. ASSUME CancelCall(t) PROVE HasWork(t)'
  BY <1>24, <1>0 DEF CancelCall, Pop, Later
<1>25. ASSUME Release(t) PROVE HasWork(t)'
  BY <1>25, <1>0 DEF Release, Goto
<1>26. ASSUME Close(t) PROVE HasWork(t)'
  BY <1>26, <1>0 DEF Close
<1> QED
  BY <1>1, <1>2, <1>2a, <1>3, <1>4, <1>5, <1>6, <1>7, <1>8, <1>9, <1>10, <1>11, <1>12,
     <1>13, <1>14, <1>15, <1>16, <1>17, <1>18, <1>19, <1>20, <1>21, <1>22, <1>23,
     <1>24, <1>25, <1>26, TaskStep(t)
     DEF TaskStep, Loop, ExecuteTools, ResolveSteps

\* A step of a task keeps the types of the other variables.
LEMMA VariablesKept ==
  ASSUME EngineTypeOK, Placed, NEW t \in Tasks, TaskStep(t)
  PROVE  TypedVariables'
<1>0. /\ TypedVariables /\ task \in [Tasks -> TaskType] /\ Asked \subseteq Calls
      /\ task[t].todo # {} => Next1(t) \in Calls
      /\ HasWork(t)
  BY Grounds DEF EngineTypeOK, TaskType
<1> USE EngineAssumption DEF TypedVariables, At, durable, memory, history
<1>1. ASSUME Prepare(t) PROVE TypedVariables'
  BY <1>1, <1>0 DEF Prepare
<1>2. ASSUME Recover(t) PROVE TypedVariables'
  <2>2. verdict' \in [Calls -> {"none", "unknown", "unresolved"}]
    BY <1>2, <1>0 DEF Recover
  <2> QED
    BY <1>2, <2>2, <1>0 DEF Recover
<1>2a. ASSUME Retry(t) PROVE TypedVariables'
  <2>1. task[t].todo \subseteq Calls
    BY <1>0 DEF TaskType
  <2> QED
    BY <1>2a, <2>1, <1>0 DEF Retry
<1>3. ASSUME Iterate(t) PROVE TypedVariables'
  BY <1>3, <1>0 DEF Iterate
<1>4. ASSUME Answer(t) PROVE TypedVariables'
  BY <1>4, <1>0 DEF Answer
<1>5. ASSUME StreamFails(t) PROVE TypedVariables'
  BY <1>5, <1>0 DEF StreamFails
<1>6. ASSUME NEW b \in Batches, AskTools(t, b) PROVE TypedVariables'
  BY <1>6, <1>0 DEF AskTools
<1>7. ASSUME KeyRows(t) PROVE TypedVariables'
  BY <1>7, <1>0 DEF KeyRows
<1>8. ASSUME Interrupts(t) PROVE TypedVariables'
  BY <1>8, <1>0, HoldMoves DEF Interrupts, Becomes
<1>9. ASSUME DeferRead(t) PROVE TypedVariables'
  BY <1>9, <1>0, DeferReadMoves DEF DeferRead, Becomes
<1>10. ASSUME Dispatch(t) PROVE TypedVariables'
  BY <1>10, <1>0 DEF Dispatch, Mark
<1>11. ASSUME Execute(t) PROVE TypedVariables'
  <2>1. PICK c \in Calls : c = Next1(t)
    BY <1>11, <1>0 DEF Execute, HasWork
  <2>2. ran' = ran \/ ran' = [ran EXCEPT ![c] = @ + 1]
    BY <1>11, <2>1 DEF Execute, Run
  <2>3. ran \in [Calls -> Nat]
    BY <1>0
  <2>4. ran' \in [Calls -> Nat]
    <3> HIDE DEF TypedVariables
    <3> QED
      BY <2>2, <2>3
  <2> QED
    BY <1>11, <2>4, <1>0 DEF Execute
<1>12. ASSUME RunReads(t) PROVE TypedVariables'
  BY <1>12, <1>0 DEF RunReads, Mark
<1>13. ASSUME NeedUser(t) PROVE TypedVariables'
  BY <1>13, <1>0 DEF NeedUser, SetPending
<1>14. ASSUME Persist(t) PROVE TypedVariables'
  BY <1>14, <1>0 DEF Persist, Record
<1>15. ASSUME ParkLater(t) PROVE TypedVariables'
  BY <1>15, <1>0 DEF ParkLater, SetPending
<1>16. ASSUME ParkCall(t) PROVE TypedVariables'
  BY <1>16, <1>0 DEF ParkCall, SetPending
<1>17. ASSUME LoopAgain(t) PROVE TypedVariables'
  BY <1>17, <1>0 DEF LoopAgain
<1>18. ASSUME TakePending(t) PROVE TypedVariables'
  <2>1. CASE pending[task[t].target] = "pending"
    <3>1. pending' \in [Calls -> {"none", "pending", "resolved"}]
      BY <1>18, <2>1, <1>0 DEF TakePending, SetPending
    <3>2. \/ approved' = approved
          \/ approved' = [approved EXCEPT ![task[t].target] = @ + 1]
      BY <1>18, <2>1 DEF TakePending
    <3>3. approved' \in [Calls -> Nat]
      BY <3>2, <1>0
    <3> QED
      BY <1>18, <2>1, <3>1, <3>3, <1>0 DEF TakePending
  <2>2. CASE pending[task[t].target] # "pending"
    BY <1>18, <2>2, <1>0 DEF TakePending
  <2> QED
    BY <2>1, <2>2
<1>19. ASSUME MarkTarget(t) PROVE TypedVariables'
  BY <1>19, <1>0 DEF MarkTarget, Mark
<1>20. ASSUME RunTarget(t) PROVE TypedVariables'
  BY <1>20, <1>0 DEF RunTarget, Run, HasWork
<1>21. ASSUME RecordTarget(t) PROVE TypedVariables'
  BY <1>21, <1>0 DEF RecordTarget, Record
<1>22. ASSUME Requeue(t) PROVE TypedVariables'
  BY <1>22, <1>0 DEF Requeue, SetPending
<1>23. ASSUME CancelRow(t) PROVE TypedVariables'
  BY <1>23, <1>0 DEF CancelRow, SetPending
<1>24. ASSUME CancelCall(t) PROVE TypedVariables'
  BY <1>24, <1>0 DEF CancelCall, Record
<1>25. ASSUME Release(t) PROVE TypedVariables'
  BY <1>25, <1>0 DEF Release
<1>26. ASSUME Close(t) PROVE TypedVariables'
  BY <1>26, <1>0 DEF Close, TerminalStatus
<1> QED
  BY <1>1, <1>2, <1>2a, <1>3, <1>4, <1>5, <1>6, <1>7, <1>8, <1>9, <1>10, <1>11, <1>12,
     <1>13, <1>14, <1>15, <1>16, <1>17, <1>18, <1>19, <1>20, <1>21, <1>22, <1>23,
     <1>24, <1>25, <1>26, TaskStep(t)
     DEF TaskStep, Loop, ExecuteTools, ResolveSteps

\* Every step keeps the types.
LEMMA TypesKept ==
  ASSUME EngineTypeOK, Placed, [Next]_vars
  PROVE  EngineTypeOK'
<1>1. ASSUME NEW t \in Tasks, TaskStep(t) PROVE EngineTypeOK'
  <2>1. PICK k \in TaskType : task' = [task EXCEPT ![t] = k]
    BY <1>1, OneTaskMoves
  <2>2. task' \in [Tasks -> TaskType] /\ HasWork(t)' /\ TypedVariables'
    BY <1>1, <2>1, WorkKept, VariablesKept DEF EngineTypeOK
  <2>3. ASSUME NEW u \in Tasks, u # t PROVE HasWork(u)'
    BY <2>1, <2>3 DEF EngineTypeOK, HasWork
  <2> QED
    BY <2>2, <2>3 DEF EngineTypeOK
<1>2. ASSUME NEW t \in Tasks, NEW kind \in {"turn", "resume"}, Begin(t, kind) PROVE EngineTypeOK'
  <2>1. task' \in [Tasks -> TaskType]
    BY <1>2 DEF EngineTypeOK, Begin, Resting, TaskType, Pcs
  <2>2. TypedVariables'
    BY <1>2, EngineAssumption DEF EngineTypeOK, TypedVariables, Begin, Call, durable
  <2> QED
    BY <1>2, <2>1, <2>2 DEF EngineTypeOK, Begin, HasWork
<1>3. ASSUME NEW t \in Tasks, NEW c \in Calls, NEW kind \in {"approve", "deny", "answer"},
             Resolve(t, c, kind) PROVE EngineTypeOK'
  <2>1. task' \in [Tasks -> TaskType]
    BY <1>3 DEF EngineTypeOK, Resolve, Resting, TaskType, Pcs
  <2>2. TypedVariables'
    BY <1>3, EngineAssumption DEF EngineTypeOK, TypedVariables, Resolve, Call, memory
  <2> QED
    BY <1>3, <2>1, <2>2 DEF EngineTypeOK, Resolve, HasWork
<1>4. CASE Crash
  <2>1. task' \in [Tasks -> TaskType]
    BY <1>4 DEF Crash, Resting, TaskType, Pcs
  <2>2. note' \in [Notes -> {"new", "appended", "queued"}]
    BY <1>4 DEF Crash
  <2>3. crashes' \in Nat /\ steering' \subseteq Notes
    BY <1>4 DEF Crash, EngineTypeOK, TypedVariables
  <2>4. TypedVariables'
    BY <1>4, <2>2, <2>3 DEF EngineTypeOK, TypedVariables, Crash, history
  <2> QED
    BY <1>4, <2>1, <2>4 DEF EngineTypeOK, Crash, HasWork, Resting
<1>5. CASE Interrupt \/ \E n \in Notes : Steer(n)
  <2>1. UNCHANGED task
    BY <1>5 DEF Interrupt, Steer, SteerAppend, SteerQueue
  <2>2. TypedVariables'
    BY <1>5 DEF EngineTypeOK, TypedVariables, Interrupt, Steer, SteerAppend, SteerQueue,
                durable, history
  <2> QED
    BY <2>1, <2>2 DEF EngineTypeOK, HasWork
<1>6. CASE UNCHANGED vars
  BY <1>6 DEF vars, durable, memory, history, EngineTypeOK, TypedVariables, HasWork
<1> QED
  BY <1>1, <1>2, <1>3, <1>4, <1>5, <1>6 DEF Next

\* A message with calls stays once it is there.
LEMMA AskedKept ==
  ASSUME EngineTypeOK, Placed, NEW t \in Tasks, TaskStep(t)
  PROVE  /\ batch' = batch \/ (batch = <<>> /\ task[t].pc = "consult")
         /\ batch' = batch => Asked' = Asked
         /\ Asked \subseteq Asked'
<1>1. batch' = batch \/ (batch = <<>> /\ task[t].pc = "consult")
  BY DEF TaskStep, Loop, ExecuteTools, ResolveSteps, durable, At, Prepare, Recover, Retry,
         Iterate, Answer, StreamFails, AskTools, KeyRows, Interrupts, DeferRead, Dispatch,
         Execute, RunReads, NeedUser, Persist, ParkLater, ParkCall, LoopAgain, TakePending,
         MarkTarget, RunTarget, RecordTarget, Requeue, CancelRow, CancelCall, Release, Close
<1>2. batch' = batch => Asked' = Asked
  BY DEF Asked
<1> QED
  BY <1>1, <1>2, Grounds

\* A step of a task works on calls of the message.
LEMMA InsideKept ==
  ASSUME EngineTypeOK, Placed, NEW t \in Tasks, TaskStep(t)
  PROVE  Inside(t)'
<1>0. /\ task \in [Tasks -> TaskType] /\ HasWork(t) /\ Inside(t)
      /\ task[t].todo # {} => Next1(t) \in task[t].todo
      /\ batch' = batch \/ (Asked = {} /\ task[t].pc = "consult")
      /\ batch' = batch => Asked' = Asked
      /\ Asked \subseteq Asked'
  BY Grounds, AskedKept DEF EngineTypeOK, Placed
<1> USE DEF Inside, HasWork, Idle, At, Resting, durable, TaskType
<1>1. ASSUME Prepare(t) PROVE Inside(t)'
  BY <1>1, <1>0 DEF Prepare, Goto
<1>2. ASSUME Recover(t) PROVE Inside(t)'
  <2>1. batch' = batch /\ Unanswered \subseteq Asked /\ task[t].pc = "recover"
    BY <1>2 DEF Recover, Unanswered
  <2> QED
    BY <1>2, <2>1, <1>0, RecoverMoves DEF Becomes
<1>2a. ASSUME Retry(t) PROVE Inside(t)'
  <2>1. batch' = batch /\ task[t].pc = "blocked"
    BY <1>2a DEF Retry
  <2> QED
    BY <1>2a, <2>1, <1>0, RetryMoves DEF Becomes
<1>3. ASSUME Iterate(t) PROVE Inside(t)'
  BY <1>3, <1>0, IterateMoves DEF Becomes
<1>4. ASSUME Answer(t) PROVE Inside(t)'
  BY <1>4, <1>0, AnswerMoves DEF Becomes
<1>5. ASSUME StreamFails(t) PROVE Inside(t)'
  BY <1>5, <1>0 DEF StreamFails, Finish
<1>6. ASSUME NEW b \in Batches, AskTools(t, b) PROVE Inside(t)'
  BY <1>6, <1>0 DEF AskTools, Goto
<1>7. ASSUME KeyRows(t) PROVE Inside(t)'
  BY <1>7, <1>0 DEF KeyRows
<1>8. ASSUME Interrupts(t) PROVE Inside(t)'
  BY <1>8, <1>0, HoldMoves DEF Interrupts, Later, Becomes
<1>9. ASSUME DeferRead(t) PROVE Inside(t)'
  <2>1. task[t].todo # {} /\ batch' = batch /\ task[t].pc = "execute"
    BY <1>9 DEF DeferRead
  <2> QED
    BY <1>9, <2>1, <1>0, DeferReadMoves DEF Later, Becomes
<1>10. ASSUME Dispatch(t) PROVE Inside(t)'
  BY <1>10, <1>0 DEF Dispatch, Goto
<1>11. ASSUME Execute(t) PROVE Inside(t)'
  BY <1>11, <1>0, HoldMoves DEF Execute, Later, Becomes
<1>12. ASSUME RunReads(t) PROVE Inside(t)'
  BY <1>12, <1>0, RunReadsMoves DEF RunReads, Becomes
<1>13. ASSUME NeedUser(t) PROVE Inside(t)'
  BY <1>13, <1>0 DEF NeedUser, Goto
<1>14. ASSUME Persist(t) PROVE Inside(t)'
  BY <1>14, <1>0 DEF Persist
<1>15. ASSUME ParkLater(t) PROVE Inside(t)'
  BY <1>15, <1>0 DEF ParkLater, Goto, Later
<1>16. ASSUME ParkCall(t) PROVE Inside(t)'
  BY <1>16, <1>0 DEF ParkCall, Finish
<1>17. ASSUME LoopAgain(t) PROVE Inside(t)'
  BY <1>17, <1>0 DEF LoopAgain, Goto
<1>18. ASSUME TakePending(t) PROVE Inside(t)'
  <2>1. batch' = batch /\ Remaining(task[t].target) \subseteq Asked /\ task[t].pc = "take"
    BY <1>18 DEF TakePending, Remaining
  <2> QED
    <3>1. AfterTake(task[t].kind) \in {"mark", "record"}
      BY DEF AfterTake
    <3>2. PICK p \in {"finish", "mark", "record"}, s \in SUBSET Asked :
            \/ /\ p = "finish"
               /\ Becomes(t, p, task[t].todo, task[t].reads, task[t].held, "processed")
            \/ Becomes(t, p, s, task[t].reads, task[t].held, task[t].outcome)
      BY <1>18, <2>1, <3>1, <1>0, TakePendingMoves
    <3> QED
      BY <2>1, <3>2, <1>0 DEF Becomes
<1>19. ASSUME MarkTarget(t) PROVE Inside(t)'
  BY <1>19, <1>0 DEF MarkTarget, Goto
<1>20. ASSUME RunTarget(t) PROVE Inside(t)'
  BY <1>20, <1>0 DEF RunTarget, Goto
<1>21. ASSUME RecordTarget(t) PROVE Inside(t)'
  BY <1>21, <1>0 DEF RecordTarget, Goto
<1>22. ASSUME Requeue(t) PROVE Inside(t)'
  BY <1>22, <1>0 DEF Requeue, Goto
<1>23. ASSUME CancelRow(t) PROVE Inside(t)'
  BY <1>23, <1>0 DEF CancelRow, Goto
<1>24. ASSUME CancelCall(t) PROVE Inside(t)'
  BY <1>24, <1>0 DEF CancelCall, Pop, Later
<1>25. ASSUME Release(t) PROVE Inside(t)'
  BY <1>25, <1>0 DEF Release, Goto
<1>26. ASSUME Close(t) PROVE Inside(t)'
  BY <1>26, <1>0 DEF Close
<1> QED
  BY <1>1, <1>2, <1>2a, <1>3, <1>4, <1>5, <1>6, <1>7, <1>8, <1>9, <1>10, <1>11, <1>12,
     <1>13, <1>14, <1>15, <1>16, <1>17, <1>18, <1>19, <1>20, <1>21, <1>22, <1>23,
     <1>24, <1>25, <1>26, TaskStep(t)
     DEF TaskStep, Loop, ExecuteTools, ResolveSteps

\* A step of a task changes nothing of the calls outside the message.
LEMMA UntouchedKept ==
  ASSUME EngineTypeOK, Placed, NEW t \in Tasks, TaskStep(t), NEW c \in Calls
  PROVE  Untouched(c)'
<1>0. /\ TypedVariables /\ task \in [Tasks -> TaskType] /\ HasWork(t) /\ Inside(t) /\ Untouched(c)
      /\ task[t].todo # {} => Next1(t) \in task[t].todo
      /\ Asked \subseteq Asked'
  BY Grounds, AskedKept DEF EngineTypeOK, Placed
<1> DEFINE Goal == c \notin Asked =>
             /\ results'[c] = results[c] /\ ran'[c] = ran[c]
             /\ pending'[c] = pending[c] /\ verdict'[c] = verdict[c]
<1> USE DEF Inside, HasWork, At, durable, history, Later
<1>1. ASSUME Prepare(t) PROVE Goal
  BY <1>1, <1>0 DEF Prepare
<1>2. ASSUME Recover(t) PROVE Goal
  BY <1>2, <1>0, RecoverMoves DEF Recover, Record, Unanswered, Becomes
<1>2a. ASSUME Retry(t) PROVE Goal
  BY <1>2a, <1>0 DEF Retry
<1>3. ASSUME Iterate(t) PROVE Goal
  BY <1>3, <1>0 DEF Iterate
<1>4. ASSUME Answer(t) PROVE Goal
  BY <1>4, <1>0 DEF Answer
<1>5. ASSUME StreamFails(t) PROVE Goal
  BY <1>5, <1>0 DEF StreamFails
<1>6. ASSUME NEW b \in Batches, AskTools(t, b) PROVE Goal
  BY <1>6, <1>0 DEF AskTools
<1>7. ASSUME KeyRows(t) PROVE Goal
  BY <1>7, <1>0 DEF KeyRows
<1>8. ASSUME Interrupts(t) PROVE Goal
  BY <1>8, <1>0, HoldMoves DEF Interrupts, Becomes
<1>9. ASSUME DeferRead(t) PROVE Goal
  BY <1>9, <1>0, DeferReadMoves DEF DeferRead, Becomes
<1>10. ASSUME Dispatch(t) PROVE Goal
  BY <1>10, <1>0 DEF Dispatch
<1>11. ASSUME Execute(t) PROVE Goal
  <2>1. PICK d \in Asked : d = Next1(t)
    BY <1>11, <1>0 DEF Execute
  <2>2. ran' = ran \/ ran' = [ran EXCEPT ![d] = @ + 1]
    BY <1>11, <2>1 DEF Execute, Run
  <2>3. c \notin Asked => ran'[c] = ran[c]
    BY <2>1, <2>2, <1>0 DEF TypedVariables
  <2> QED
    BY <1>11, <2>3 DEF Execute
<1>12. ASSUME RunReads(t) PROVE Goal
  BY <1>12, <1>0 DEF RunReads
<1>13. ASSUME NeedUser(t) PROVE Goal
  BY <1>13, <1>0 DEF NeedUser, SetPending
<1>14. ASSUME Persist(t) PROVE Goal
  BY <1>14, <1>0 DEF Persist, Record
<1>15. ASSUME ParkLater(t) PROVE Goal
  BY <1>15, <1>0 DEF ParkLater, SetPending
<1>16. ASSUME ParkCall(t) PROVE Goal
  BY <1>16, <1>0 DEF ParkCall, SetPending
<1>17. ASSUME LoopAgain(t) PROVE Goal
  BY <1>17, <1>0 DEF LoopAgain
<1>18. ASSUME TakePending(t) PROVE Goal
  <2>1. CASE pending[task[t].target] = "pending"
    BY <1>18, <2>1, <1>0 DEF TakePending, SetPending
  <2>2. CASE pending[task[t].target] # "pending"
    BY <1>18, <2>2, <1>0 DEF TakePending
  <2> QED
    BY <2>1, <2>2
<1>19. ASSUME MarkTarget(t) PROVE Goal
  BY <1>19, <1>0 DEF MarkTarget
<1>20. ASSUME RunTarget(t) PROVE Goal
  BY <1>20, <1>0 DEF RunTarget, Run
<1>21. ASSUME RecordTarget(t) PROVE Goal
  BY <1>21, <1>0 DEF RecordTarget, Record
<1>22. ASSUME Requeue(t) PROVE Goal
  BY <1>22, <1>0 DEF Requeue, SetPending
<1>23. ASSUME CancelRow(t) PROVE Goal
  BY <1>23, <1>0 DEF CancelRow, SetPending
<1>24. ASSUME CancelCall(t) PROVE Goal
  BY <1>24, <1>0 DEF CancelCall, Record
<1>25. ASSUME Release(t) PROVE Goal
  BY <1>25, <1>0 DEF Release
<1>26. ASSUME Close(t) PROVE Goal
  BY <1>26, <1>0 DEF Close
<1> HIDE DEF Goal
<1>27. Goal
  BY <1>1, <1>2, <1>2a, <1>3, <1>4, <1>5, <1>6, <1>7, <1>8, <1>9, <1>10, <1>11, <1>12,
     <1>13, <1>14, <1>15, <1>16, <1>17, <1>18, <1>19, <1>20, <1>21, <1>22, <1>23,
     <1>24, <1>25, <1>26, TaskStep(t)
     DEF TaskStep, Loop, ExecuteTools, ResolveSteps
<1> QED
  BY <1>0, <1>27 DEF Goal, Untouched

\* Every step keeps the tasks on calls of the message.
LEMMA PlacedKept ==
  ASSUME EngineTypeOK, Placed, [Next]_vars
  PROVE  Placed'
<1>0. batch' = batch => Asked' = Asked
  BY DEF Asked
<1>1. ASSUME NEW t \in Tasks, TaskStep(t) PROVE Placed'
  <2>1. PICK k \in TaskType : task' = [task EXCEPT ![t] = k]
    BY <1>1, OneTaskMoves
  <2>2. Inside(t)' /\ \A c \in Calls : Untouched(c)'
    BY <1>1, InsideKept, UntouchedKept
  <2>3. ASSUME NEW u \in Tasks, u # t PROVE Inside(u)'
    <3>1. Inside(u) /\ task'[u] = task[u] /\ Asked \subseteq Asked'
      BY <1>1, <2>1, <2>3, AskedKept DEF EngineTypeOK, Placed
    <3> QED
      BY <3>1 DEF Inside, Idle, Resting
  <2> QED
    BY <2>2, <2>3 DEF Placed
<1>2. ASSUME NEW t \in Tasks, NEW kind \in {"turn", "resume"}, Begin(t, kind) PROVE Placed'
  BY <1>0, <1>2 DEF Begin, Placed, Inside, Untouched, EngineTypeOK, Idle, Resting, durable
<1>3. ASSUME NEW t \in Tasks, NEW c \in Calls, NEW kind \in {"approve", "deny", "answer"},
             Resolve(t, c, kind) PROVE Placed'
  BY <1>0, <1>3 DEF Resolve, Placed, Inside, Untouched, EngineTypeOK, Idle, Resting
<1>4. CASE Crash
  BY <1>0, <1>4 DEF Crash, Placed, Inside, Untouched, Idle, Resting, history
<1>5. CASE UNCHANGED <<batch, results, ran, pending, verdict, task>>
  BY <1>0, <1>5 DEF Placed, Inside, Untouched, Idle, Resting
<1> QED
  BY <1>1, <1>2, <1>3, <1>4, <1>5
     DEF Next, Interrupt, Steer, SteerAppend, SteerQueue, vars, durable, history

(***************************************************************************)
(* What lets a task run a call: an approval, or that the call is a write.  *)
(***************************************************************************)
Chosen(t) ==
  /\ task[t].pc \in {"mark", "target"} => task[t].kind = "approve"
  /\ task[t].pc = "run" => Kind[Next1(t)] = "write"

\* A step of a task leaves it with a call it may run.
LEMMA OwnChoice ==
  ASSUME EngineTypeOK, Placed, NEW t \in Tasks, Chosen(t), TaskStep(t)
  PROVE  /\ task'[t].pc \in {"mark", "target"} => task'[t].kind = "approve"
         /\ task'[t].pc = "run" => /\ task'[t].todo = task[t].todo /\ UNCHANGED batch
                                   /\ Kind[Next1(t)] = "write"
<1> DEFINE Goal == /\ task'[t].pc \in {"mark", "target"} => task'[t].kind = "approve"
                   /\ task'[t].pc = "run" => /\ task'[t].todo = task[t].todo /\ UNCHANGED batch
                                             /\ Kind[Next1(t)] = "write"
<1>0. task \in [Tasks -> TaskType] /\ Chosen(t)
  BY DEF EngineTypeOK
<1> USE DEF Chosen, TaskType, At, durable, Resting
<1>1. ASSUME Prepare(t) PROVE Goal
  BY <1>1, <1>0 DEF Prepare, Goto
<1>2. ASSUME Recover(t) PROVE Goal
  BY <1>2, <1>0, RecoverMoves DEF Recover, Becomes
<1>2a. ASSUME Retry(t) PROVE Goal
  BY <1>2a, <1>0, RetryMoves DEF Becomes
<1>3. ASSUME Iterate(t) PROVE Goal
  BY <1>3, <1>0, IterateMoves DEF Becomes
<1>4. ASSUME Answer(t) PROVE Goal
  BY <1>4, <1>0, AnswerMoves DEF Becomes
<1>5. ASSUME StreamFails(t) PROVE Goal
  BY <1>5, <1>0 DEF StreamFails, Finish
<1>6. ASSUME NEW b \in Batches, AskTools(t, b) PROVE Goal
  BY <1>6, <1>0 DEF AskTools, Goto
<1>7. ASSUME KeyRows(t) PROVE Goal
  BY <1>7, <1>0 DEF KeyRows
<1>8. ASSUME Interrupts(t) PROVE Goal
  BY <1>8, <1>0, HoldMoves DEF Interrupts, Later, Becomes
<1>9. ASSUME DeferRead(t) PROVE Goal
  <2>1. task[t].todo # {} /\ batch' = batch /\ task[t].pc = "execute"
    BY <1>9 DEF DeferRead
  <2> QED
    BY <1>9, <2>1, <1>0, DeferReadMoves DEF Later, Becomes
<1>10. ASSUME Dispatch(t) PROVE Goal
  BY <1>10, <1>0 DEF Dispatch, Goto
<1>11. ASSUME Execute(t) PROVE Goal
  BY <1>11, <1>0, HoldMoves DEF Execute, Later, Becomes
<1>12. ASSUME RunReads(t) PROVE Goal
  BY <1>12, <1>0, RunReadsMoves DEF RunReads, Becomes
<1>13. ASSUME NeedUser(t) PROVE Goal
  BY <1>13, <1>0 DEF NeedUser, Goto
<1>14. ASSUME Persist(t) PROVE Goal
  BY <1>14, <1>0 DEF Persist
<1>15. ASSUME ParkLater(t) PROVE Goal
  BY <1>15, <1>0 DEF ParkLater, Goto, Later
<1>16. ASSUME ParkCall(t) PROVE Goal
  BY <1>16, <1>0 DEF ParkCall, Finish
<1>17. ASSUME LoopAgain(t) PROVE Goal
  BY <1>17, <1>0 DEF LoopAgain, Goto
<1>18. ASSUME TakePending(t) PROVE Goal
  BY <1>18, <1>0, TakePendingMoves DEF TakePending, AfterTake, Becomes
<1>19. ASSUME MarkTarget(t) PROVE Goal
  BY <1>19, <1>0 DEF MarkTarget, Goto
<1>20. ASSUME RunTarget(t) PROVE Goal
  BY <1>20, <1>0 DEF RunTarget, Goto
<1>21. ASSUME RecordTarget(t) PROVE Goal
  BY <1>21, <1>0 DEF RecordTarget, Goto
<1>22. ASSUME Requeue(t) PROVE Goal
  BY <1>22, <1>0 DEF Requeue, Goto
<1>23. ASSUME CancelRow(t) PROVE Goal
  BY <1>23, <1>0 DEF CancelRow, Goto
<1>24. ASSUME CancelCall(t) PROVE Goal
  BY <1>24, <1>0 DEF CancelCall, Pop, Later
<1>25. ASSUME Release(t) PROVE Goal
  BY <1>25, <1>0 DEF Release, Goto
<1>26. ASSUME Close(t) PROVE Goal
  BY <1>26, <1>0 DEF Close
<1> HIDE DEF Goal
<1>27. Goal
  BY <1>1, <1>2, <1>2a, <1>3, <1>4, <1>5, <1>6, <1>7, <1>8, <1>9, <1>10, <1>11, <1>12,
     <1>13, <1>14, <1>15, <1>16, <1>17, <1>18, <1>19, <1>20, <1>21, <1>22, <1>23,
     <1>24, <1>25, <1>26, TaskStep(t)
     DEF TaskStep, Loop, ExecuteTools, ResolveSteps
<1> QED
  BY <1>27 DEF Goal

\* Every step leaves every task with a call it may run.
LEMMA ChoicesKept ==
  ASSUME EngineTypeOK, Placed, \A t \in Tasks : Chosen(t), [Next]_vars
  PROVE  \A t \in Tasks : Chosen(t)'
<1>1. ASSUME NEW t \in Tasks, TaskStep(t), NEW u \in Tasks PROVE Chosen(u)'
  <2>1. CASE u = t
    BY <1>1, <2>1, OwnChoice, NextKept DEF Chosen
  <2>2. CASE u # t
    <3>1. PICK k \in TaskType : task' = [task EXCEPT ![t] = k]
      BY <1>1, OneTaskMoves
    <3>2. task'[u] = task[u]
      BY <2>2, <3>1 DEF EngineTypeOK
    <3>3. task[u].pc = "run" => UNCHANGED batch
      BY <1>1, AskedKept, Grounds DEF EngineTypeOK, HasWork, Placed, Inside
    <3> QED
      BY <3>2, <3>3, NextKept DEF Chosen
  <2> QED
    BY <2>1, <2>2
<1>2. ASSUME NEW t \in Tasks, UNCHANGED batch, task'[t] = task[t] PROVE Chosen(t)'
  BY <1>2, NextKept DEF Chosen
<1>3. ASSUME NEW t \in Tasks, task'[t].pc \in {"idle", "begun", "take"} PROVE Chosen(t)'
  BY <1>3 DEF Chosen
<1>4. ASSUME NEW t \in Tasks, NEW kind \in {"turn", "resume"}, Begin(t, kind), NEW u \in Tasks
      PROVE  Chosen(u)'
  BY <1>2, <1>3, <1>4 DEF Begin, EngineTypeOK, Resting, TaskType, durable
<1>5. ASSUME NEW t \in Tasks, NEW c \in Calls, NEW kind \in {"approve", "deny", "answer"},
             Resolve(t, c, kind), NEW u \in Tasks
      PROVE  Chosen(u)'
  BY <1>2, <1>3, <1>5 DEF Resolve, EngineTypeOK, Resting, TaskType
<1>6. CASE Crash
  BY <1>3, <1>6 DEF Crash, Resting
<1>7. CASE UNCHANGED <<batch, task>>
  BY <1>2, <1>7
<1> QED
  BY <1>1, <1>4, <1>5, <1>6, <1>7
     DEF Next, Interrupt, Steer, SteerAppend, SteerQueue, vars, durable

(***************************************************************************)
(* The types hold for any calls, any batches and any number of tasks and   *)
(* crashes; and no step finds its list or its target empty.                *)
(***************************************************************************)
Shaped == EngineTypeOK /\ Placed /\ \A t \in Tasks : Chosen(t)

\* Types, places and choices are inductive together.
LEMMA AlwaysShaped == Spec => []Shaped
<1>1. Init => Shaped
  <2> SUFFICES ASSUME Init PROVE Shaped
    OBVIOUS
  <2>1. \A t \in Tasks : task[t] = Resting /\ Resting \in TaskType
    BY DEF Init, Resting, TaskType, Pcs
  <2>2. task \in [Tasks -> TaskType]
    BY <2>1 DEF Init
  <2>a. <<>> \in Seq(Calls)
    OBVIOUS
  <2>3. TypedVariables
    BY <2>a, EngineAssumption DEF Init, TypedVariables
  <2>4. (\A t \in Tasks : HasWork(t) /\ Inside(t) /\ Chosen(t)) /\ \A c \in Calls : Untouched(c)
    BY <2>1 DEF Init, HasWork, Inside, Chosen, Untouched, Resting
  <2> QED
    BY <2>2, <2>3, <2>4 DEF Shaped, EngineTypeOK, Placed
<1>2. Shaped /\ [Next]_vars => Shaped'
  BY TypesKept, PlacedKept, ChoicesKept DEF Shaped
<1> QED
  BY <1>1, <1>2, PTL DEF Spec

\* EngineTypeOK: the variables have their types, and every step has what it works on.
THEOREM EngineTypeCorrect == Spec => []EngineTypeOK
BY AlwaysShaped, PTL DEF Shaped

\* What of it the theorems below need: the fields of a task and its permission.
FieldNames == {"pc", "kind", "todo", "reads", "held", "target", "outcome"}
HasFields == DOMAIN task = Tasks /\ \A t \in Tasks : DOMAIN task[t] = FieldNames
Targets ==
  \A t \in Tasks :
    Chosen(t) /\ (task[t].pc \in {"take", "mark", "target"} => task[t].target \in Calls)
Counted == ran \in [Calls -> Nat] /\ approved \in [Calls -> Nat]
Fit == HasFields /\ Targets /\ Counted

\* What the counting of approvals needs follows from the types.
LEMMA AlwaysFit == Spec => []Fit
<1>1. Shaped => Fit
  <2> SUFFICES ASSUME Shaped PROVE Fit
    OBVIOUS
  <2>1. HasFields
    BY DEF Shaped, EngineTypeOK, TaskType, HasFields, FieldNames
  <2>2. Targets
    BY DEF Shaped, EngineTypeOK, HasWork, Targets
  <2> QED
    BY <2>1, <2>2 DEF Shaped, EngineTypeOK, TypedVariables, Counted, Fit
<1> QED
  BY <1>1, AlwaysShaped, PTL

-----------------------------------------------------------------------------
(***************************************************************************)
(* An approval that was taken and not yet spent is a task about to run its *)
(* call; so the executions and these tasks together never exceed the       *)
(* approvals.                                                              *)
(***************************************************************************)
Spending(c) == {t \in Tasks : task[t].pc \in {"mark", "target"} /\ task[t].target = c}
Covered ==
  \A c \in Calls : Kind[c] = "guarded" => ran[c] + Cardinality(Spending(c)) <= approved[c]

\* The tasks about to spend an approval are finitely many.
LEMMA SpendingFinite ==
  ASSUME NEW c
  PROVE  IsFiniteSet(Spending(c)) /\ Cardinality(Spending(c)) \in Nat
<1>1. Spending(c) \subseteq Tasks
  BY DEF Spending
<1> QED
  BY <1>1, EngineAssumption, FS_Subset, FS_CardinalityType

\* Every step keeps the executions covered.
LEMMA CoverKept ==
  ASSUME Fit, Fit', Covered, [Next]_vars
  PROVE  Covered'
<1> DEFINE Aside == \A c \in Calls :
             /\ Spending(c)' = Spending(c) /\ approved'[c] = approved[c]
             /\ Kind[c] = "guarded" => ran'[c] = ran[c]
<1> USE DEF Spending, Fit, HasFields, FieldNames, Targets, Chosen, Counted, At, durable, memory, history
<1>a. Aside => Covered'
  <2> HIDE DEF Spending, HasFields, Targets
  <2> QED
    BY DEF Covered
<1>1. ASSUME NEW t \in Tasks, Prepare(t) PROVE Aside
  BY <1>1 DEF Prepare, Goto
<1>2. ASSUME NEW t \in Tasks, Recover(t) PROVE Aside
  <2> DEFINE s == {c \in Unanswered : SafeToRetry(c)}
              b == Unanswered \ s
  <2>1. UNCHANGED <<ran, approved>> /\ task[t].pc = "recover"
    BY <1>2 DEF Recover
  <2>2. \/ task' = [task EXCEPT ![t] = [@ EXCEPT !.pc = "finish", !.outcome = "pending"]]
        \/ task' = [task EXCEPT ![t] = [@ EXCEPT !.pc = "blocked", !.held = b, !.todo = s]]
    BY <1>2 DEF Recover, Finish
  <2> HIDE DEF s, b
  <2> QED
    BY <2>1, <2>2
<1>2a. ASSUME NEW t \in Tasks, Retry(t) PROVE Aside
  <2>1. PICK p \in {"loop", "execute"} : task' = [task EXCEPT ![t].pc = p]
    BY <1>2a DEF Retry, Goto
  <2>2. UNCHANGED <<ran, approved>> /\ task[t].pc = "blocked"
    BY <1>2a DEF Retry
  <2> QED
    BY <2>1, <2>2
<1>3. ASSUME NEW t \in Tasks, Iterate(t) PROVE Aside
  <2>1. \/ task' = [task EXCEPT ![t] = [@ EXCEPT !.pc = "finish", !.outcome = "interrupted"]]
        \/ task' = [task EXCEPT ![t].pc = "consult"]
    BY <1>3 DEF Iterate, Finish, Goto
  <2>2. UNCHANGED <<ran, approved>> /\ task[t].pc = "loop"
    BY <1>3 DEF Iterate
  <2> QED
    BY <2>1, <2>2
<1>4. ASSUME NEW t \in Tasks, Answer(t) PROVE Aside
  <2>1. \/ task' = [task EXCEPT ![t] = [@ EXCEPT !.pc = "finish", !.outcome = "done"]]
        \/ task' = [task EXCEPT ![t].pc = "loop"]
    BY <1>4 DEF Answer, Finish, Goto
  <2>2. UNCHANGED <<ran, approved>> /\ task[t].pc = "consult"
    BY <1>4 DEF Answer
  <2> QED
    BY <2>1, <2>2
<1>5. ASSUME NEW t \in Tasks, StreamFails(t) PROVE Aside
  BY <1>5 DEF StreamFails, Finish
<1>6. ASSUME NEW t \in Tasks, NEW b \in Batches, AskTools(t, b) PROVE Aside
  BY <1>6 DEF AskTools, Goto
<1>7. ASSUME NEW t \in Tasks, KeyRows(t) PROVE Aside
  BY <1>7 DEF KeyRows
<1>8. ASSUME NEW t \in Tasks, Interrupts(t) PROVE Aside
  BY <1>8 DEF Interrupts, Hold
<1>9. ASSUME NEW t \in Tasks, DeferRead(t) PROVE Aside
  BY <1>9 DEF DeferRead
<1>10. ASSUME NEW t \in Tasks, Dispatch(t) PROVE Aside
  BY <1>10 DEF Dispatch, Goto
<1>11. ASSUME NEW t \in Tasks, Execute(t) PROVE Aside
  <2>1. \A c \in Calls : Spending(c)' = Spending(c) /\ approved'[c] = approved[c]
    BY <1>11 DEF Execute, Hold
  <2>2. \A c \in Calls : Kind[c] = "guarded" => c # Next1(t)
    BY <1>11 DEF Execute
  <2>3. ran' = ran \/ ran' = [ran EXCEPT ![Next1(t)] = @ + 1]
    BY <1>11 DEF Execute, Run
  <2> HIDE DEF Spending, HasFields, Targets
  <2> QED
    BY <2>1, <2>2, <2>3
<1>12. ASSUME NEW t \in Tasks, RunReads(t) PROVE Aside
  BY <1>12 DEF RunReads
<1>13. ASSUME NEW t \in Tasks, NeedUser(t) PROVE Aside
  BY <1>13 DEF NeedUser, Goto
<1>14. ASSUME NEW t \in Tasks, Persist(t) PROVE Aside
  BY <1>14 DEF Persist
<1>15. ASSUME NEW t \in Tasks, ParkLater(t) PROVE Aside
  BY <1>15 DEF ParkLater, Goto
<1>16. ASSUME NEW t \in Tasks, ParkCall(t) PROVE Aside
  BY <1>16 DEF ParkCall, Finish
<1>17. ASSUME NEW t \in Tasks, LoopAgain(t) PROVE Aside
  BY <1>17 DEF LoopAgain, Goto
<1>18. ASSUME NEW t \in Tasks, TakePending(t) PROVE Covered'
  <2>0. PICK d \in Calls : d = task[t].target
    BY <1>18 DEF TakePending
  <2> DEFINE s == IF task[t].kind = "answer" THEN {} ELSE Remaining(d)
  <2>1. UNCHANGED ran /\ task[t].pc = "take" /\ d \in Calls
    BY <1>18, <2>0 DEF TakePending
  <2>2. CASE pending[d] = "pending" /\ task[t].kind = "approve"
    <3>1. /\ task' = [task EXCEPT ![t] = [@ EXCEPT !.pc = "mark", !.todo = s]]
          /\ approved' = [approved EXCEPT ![d] = @ + 1]
      BY <1>18, <2>0, <2>2 DEF TakePending, AfterTake
    <3> HIDE DEF s
    <3>2. Spending(d)' = Spending(d) \cup {t}
      BY <2>0, <2>1, <3>1
    <3>3. t \notin Spending(d)
      BY <2>0, <2>1
    <3>4. \A c \in Calls : c # d => Spending(c)' = Spending(c) /\ approved'[c] = approved[c]
      BY <2>0, <2>1, <3>1
    <3>5. approved'[d] = approved[d] + 1
      BY <2>0, <2>1, <3>1
    <3> HIDE DEF Spending, HasFields, Targets
    <3>6. Cardinality(Spending(d)') = Cardinality(Spending(d)) + 1
      BY <3>2, <3>3, SpendingFinite, FS_AddElement
    <3>7. \A c \in Calls : Cardinality(Spending(c)) \in Nat
      BY SpendingFinite
    <3>8. SUFFICES ASSUME NEW c \in Calls, Kind[c] = "guarded"
                   PROVE  ran[c] + Cardinality(Spending(c)') <= approved'[c]
      BY <2>1 DEF Covered
    <3>9. /\ ran[c] \in Nat /\ approved[c] \in Nat
          /\ ran[c] + Cardinality(Spending(c)) <= approved[c]
      BY <3>8 DEF Covered
    <3>10. CASE c = d
      BY <3>5, <3>6, <3>7, <3>9, <3>10
    <3>11. CASE c # d
      BY <3>4, <3>9, <3>11
    <3> QED
      BY <3>10, <3>11
  <2>3. CASE pending[d] = "pending" /\ task[t].kind # "approve"
    <3>1. /\ task' = [task EXCEPT ![t] = [@ EXCEPT !.pc = "record", !.todo = s]]
          /\ approved' = approved
      BY <1>18, <2>0, <2>3 DEF TakePending, AfterTake
    <3> HIDE DEF s
    <3>2. Aside
      BY <2>0, <2>1, <3>1
    <3> QED
      BY <1>a, <3>2
  <2>4. CASE pending[d] # "pending"
    <3>1. Aside
      BY <1>18, <2>0, <2>1, <2>4 DEF TakePending, Finish
    <3> QED
      BY <1>a, <3>1
  <2> QED
    BY <2>2, <2>3, <2>4
<1>19. ASSUME NEW t \in Tasks, MarkTarget(t) PROVE Aside
  BY <1>19 DEF MarkTarget, Goto
<1>20. ASSUME NEW t \in Tasks, RunTarget(t) PROVE Covered'
  <2>0. PICK d \in Calls : d = task[t].target
    BY <1>20 DEF RunTarget
  <2>1. /\ task[t].pc = "target" /\ d \in Calls /\ UNCHANGED approved
        /\ task' = [task EXCEPT ![t].pc = "record"]
        /\ ran' = [ran EXCEPT ![d] = @ + 1]
    BY <1>20, <2>0 DEF RunTarget, Run, Goto
  <2>2. Spending(d)' = Spending(d) \ {t} /\ t \in Spending(d)
    BY <2>0, <2>1
  <2>3. \A c \in Calls : c # d => Spending(c)' = Spending(c) /\ ran'[c] = ran[c]
    BY <2>0, <2>1
  <2>4. ran'[d] = ran[d] + 1
    BY <2>1
  <2> HIDE DEF Spending, HasFields, Targets
  <2>5. Cardinality(Spending(d)') = Cardinality(Spending(d)) - 1
    BY <2>2, SpendingFinite, FS_RemoveElement
  <2>6. \A c \in Calls : Cardinality(Spending(c)) \in Nat
    BY SpendingFinite
  <2>7. SUFFICES ASSUME NEW c \in Calls, Kind[c] = "guarded"
                 PROVE  ran'[c] + Cardinality(Spending(c)') <= approved[c]
    BY <2>1 DEF Covered
  <2>8. /\ ran[c] \in Nat /\ approved[c] \in Nat
        /\ ran[c] + Cardinality(Spending(c)) <= approved[c]
    BY <2>7 DEF Covered
  <2>9. CASE c = d
    BY <2>4, <2>5, <2>6, <2>8, <2>9
  <2>10. CASE c # d
    BY <2>3, <2>8, <2>10
  <2> QED
    BY <2>9, <2>10
<1>21. ASSUME NEW t \in Tasks, RecordTarget(t) PROVE Aside
  BY <1>21 DEF RecordTarget, Goto
<1>22. ASSUME NEW t \in Tasks, Requeue(t) PROVE Aside
  BY <1>22 DEF Requeue, Goto
<1>23. ASSUME NEW t \in Tasks, CancelRow(t) PROVE Aside
  BY <1>23 DEF CancelRow, Goto
<1>24. ASSUME NEW t \in Tasks, CancelCall(t) PROVE Aside
  BY <1>24 DEF CancelCall, Pop
<1>25. ASSUME NEW t \in Tasks, Release(t) PROVE Aside
  BY <1>25 DEF Release, Goto
<1>26. ASSUME NEW t \in Tasks, Close(t) PROVE Aside
  BY <1>26 DEF Close, Resting
<1>27. ASSUME NEW t \in Tasks, NEW kind \in {"turn", "resume"}, Begin(t, kind) PROVE Aside
  BY <1>27 DEF Begin, Call, Idle, Resting
<1>28. ASSUME NEW t \in Tasks, NEW c \in Calls, NEW kind \in {"approve", "deny", "answer"},
             Resolve(t, c, kind) PROVE Aside
  BY <1>28 DEF Resolve, Call, Idle, Resting
<1>29. ASSUME UNCHANGED <<task, ran, approved>> PROVE Aside
  BY <1>29
<1>30. CASE Crash
  <2>1. UNCHANGED <<ran, approved>> /\ \A c \in Calls : Spending(c)' = {}
    BY <1>30 DEF Crash, Resting
  <2> HIDE DEF Spending, HasFields, Targets
  <2>2. \A c \in Calls : Cardinality(Spending(c)') = 0 /\ Cardinality(Spending(c)) \in Nat
    BY <2>1, SpendingFinite, FS_EmptySet
  <2> QED
    BY <2>1, <2>2 DEF Covered
<1> HIDE DEF Aside
<1> QED
  BY <1>a, <1>1, <1>2, <1>2a, <1>3, <1>4, <1>5, <1>6, <1>7, <1>8, <1>9, <1>10, <1>11, <1>12,
     <1>13, <1>14, <1>15, <1>16, <1>17, <1>18, <1>19, <1>20, <1>21, <1>22, <1>23, <1>24,
     <1>25, <1>26, <1>27, <1>28, <1>29, <1>30
     DEF Next, TaskStep, Loop, ExecuteTools, ResolveSteps, Steer, SteerAppend, SteerQueue,
     Interrupt, vars

\* The executions are covered in every reachable state.
LEMMA AlwaysCovered == Spec => []Covered
<1>1. Init => Covered
  <2> SUFFICES ASSUME Init PROVE Covered
    OBVIOUS
  <2>1. \A c \in Calls : Spending(c) = {} /\ ran[c] = 0 /\ approved[c] = 0
    BY DEF Init, Spending, Resting
  <2>2. \A c \in Calls : Cardinality(Spending(c)) = 0
    BY <2>1, FS_EmptySet
  <2> QED
    BY <2>1, <2>2 DEF Covered
<1>2. Fit /\ Fit' /\ Covered /\ [Next]_vars => Covered'
  BY CoverKept
<1> QED
  BY <1>1, <1>2, AlwaysFit, PTL DEF Spec

(***************************************************************************)
(* A call that needs the user never runs more often than it was approved:  *)
(* for any tasks at a time, any overlap of turns and resolutions, any      *)
(* crash and any recovery.                                                 *)
(***************************************************************************)
THEOREM GuardedCallsAreApproved == Spec => []NeverUnapproved
<1>1. Fit /\ Covered => NeverUnapproved
  <2> SUFFICES ASSUME Fit, Covered, NEW c \in Calls, Kind[c] = "guarded"
               PROVE  ran[c] <= approved[c]
    BY DEF NeverUnapproved
  <2>1. ran[c] + Cardinality(Spending(c)) <= approved[c]
    BY DEF Covered
  <2> QED
    BY <2>1, SpendingFinite DEF Fit, Counted
<1> QED
  BY AlwaysFit, AlwaysCovered, <1>1, PTL

-----------------------------------------------------------------------------
\* A step of a task leaves the task under way, or writes how it ended.
LEMMA RunnerStays ==
  ASSUME Fit, NoneLeftRunning, [Next]_vars
  PROVE  NoneLeftRunning'
<1> DEFINE Goal == status' = "running" => \E u \in Tasks : task'[u].pc # "idle"
<1> SUFFICES Goal
  BY DEF NoneLeftRunning, Idle
<1> USE DEF Fit, HasFields, FieldNames, At, durable, memory, history
<1>1. ASSUME NEW t \in Tasks, Prepare(t) PROVE Goal
  BY <1>1 DEF Prepare, Goto
<1>2. ASSUME NEW t \in Tasks, Recover(t) PROVE Goal
  <2> DEFINE s == {c \in Unanswered : SafeToRetry(c)}
              b == Unanswered \ s
  <2>1. \/ task' = [task EXCEPT ![t] = [@ EXCEPT !.pc = "finish", !.outcome = "pending"]]
        \/ task' = [task EXCEPT ![t] = [@ EXCEPT !.pc = "blocked", !.held = b, !.todo = s]]
    BY <1>2 DEF Recover, Finish
  <2> HIDE DEF s, b
  <2> QED
    BY <2>1
<1>2a. ASSUME NEW t \in Tasks, Retry(t) PROVE Goal
  <2>1. PICK p \in {"loop", "execute"} : task' = [task EXCEPT ![t].pc = p]
    BY <1>2a DEF Retry, Goto
  <2> QED
    BY <2>1
<1>3. ASSUME NEW t \in Tasks, Iterate(t) PROVE Goal
  <2>1. \/ task' = [task EXCEPT ![t] = [@ EXCEPT !.pc = "finish", !.outcome = "interrupted"]]
        \/ task' = [task EXCEPT ![t].pc = "consult"]
    BY <1>3 DEF Iterate, Finish, Goto
  <2> QED
    BY <2>1
<1>4. ASSUME NEW t \in Tasks, Answer(t) PROVE Goal
  <2>1. \/ task' = [task EXCEPT ![t] = [@ EXCEPT !.pc = "finish", !.outcome = "done"]]
        \/ task' = [task EXCEPT ![t].pc = "loop"]
    BY <1>4 DEF Answer, Finish, Goto
  <2> QED
    BY <2>1
<1>5. ASSUME NEW t \in Tasks, StreamFails(t) PROVE Goal
  BY <1>5 DEF StreamFails, Finish
<1>6. ASSUME NEW t \in Tasks, NEW b \in Batches, AskTools(t, b) PROVE Goal
  BY <1>6 DEF AskTools, Goto
<1>7. ASSUME NEW t \in Tasks, KeyRows(t) PROVE Goal
  BY <1>7 DEF KeyRows
<1>8. ASSUME NEW t \in Tasks, Interrupts(t) PROVE Goal
  BY <1>8 DEF Interrupts, Hold
<1>9. ASSUME NEW t \in Tasks, DeferRead(t) PROVE Goal
  BY <1>9 DEF DeferRead
<1>10. ASSUME NEW t \in Tasks, Dispatch(t) PROVE Goal
  BY <1>10 DEF Dispatch, Goto
<1>11. ASSUME NEW t \in Tasks, Execute(t) PROVE Goal
  BY <1>11 DEF Execute, Hold
<1>12. ASSUME NEW t \in Tasks, RunReads(t) PROVE Goal
  BY <1>12 DEF RunReads
<1>13. ASSUME NEW t \in Tasks, NeedUser(t) PROVE Goal
  BY <1>13 DEF NeedUser, Goto
<1>14. ASSUME NEW t \in Tasks, Persist(t) PROVE Goal
  BY <1>14 DEF Persist
<1>15. ASSUME NEW t \in Tasks, ParkLater(t) PROVE Goal
  BY <1>15 DEF ParkLater, Goto
<1>16. ASSUME NEW t \in Tasks, ParkCall(t) PROVE Goal
  BY <1>16 DEF ParkCall, Finish
<1>17. ASSUME NEW t \in Tasks, LoopAgain(t) PROVE Goal
  BY <1>17 DEF LoopAgain, Goto
<1>18. ASSUME NEW t \in Tasks, TakePending(t) PROVE Goal
  <2> DEFINE s == IF task[t].kind = "answer" THEN {} ELSE Remaining(task[t].target)
  <2>1. PICK p \in {"mark", "record"} :
          \/ task' = [task EXCEPT ![t] = [@ EXCEPT !.pc = p, !.todo = s]]
          \/ task' = [task EXCEPT ![t] = [@ EXCEPT !.pc = "finish",
                                                   !.outcome = "processed"]]
    BY <1>18 DEF TakePending, Finish, AfterTake
  <2> HIDE DEF s
  <2> QED
    BY <2>1
<1>19. ASSUME NEW t \in Tasks, MarkTarget(t) PROVE Goal
  BY <1>19 DEF MarkTarget, Goto
<1>20. ASSUME NEW t \in Tasks, RunTarget(t) PROVE Goal
  BY <1>20 DEF RunTarget, Goto
<1>21. ASSUME NEW t \in Tasks, RecordTarget(t) PROVE Goal
  BY <1>21 DEF RecordTarget, Goto
<1>22. ASSUME NEW t \in Tasks, Requeue(t) PROVE Goal
  BY <1>22 DEF Requeue, Goto
<1>23. ASSUME NEW t \in Tasks, CancelRow(t) PROVE Goal
  BY <1>23 DEF CancelRow, Goto
<1>24. ASSUME NEW t \in Tasks, CancelCall(t) PROVE Goal
  BY <1>24 DEF CancelCall, Pop
<1>25. ASSUME NEW t \in Tasks, Release(t) PROVE Goal
  BY <1>25 DEF Release, Goto
<1>26. ASSUME NEW t \in Tasks, Close(t) PROVE Goal
  BY <1>26 DEF Close, TerminalStatus
<1>27. ASSUME NEW t \in Tasks, NEW kind \in {"turn", "resume"}, Begin(t, kind) PROVE Goal
  BY <1>27 DEF Begin, Call, Idle, Resting
<1>28. ASSUME NEW t \in Tasks, NEW c \in Calls, NEW kind \in {"approve", "deny", "answer"},
             Resolve(t, c, kind) PROVE Goal
  BY <1>28 DEF Resolve, Call, Idle, Resting
<1>29. CASE UNCHANGED <<task, status>>
  BY <1>29 DEF NoneLeftRunning, Idle
<1>30. CASE Crash
  BY <1>30 DEF Crash
<1> HIDE DEF Goal
<1> QED
  BY <1>1, <1>2, <1>2a, <1>3, <1>4, <1>5, <1>6, <1>7, <1>8, <1>9, <1>10, <1>11, <1>12, <1>13,
     <1>14, <1>15, <1>16, <1>17, <1>18, <1>19, <1>20, <1>21, <1>22, <1>23, <1>24, <1>25,
     <1>26, <1>27, <1>28, <1>29, <1>30
     DEF Next, TaskStep, Loop, ExecuteTools, ResolveSteps, Steer, SteerAppend, SteerQueue,
     Interrupt, vars

(***************************************************************************)
(* With no task under way the session is not left "running", however turns *)
(* and resolutions of pending rows overlap.                                *)
(***************************************************************************)
THEOREM TasksCloseTheSession == Spec => []NoneLeftRunning
<1>1. Init => NoneLeftRunning
  BY DEF Init, NoneLeftRunning
<1>2. Fit /\ NoneLeftRunning /\ [Next]_vars => NoneLeftRunning'
  BY RunnerStays
<1> QED
  BY <1>1, <1>2, AlwaysFit, PTL DEF Spec

-----------------------------------------------------------------------------
(***************************************************************************)
(* While callers keep the methods apart one task at a time is under way.   *)
(* The calls it is about to answer are in its hand, and what it does to    *)
(* them depends on how far it has come.                                    *)
(***************************************************************************)
Batching == {"execute", "run", "pause", "parked"}
Resolving == {"mark", "target", "record", "requeue", "cancel", "cancelled"}
Ending == {"finish", "close"}
Apart == \A t, u \in Tasks : ~Idle(t) /\ ~Idle(u) => t = u
Hand(t) ==
  IF task[t].pc = "asked" THEN Asked
  ELSE IF task[t].pc \in {"mark", "target", "record"} THEN task[t].todo \cup {task[t].target}
  ELSE IF task[t].pc \in Batching \cup Resolving \cup {"blocked"}
       THEN task[t].todo \cup task[t].reads \cup task[t].held
  ELSE {}
Fresh(c) == results[c] = 0 /\ verdict[c] = "none" /\ (SideEffect(c) => ran[c] = 0)

\* The lists of a task are apart, and no call of them has a result.
Kept(t) ==
  /\ task[t].pc \notin {"execute", "run", "pause"} \cup Ending =>
       task[t].reads = {} /\ (task[t].pc # "blocked" => task[t].held = {})
  /\ task[t].pc \notin Batching \cup Resolving \cup {"blocked"} \cup Ending =>
       task[t].todo = {}
  /\ task[t].pc \notin Ending =>
       /\ task[t].todo \cap (task[t].reads \cup task[t].held) = {}
       /\ \A c \in task[t].todo : Fresh(c)
       /\ \A c \in task[t].reads \cup task[t].held : results[c] = 0 /\ pending[c] # "pending"

\* execute_tools works on calls without a row, or on reads that recovery retries;
\* it saves a row for each of them before it pauses.
InBatch(t) ==
  /\ task[t].pc = "asked" => \A c \in Asked : Fresh(c) /\ pending[c] = "none"
  /\ task[t].pc \in {"execute", "run"} =>
       \/ \A c \in task[t].todo : pending[c] = "none"
       \/ \A c \in task[t].todo : Kind[c] = "read" /\ pending[c] # "pending"
  /\ task[t].pc = "blocked" => \A c \in task[t].todo : Kind[c] = "read" /\ pending[c] # "pending"
  /\ task[t].pc = "run" => (Next1(t) \in rows \ Unmarked => Next1(t) \in marked)
  /\ task[t].pc \in {"pause", "parked"} =>
       /\ Kind[Next1(t)] \in {"guarded", "question"}
       /\ Kind[Next1(t)] = "question" => pending[Next1(t)] = "pending"
       /\ Kind[Next1(t)] = "guarded" => pending[Next1(t)] = "none"
       /\ \A c \in Later(t) : pending[c] = IF task[t].pc = "parked" THEN "pending" ELSE "none"

\* A resolution holds the row it took, and the others that are still pending.
InResolution(t) ==
  /\ task[t].pc \in Resolving \cup {"take"} => task[t].kind # "resume"
  /\ task[t].pc \in {"mark", "target"} => Fresh(task[t].target)
  /\ task[t].pc \in {"mark", "target", "record"} =>
       /\ results[task[t].target] = 0 /\ pending[task[t].target] = "resolved"
       /\ task[t].target \notin task[t].todo
  /\ task[t].pc \in Resolving \ {"cancelled"} => \A c \in task[t].todo : pending[c] = "pending"
  /\ task[t].pc = "cancelled" => /\ pending[Next1(t)] = "none"
                                 /\ \A c \in Later(t) : pending[c] = "pending"
  /\ task[t].pc = "target" => (task[t].target \in rows \ Unmarked => task[t].target \in marked)

\* A resumed turn leaves no call without a result.
Answers(t) ==
  task[t].kind = "resume" /\ task[t].pc \in {"blocked", "loop", "consult", "asked"} \cup Batching =>
    \A c \in Asked : results[c] > 0 \/ c \in Hand(t)

\* A call that waits for the user has not run; one that ran is marked, if its route
\* marks it; and what recovery said of one stands.
Sound(c) ==
  /\ results[c] <= 1 /\ (SideEffect(c) => ran[c] <= 1)
  /\ pending[c] = "pending" => Fresh(c)
  /\ verdict[c] = "unknown" => c \in marked
  /\ verdict[c] = "unresolved" => SideEffect(c)
  /\ verdict[c] = "unresolved" /\ c \in rows \ Unmarked => ran[c] = 0
  /\ SideEffect(c) /\ c \in rows \ Unmarked /\ ran[c] > 0 => c \in marked

\* Somebody has a call that is not answered, unless a crash took it from a task.
Settled(c) == results[c] > 0 \/ pending[c] = "pending" \/ crashes > 0
Known(c) == c \in Asked => Settled(c) \/ \E t \in Tasks : c \in Hand(t)

Serial ==
  ~overlap => /\ Apart
              /\ \A t \in Tasks : Kept(t) /\ InBatch(t) /\ InResolution(t) /\ Answers(t)
              /\ \A c \in Calls : Sound(c) /\ Known(c)

\* What a step of the one task under way finds.
Before(t) ==
  /\ task \in [Tasks -> TaskType] /\ TypedVariables /\ HasWork(t) /\ Inside(t)
  /\ Chosen(t) /\ Kept(t) /\ InBatch(t) /\ InResolution(t) /\ Answers(t)
  /\ Asked \subseteq Calls /\ (batch = <<>> => Asked = {})
  /\ task[t].todo # {} => Next1(t) \in task[t].todo
  /\ \A c \in Calls : Untouched(c) /\ Sound(c) /\ (c \in Asked => Settled(c) \/ c \in Hand(t))
After(t) ==
  /\ Kept(t) /\ InBatch(t) /\ InResolution(t) /\ Answers(t)
  /\ \A c \in Calls : Sound(c) /\ (c \in Asked => Settled(c) \/ c \in Hand(t))

\* A step of the one task under way keeps its part of Serial, action by action.
LEMMA SerialStep ==
  ASSUME NEW t \in Tasks, Before(t), TaskStep(t), TypedVariables'
  PROVE  After(t)'
<1>0. /\ UNCHANGED batch => Asked' = Asked
      /\ UNCHANGED batch /\ task'[t].todo = task[t].todo => Next1(t)' = Next1(t)
  BY NextKept DEF Asked
<1> USE <1>0 DEF Before, After, TaskType, HasWork, Inside, Kept, InBatch, InResolution,
       Answers, Sound, Settled, Hand, Fresh, SideEffect, Later, Batching, Resolving, Ending,
       At, Resting, durable, history, memory
<1>1. ASSUME Prepare(t) PROVE After(t)'
  BY <1>1 DEF Prepare, Goto
<1>2. ASSUME Recover(t) PROVE After(t)'
  <2>0. task[t].pc = "recover" /\ UNCHANGED batch
    BY <1>2 DEF Recover
  <2>1. CASE \E c \in Unanswered : pending[c] = "pending"
    <3>1. Becomes(t, "finish", task[t].todo, task[t].reads, task[t].held, "pending")
      BY <1>2, <2>1, FinishMoves DEF Recover
    <3> QED
      BY <1>2, <2>0, <2>1, <3>1 DEF Recover, Becomes
  <2>2. CASE ~\E c \in Unanswered : pending[c] = "pending"
    <3>1. PICK safe \in SUBSET Unanswered : safe = {c \in Unanswered : SafeToRetry(c)}
      OBVIOUS
    <3>3. PICK blocked \in SUBSET Unanswered : blocked = Unanswered \ safe
      OBVIOUS
    <3>4. Becomes(t, "blocked", safe, {}, blocked, task[t].outcome)
      <4>1. task' = [task EXCEPT ![t] = [@ EXCEPT !.pc = "blocked", !.held = blocked,
                                                  !.todo = safe]]
        BY <1>2, <2>2, <3>1, <3>3 DEF Recover
      <4> QED
        <5>1. task[t].reads = {}
          BY <2>0
        <5>2. Becomes(t, "blocked", safe, task[t].reads, blocked, task[t].outcome)
          BY <4>1, BlockMoves
        <5> QED
          BY <5>1, <5>2
    <3>5. /\ verdict' = [c \in Calls |->
                          IF c \notin blocked THEN verdict[c]
                          ELSE IF c \in marked THEN "unknown" ELSE "unresolved"]
          /\ UNCHANGED <<batch, rows, marked, results, pending, ran, crashes>>
      BY <1>2, <2>2, <3>1, <3>3 DEF Recover
    <3>6. /\ \A c \in safe : results[c] = 0 /\ Kind[c] = "read" /\ pending[c] # "pending"
          /\ \A c \in blocked : results[c] = 0 /\ pending[c] # "pending"
          /\ \A c \in Asked : results[c] > 0 \/ c \in safe \/ c \in blocked
          /\ \A c \in blocked : c \in marked \/ SideEffect(c)
      <4>1. \A c \in safe : results[c] = 0 /\ Kind[c] = "read" /\ pending[c] # "pending"
        BY <2>2, <3>1 DEF Unanswered, SafeToRetry
      <4>2. \A c \in blocked : results[c] = 0 /\ pending[c] # "pending"
        BY <2>2, <3>3 DEF Unanswered
      <4>3. \A c \in Asked : results[c] > 0 \/ c \in safe \/ c \in blocked
        BY <3>3 DEF Unanswered, TypedVariables
      <4>4. \A c \in blocked : c \in marked \/ SideEffect(c)
        BY <3>1, <3>3 DEF Unanswered, SafeToRetry
      <4> QED
        BY <4>1, <4>2, <4>3, <4>4
    <3>7. Unanswered \subseteq Asked /\ safe \subseteq Calls /\ blocked \subseteq Calls
      BY DEF Unanswered
    <3>a. \A c \in safe : verdict[c] = "none" /\ ran[c] \in Nat /\ c \notin blocked
      BY <3>1, <3>3, <3>6, <3>7 DEF SafeToRetry, TypedVariables
    <3>8. Kept(t)' /\ InBatch(t)' /\ InResolution(t)'
      BY <2>0, <3>4, <3>5, <3>6, <3>7, <3>a DEF Becomes
    <3>9. Answers(t)' /\ \A c \in Calls : c \in Asked' => Settled(c)' \/ c \in Hand(t)'
      BY <2>0, <3>4, <3>5, <3>6, <3>7 DEF Becomes
    <3>10. \A c \in Calls : Sound(c)'
      <4> SUFFICES ASSUME NEW c \in Calls PROVE Sound(c)'
        OBVIOUS
      <4>1. results[c] \in Nat /\ ran[c] \in Nat
        BY DEF TypedVariables
      <4>2. CASE c \in blocked
        BY <4>1, <4>2, <3>3, <3>5, <3>6
      <4>3. CASE c \notin blocked
        BY <4>1, <4>3, <3>5
      <4> QED
        BY <4>2, <4>3
    <3> QED
      BY <3>8, <3>9, <3>10 DEF After
  <2> QED
    BY <2>1, <2>2
<1>2a. ASSUME Retry(t) PROVE After(t)'
  <2>1. PICK p \in {"loop", "execute"} :
          /\ Becomes(t, p, task[t].todo, task[t].reads, task[t].held, task[t].outcome)
          /\ task[t].todo = {} <=> p = "loop"
    BY <1>2a, RetryMoves
  <2>2. /\ task[t].pc = "blocked" /\ task[t].held = {}
        /\ rows' = rows \cup task[t].todo
        /\ UNCHANGED <<batch, marked, results, pending, ran, verdict, crashes>>
    BY <1>2a DEF Retry
  <2>3. Kept(t)' /\ InBatch(t)' /\ InResolution(t)' /\ Answers(t)'
    BY <2>1, <2>2 DEF Becomes
  <2>4. \A c \in Calls : Sound(c)'
    BY <2>2 DEF TypedVariables
  <2>5. \A c \in Calls : c \in Asked' => Settled(c)' \/ c \in Hand(t)'
    BY <2>1, <2>2 DEF Becomes
  <2> QED
    BY <2>3, <2>4, <2>5
<1>3. ASSUME Iterate(t) PROVE After(t)'
  BY <1>3, IterateMoves DEF Iterate, Becomes
<1>4. ASSUME Answer(t) PROVE After(t)'
  BY <1>4, AnswerMoves DEF Answer, Becomes
<1>5. ASSUME StreamFails(t) PROVE After(t)'
  BY <1>5 DEF StreamFails, Finish
<1>6. ASSUME NEW b \in Batches, AskTools(t, b) PROVE After(t)'
  <2>1. Becomes(t, "asked", task[t].todo, task[t].reads, task[t].held, task[t].outcome)
    BY <1>6, GotoMoves DEF AskTools
  <2>2. /\ task[t].pc = "consult" /\ Asked = {}
        /\ UNCHANGED <<rows, marked, results, pending, ran, verdict, crashes>>
    BY <1>6 DEF AskTools
  <2>3. Asked' \subseteq Calls
    BY DEF TypedVariables, Asked
  <2>4. \A c \in Calls : Fresh(c) /\ pending[c] = "none"
    BY <2>2 DEF Untouched
  <2>5. Kept(t)' /\ InBatch(t)' /\ InResolution(t)' /\ Answers(t)'
    BY <2>1, <2>2, <2>3, <2>4 DEF Becomes
  <2>6. \A c \in Calls : Sound(c)' /\ (c \in Asked' => Settled(c)' \/ c \in Hand(t)')
    BY <2>1, <2>2, <2>4 DEF Becomes
  <2> QED
    BY <2>5, <2>6
<1>7. ASSUME KeyRows(t) PROVE After(t)'
  BY <1>7 DEF KeyRows
<1>8. ASSUME Interrupts(t) PROVE After(t)'
  BY <1>8 DEF Interrupts, Hold
<1>9. ASSUME DeferRead(t) PROVE After(t)'
  BY <1>9 DEF DeferRead
<1>10. ASSUME Dispatch(t) PROVE After(t)'
  BY <1>10 DEF Dispatch, Mark, Goto
<1>11. ASSUME Execute(t) PROVE After(t)'
  <2>1. PICK n \in task[t].todo : n = Next1(t)
    BY <1>11 DEF Execute
  <2>2. PICK later \in SUBSET task[t].todo : later = task[t].todo \ {n}
    OBVIOUS
  <2>3. Becomes(t, "execute", later, task[t].reads, task[t].held \cup {n}, task[t].outcome)
    <3>1. Later(t) = later
      BY <2>1, <2>2
    <3> QED
      BY <1>11, <2>1, <3>1, HoldMoves DEF Execute
  <2>4. /\ task[t].pc = "run" /\ n \in Calls /\ results[n] = 0
        /\ UNCHANGED <<batch, rows, marked, results, pending, verdict, crashes>>
        /\ ran' = [ran EXCEPT ![n] = @ + 1] \/ ran' = ran
    BY <1>11, <2>1 DEF Execute, Run
  <2>5. ran' \in [Calls -> Nat] /\ \A c \in Calls : c # n => ran'[c] = ran[c]
    BY <2>4 DEF TypedVariables
  <2>6. Kept(t)'
    BY <2>1, <2>2, <2>3, <2>4, <2>5 DEF Becomes
  <2>7. InBatch(t)' /\ InResolution(t)' /\ Answers(t)'
    BY <2>1, <2>2, <2>3, <2>4 DEF Becomes
  <2>8. \A c \in Calls : c # n => Sound(c)'
    BY <2>4, <2>5
  <2>9. Sound(n)'
    <3>1. Fresh(n) /\ pending[n] # "pending" /\ (n \in rows \ Unmarked => n \in marked)
      BY <2>1, <2>4
    <3>2. SideEffect(n) => ran'[n] <= 1
      BY <2>4, <3>1 DEF TypedVariables
    <3> QED
      BY <2>4, <3>1, <3>2
  <2>10. \A c \in Calls : c \in Asked' => Settled(c)' \/ c \in Hand(t)'
    BY <2>1, <2>2, <2>3, <2>4 DEF Becomes
  <2> QED
    BY <2>6, <2>7, <2>8, <2>9, <2>10
<1>12. ASSUME RunReads(t) PROVE After(t)'
  BY <1>12 DEF RunReads, Mark
<1>13. ASSUME NeedUser(t) PROVE After(t)'
  BY <1>13 DEF NeedUser, SetPending, Goto
<1>14. ASSUME Persist(t) PROVE After(t)'
  BY <1>14 DEF Persist, Record
<1>15. ASSUME ParkLater(t) PROVE After(t)'
  BY <1>15 DEF ParkLater, SetPending, Goto
<1>16. ASSUME ParkCall(t) PROVE After(t)'
  <2>1. Becomes(t, "finish", task[t].todo, task[t].reads, task[t].held, "pending")
    BY <1>16, FinishMoves DEF ParkCall
  <2> QED
    BY <1>16, <2>1 DEF ParkCall, SetPending, Becomes
<1>17. ASSUME LoopAgain(t) PROVE After(t)'
  BY <1>17 DEF LoopAgain, Goto
<1>18. ASSUME TakePending(t) PROVE After(t)'
  <2>0. /\ task[t].pc = "take" /\ UNCHANGED <<batch, rows, marked, results, ran, verdict, crashes>>
        /\ task[t].todo = {} /\ task[t].reads = {} /\ task[t].held = {}
    BY <1>18 DEF TakePending
  <2>1. CASE pending[task[t].target] # "pending"
    <3>1. Becomes(t, "finish", task[t].todo, task[t].reads, task[t].held, "processed")
      BY <1>18, <2>1, FinishMoves DEF TakePending
    <3>2. UNCHANGED pending
      BY <1>18, <2>1 DEF TakePending
    <3> QED
      BY <2>0, <2>1, <3>1, <3>2 DEF Becomes
  <2>2. CASE pending[task[t].target] = "pending"
    <3>1. PICK c \in Calls, p \in {"mark", "record"}, rest \in SUBSET Asked :
            /\ c \notin rest /\ c = task[t].target /\ p = AfterTake(task[t].kind)
            /\ rest = IF task[t].kind = "answer" THEN {} ELSE Remaining(c)
      BY <2>0 DEF AfterTake, Remaining
    <3>2. Becomes(t, p, rest, {}, {}, task[t].outcome)
      <4>1. task' = [task EXCEPT ![t] = [@ EXCEPT !.pc = p, !.todo = rest]]
        BY <1>18, <2>2, <3>1 DEF TakePending
      <4>2. Becomes(t, p, rest, task[t].reads, task[t].held, task[t].outcome)
        BY <4>1, ListMoves
      <4> QED
        BY <4>2, <2>0
    <3>3. pending' = [d \in Calls |-> IF d = c THEN "resolved" ELSE pending[d]]
      BY <1>18, <2>2, <3>1 DEF TakePending, SetPending
    <3>4. \A d \in rest : pending[d] = "pending" /\ Fresh(d)
      BY <3>1 DEF Remaining
    <3>5. Kept(t)' /\ InBatch(t)' /\ InResolution(t)' /\ Answers(t)'
      BY <2>0, <2>2, <3>1, <3>2, <3>3, <3>4 DEF Becomes
    <3>6. \A d \in Calls : Sound(d)' /\ (d \in Asked' => Settled(d)' \/ d \in Hand(t)')
      BY <2>0, <2>2, <3>1, <3>2, <3>3, <3>4 DEF Becomes
    <3> QED
      BY <3>5, <3>6
  <2> QED
    BY <2>1, <2>2
<1>19. ASSUME MarkTarget(t) PROVE After(t)'
  BY <1>19 DEF MarkTarget, Mark, Goto
<1>20. ASSUME RunTarget(t) PROVE After(t)'
  BY <1>20 DEF RunTarget, Run, Goto
<1>21. ASSUME RecordTarget(t) PROVE After(t)'
  BY <1>21 DEF RecordTarget, Record, Goto
<1>22. ASSUME Requeue(t) PROVE After(t)'
  BY <1>22 DEF Requeue, SetPending, Goto
<1>23. ASSUME CancelRow(t) PROVE After(t)'
  BY <1>23 DEF CancelRow, SetPending, Goto
<1>24. ASSUME CancelCall(t) PROVE After(t)'
  BY <1>24 DEF CancelCall, Record, Pop
<1>25. ASSUME Release(t) PROVE After(t)'
  BY <1>25 DEF Release, Goto
<1>26. ASSUME Close(t) PROVE After(t)'
  BY <1>26 DEF Close
<1> QED
  BY <1>1, <1>2, <1>2a, <1>3, <1>4, <1>5, <1>6, <1>7, <1>8, <1>9, <1>10, <1>11, <1>12,
     <1>13, <1>14, <1>15, <1>16, <1>17, <1>18, <1>19, <1>20, <1>21, <1>22, <1>23,
     <1>24, <1>25, <1>26, TaskStep(t)
     DEF TaskStep, Loop, ExecuteTools, ResolveSteps

\* Only the call of a method raises the flag of an overlap.
LEMMA OverlapStays ==
  ASSUME NEW t \in Tasks, TaskStep(t)
  PROVE  UNCHANGED <<overlap, ops, crashes>> /\ ~Idle(t)
BY DEF TaskStep, Loop, ExecuteTools, ResolveSteps, history, At, Idle, Prepare, Recover, Retry,
       Iterate, Answer, StreamFails, AskTools, KeyRows, Interrupts, DeferRead, Dispatch,
       Execute, RunReads, NeedUser, Persist, ParkLater, ParkCall, LoopAgain, TakePending,
       MarkTarget, RunTarget, RecordTarget, Requeue, CancelRow, CancelCall, Release, Close

Orderly(t) == Kept(t) /\ InBatch(t) /\ InResolution(t) /\ Answers(t)

\* The parts of Serial that are about one task hold of a task at rest.
LEMMA RestIsOrderly ==
  ASSUME NEW t \in Tasks, task[t] = Resting
  PROVE  Orderly(t) /\ Idle(t) /\ Hand(t) = {}
BY DEF Orderly, Kept, InBatch, InResolution, Answers, Idle, Hand, Resting, Batching,
       Resolving, Ending

\* The task under way is the only one, and finds what its step needs.
LEMMA OneUnderWay ==
  ASSUME Shaped, Serial, ~overlap, NEW t \in Tasks, TaskStep(t)
  PROVE  Before(t) /\ \A u \in Tasks : u # t => task[u] = Resting
<1>1. \A u \in Tasks : u # t => Idle(u) /\ task[u] = Resting
  BY OverlapStays DEF Serial, Apart, Shaped, Placed, Inside
<1>2. \A u \in Tasks : u # t => Hand(u) = {}
  BY <1>1, RestIsOrderly
<1>3. Kept(t) /\ InBatch(t) /\ InResolution(t) /\ Answers(t)
  BY DEF Serial
<1>4. /\ task \in [Tasks -> TaskType] /\ TypedVariables /\ HasWork(t) /\ Inside(t)
      /\ Chosen(t)
  BY DEF Shaped, Placed, EngineTypeOK
<1>5. ASSUME NEW c \in Calls
      PROVE  Untouched(c) /\ Sound(c) /\ (c \in Asked => Settled(c) \/ c \in Hand(t))
  BY <1>2 DEF Serial, Known, Shaped, Placed
<1> QED
  BY <1>1, <1>3, <1>4, <1>5, Grounds DEF Before, Shaped

\* A step of the task under way keeps the tasks and the calls in order.
LEMMA SerialTaskStep ==
  ASSUME Shaped, Shaped', Serial, ~overlap, NEW t \in Tasks, TaskStep(t)
  PROVE  Serial'
<1>1. Before(t) /\ \A u \in Tasks : u # t => task[u] = Resting
  BY OneUnderWay
<1>2. After(t)'
  BY <1>1, SerialStep DEF Shaped, EngineTypeOK
<1>3. ASSUME NEW u \in Tasks, u # t PROVE task'[u] = Resting
  <2>1. PICK k \in TaskType : task' = [task EXCEPT ![t] = k]
    BY OneTaskMoves DEF Shaped
  <2> QED
    BY <1>1, <1>3, <2>1 DEF Shaped, EngineTypeOK
<1>4. \A u \in Tasks : u # t => Orderly(u)' /\ Idle(u)'
  BY <1>3 DEF Orderly, Kept, InBatch, InResolution, Answers, Idle, Resting, Batching,
              Resolving, Ending
<1>5. Apart'
  BY <1>4 DEF Apart
<1>6. ASSUME NEW u \in Tasks
      PROVE  Kept(u)' /\ InBatch(u)' /\ InResolution(u)' /\ Answers(u)'
  BY <1>2, <1>4 DEF After, Orderly
<1>7. \A c \in Calls : Sound(c)' /\ Known(c)'
  BY <1>2 DEF After, Known
<1> QED
  BY <1>5, <1>6, <1>7 DEF Serial

\* The call of a method, by a caller that waits until none is under way.
LEMMA SerialCall ==
  ASSUME Shaped, Serial, ~overlap', NEW t \in Tasks, Call(t),
         NEW k, task' = [task EXCEPT ![t] = k], k.pc \in {"begun", "take"},
         k.todo = {}, k.reads = {}, k.held = {},
         k.pc = "take" => k.kind # "resume",
         UNCHANGED <<batch, rows, marked, results, pending, ran, verdict, crashes>>
  PROVE  Serial'
<1>1. \A u \in Tasks : task[u] = Resting /\ Idle(u)
  BY DEF Call, Shaped, Placed, Inside
<1>2. ~overlap /\ \A u \in Tasks : Hand(u) = {}
  BY <1>1, RestIsOrderly DEF Call
<1>3. ASSUME NEW u \in Tasks, u # t PROVE task'[u] = Resting
  BY <1>1, <1>3 DEF Shaped, EngineTypeOK
<1>4. task'[t] = k
  BY DEF Shaped, EngineTypeOK
<1>5. ASSUME NEW u \in Tasks PROVE Orderly(u)'
  <2>1. CASE u # t
    BY <1>3, <2>1 DEF Orderly, Kept, InBatch, InResolution, Answers, Resting, Batching,
                      Resolving, Ending
  <2>2. CASE u = t
    BY <1>4, <2>2 DEF Orderly, Kept, InBatch, InResolution, Answers, Batching, Resolving,
                      Ending
  <2> QED
    BY <2>1, <2>2
<1>6. Apart'
  BY <1>3 DEF Apart, Idle, Resting
<1>7. ASSUME NEW c \in Calls PROVE Sound(c)' /\ Known(c)'
  <2>1. Sound(c) /\ Known(c) /\ Asked' = Asked
    BY <1>2 DEF Serial, Asked
  <2> QED
    BY <1>2, <2>1 DEF Sound, Known, Settled, Fresh
<1> QED
  BY <1>5, <1>6, <1>7 DEF Serial, Orderly

\* Every step keeps the tasks and the calls in order, until two methods overlap.
LEMMA SerialKept ==
  ASSUME Shaped, Shaped', Serial, [Next]_vars
  PROVE  Serial'
<1> SUFFICES ASSUME ~overlap' PROVE Serial'
  BY DEF Serial
<1>1. ASSUME NEW t \in Tasks, TaskStep(t) PROVE Serial'
  BY <1>1, OverlapStays, SerialTaskStep
<1>2. ASSUME NEW t \in Tasks, NEW kind \in {"turn", "resume"}, Begin(t, kind) PROVE Serial'
  <2>1. PICK k : k = [Resting EXCEPT !.pc = "begun", !.kind = kind]
    OBVIOUS
  <2>2. k.pc = "begun" /\ k.todo = {} /\ k.reads = {} /\ k.held = {}
    BY <2>1 DEF Resting
  <2> QED
    BY <1>2, <2>1, <2>2, SerialCall DEF Begin, durable
<1>3. ASSUME NEW t \in Tasks, NEW c \in Calls, NEW kind \in {"approve", "deny", "answer"},
             Resolve(t, c, kind) PROVE Serial'
  <2>1. PICK k : k = [Resting EXCEPT !.pc = "take", !.kind = kind, !.target = c]
    OBVIOUS
  <2>2. k.pc = "take" /\ k.kind = kind /\ k.todo = {} /\ k.reads = {} /\ k.held = {}
    BY <2>1 DEF Resting
  <2> QED
    BY <1>3, <2>1, <2>2, SerialCall DEF Resolve
<1>4. CASE Crash
  <2>1. /\ \A t \in Tasks : task'[t] = Resting
        /\ crashes' > 0 /\ ~overlap
        /\ UNCHANGED <<batch, rows, marked, results, pending, ran, verdict>>
    BY <1>4 DEF Crash, history, Shaped, EngineTypeOK, TypedVariables
  <2>2. ASSUME NEW u \in Tasks PROVE Orderly(u)' /\ Idle(u)'
    BY <2>1 DEF Orderly, Kept, InBatch, InResolution, Answers, Idle, Resting, Batching,
                Resolving, Ending
  <2>3. ASSUME NEW c \in Calls PROVE Sound(c)' /\ Known(c)'
    BY <2>1 DEF Serial, Sound, Known, Settled, Fresh
  <2> QED
    BY <2>2, <2>3 DEF Serial, Orderly, Apart
<1>5. CASE UNCHANGED <<batch, rows, marked, results, pending, task, ran, verdict, overlap, crashes>>
  <2>1. /\ Asked' = Asked
        /\ \A t \in Tasks : Next1(t)' = Next1(t) /\ Later(t)' = Later(t) /\ Hand(t)' = Hand(t)
    BY <1>5 DEF Asked, Next1, Position, Later, Hand
  <2>2. ASSUME NEW t \in Tasks PROVE Orderly(t)'
    BY <1>5, <2>1 DEF Serial, Orderly, Kept, InBatch, InResolution, Answers, Fresh
  <2>3. ASSUME NEW c \in Calls PROVE Sound(c)' /\ Known(c)'
    BY <1>5, <2>1 DEF Serial, Sound, Known, Settled, Fresh
  <2> QED
    BY <1>5, <2>2, <2>3 DEF Serial, Orderly, Apart, Idle
<1> QED
  BY <1>1, <1>2, <1>3, <1>4, <1>5
     DEF Next, Interrupt, Steer, SteerAppend, SteerQueue, vars, durable, history

\* Serial is inductive on the shapes.
LEMMA AlwaysSerial == Spec => [](Shaped /\ Serial)
<1>1. Init => Serial
  <2> SUFFICES ASSUME Init PROVE Serial
    OBVIOUS
  <2>1. \A t \in Tasks : Orderly(t) /\ Idle(t)
    BY RestIsOrderly DEF Init
  <2>2. Asked = {}
    BY DEF Init, Asked
  <2>3. ASSUME NEW c \in Calls PROVE Sound(c) /\ Known(c)
    BY <2>2 DEF Init, Sound, Known, Fresh
  <2> QED
    BY <2>1, <2>3 DEF Serial, Orderly, Apart
<1>2. Shaped /\ Shaped' /\ Serial /\ [Next]_vars => Serial'
  BY SerialKept
<1> QED
  BY <1>1, <1>2, AlwaysShaped, PTL DEF Spec

(***************************************************************************)
(* While callers keep the engine's methods apart, no call gets a second    *)
(* result and no side effect happens twice, over pauses, approvals,        *)
(* denials, crashes and recoveries.                                        *)
(***************************************************************************)
THEOREM NothingHappensTwice == Spec => []OnceWhenSerial
<1>1. Serial => OnceWhenSerial
  BY DEF Serial, Sound, OnceWhenSerial
<1> QED
  BY <1>1, AlwaysSerial, PTL

(***************************************************************************)
(* Of the calls that have a row and a route that marks it, recovery tells  *)
(* the model "was not dispatched" only of one that was not, wherever a     *)
(* crash fell and however often recovery was itself cut short: the marker  *)
(* is in the row before the tool runs.  (Of an allowed script or message   *)
(* to the user it says so whether it ran or not.)                          *)
(***************************************************************************)
THEOREM RecoveryIsHonest == Spec => []HonestRecovery
<1>1. Shaped /\ Serial => HonestRecovery
  BY DEF Serial, Sound, HonestRecovery, Shaped, EngineTypeOK, TypedVariables
<1> QED
  BY <1>1, AlwaysSerial, PTL

(***************************************************************************)
(* The model is not consulted over a call that has neither a result nor a  *)
(* row to resolve, unless a crash took it from a task; and a resumed turn  *)
(* consults it only when every call of the message has a result.           *)
(***************************************************************************)
THEOREM CallsAreRemembered == Spec => []NoCallForgotten
<1>1. ASSUME Shaped, Serial PROVE NoCallForgotten
  <2> SUFFICES ASSUME NEW t \in Tasks, At(t, "consult"), ~overlap, NEW c \in Asked
               PROVE  \/ results[c] > 0
                      \/ task[t].kind # "resume" /\ (pending[c] = "pending" \/ crashes > 0)
    BY DEF NoCallForgotten
  <2>1. ASSUME NEW u \in Tasks PROVE Hand(u) = {}
    <3>1. CASE u = t
      BY <3>1 DEF At, Hand, Batching, Resolving
    <3>2. CASE u # t
      BY <1>1, <3>2, RestIsOrderly DEF Serial, Apart, At, Idle, Shaped, Placed, Inside
    <3> QED
      BY <3>1, <3>2
  <2>2. c \in Calls
    BY <1>1, Grounds DEF Shaped
  <2>3. Settled(c)
    BY <1>1, <2>1, <2>2 DEF Serial, Known
  <2>4. task[t].kind = "resume" => results[c] > 0
    BY <1>1, <2>1 DEF Serial, Answers, At
  <2> QED
    BY <2>3, <2>4 DEF Settled
<1> QED
  BY <1>1, AlwaysSerial, PTL

\* A step touches the rows of the calls in its hand, and none of them is resolved.
LEMMA ResolvedKept ==
  ASSUME NEW t \in Tasks, Before(t), TaskStep(t), NEW c \in Calls, pending[c] = "resolved"
  PROVE  pending'[c] = "resolved"
<1>0. CASE UNCHANGED pending
  BY <1>0
<1>1. CASE NeedUser(t)
  BY <1>1 DEF NeedUser, SetPending, At, Before, InBatch
<1>2. CASE ParkLater(t)
  BY <1>2 DEF ParkLater, SetPending, At, Before, InBatch
<1>3. CASE ParkCall(t)
  BY <1>3 DEF ParkCall, SetPending, At, Before, InBatch
<1>4. CASE TakePending(t)
  BY <1>4 DEF TakePending, SetPending
<1>5. CASE Requeue(t)
  BY <1>5 DEF Requeue, SetPending, At, Before, InResolution, Resolving
<1>6. CASE CancelRow(t)
  BY <1>6 DEF CancelRow, SetPending, At, Before, HasWork, InResolution, Resolving
<1> QED
  BY <1>0, <1>1, <1>2, <1>3, <1>4, <1>5, <1>6
     DEF TaskStep, Loop, ExecuteTools, ResolveSteps, durable, Prepare, Recover, Retry, Iterate,
         Answer, StreamFails, AskTools, KeyRows, Interrupts, DeferRead, Dispatch, Execute,
         RunReads, Persist, LoopAgain, MarkTarget, RunTarget, RecordTarget, CancelCall,
         Release, Close

(***************************************************************************)
(* A row the user resolved is not resolved, deleted or parked again: a     *)
(* step touches the rows of the calls in its hand, and none of them is.    *)
(***************************************************************************)
THEOREM ResolutionsStay == Spec => ResolvedStays
<1>1. ASSUME Shaped, Serial, [Next]_vars, ~overlap',
             NEW c \in Calls, pending[c] = "resolved"
      PROVE  pending'[c] = "resolved"
  <2>1. ASSUME NEW t \in Tasks, TaskStep(t) PROVE pending'[c] = "resolved"
    BY <1>1, <2>1, OverlapStays, OneUnderWay, ResolvedKept
  <2>2. CASE UNCHANGED pending
    BY <1>1, <2>2
  <2> QED
    BY <1>1, <2>1, <2>2
       DEF Next, Begin, Resolve, Crash, Interrupt, Steer, SteerAppend, SteerQueue, vars, durable
<1>2. Shaped /\ Serial /\ [Next]_vars =>
        [~overlap' => \A c \in Calls :
            pending[c] = "resolved" => pending'[c] = "resolved"]_vars
  BY <1>1
<1> QED
  BY <1>2, AlwaysSerial, PTL DEF Spec, ResolvedStays
=============================================================================
