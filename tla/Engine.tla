------------------------------- MODULE Engine -------------------------------
(***************************************************************************)
(* One session's TurnEngine: the turns and the resolutions of approvals    *)
(* and questions that run in it, the tool calls of an assistant message,   *)
(* steering, interrupts, and recovery after a crash.                       *)
(*                                                                         *)
(* A task is one call of an engine method: a turn (submit, steering,       *)
(* retry), a resume, or the resolution of a pending row.  It takes a step  *)
(* for each await and each store call that another task could observe; a   *)
(* loop of store calls without an await is one step.                       *)
(* The transcript is reduced to one assistant message with tool calls and  *)
(* the results that follow it; messages without calls are not recorded.    *)
(* A call stands for its id, which is the key of its row in tool_calls and *)
(* in pending: a message has it once.                                      *)
(***************************************************************************)
EXTENDS Naturals, Sequences, FiniteSets

CONSTANTS
  Calls,      \* tool calls
  Kind,       \* the kind of each call
  Unmarked,   \* calls that run without the marker: an allowed script or message to
              \* the user, and what controls a recording
  Batches,    \* the lists of calls the model may ask for in one message
  Tasks,      \* engine methods running at a time
  Notes,      \* steering messages
  MaxOps,     \* bound: engine methods called
  MaxCrashes  \* bound: process crashes

\* A read is allowed and has no side effect; a write is allowed by the mode;
\* a guarded call needs the user; a question is ask_user.
Kinds == {"read", "write", "guarded", "question"}

ASSUME EngineAssumption ==
  /\ IsFiniteSet(Tasks)
  /\ Kind \in [Calls -> Kinds] /\ Unmarked \subseteq Calls
  /\ Batches \subseteq Seq(Calls)
  /\ \A b \in Batches : \A i, j \in DOMAIN b : b[i] = b[j] => i = j
  /\ MaxOps \in Nat /\ MaxCrashes \in Nat

VARIABLES
  batch,        \* the calls of the assistant message, <<>> before it
  last,         \* it is the last message of the transcript
  rows,         \* calls with a tool_calls row under the message's sequence
  marked,       \* calls whose row says dispatch_attempted
  results,      \* tool results in the transcript, per call
  pending,      \* the row of each call in pending
  status,       \* run_state with its stop_reason
  turnActive,
  interrupted,
  steering,     \* queued texts
  note,         \* how far each steering message has come
  task,         \* the tasks
  ran,          \* history: executions of each call but the reads
  approved,     \* history: approvals of each call
  verdict,      \* history: what recovery said of each call
  overlap,      \* history: a method was called while another ran
  ops,
  crashes

durable == <<batch, last, rows, marked, results, pending, status>>
memory == <<turnActive, interrupted, steering, note>>
history == <<ran, approved, verdict, overlap>>
vars == <<durable, memory, task, history, ops, crashes>>

Resting == [pc |-> "idle", kind |-> "turn", todo |-> {}, reads |-> {}, held |-> {},
            target |-> <<>>, outcome |-> "done"]

Asked == {batch[i] : i \in DOMAIN batch}
Position(c) == CHOOSE i \in DOMAIN batch : batch[i] = c
SideEffect(c) == Kind[c] # "read"
Idle(t) == task[t].pc = "idle"
At(t, pc) == task[t].pc = pc
\* The calls of todo are taken in the order of the message.
Next1(t) == CHOOSE c \in task[t].todo : \A d \in task[t].todo : Position(c) <= Position(d)
Later(t) == task[t].todo \ {Next1(t)}
Goto(t, pc) == task' = [task EXCEPT ![t].pc = pc]
Finish(t, outcome) == task' = [task EXCEPT ![t] = [@ EXCEPT !.pc = "finish",
                                                            !.outcome = outcome]]
Pop(t, pc) == task' = [task EXCEPT ![t] = [@ EXCEPT !.pc = pc, !.todo = Later(t)]]
\* The result of the next call is in memory.
Hold(t) == task' = [task EXCEPT ![t] = [@ EXCEPT !.pc = "execute",
                                                 !.todo = Later(t),
                                                 !.held = task[t].held \cup {Next1(t)}]]

\* A tool result, or any message, follows the assistant message.
Record(C) ==
  /\ results' = [c \in Calls |-> IF c \in C THEN results[c] + 1 ELSE results[c]]
  /\ last' = (last /\ C = {})
SetPending(C, state) == pending' = [c \in Calls |-> IF c \in C THEN state ELSE pending[c]]
\* mark_tool_call_dispatch_attempted updates the row of that sequence, if any; the
\* route of some calls leaves it out.
Mark(C) == marked' = marked \cup ((C \ Unmarked) \cap rows)
Run(c) == ran' = [ran EXCEPT ![c] = @ + 1]

-----------------------------------------------------------------------------
Init ==
  /\ batch = <<>> /\ last = FALSE /\ rows = {} /\ marked = {}
  /\ results = [c \in Calls |-> 0]
  /\ pending = [c \in Calls |-> "none"]
  /\ status = "idle"
  /\ turnActive = FALSE /\ interrupted = FALSE
  /\ steering = {} /\ note = [n \in Notes |-> "new"]
  /\ task = [t \in Tasks |-> Resting]
  /\ ran = [c \in Calls |-> 0] /\ approved = [c \in Calls |-> 0]
  /\ verdict = [c \in Calls |-> "none"] /\ overlap = FALSE
  /\ ops = 0 /\ crashes = 0

\* A method is called: it takes a free slot, no matter which.
Call(t) ==
  /\ Idle(t) /\ t = CHOOSE u \in Tasks : Idle(u)
  /\ ops < MaxOps
  /\ ops' = ops + 1
  /\ overlap' = (overlap \/ \E u \in Tasks : ~Idle(u))

\* begin_turn, by compare_exchange; otherwise TurnAlreadyRunning.
Begin(t, kind) ==
  /\ Call(t)
  /\ ~turnActive /\ turnActive' = TRUE
  /\ task' = [task EXCEPT ![t] = [Resting EXCEPT !.pc = "begun", !.kind = kind]]
  /\ UNCHANGED <<durable, interrupted, steering, note, ran, approved,
                 verdict, crashes>>

\* The rest of the entry point up to run_loop.
Prepare(t) ==
  /\ At(t, "begun")
  /\ steering' = {} /\ interrupted' = FALSE
  /\ status' = "running"
  /\ last' = (last /\ task[t].kind # "turn")
  /\ Goto(t, IF task[t].kind = "resume" THEN "recover" ELSE "loop")
  /\ UNCHANGED <<batch, rows, marked, results, pending, turnActive,
                 note, history, ops, crashes>>

(***************************************************************************)
(* resume_pending_turn_inner: calls without a result are re-executed only  *)
(* if they are reads and were never dispatched; the others get a result    *)
(* that says recovery is required.  The reads get a row if they have none. *)
(***************************************************************************)
Unanswered == {c \in Asked : results[c] = 0}
RetriesMarked(c) == ~SideEffect(c) \/ c \in marked  \* mutant: the marker says retry
SafeToRetry(c) == c \notin marked /\ ~SideEffect(c)

Recover(t) ==
  /\ At(t, "recover")
  /\ LET safe == {c \in Unanswered : SafeToRetry(c)}
         blocked == Unanswered \ safe
     IN  IF \E c \in Unanswered : pending[c] = "pending"
         THEN Finish(t, "pending") /\ UNCHANGED verdict
         ELSE /\ verdict' = [c \in Calls |->
                   IF c \notin blocked THEN verdict[c]
                   ELSE IF c \in marked THEN "unknown" ELSE "unresolved"]
              /\ task' = [task EXCEPT ![t] = [@ EXCEPT !.pc = "blocked", !.held = blocked,
                                                       !.todo = safe]]
  /\ UNCHANGED <<durable, memory, ran, approved, overlap, ops, crashes>>

\* The results of the blocked calls have been persisted.
Retry(t) ==
  /\ At(t, "blocked") /\ task[t].held = {}
  /\ rows' = rows \cup task[t].todo
  /\ Goto(t, IF task[t].todo = {} THEN "loop" ELSE "execute")
  /\ UNCHANGED <<batch, last, marked, results, pending, status, memory, history,
                 ops, crashes>>

-----------------------------------------------------------------------------
(* run_loop *)

Iterate(t) ==
  /\ At(t, "loop")
  /\ IF interrupted
     THEN Finish(t, "interrupted") /\ UNCHANGED steering
     ELSE Goto(t, "consult") /\ steering' = {}
  /\ UNCHANGED <<durable, turnActive, interrupted, note, history, ops,
                 crashes>>

\* The model answers with text: queued steering keeps the turn going.
Answer(t) ==
  /\ At(t, "consult")
  /\ IF steering # {} THEN Goto(t, "loop") ELSE Finish(t, "done")
  /\ steering' = {} /\ last' = FALSE
  /\ UNCHANGED <<batch, rows, marked, results, pending, status, turnActive,
                 interrupted, note, history, ops, crashes>>

\* The stream fails: the provider, the idle timeout or an interrupt.
StreamFails(t) ==
  /\ At(t, "consult")
  /\ Finish(t, IF interrupted THEN "interrupted" ELSE "error")
  /\ UNCHANGED <<durable, memory, history, ops, crashes>>

\* The model asks for tools: the assistant message is appended ...
AskTools(t, b) ==
  /\ At(t, "consult") /\ batch = <<>>
  /\ batch' = b /\ last' = TRUE
  /\ Goto(t, "asked")
  /\ UNCHANGED <<rows, marked, results, pending, status, memory, history, ops,
                 crashes>>

\* ... and the sequence its tool_calls rows are stored under is read after it.
KeyRows(t) ==
  /\ At(t, "asked")
  /\ rows' = IF last THEN Asked ELSE {}
  /\ task' = [task EXCEPT ![t] = [@ EXCEPT !.pc = "execute", !.todo = Asked]]
  /\ UNCHANGED <<batch, last, marked, results, pending, status, memory, history,
                 ops, crashes>>

-----------------------------------------------------------------------------
(* execute_tools *)

InterruptsInPlace(t) ==  \* mutant: the list does not advance
  /\ At(t, "execute") /\ task[t].todo # {} /\ interrupted
  /\ task' = [task EXCEPT ![t].held = @ \cup {Next1(t)}]
  /\ UNCHANGED <<durable, memory, history, ops, crashes>>

Interrupts(t) ==  \* a call not started gets the result "interrupted"
  /\ At(t, "execute") /\ task[t].todo # {} /\ interrupted
  /\ Hold(t)
  /\ UNCHANGED <<durable, memory, history, ops, crashes>>

DeferRead(t) ==
  /\ At(t, "execute") /\ task[t].todo # {} /\ ~interrupted
  /\ Kind[Next1(t)] = "read"
  /\ task' = [task EXCEPT ![t] = [@ EXCEPT !.todo = Later(t),
                                           !.reads = task[t].reads \cup {Next1(t)}]]
  /\ UNCHANGED <<durable, memory, history, ops, crashes>>

DispatchUnmarked(t) ==  \* mutant: the marker is written with the result
  /\ At(t, "execute") /\ task[t].todo # {} /\ ~interrupted
  /\ Kind[Next1(t)] = "write"
  /\ Goto(t, "run")
  /\ UNCHANGED <<durable, memory, history, ops, crashes>>

Dispatch(t) ==
  /\ At(t, "execute") /\ task[t].todo # {} /\ ~interrupted
  /\ Kind[Next1(t)] = "write"
  /\ Mark({Next1(t)})
  /\ Goto(t, "run")
  /\ UNCHANGED <<batch, last, rows, results, pending, status, memory, history,
                 ops, crashes>>

\* The executor returns, or the interrupt is noticed with the tool under way.
Execute(t) ==
  /\ At(t, "run")
  /\ \/ Run(Next1(t))
     \/ interrupted /\ UNCHANGED ran
  /\ Hold(t)
  /\ UNCHANGED <<durable, memory, approved, verdict, overlap, ops, crashes>>

\* The deferred reads run together, at the end or before the batch pauses; after
\* an interrupt they do not.  (A read has no effect that ran would count.)
RunReads(t) ==
  /\ task[t].reads # {}
  /\ At(t, "pause") \/ (At(t, "execute") /\ task[t].todo = {})
  /\ \/ Mark(task[t].reads)
     \/ interrupted /\ UNCHANGED marked
  /\ task' = [task EXCEPT ![t] = [@ EXCEPT !.held = task[t].held \cup task[t].reads,
                                           !.reads = {}]]
  /\ UNCHANGED <<batch, last, rows, results, pending, status, memory, history,
                 ops, crashes>>

\* The call needs the user.  A question's own row is saved first.
NeedUser(t) ==
  /\ At(t, "execute") /\ task[t].todo # {} /\ ~interrupted
  /\ Kind[Next1(t)] \in {"guarded", "question"}
  /\ SetPending({Next1(t)} \cap {c \in Calls : Kind[c] = "question"}, "pending")
  /\ Goto(t, "pause")
  /\ UNCHANGED <<batch, last, rows, marked, results, status, memory, history,
                 ops, crashes>>

\* persist_tool_results, at the end, before the batch pauses, and of the blocked
\* calls of a recovery: one by one.
Persist(t) ==
  /\ task[t].reads = {} /\ task[t].held # {}
  /\ At(t, "pause") \/ At(t, "blocked") \/ (At(t, "execute") /\ task[t].todo = {})
  /\ \E c \in task[t].held :
       /\ Record({c})
       /\ task' = [task EXCEPT ![t].held = @ \ {c}]
  /\ UNCHANGED <<batch, rows, marked, pending, status, memory, history, ops,
                 crashes>>

\* The calls after the one that needs the user are parked, ...
ParkNothing(t) ==  \* mutant: the calls after the paused one are dropped
  /\ At(t, "pause") /\ task[t].reads = {} /\ task[t].held = {}
  /\ Goto(t, "parked")
  /\ UNCHANGED <<durable, memory, history, ops, crashes>>

ParkLater(t) ==
  /\ At(t, "pause") /\ task[t].reads = {} /\ task[t].held = {}
  /\ SetPending(Later(t), "pending")
  /\ Goto(t, "parked")
  /\ UNCHANGED <<batch, last, rows, marked, results, status, memory, history,
                 ops, crashes>>

\* ... and then the call itself, unless its row is there.
ParkCall(t) ==
  /\ At(t, "parked")
  /\ SetPending({Next1(t)} \cap {c \in Calls : Kind[c] = "guarded"}, "pending")
  /\ Finish(t, "pending")
  /\ UNCHANGED <<batch, last, rows, marked, results, status, memory, history,
                 ops, crashes>>

LoopAgain(t) ==
  /\ At(t, "execute") /\ task[t].todo = {} /\ task[t].reads = {} /\ task[t].held = {}
  /\ Goto(t, "loop")
  /\ UNCHANGED <<durable, memory, history, ops, crashes>>

-----------------------------------------------------------------------------
(* resolve_approval and resolve_pending_input: neither claims turnActive *)

\* The user acts on a row that was shown; it may be resolved by now.
Resolve(t, c, kind) ==
  /\ Call(t)
  /\ pending[c] # "none"
  /\ (kind = "answer") = (Kind[c] = "question")
  /\ status' = "running"
  /\ task' = [task EXCEPT ![t] = [Resting EXCEPT !.pc = "take", !.kind = kind,
                                                 !.target = c]]
  /\ UNCHANGED <<batch, last, rows, marked, results, pending, memory, ran,
                 approved, verdict, crashes>>

\* take_pending, and the other rows of the message as they are now.
AfterTake(kind) == IF kind = "approve" THEN "mark" ELSE "record"
RemainingAll(c) == Asked \ {c}  \* mutant: rows in any state
Remaining(c) == {d \in Asked \ {c} : pending[d] = "pending"}

TakeAnyRow(t) ==  \* mutant: a resolved row is taken again
  LET c == task[t].target IN
  /\ At(t, "take")
  /\ IF pending[c] # "none"
     THEN /\ SetPending({c}, "resolved")
          /\ task' = [task EXCEPT ![t] =
                         [@ EXCEPT !.pc = AfterTake(task[t].kind),
                                   !.todo = IF task[t].kind = "answer" THEN {} ELSE Remaining(c)]]
          /\ approved' = IF task[t].kind = "approve" /\ pending[c] = "pending"
                         THEN [approved EXCEPT ![c] = @ + 1] ELSE approved
     ELSE Finish(t, "processed") /\ UNCHANGED <<pending, approved>>
  /\ UNCHANGED <<batch, last, rows, marked, results, status, memory, ran,
                 verdict, overlap, ops, crashes>>

TakePending(t) ==
  LET c == task[t].target IN
  /\ At(t, "take")
  /\ IF pending[c] = "pending"
     THEN /\ SetPending({c}, "resolved")
          /\ task' = [task EXCEPT ![t] =
                         [@ EXCEPT !.pc = AfterTake(task[t].kind),
                                   !.todo = IF task[t].kind = "answer" THEN {} ELSE Remaining(c)]]
          /\ approved' = IF task[t].kind = "approve"
                         THEN [approved EXCEPT ![c] = @ + 1] ELSE approved
     ELSE Finish(t, "processed") /\ UNCHANGED <<pending, approved>>
  /\ UNCHANGED <<batch, last, rows, marked, results, status, memory, ran,
                 verdict, overlap, ops, crashes>>

MarkTarget(t) ==
  /\ At(t, "mark")
  /\ Mark({task[t].target})
  /\ Goto(t, "target")
  /\ UNCHANGED <<batch, last, rows, results, pending, status, memory, history,
                 ops, crashes>>

RunTarget(t) ==
  /\ At(t, "target")
  /\ Run(task[t].target)
  /\ Goto(t, "record")
  /\ UNCHANGED <<durable, memory, approved, verdict, overlap, ops, crashes>>

RecordUnchecked(t) ==  \* mutant: no test that calls remain
  /\ At(t, "record")
  /\ Record({task[t].target})
  /\ Goto(t, IF task[t].kind = "approve" THEN "requeue" ELSE "cancel")
  /\ UNCHANGED <<batch, rows, marked, pending, status, memory, history, ops,
                 crashes>>

RecordTarget(t) ==
  /\ At(t, "record")
  /\ Record({task[t].target})
  /\ Goto(t, IF task[t].todo = {} THEN "loop"
             ELSE IF task[t].kind = "approve" THEN "requeue" ELSE "cancel")
  /\ UNCHANGED <<batch, rows, marked, pending, status, memory, history, ops,
                 crashes>>

\* Approved: the other calls leave the table and go through execute_tools.
Requeue(t) ==
  /\ At(t, "requeue")
  /\ SetPending(task[t].todo, "none")
  /\ Goto(t, "execute")
  /\ UNCHANGED <<batch, last, rows, marked, results, status, memory, history,
                 ops, crashes>>

\* Denied: each of them is deleted and gets a result of its own.
CancelRow(t) ==
  /\ At(t, "cancel")
  /\ SetPending({Next1(t)}, "none")
  /\ Goto(t, "cancelled")
  /\ UNCHANGED <<batch, last, rows, marked, results, status, memory, history,
                 ops, crashes>>

CancelCall(t) ==
  /\ At(t, "cancelled")
  /\ Record({Next1(t)})
  /\ Pop(t, IF Later(t) = {} THEN "loop" ELSE "cancel")
  /\ UNCHANGED <<batch, rows, marked, pending, status, memory, history, ops,
                 crashes>>

-----------------------------------------------------------------------------
(* finish_turn *)

Release(t) ==
  /\ At(t, "finish")
  /\ turnActive' = FALSE
  /\ Goto(t, "close")
  /\ UNCHANGED <<durable, interrupted, steering, note, history, ops,
                 crashes>>

TerminalStatus(outcome) ==
  CASE outcome = "done" -> "idle"
    [] outcome \in {"pending", "processed"} -> "waiting"
    [] outcome = "interrupted" -> "interrupted"
    [] OTHER -> "error"

CloseSilently(t) ==  \* mutant: a resolution leaves the status to the turn
  /\ At(t, "close")
  /\ steering' = {}
  /\ status' = IF task[t].kind \in {"turn", "resume"}
               THEN TerminalStatus(task[t].outcome) ELSE status
  /\ task' = [task EXCEPT ![t] = Resting]
  /\ UNCHANGED <<batch, last, rows, marked, results, pending, turnActive,
                 interrupted, note, history, ops, crashes>>

Close(t) ==
  /\ At(t, "close")
  /\ steering' = {}
  /\ status' = TerminalStatus(task[t].outcome)
  /\ task' = [task EXCEPT ![t] = Resting]
  /\ UNCHANGED <<batch, last, rows, marked, results, pending, turnActive,
                 interrupted, note, history, ops, crashes>>

-----------------------------------------------------------------------------
(* queue_steering, once the caller has seen an active turn *)

SteerAppend(n) ==
  /\ note[n] = "new" /\ turnActive
  /\ note' = [note EXCEPT ![n] = "appended"]
  /\ last' = FALSE
  /\ UNCHANGED <<batch, rows, marked, results, pending, status, turnActive,
                 interrupted, steering, task, history, ops, crashes>>

SteerQueue(n) ==
  /\ note[n] = "appended"
  /\ note' = [note EXCEPT ![n] = "queued"]
  /\ steering' = steering \cup {n}
  /\ UNCHANGED <<durable, turnActive, interrupted, task, history, ops,
                 crashes>>

Interrupt ==
  /\ ~interrupted /\ interrupted' = TRUE
  /\ UNCHANGED <<durable, turnActive, steering, note, task, history,
                 ops, crashes>>

\* The process ends; the next one calls reconcile_running_sessions.  (With no
\* task under way that would change nothing but the flag of an interrupt.)
Crash ==
  /\ crashes < MaxCrashes /\ crashes' = crashes + 1
  /\ \E t \in Tasks : ~Idle(t)
  /\ status' = IF status = "running" THEN "interrupted" ELSE status
  /\ turnActive' = FALSE /\ interrupted' = FALSE
  /\ steering' = {}
  /\ note' = [n \in Notes |-> IF note[n] = "new" THEN "new" ELSE "queued"]
  /\ task' = [t \in Tasks |-> Resting]
  /\ UNCHANGED <<batch, last, rows, marked, results, pending, history, ops>>

-----------------------------------------------------------------------------
Loop(t) == Iterate(t) \/ Answer(t) \/ StreamFails(t) \/ KeyRows(t)
           \/ \E b \in Batches : AskTools(t, b)
ExecuteTools(t) ==
  \/ Interrupts(t) \/ DeferRead(t) \/ Dispatch(t) \/ Execute(t) \/ RunReads(t)
  \/ NeedUser(t) \/ Persist(t) \/ ParkLater(t) \/ ParkCall(t) \/ LoopAgain(t)
ResolveSteps(t) ==
  \/ TakePending(t) \/ MarkTarget(t) \/ RunTarget(t) \/ RecordTarget(t)
  \/ Requeue(t) \/ CancelRow(t) \/ CancelCall(t)

TaskStep(t) ==
  Prepare(t) \/ Recover(t) \/ Retry(t) \/ Loop(t) \/ ExecuteTools(t) \/ ResolveSteps(t)
  \/ Release(t) \/ Close(t)
Steer(n) == SteerAppend(n) \/ SteerQueue(n)

Next ==
  \/ \E t \in Tasks, kind \in {"turn", "resume"} : Begin(t, kind)
  \/ \E t \in Tasks, c \in Calls, kind \in {"approve", "deny", "answer"} :
       Resolve(t, c, kind)
  \/ \E t \in Tasks : TaskStep(t)
  \/ \E n \in Notes : Steer(n)
  \/ Interrupt \/ Crash

Spec == Init /\ [][Next]_vars
\* A provider stream ends, at the latest by the chunk idle timeout; a tool
\* returns or the user interrupts it.
FairSpec == Spec /\ \A t \in Tasks : WF_vars(TaskStep(t))

-----------------------------------------------------------------------------
Pcs == {"idle", "begun", "recover", "blocked", "loop", "consult", "asked", "execute", "run",
        "pause", "parked", "take", "mark", "target", "record", "requeue",
        "cancel", "cancelled", "finish", "close"}

TaskType == [pc : Pcs, kind : {"turn", "resume", "approve", "deny", "answer"},
             todo : SUBSET Calls, reads : SUBSET Calls, held : SUBSET Calls,
             target : Calls \cup {<<>>},
             outcome : {"done", "error", "interrupted", "pending", "processed"}]

\* A step that works on the next call of a list, or on its target, has one.
HasWork(t) ==
  /\ task[t].pc \in {"run", "pause", "parked", "requeue", "cancel", "cancelled"}
       => task[t].todo # {}
  /\ task[t].pc \in {"take", "mark", "target", "record"} => task[t].target \in Calls

TypedVariables ==
  /\ batch \in Seq(Calls) /\ last \in BOOLEAN
  /\ rows \subseteq Calls /\ marked \subseteq Calls
  /\ results \in [Calls -> Nat] /\ ran \in [Calls -> Nat] /\ approved \in [Calls -> Nat]
  /\ pending \in [Calls -> {"none", "pending", "resolved"}]
  /\ status \in {"idle", "running", "waiting", "interrupted", "error"}
  /\ turnActive \in BOOLEAN /\ interrupted \in BOOLEAN
  /\ steering \subseteq Notes
  /\ note \in [Notes -> {"new", "appended", "queued"}]
  /\ verdict \in [Calls -> {"none", "unknown", "unresolved"}]
  /\ overlap \in BOOLEAN
  /\ ops \in Nat /\ crashes \in Nat

\* The variables have their types, and every step has what it works on.
EngineTypeOK ==
  TypedVariables /\ task \in [Tasks -> TaskType] /\ \A t \in Tasks : HasWork(t)

\* A call that needs the user runs at most once per approval, whatever tasks
\* overlap and wherever a crash falls (take_pending is what an approval spends).
NeverUnapproved == \A c \in Calls : Kind[c] = "guarded" => ran[c] <= approved[c]

\* As long as callers keep the engine's methods apart, a side effect happens at
\* most once and the transcript has at most one result per call, over pauses,
\* approvals, crashes and recoveries.
OnceWhenSerial ==
  ~overlap => \A c \in Calls : results[c] <= 1 /\ (SideEffect(c) => ran[c] <= 1)

\* The model is not consulted while a call of its last request has neither a
\* result nor a row the user can resolve, unless a crash took them; a resumed
\* turn answers every one even then.
NoCallForgotten ==
  \A t \in Tasks : At(t, "consult") /\ ~overlap => \A c \in Asked :
    \/ results[c] > 0
    \/ task[t].kind # "resume" /\ (pending[c] = "pending" \/ crashes > 0)

\* Recovery says "was not dispatched" of a call only if it never ran, wherever a crash
\* fell: of a call that has a row to be marked and whose route marks it.  (It says the
\* same of an allowed script or message to the user that ran, and of a call without a
\* row.)
HonestRecovery ==
  ~overlap => \A c \in rows \ Unmarked : verdict[c] = "unresolved" => ran[c] = 0

\* With no task under way the session is not left "running".
NoneLeftRunning == (\A t \in Tasks : Idle(t)) => status # "running"

\* A row that was resolved stays resolved, as long as callers keep apart.
ResolvedStays ==
  [][~overlap' => \A c \in Calls : pending[c] = "resolved" => pending'[c] = "resolved"]_vars

\* Every turn and every resolution ends.
EveryTaskEnds == \A t \in Tasks : ~Idle(t) ~> Idle(t)
=============================================================================
