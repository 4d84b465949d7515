----------------------------- MODULE WorkRunner -----------------------------
(***************************************************************************)
(* The autonomous runner (work_runner.rs) on top of the durable queue: a   *)
(* loop claims rows for as long as it has permits, and every claimed row   *)
(* is executed by a task of its own, run_item, which runs one agent turn   *)
(* in the row's session while it renews the lease.                         *)
(*                                                                         *)
(* A task is a slot of the runner's semaphore.  Its steps are separated    *)
(* where the code awaits or makes another store call, so tasks, the agents *)
(* they drive, the user and the clock interleave there.  A slot stands for *)
(* the fresh worker id of its claim until the lease is rebound to the      *)
(* session, and the agent then answers under the session's name.           *)
(***************************************************************************)
EXTENDS WorkQueue

CONSTANTS
  Slots,       \* permits of the semaphore: runner_max_concurrency of them
  Sessions,    \* sessions that rows name, and the ones tasks create
  FreshOf,     \* the session a slot creates for a row without one
  NoSession,
  NoItem,
  Kinds,       \* the session_id (or NoSession) and task_type rows may have
  MaxCrashes   \* bound: process crashes

ASSUME RunnerAssumption ==
  /\ Slots \cup Sessions \subseteq Workers
  /\ NoSession \notin Sessions
  /\ NoItem \notin Items
  /\ Kinds \subseteq [session : Sessions \cup {NoSession}, repair : BOOLEAN]
  /\ \A t \in Slots : FreshOf[t] \in Sessions
  /\ LeaseLengths # {} /\ MaxCrashes \in Nat

LEASE_SECONDS == CHOOSE n \in LeaseLengths : TRUE

VARIABLES
  kind,        \* session_id of each row, and whether it is a ci_repair_loop
  task,        \* one run_item per slot
  unattended,  \* the sessions' unattended column
  turnActive,  \* turn_active of the session's engine (in memory)
  userTurn,    \* a turn the user submitted is running
  crashes

engines == <<turnActive, userTurn>>
runnerVars == <<kind, task, unattended, engines, crashes>>
vars == <<queueVars, runnerVars>>

Idle ==
  [pc |-> "idle", item |-> NoItem, session |-> NoSession, generation |-> 0,
   previous |-> {}, result |-> "none", reported |-> "none",
   disposition |-> "none"]

\* previous is the unattended value to restore: {} when there is no guard.

(***************************************************************************)
(* The name a task holds its lease under.                                  *)
(***************************************************************************)
WorkerName(t) ==
  IF task[t].pc \in {"claimed", "read", "asking", "flagged"} THEN t
  ELSE task[t].session

MayWrite(t) ==
  task[t].pc # "idle" /\ Holds(task[t].item, WorkerName(t), task[t].generation)

Goto(t, pc) == task' = [task EXCEPT ![t].pc = pc]

At(t, pc) == task[t].pc = pc

IsRepair(t) == kind[task[t].item].repair

\* A fenced write that may be refused: the task ignores or survives the error.
IfHeld(t, Write) == IF MayWrite(t) THEN Write ELSE UNCHANGED queueVars

-----------------------------------------------------------------------------
(***************************************************************************)
(* start: a free permit, then a claim under a fresh worker id.  The claim  *)
(* transaction buries spent rows even when it finds nothing to run.        *)
(***************************************************************************)
ClaimRun(t, i) ==
  /\ At(t, "idle")
  /\ Claim(t, i, LEASE_SECONDS)
  /\ task' = [task EXCEPT ![t] =
                [Idle EXCEPT !.pc = "claimed", !.item = i, !.session = kind[i].session,
                             !.generation = leaseGeneration[i] + 1]]
  /\ UNCHANGED <<kind, unattended, engines, crashes>>

ClaimEmpty ==
  /\ \E t \in Slots : At(t, "idle")
  /\ ClaimNothing
  /\ UNCHANGED runnerVars

(***************************************************************************)
(* The row's own session: read its unattended flag, then set it.  Two      *)
(* store calls, with the guard that restores it built after the second.    *)
(***************************************************************************)
ReadUnattended(t) ==
  /\ At(t, "claimed") /\ task[t].session # NoSession
  /\ task' = [task EXCEPT ![t] = [@ EXCEPT !.pc = "read",
                                           !.previous = {unattended[task[t].session]}]]
  /\ UNCHANGED <<queueVars, kind, unattended, engines, crashes>>

SetUnattended(t) ==
  /\ At(t, "read")
  /\ Goto(t, "flagged")
  /\ unattended' = [unattended EXCEPT ![task[t].session] = TRUE]
  /\ UNCHANGED <<queueVars, kind, engines, crashes>>

(***************************************************************************)
(* No session: create one from the project's runner profile, or, without a *)
(* profile, note needs_human in the progress row and hold the item.        *)
(***************************************************************************)
CreateSession(t) ==
  /\ At(t, "claimed") /\ task[t].session = NoSession
  /\ task' = [task EXCEPT ![t] = [@ EXCEPT !.pc = "flagged", !.session = FreshOf[t]]]
  /\ unattended' = [unattended EXCEPT ![FreshOf[t]] = TRUE]
  /\ turnActive' = [turnActive EXCEPT ![FreshOf[t]] = FALSE]
  /\ UNCHANGED <<queueVars, kind, userTurn, crashes>>

NeedHuman(t) ==
  /\ At(t, "claimed") /\ task[t].session = NoSession
  /\ IF SaveAccepted(task[t].item, t, task[t].generation)
     THEN SaveProgress(task[t].item, t, task[t].generation) /\ Goto(t, "asking")
     ELSE UNCHANGED queueVars /\ Goto(t, "exit")
  /\ UNCHANGED <<kind, unattended, engines, crashes>>

AskHuman(t) ==
  /\ At(t, "asking")
  /\ IfHeld(t, HoldFenced(task[t].item, t, task[t].generation))
  /\ Goto(t, "exit")
  /\ UNCHANGED <<kind, unattended, engines, crashes>>

(***************************************************************************)
(* rebind_work_item_lease to the session; a refusal ends the run.          *)
(***************************************************************************)
RebindInsists(t) ==  \* mutant: tries again until the store agrees
  /\ At(t, "flagged") /\ MayWrite(t)
  /\ Rebind(task[t].item, t, task[t].session, task[t].generation)
  /\ Goto(t, "bound")
  /\ UNCHANGED <<kind, unattended, engines, crashes>>

RebindLease(t) ==
  /\ At(t, "flagged")
  /\ IfHeld(t, Rebind(task[t].item, t, task[t].session, task[t].generation))
  /\ Goto(t, IF MayWrite(t) THEN "bound" ELSE "exit")
  /\ UNCHANGED <<kind, unattended, engines, crashes>>

(***************************************************************************)
(* A ci_repair_loop row first writes its progress (phase diagnosing, or    *)
(* stopped when its budget is used up); a refused write ends the run and   *)
(* leaves the row running.                                                 *)
(***************************************************************************)
Prepare(t) ==
  /\ At(t, "bound") /\ ~IsRepair(t)
  /\ Goto(t, "submit")
  /\ UNCHANGED <<queueVars, kind, unattended, engines, crashes>>

PrepareRepair(t, next) ==
  /\ At(t, "bound") /\ IsRepair(t)
  /\ IF SaveAccepted(task[t].item, WorkerName(t), task[t].generation)
     THEN SaveProgress(task[t].item, WorkerName(t), task[t].generation) /\ Goto(t, next)
     ELSE UNCHANGED queueVars /\ Goto(t, "exit")
  /\ UNCHANGED <<kind, unattended, engines, crashes>>

StopRepair(t) ==
  /\ At(t, "stopping")
  /\ IfHeld(t, Complete(task[t].item, WorkerName(t), task[t].generation, "failed"))
  /\ Goto(t, "exit")
  /\ UNCHANGED <<kind, unattended, engines, crashes>>

(***************************************************************************)
(* submit_turn_inner_with_context and begin_turn.  A repair runs in an     *)
(* engine of its own; any other row in the session's engine, whose         *)
(* compare-and-swap on turn_active refuses a second turn.                  *)
(***************************************************************************)
BeginTurn(t) ==
  /\ At(t, "submit")
  /\ IF IsRepair(t)
     THEN Goto(t, "turn") /\ UNCHANGED turnActive
     ELSE IF turnActive[task[t].session]
     THEN /\ task' = [task EXCEPT ![t] = [@ EXCEPT !.pc = "ended", !.result = "error"]]
          /\ UNCHANGED turnActive
     ELSE /\ Goto(t, "turn")
          /\ turnActive' = [turnActive EXCEPT ![task[t].session] = TRUE]
  /\ UNCHANGED <<queueVars, kind, unattended, userTurn, crashes>>

\* The agent calls work_queue_complete under its session and the generation it was told.
AgentReports(t, outcome) ==
  /\ At(t, "turn")
  /\ Complete(task[t].item, task[t].session, task[t].generation, outcome)
  /\ task' = [task EXCEPT ![t].reported = outcome]
  /\ UNCHANGED <<kind, unattended, engines, crashes>>

\* The turn returns: finished, failed, or stopped at a tool call that needs approval.
TurnEnds(t, result) ==
  /\ At(t, "turn")
  /\ task' = [task EXCEPT ![t] = [@ EXCEPT !.pc = "ended", !.result = result]]
  /\ turnActive' = IF IsRepair(t) THEN turnActive
                   ELSE [turnActive EXCEPT ![task[t].session] = FALSE]
  /\ UNCHANGED <<queueVars, kind, unattended, userTurn, crashes>>

(***************************************************************************)
(* The other branch of the select: every LEASE_SECONDS / 3 renew.  A       *)
(* refused renewal drops the turn where it stands and writes nothing.      *)
(***************************************************************************)
Heartbeat(t) ==
  /\ task[t].pc \in {"submit", "turn"}
  /\ MayWrite(t)
  /\ Renew(task[t].item, WorkerName(t), task[t].generation, LEASE_SECONDS)
  /\ UNCHANGED runnerVars

LoseLease(t) ==
  /\ task[t].pc \in {"submit", "turn"}
  /\ ~MayWrite(t)
  /\ task' = [task EXCEPT ![t] = [@ EXCEPT !.pc = "exit", !.disposition = "LostLease"]]
  /\ UNCHANGED <<queueVars, kind, unattended, engines, crashes>>

(***************************************************************************)
(* disposition_after_turn on the row's status as it is now, whoever runs   *)
(* it by then, and the queue write that the disposition calls for.         *)
(***************************************************************************)
DispositionOf(t) ==
  LET stored == status[task[t].item]
  IN  CASE task[t].result = "error" -> "Failed"
        [] task[t].result = "pending" -> "PendingApproval"
        [] OTHER -> CASE stored = "completed" -> "Completed"
                      [] stored = "pending_approval" -> "PendingApproval"
                      [] OTHER -> "Failed"

Judge(t) ==
  /\ At(t, "ended")
  /\ task' = [task EXCEPT ![t] = [@ EXCEPT !.pc = "judged",
                                           !.result = "none",
                                           !.disposition = DispositionOf(t)]]
  /\ UNCHANGED <<queueVars, kind, unattended, engines, crashes>>

Settle(t) ==
  LET i == task[t].item
      w == WorkerName(t)
      g == task[t].generation
  IN  /\ At(t, "judged")
      /\ CASE task[t].disposition = "PendingApproval" -> IfHeld(t, HoldFenced(i, w, g))
           [] task[t].disposition = "Failed" -> IfHeld(t, Complete(i, w, g, "failed"))
           [] OTHER -> UNCHANGED queueVars
      /\ Goto(t, "exit")
      /\ UNCHANGED <<kind, unattended, engines, crashes>>

LeaveUntidy(t) ==  \* mutant: the permit is released, the run is not forgotten
  /\ At(t, "exit") /\ Goto(t, "idle")
  /\ UNCHANGED <<queueVars, kind, unattended, engines, crashes>>

\* run_item returns: the guard is dropped and the permit is released.
Leave(t) ==
  /\ At(t, "exit")
  /\ task' = [task EXCEPT ![t] = Idle]
  /\ unattended' = IF task[t].previous = {} THEN unattended
                   ELSE [unattended EXCEPT ![task[t].session] = TRUE \in task[t].previous]
  /\ UNCHANGED <<queueVars, kind, engines, crashes>>

-----------------------------------------------------------------------------
(***************************************************************************)
(* The user submits turns of their own, in the same engine.                *)
(***************************************************************************)
UserTurn(s) ==
  /\ ~turnActive[s]
  /\ turnActive' = [turnActive EXCEPT ![s] = TRUE]
  /\ userTurn' = [userTurn EXCEPT ![s] = TRUE]
  /\ UNCHANGED <<queueVars, kind, task, unattended, crashes>>

UserTurnEnds(s) ==
  /\ userTurn[s]
  /\ turnActive' = [turnActive EXCEPT ![s] = FALSE]
  /\ userTurn' = [userTurn EXCEPT ![s] = FALSE]
  /\ UNCHANGED <<queueVars, kind, task, unattended, crashes>>

(***************************************************************************)
(* The process dies: tasks, engines and their guards vanish, the database  *)
(* stays as it is.  The next start begins from there.                      *)
(***************************************************************************)
Crash ==
  /\ crashes < MaxCrashes
  /\ crashes' = crashes + 1
  /\ task' = [t \in Slots |-> Idle]
  /\ turnActive' = [s \in Sessions |-> FALSE]
  /\ userTurn' = [s \in Sessions |-> FALSE]
  /\ UNCHANGED <<queueVars, kind, unattended>>

Queue(A) == A /\ UNCHANGED runnerVars

\* A session a task creates is the runner's own: its user is not at it.
UserSessions == Sessions \ {FreshOf[t] : t \in Slots}

-----------------------------------------------------------------------------
Init ==
  /\ QueueInit
  /\ kind \in [Items -> Kinds]
  /\ task = [t \in Slots |-> Idle]
  /\ unattended = [s \in Sessions |-> FALSE]
  /\ turnActive = [s \in Sessions |-> FALSE]
  /\ userTurn = [s \in Sessions |-> FALSE]
  /\ crashes = 0

Poll == ClaimEmpty \/ \E t \in Slots, i \in Items : ClaimRun(t, i)

\* The steps a task takes by itself once it is scheduled.
Advance(t) ==
  \/ ReadUnattended(t) \/ SetUnattended(t)
  \/ CreateSession(t) \/ NeedHuman(t) \/ AskHuman(t)
  \/ RebindLease(t)
  \/ Prepare(t) \/ PrepareRepair(t, "submit") \/ PrepareRepair(t, "stopping")
  \/ StopRepair(t) \/ BeginTurn(t)
  \/ LoseLease(t) \/ Judge(t) \/ Settle(t) \/ Leave(t)

EndTurn(t) == \E result \in {"ok", "error", "pending"} : TurnEnds(t, result)

Next ==
  \/ Queue(Tick)
  \/ Poll
  \/ \E t \in Slots :
       \/ Advance(t)
       \/ EndTurn(t)
       \/ Heartbeat(t)
       \/ \E outcome \in Outcomes : AgentReports(t, outcome)
  \/ \E s \in UserSessions : UserTurn(s) \/ UserTurnEnds(s)
  \/ \E i \in Items : Queue(Enqueue(i) \/ Cancel(i) \/ Approve(i))
  \/ Crash

Spec == Init /\ [][Next]_vars

(***************************************************************************)
(* The clock runs, the loop polls, a scheduled task advances, and a turn   *)
(* ends: the engine bounds its iterations and its streams' idle time.  An  *)
(* agent need not report, a user need not act, a process need not crash.   *)
(***************************************************************************)
FairSpec ==
  /\ Spec
  /\ WF_vars(Queue(Tick)) /\ WF_vars(Poll)
  /\ \A t \in Slots : WF_vars(Advance(t)) /\ WF_vars(EndTurn(t))

-----------------------------------------------------------------------------
Pcs == {"idle", "claimed", "read", "asking", "flagged", "bound", "stopping",
        "submit", "turn", "ended", "judged", "exit"}
Results == {"none", "ok", "error", "pending"}
Dispositions == {"none", "Completed", "PendingApproval", "LostLease", "Failed"}

RunnerTypeOK ==
  /\ TypeOK
  /\ kind \in [Items -> Kinds]
  /\ task \in [Slots ->
       [pc : Pcs, item : Items \cup {NoItem}, session : Sessions \cup {NoSession},
        generation : Nat, previous : SUBSET BOOLEAN, result : Results,
        reported : Outcomes \cup {"none"}, disposition : Dispositions]]
  /\ \A t \in Slots : task[t].pc = "idle" <=> task[t].item = NoItem
  /\ unattended \in [Sessions -> BOOLEAN]
  /\ turnActive \in [Sessions -> BOOLEAN] /\ userTurn \in [Sessions -> BOOLEAN]
  /\ crashes \in 0..MaxCrashes

(***************************************************************************)
(* Two runs of one row may overlap: the first lost its lease, or reported  *)
(* a failure, and its turn is still going when the second starts in the    *)
(* same session, under the same owner name.  Only one of them may write.   *)
(***************************************************************************)
OneWriter ==
  \A a, b \in Slots :
    a # b /\ task[a].item = task[b].item => ~(MayWrite(a) /\ MayWrite(b))

(***************************************************************************)
(* A run that reported its outcome, or that was superseded by a later      *)
(* claim, changes nothing of the row any more, whatever its turn's end     *)
(* makes run_item do: no failure on top of a success, no verdict on a      *)
(* later run.                                                              *)
(***************************************************************************)
FinishedRunIsHarmless ==
  [][\A t \in Slots :
       LET i == task[t].item
       IN  /\ task[t].pc # "idle" /\ task'[t] # task[t]
           /\ task[t].reported # "none" \/ leaseGeneration[i] # task[t].generation
           => /\ status'[i] = status[i] /\ leaseOwner'[i] = leaseOwner[i]
              /\ attempts'[i] = attempts[i] /\ progress'[i] = progress[i]]_vars

(***************************************************************************)
(* Stated by the documentation, and not so.                                *)
(*                                                                         *)
(* A turn that stopped has ended: no engine says a turn is active when     *)
(* nobody runs one, so that the session accepts the next turn.  (Repairs   *)
(* run in engines of their own.)                                           *)
(***************************************************************************)
InEngine(t, s) == At(t, "turn") /\ task[t].session = s /\ ~IsRepair(t)

NoOrphanTurn ==
  \A s \in Sessions :
    turnActive[s] => userTurn[s] \/ \E t \in Slots : InEngine(t, s)

(***************************************************************************)
(* No row is left running for ever: through crashes, refused renewals,     *)
(* turns that end without a report and runs that give up half way, every   *)
(* running row is eventually settled, held, or ready for another try.      *)
(***************************************************************************)
RunningSettles ==
  \A i \in Items : status[i] = "running" ~> status[i] # "running"

(***************************************************************************)
(* Every permit comes back.                                                *)
(***************************************************************************)
PermitsReturn == \A t \in Slots : ~At(t, "idle") ~> At(t, "idle")
=============================================================================
