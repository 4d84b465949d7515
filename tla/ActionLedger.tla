---------------------------- MODULE ActionLedger ----------------------------
(***************************************************************************)
(* The action ledger: one row per idempotency key of an external action    *)
(* (a push, a pull request, a login-state backup, a computer-use run), and *)
(* the callers that claim a row, perform the action and record its result. *)
(*                                                                         *)
(* begin_action and finish_action are one transaction each; the action     *)
(* itself is an await between them, so the calls of several tasks, the     *)
(* 300 s after which a claim lapses, an early return and a crash come in   *)
(* between.  A row is never deleted and its key is UNIQUE, so rows are     *)
(* named by their keys.                                                    *)
(*                                                                         *)
(* Three kinds of callers differ in what they do when begin_action answers *)
(* PreviouslyFailed, an answer that has put the row in flight again:       *)
(*   refuse  git_push, github_create_pull_request: return an error         *)
(*   retry   backup_login_state, restore_login_state, run_computer_use     *)
(*   tool    an agent with action_ledger_begin and action_ledger_finish,   *)
(*           which also publishes action.failed                            *)
(***************************************************************************)
EXTENDS Naturals, FiniteSets

CONSTANTS
  Keys,         \* idempotency keys
  Caller,       \* the kind of caller of each key
  Tasks,        \* calls under way at a time
  NoKey,        \* a task without a call
  Lease,        \* ACTION_IN_FLIGHT_LEASE_SECONDS, in ticks
  MaxAttempts,  \* bound: attempts of one key
  MaxLosses     \* bound: crashes and calls that return without recording

ASSUME LedgerAssumption ==
  /\ NoKey \notin Keys
  /\ Caller \in [Keys -> {"refuse", "retry", "tool"}]
  /\ Lease \in Nat \ {0} /\ MaxAttempts \in Nat /\ MaxLosses \in Nat

VARIABLES
  status,     \* status column, "absent" before the first begin_action
  attempts,   \* attempts column
  leaseLeft,  \* ticks until started_at is 300 s ago
  announced,  \* dedup keys of the published action.failed events
  task,       \* each call's place, its key, the attempt it announces failed
  effects,    \* history: times the action happened outside
  calls,      \* history: publish_event calls per key
  losses

vars == <<status, attempts, leaseLeft, announced, task, effects, calls, losses>>

Idle == [pc |-> "idle", key |-> NoKey, attempt |-> 0]
Begun(k) == [pc |-> "begun", key |-> k, attempt |-> 0]

At(t, pc) == task[t].pc = pc
Goto(t, pc) == task' = [task EXCEPT ![t].pc = pc]
Return(t) == task' = [task EXCEPT ![t] = Idle]

\* The call took the row and has not yet tried to record a result.
Underway(t, k) == task[t].key = k /\ task[t].pc \in {"begun", "ok", "error"}

Init ==
  /\ status = [k \in Keys |-> "absent"]
  /\ attempts = [k \in Keys |-> 0]
  /\ leaseLeft = [k \in Keys |-> 0]
  /\ announced = {}
  /\ task = [t \in Tasks |-> Idle]
  /\ effects = [k \in Keys |-> 0]
  /\ calls = [k \in Keys |-> 0]
  /\ losses = 0

-----------------------------------------------------------------------------
(***************************************************************************)
(* begin_action on a key that has no row.                                  *)
(***************************************************************************)
Fresh(t, k) ==
  /\ At(t, "idle") /\ status[k] = "absent"
  /\ status' = [status EXCEPT ![k] = "in_flight"]
  /\ attempts' = [attempts EXCEPT ![k] = 1]
  /\ leaseLeft' = [leaseLeft EXCEPT ![k] = Lease]
  /\ task' = [task EXCEPT ![t] = Begun(k)]
  /\ UNCHANGED <<announced, effects, calls, losses>>

(***************************************************************************)
(* begin_action on a failed row, or on one in flight for 300 s: the row is *)
(* in flight again, one attempt later, and the answer is PreviouslyFailed. *)
(* (AlreadySucceeded and InFlight change nothing and end the call.)        *)
(***************************************************************************)
Reclaimable(k) ==
  \/ status[k] = "failed"
  \/ status[k] = "in_flight" /\ leaseLeft[k] = 0

ReclaimUncounted(t, k) ==  \* mutant: attempts not increased
  /\ At(t, "idle") /\ Reclaimable(k) /\ attempts[k] < MaxAttempts
  /\ status' = [status EXCEPT ![k] = "in_flight"]
  /\ leaseLeft' = [leaseLeft EXCEPT ![k] = Lease]
  /\ task' = IF Caller[k] = "refuse" THEN task
             ELSE [task EXCEPT ![t] = Begun(k)]
  /\ UNCHANGED <<attempts, announced, effects, calls, losses>>

ReclaimAndRun(t, k) ==  \* mutant: git_push goes on after PreviouslyFailed
  /\ At(t, "idle") /\ Reclaimable(k) /\ attempts[k] < MaxAttempts
  /\ status' = [status EXCEPT ![k] = "in_flight"]
  /\ attempts' = [attempts EXCEPT ![k] = @ + 1]
  /\ leaseLeft' = [leaseLeft EXCEPT ![k] = Lease]
  /\ task' = [task EXCEPT ![t] = Begun(k)]
  /\ UNCHANGED <<announced, effects, calls, losses>>

Reclaim(t, k) ==
  /\ At(t, "idle") /\ Reclaimable(k) /\ attempts[k] < MaxAttempts
  /\ status' = [status EXCEPT ![k] = "in_flight"]
  /\ attempts' = [attempts EXCEPT ![k] = @ + 1]
  /\ leaseLeft' = [leaseLeft EXCEPT ![k] = Lease]
  /\ task' = IF Caller[k] = "refuse" THEN task
             ELSE [task EXCEPT ![t] = Begun(k)]
  /\ UNCHANGED <<announced, effects, calls, losses>>

(***************************************************************************)
(* The action itself.  One that returns ok has happened; one that returns  *)
(* an error (a timeout, a lost answer) may have happened all the same.  An *)
(* agent is taken to report what it saw.                                   *)
(***************************************************************************)
Perform(t, result, happened) ==
  /\ At(t, "begun")
  /\ result = "ok" => happened
  /\ Goto(t, result)
  /\ effects' = IF happened THEN [effects EXCEPT ![task[t].key] = @ + 1] ELSE effects
  /\ UNCHANGED <<status, attempts, leaseLeft, announced, calls, losses>>

(***************************************************************************)
(* finish_action.  The statement names the row and asks that it be in      *)
(* flight, not which attempt put it there.                                 *)
(***************************************************************************)
RecordAnyway(k, result) ==  \* mutant: no status='in_flight'
  status' = [status EXCEPT ![k] = result]

Record(k, result) ==
  status' = IF status[k] = "in_flight" THEN [status EXCEPT ![k] = result] ELSE status

FinishSucceededEarly(t) ==  \* mutant: recorded before the action is performed
  /\ task[t].pc \in {"begun", "ok"}
  /\ Record(task[t].key, "succeeded")
  /\ Return(t)
  /\ UNCHANGED <<attempts, leaseLeft, announced, effects, calls, losses>>

FinishSucceeded(t) ==
  /\ At(t, "ok")
  /\ Record(task[t].key, "succeeded")
  /\ Return(t)
  /\ UNCHANGED <<attempts, leaseLeft, announced, effects, calls, losses>>

\* The tool publishes the failure it recorded, with the attempts the row then has.
FinishFailed(t) ==
  LET k == task[t].key
  IN  /\ At(t, "error")
      /\ Record(k, "failed")
      /\ IF Caller[k] = "tool" /\ status[k] = "in_flight"
         THEN task' = [task EXCEPT ![t] = [@ EXCEPT !.pc = "announce",
                                                    !.attempt = attempts[k]]]
         ELSE Return(t)
      /\ UNCHANGED <<attempts, leaseLeft, announced, effects, calls, losses>>

Announce(t) ==
  /\ At(t, "announce")
  /\ announced' = announced \cup {<<task[t].key, task[t].attempt>>}
  /\ calls' = [calls EXCEPT ![task[t].key] = @ + 1]
  /\ Return(t)
  /\ UNCHANGED <<status, attempts, leaseLeft, effects, losses>>

-----------------------------------------------------------------------------
(***************************************************************************)
(* A call that ends without recording anything: an error returned between  *)
(* begin_action and finish_action, a turn that was stopped, an agent that  *)
(* never calls action_ledger_finish.                                       *)
(***************************************************************************)
Abandon(t) ==
  /\ ~At(t, "idle") /\ losses < MaxLosses
  /\ losses' = losses + 1
  /\ Return(t)
  /\ UNCHANGED <<status, attempts, leaseLeft, announced, effects, calls>>

Crash ==
  /\ losses < MaxLosses
  /\ losses' = losses + 1
  /\ task' = [t \in Tasks |-> Idle]
  /\ UNCHANGED <<status, attempts, leaseLeft, announced, effects, calls>>

Tick ==
  /\ \E k \in Keys : leaseLeft[k] > 0
  /\ leaseLeft' = [k \in Keys |-> IF leaseLeft[k] > 0 THEN leaseLeft[k] - 1 ELSE 0]
  /\ UNCHANGED <<status, attempts, announced, task, effects, calls, losses>>

Step(t) ==
  \/ \E k \in Keys : Fresh(t, k) \/ Reclaim(t, k)
  \/ \E result \in {"ok", "error"}, happened \in BOOLEAN : Perform(t, result, happened)
  \/ FinishSucceeded(t) \/ FinishFailed(t) \/ Announce(t)
  \/ Abandon(t)

Next == (\E t \in Tasks : Step(t)) \/ Crash \/ Tick

Spec == Init /\ [][Next]_vars

-----------------------------------------------------------------------------
LedgerTypeOK ==
  /\ status \in [Keys -> {"absent", "in_flight", "succeeded", "failed"}]
  /\ attempts \in [Keys -> Nat]
  /\ \A k \in Keys : attempts[k] = 0 <=> status[k] = "absent"
  /\ leaseLeft \in [Keys -> 0..Lease]
  /\ announced \subseteq Keys \X Nat
  /\ task \in [Tasks -> [pc : {"idle", "begun", "ok", "error", "announce"},
                         key : Keys \cup {NoKey}, attempt : Nat]]
  /\ \A t \in Tasks : task[t].key = NoKey <=> task[t].pc = "idle"
  /\ effects \in [Keys -> Nat] /\ calls \in [Keys -> Nat]
  /\ losses \in Nat

(***************************************************************************)
(* A push, or the creation of a pull request, happens at most once under   *)
(* its key: through errors whose request had got through, lapsed claims,   *)
(* calls cut short, crashes, and however often the agent asks again.       *)
(***************************************************************************)
PushedAtMostOnce == \A k \in Keys : Caller[k] = "refuse" => effects[k] <= 1

(***************************************************************************)
(* The ledger never claims a success that did not happen, whichever        *)
(* attempt recorded it and whichever attempt it was recorded for.          *)
(***************************************************************************)
SuccessHappened == \A k \in Keys : status[k] = "succeeded" => effects[k] > 0

(***************************************************************************)
(* A recorded success is final: a late attempt's failure does not undo it, *)
(* and no further attempt is begun.                                        *)
(***************************************************************************)
SuccessIsFinal ==
  [][\A k \in Keys : status[k] = "succeeded" =>
       /\ status'[k] = "succeeded" /\ attempts'[k] = attempts[k]
       /\ \A t \in Tasks : Underway(t, k)' => Underway(t, k)]_vars

(***************************************************************************)
(* Every failure the tool publishes reaches the event log: its dedup key   *)
(* (action id and attempts) never equals an earlier one, although late     *)
(* attempts record failures for the attempt that replaced them.            *)
(***************************************************************************)
NoFailureSwallowed ==
  \A k \in Keys : calls[k] = Cardinality({n \in 1..attempts[k] : <<k, n>> \in announced})
=============================================================================
