------------------------------ MODULE WorkQueue ------------------------------
(***************************************************************************)
(* The durable work queue of opcos-store (table work_queue and its         *)
(* side table work_queue_progress).                                        *)
(*                                                                         *)
(* Every store function runs one SQL transaction under the connection      *)
(* mutex, so each is one action.  Callers are not restricted: any worker   *)
(* name may call any operation with any generation, exactly as the         *)
(* agent's work_queue_* tools and the runner may.  WorkRunner composes     *)
(* this module with the callers that the program really has.               *)
(*                                                                         *)
(* Timestamps are kept relative to now: leaseLeft[i] is                    *)
(* lease_until - now and runAfter[i] is run_after - now, in ticks of one   *)
(* second.  Tick lets a second pass.  How long a row has been overdue is   *)
(* remembered up to Aging ticks; rows overdue for longer, and rows due in  *)
(* the same tick, tie, and a tie is broken either way.                     *)
(***************************************************************************)
EXTENDS Integers

CONSTANTS
  Items,         \* rows that may be enqueued, one per generated queue_id
  Workers,       \* names used as lease_owner
  NoWorker,      \* the NULL lease_owner
  NoProgress,    \* no row in work_queue_progress
  LeaseLengths,  \* values passed as lease_seconds
  MaxAttempts,   \* max_attempts of each row
  DedupKey,      \* dedup_key of each row
  NoKey,         \* the NULL dedup_key
  Aging,         \* bound: how many ticks overdue are told apart
  MaxApprovals,  \* bound: approvals given to one row
  MaxRequeues    \* bound: requeues of one row

ASSUME WorkersAssumption == NoWorker \notin Workers
ASSUME ProgressAssumption == NoProgress \notin [worker : Workers, generation : Nat]
ASSUME LeaseAssumption ==
  LeaseLengths \subseteq Nat /\ \A n \in LeaseLengths : 0 < n /\ n <= 86400
ASSUME AttemptsAssumption ==
  MaxAttempts \in [Items -> Nat] /\ \A i \in Items : 0 < MaxAttempts[i] /\ MaxAttempts[i] <= 100
ASSUME BoundsAssumption ==
  Aging \in Nat /\ MaxApprovals \in Nat /\ MaxRequeues \in Nat

VARIABLES
  status,           \* "absent" until enqueued, then the status column
  attempts,         \* claims since the row was enqueued or last requeued
  runAfter,         \* run_after - now
  leaseOwner,       \* lease_owner
  leaseLeft,        \* lease_until - now, 0 when expired or NULL
  leaseGeneration,  \* lease_generation
  progress,         \* worker_id and lease_generation of the progress row
  approvals,        \* history: approvals since enqueue or last requeue
  pastApprovals,    \* history: approvals before the last requeue
  requeues          \* history: times the row was requeued

history == <<approvals, pastApprovals, requeues>>
queueVars == <<status, attempts, runAfter, leaseOwner, leaseLeft,
               leaseGeneration, progress, history>>

Open == {"ready", "running", "pending_approval"}
Status == Open \cup {"absent", "succeeded", "cancelled", "dead_letter"}
Outcomes == {"succeeded", "failed", "cancelled"}

(***************************************************************************)
(* 2^min(attempts - 1, 16) seconds, at most a day.                         *)
(***************************************************************************)
MaxBackoff == 86400
Backoff(n) ==
  LET exponent == IF n > 17 THEN 16 ELSE n - 1
  IN  IF 2^exponent < MaxBackoff THEN 2^exponent ELSE MaxBackoff

(***************************************************************************)
(* The condition every fenced statement repeats in its WHERE clause.       *)
(***************************************************************************)
HoldsIgnoringExpiry(i, w, g) ==  \* mutant: no lease_until > now
  status[i] = "running" /\ leaseOwner[i] = w /\ leaseGeneration[i] = g

HoldsWithoutGeneration(i, w, g) ==  \* mutant: owner and expiry only
  status[i] = "running" /\ leaseOwner[i] = w /\ leaseLeft[i] > 0

Holds(i, w, g) ==
  /\ status[i] = "running"
  /\ leaseOwner[i] = w
  /\ leaseGeneration[i] = g
  /\ leaseLeft[i] > 0

Expired(i) == status[i] = "running" /\ leaseLeft[i] = 0

Duplicate(i) ==
  /\ DedupKey[i] # NoKey
  /\ \E j \in Items : status[j] # "absent" /\ DedupKey[j] = DedupKey[i]

-----------------------------------------------------------------------------
QueueInit ==
  /\ status = [i \in Items |-> "absent"]
  /\ attempts = [i \in Items |-> 0]
  /\ runAfter = [i \in Items |-> 0]
  /\ leaseOwner = [i \in Items |-> NoWorker]
  /\ leaseLeft = [i \in Items |-> 0]
  /\ leaseGeneration = [i \in Items |-> 0]
  /\ progress = [i \in Items |-> NoProgress]
  /\ approvals = [i \in Items |-> 0]
  /\ pastApprovals = [i \in Items |-> 0]
  /\ requeues = [i \in Items |-> 0]

(***************************************************************************)
(* A second passes.  Only the times an open row is judged by are kept.     *)
(***************************************************************************)
Tick ==
  /\ leaseLeft' = [i \in Items |->
                     IF leaseLeft[i] > 0 THEN leaseLeft[i] - 1 ELSE 0]
  /\ runAfter' = [i \in Items |->
                    IF status[i] \in Open /\ runAfter[i] > -Aging
                    THEN runAfter[i] - 1 ELSE runAfter[i]]
  /\ UNCHANGED <<status, attempts, leaseOwner, leaseGeneration, progress>>
  /\ UNCHANGED history

(***************************************************************************)
(* enqueue_work_item.  A row with a dedup_key already in the table is not  *)
(* inserted (ON CONFLICT DO NOTHING), whatever became of the first one.    *)
(***************************************************************************)
Enqueue(i) ==
  /\ status[i] = "absent"
  /\ ~Duplicate(i)
  /\ status' = [status EXCEPT ![i] = "ready"]
  /\ UNCHANGED <<attempts, runAfter, leaseOwner, leaseLeft,
                 leaseGeneration, progress>>
  /\ UNCHANGED history

(***************************************************************************)
(* claim_work_item.  The transaction first buries every expired row that   *)
(* has no attempt left, then claims the row due for longest: a ready one   *)
(* whatever its attempts, or an expired one that has attempts left.        *)
(***************************************************************************)
SpentLate(i) == Expired(i) /\ attempts[i] > MaxAttempts[i]  \* mutant: off by one

Spent(i) == Expired(i) /\ attempts[i] >= MaxAttempts[i]

ClaimableWithinBudget(i) ==  \* mutant: attempts compared for ready rows too
  /\ (status[i] = "ready" /\ runAfter[i] <= 0) \/ Expired(i)
  /\ attempts[i] < MaxAttempts[i]

Claimable(i) ==
  \/ status[i] = "ready" /\ runAfter[i] <= 0
  \/ Expired(i) /\ attempts[i] < MaxAttempts[i]

DueFirst(i) ==
  /\ Claimable(i)
  /\ \A j \in Items : Claimable(j) => runAfter[i] <= runAfter[j]

Buried == [i \in Items |-> IF Spent(i) THEN "dead_letter" ELSE status[i]]

Claim(w, i, n) ==
  /\ DueFirst(i)
  /\ status' = [Buried EXCEPT ![i] = "running"]
  /\ attempts' = [attempts EXCEPT ![i] = @ + 1]
  /\ leaseOwner' = [j \in Items |->
                      IF j = i THEN w
                      ELSE IF Spent(j) THEN NoWorker ELSE leaseOwner[j]]
  /\ leaseLeft' = [leaseLeft EXCEPT ![i] = n]
  /\ leaseGeneration' = [leaseGeneration EXCEPT ![i] = @ + 1]
  /\ UNCHANGED <<runAfter, progress>>
  /\ UNCHANGED history

ClaimNothing ==
  /\ \A i \in Items : ~Claimable(i)
  /\ \E i \in Items : Spent(i)
  /\ status' = Buried
  /\ leaseOwner' = [j \in Items |-> IF Spent(j) THEN NoWorker ELSE leaseOwner[j]]
  /\ UNCHANGED <<attempts, runAfter, leaseLeft, leaseGeneration, progress>>
  /\ UNCHANGED history

(***************************************************************************)
(* renew_work_item, rebind_work_item_lease, save_work_queue_progress.      *)
(***************************************************************************)
Renew(i, w, g, n) ==
  /\ Holds(i, w, g)
  /\ leaseLeft' = [leaseLeft EXCEPT ![i] = n]
  /\ UNCHANGED <<status, attempts, runAfter, leaseOwner, leaseGeneration,
                 progress>>
  /\ UNCHANGED history

Rebind(i, w, v, g) ==
  /\ Holds(i, w, g)
  /\ leaseOwner' = [leaseOwner EXCEPT ![i] = v]
  /\ UNCHANGED <<status, attempts, runAfter, leaseLeft, leaseGeneration,
                 progress>>
  /\ UNCHANGED history

(***************************************************************************)
(* The upsert inserts the row, or updates a row that the SAME worker wrote *)
(* under the SAME generation; otherwise it changes nothing and the call    *)
(* fails.                                                                  *)
(***************************************************************************)
SaveAccepted(i, w, g) ==
  /\ Holds(i, w, g)
  /\ progress[i] \in {NoProgress, [worker |-> w, generation |-> g]}

SaveProgress(i, w, g) ==
  /\ SaveAccepted(i, w, g)
  /\ progress' = [progress EXCEPT ![i] = [worker |-> w, generation |-> g]]
  /\ UNCHANGED <<status, attempts, runAfter, leaseOwner, leaseLeft,
                 leaseGeneration>>
  /\ UNCHANGED history

(***************************************************************************)
(* complete_work_item.  A failure with attempts left goes back to ready    *)
(* with a backoff; the last one goes to dead_letter.                       *)
(***************************************************************************)
OutcomeVerbatim(i, outcome) == outcome  \* mutant: "failed" stored as it came

OutcomeLateBurial(i, outcome) ==  \* mutant: attempts > max_attempts
  IF outcome # "failed" THEN outcome
  ELSE IF attempts[i] > MaxAttempts[i] THEN "dead_letter" ELSE "ready"

OutcomeStatus(i, outcome) ==
  IF outcome # "failed" THEN outcome
  ELSE IF attempts[i] >= MaxAttempts[i] THEN "dead_letter" ELSE "ready"

Complete(i, w, g, outcome) ==
  /\ Holds(i, w, g)
  /\ status' = [status EXCEPT ![i] = OutcomeStatus(i, outcome)]
  /\ runAfter' = [runAfter EXCEPT ![i] =
                    IF OutcomeStatus(i, outcome) = "ready"
                    THEN Backoff(attempts[i]) ELSE 0]
  /\ leaseOwner' = [leaseOwner EXCEPT ![i] = NoWorker]
  /\ leaseLeft' = [leaseLeft EXCEPT ![i] = 0]
  /\ UNCHANGED <<attempts, leaseGeneration, progress>>
  /\ UNCHANGED history

(***************************************************************************)
(* The operator's side: cancel, requeue, approve, hold.  None of these     *)
(* statements looks at the lease.                                          *)
(***************************************************************************)
Cancel(i) ==
  /\ status[i] \in {"ready", "running"}
  /\ status' = [status EXCEPT ![i] = "cancelled"]
  /\ leaseOwner' = [leaseOwner EXCEPT ![i] = NoWorker]
  /\ leaseLeft' = [leaseLeft EXCEPT ![i] = 0]
  /\ UNCHANGED <<attempts, runAfter, leaseGeneration, progress>>
  /\ UNCHANGED history

Requeue(i) ==
  /\ status[i] = "dead_letter"
  /\ requeues[i] < MaxRequeues
  /\ status' = [status EXCEPT ![i] = "ready"]
  /\ attempts' = [attempts EXCEPT ![i] = 0]
  /\ runAfter' = [runAfter EXCEPT ![i] = 0]
  /\ leaseOwner' = [leaseOwner EXCEPT ![i] = NoWorker]
  /\ leaseLeft' = [leaseLeft EXCEPT ![i] = 0]
  /\ requeues' = [requeues EXCEPT ![i] = @ + 1]
  /\ pastApprovals' = [pastApprovals EXCEPT ![i] = @ + approvals[i]]
  /\ approvals' = [approvals EXCEPT ![i] = 0]
  /\ UNCHANGED <<leaseGeneration, progress>>

ApproveUnchecked(i) ==  \* mutant: no status='pending_approval'
  /\ status[i] \notin {"absent", "running"}
  /\ approvals[i] + pastApprovals[i] < MaxApprovals
  /\ status' = [status EXCEPT ![i] = "ready"]
  /\ approvals' = [approvals EXCEPT ![i] = @ + 1]
  /\ UNCHANGED <<attempts, runAfter, leaseOwner, leaseLeft,
                 leaseGeneration, progress, pastApprovals, requeues>>

Approve(i) ==
  /\ status[i] = "pending_approval"
  /\ approvals[i] + pastApprovals[i] < MaxApprovals
  /\ status' = [status EXCEPT ![i] = "ready"]
  /\ approvals' = [approvals EXCEPT ![i] = @ + 1]
  /\ UNCHANGED <<attempts, runAfter, leaseOwner, leaseLeft,
                 leaseGeneration, progress, pastApprovals, requeues>>

Hold(i) ==
  /\ status[i] = "ready"
  /\ status' = [status EXCEPT ![i] = "pending_approval"]
  /\ UNCHANGED <<attempts, runAfter, leaseOwner, leaseLeft,
                 leaseGeneration, progress>>
  /\ UNCHANGED history

HoldFenced(i, w, g) ==
  /\ Holds(i, w, g)
  /\ status' = [status EXCEPT ![i] = "pending_approval"]
  /\ leaseOwner' = [leaseOwner EXCEPT ![i] = NoWorker]
  /\ leaseLeft' = [leaseLeft EXCEPT ![i] = 0]
  /\ UNCHANGED <<attempts, runAfter, leaseGeneration, progress>>
  /\ UNCHANGED history

-----------------------------------------------------------------------------
(***************************************************************************)
(* Any caller, any generation ever handed out.                             *)
(***************************************************************************)
Fenced(i, w, g) ==
  \/ \E n \in LeaseLengths : Renew(i, w, g, n)
  \/ \E v \in Workers : Rebind(i, w, v, g)
  \/ SaveProgress(i, w, g)
  \/ \E outcome \in Outcomes : Complete(i, w, g, outcome)
  \/ HoldFenced(i, w, g)

Operator(i) == Cancel(i) \/ Requeue(i) \/ Approve(i) \/ Hold(i)

ClaimAny ==
  \/ \E w \in Workers, i \in Items, n \in LeaseLengths : Claim(w, i, n)
  \/ ClaimNothing

QueueNext ==
  \/ Tick
  \/ ClaimAny
  \/ \E i \in Items :
       \/ Enqueue(i)
       \/ Operator(i)
       \/ \E w \in Workers, g \in 1..leaseGeneration[i] : Fenced(i, w, g)

QueueSpec == QueueInit /\ [][QueueNext]_queueVars

(***************************************************************************)
(* The runner polls for work for as long as it is enabled, and time        *)
(* passes.  Nothing else is promised: a holder may renew for ever.         *)
(***************************************************************************)
FairQueueSpec ==
  QueueSpec /\ WF_queueVars(Tick) /\ WF_queueVars(ClaimAny)

-----------------------------------------------------------------------------
TypeOK ==
  /\ status \in [Items -> Status]
  /\ attempts \in [Items -> Nat]
  /\ runAfter \in [Items -> Int]
  /\ leaseOwner \in [Items -> Workers \cup {NoWorker}]
  /\ leaseLeft \in [Items -> Nat]
  /\ leaseGeneration \in [Items -> Nat]
  /\ progress \in [Items -> [worker : Workers, generation : Nat] \cup {NoProgress}]
  /\ approvals \in [Items -> Nat]
  /\ pastApprovals \in [Items -> Nat]
  /\ requeues \in [Items -> Nat]

(***************************************************************************)
(* The status column and the lease columns are written by ten different    *)
(* statements: a row has an owner exactly while it is running, and only a  *)
(* running row has lease time left.                                        *)
(***************************************************************************)
LeaseCoherent ==
  \A i \in Items :
    /\ status[i] = "running" <=> leaseOwner[i] # NoWorker
    /\ leaseLeft[i] > 0 => status[i] = "running"

(***************************************************************************)
(* Bounded retry.  A row is claimed at most max_attempts times per         *)
(* lifetime between requeues, plus once for each approval an operator gave *)
(* it: claim does not compare a ready row's attempts with max_attempts,    *)
(* so the bound rests on which statements may make a row ready.            *)
(***************************************************************************)
ClaimBudget ==
  \A i \in Items :
    leaseGeneration[i] <= MaxAttempts[i] * (requeues[i] + 1)
                            + approvals[i] + pastApprovals[i]

(***************************************************************************)
(* The part of ClaimBudget that is inductive.                              *)
(***************************************************************************)
EpochBudget ==
  \A i \in Items :
    /\ attempts[i] <= MaxAttempts[i] + approvals[i]
    /\ status[i] \in {"absent", "ready"} => attempts[i] < MaxAttempts[i] + approvals[i]
    /\ leaseGeneration[i] - attempts[i] <= MaxAttempts[i] * requeues[i] + pastApprovals[i]

(***************************************************************************)
(* Lease fencing.  Once a generation has lapsed - expired, completed,      *)
(* held, cancelled or taken over - no later step, by whichever worker,     *)
(* gives it write access again: not a renewal, not a rebind, not an        *)
(* approval or requeue that makes the row claimable again.                 *)
(***************************************************************************)
Live(i, g) == status[i] = "running" /\ leaseGeneration[i] = g /\ leaseLeft[i] > 0

LapsedStaysLapsed ==
  [][\A i \in Items : \A g \in 1..leaseGeneration[i] :
       ~Live(i, g) => ~Live(i, g)']_queueVars

(***************************************************************************)
(* A settled row is never revived by anything a worker does late: success  *)
(* and cancellation are final, and a dead letter moves only by an operator *)
(* requeue, which starts the attempts again.                               *)
(***************************************************************************)
SettledStays ==
  [][\A i \in Items :
       /\ status[i] \in {"succeeded", "cancelled"} => status'[i] = status[i]
       /\ status[i] = "dead_letter" =>
            status'[i] = status[i] \/ requeues'[i] = requeues[i] + 1]_queueVars

(***************************************************************************)
(* The queue implements LeasedWork: the authority to decide a row is its   *)
(* lease generation for as long as the lease has time left.                *)
(***************************************************************************)
Standing(i) ==
  CASE status[i] \in Open -> "open"
    [] status[i] = "dead_letter" -> "given_up"
    [] OTHER -> status[i]

Authority(i) ==
  IF status[i] = "running" /\ leaseLeft[i] > 0 THEN leaseGeneration[i] ELSE 0

Promise == INSTANCE LeasedWork WITH
  outcome <- [i \in Items |-> Standing(i)],
  authority <- [i \in Items |-> Authority(i)],
  issued <- leaseGeneration

ImplementsLeasedWork == Promise!Spec

(***************************************************************************)
(* No starvation: a ready row, in backoff or behind older rows, is         *)
(* eventually claimed, held or cancelled.  This includes an approved row   *)
(* that has already used its attempts.                                     *)
(***************************************************************************)
ReadyIsServed ==
  \A i \in Items : status[i] = "ready" ~> status[i] # "ready"
=============================================================================
