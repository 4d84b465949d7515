--------------------------- MODULE WorkQueueProofs ---------------------------
(***************************************************************************)
(* What WorkQueue guarantees for every set of rows and workers, every      *)
(* retry budget and every lease length.                                    *)
(***************************************************************************)
EXTENDS WorkQueue, TLAPS

(***************************************************************************)
(* The backoff of any number of attempts is a number of seconds.           *)
(***************************************************************************)
LEMMA BackoffType ==
  ASSUME NEW n \in Nat
  PROVE  Backoff(n) \in Int
BY DEF Backoff, MaxBackoff

(***************************************************************************)
(* An outcome is stored as one of four statuses; failed is none of them.   *)
(***************************************************************************)
LEMMA OutcomeStatusType ==
  ASSUME NEW i, NEW outcome \in Outcomes
  PROVE  OutcomeStatus(i, outcome) \in {"succeeded", "cancelled", "dead_letter", "ready"}
BY DEF OutcomeStatus, Outcomes

(***************************************************************************)
(* Every operation keeps the columns' types.                               *)
(***************************************************************************)
LEMMA QueueStepKeepsType ==
  ASSUME TypeOK, [QueueNext]_queueVars
  PROVE  TypeOK'
<1>. USE DEF TypeOK, Status, Open, history
<1>1. CASE Tick
  BY <1>1 DEF Tick
<1>2. ASSUME NEW w \in Workers, NEW i \in Items, NEW n \in LeaseLengths, Claim(w, i, n)
      PROVE  TypeOK'
  BY <1>2, LeaseAssumption DEF Claim, Buried
<1>3. CASE ClaimNothing
  BY <1>3 DEF ClaimNothing, Buried
<1>4. ASSUME NEW i \in Items, Enqueue(i) PROVE TypeOK'
  BY <1>4 DEF Enqueue
<1>5. ASSUME NEW i \in Items, Operator(i) PROVE TypeOK'
  BY <1>5 DEF Operator, Cancel, Requeue, Approve, Hold
<1>6. ASSUME NEW i \in Items, NEW w \in Workers, NEW g \in 1..leaseGeneration[i],
             Fenced(i, w, g)
      PROVE  TypeOK'
  <2>1. ASSUME NEW n \in LeaseLengths, Renew(i, w, g, n) PROVE TypeOK'
    BY <2>1, LeaseAssumption DEF Renew
  <2>2. ASSUME NEW v \in Workers, Rebind(i, w, v, g) PROVE TypeOK'
    BY <2>2 DEF Rebind
  <2>3. CASE SaveProgress(i, w, g)
    BY <2>3 DEF SaveProgress
  <2>4. ASSUME NEW outcome \in Outcomes, Complete(i, w, g, outcome) PROVE TypeOK'
    BY <2>4, BackoffType, OutcomeStatusType DEF Complete
  <2>5. CASE HoldFenced(i, w, g)
    BY <2>5 DEF HoldFenced
  <2>. QED BY <1>6, <2>1, <2>2, <2>3, <2>4, <2>5 DEF Fenced
<1>7. CASE UNCHANGED queueVars
  BY <1>7 DEF queueVars
<1>. QED BY <1>1, <1>2, <1>3, <1>4, <1>5, <1>6, <1>7 DEF QueueNext, ClaimAny

(***************************************************************************)
(* Every column keeps its type, whoever calls which operation when.        *)
(***************************************************************************)
THEOREM TypeCorrect == QueueSpec => []TypeOK
<1>1. QueueInit => TypeOK
  BY DEF QueueInit, TypeOK, Status
<1>. QED BY <1>1, QueueStepKeepsType, PTL DEF QueueSpec

-----------------------------------------------------------------------------
(***************************************************************************)
(* A row has an owner exactly while it runs, and only a running row has    *)
(* lease time left, whichever of the ten statements wrote it last.         *)
(***************************************************************************)
THEOREM OwnerIffRunning == QueueSpec => []LeaseCoherent
<1>1. QueueInit => LeaseCoherent
  <2>. SUFFICES ASSUME QueueInit, NEW r \in Items
                PROVE  /\ status[r] = "running" <=> leaseOwner[r] # NoWorker
                       /\ leaseLeft[r] > 0 => status[r] = "running"
    BY DEF LeaseCoherent
  <2>. QED BY DEF QueueInit
<1>2. TypeOK /\ LeaseCoherent /\ [QueueNext]_queueVars => LeaseCoherent'
  <2>. SUFFICES ASSUME TypeOK, LeaseCoherent, [QueueNext]_queueVars,
                       NEW r \in Items
                PROVE  /\ (status[r] = "running" <=> leaseOwner[r] # NoWorker)'
                       /\ (leaseLeft[r] > 0 => status[r] = "running")'
    BY DEF LeaseCoherent
  <2>. USE WorkersAssumption DEF TypeOK, LeaseCoherent
  <2>1. CASE Tick
    BY <2>1 DEF Tick
  <2>2. ASSUME NEW w \in Workers, NEW i \in Items, NEW n \in LeaseLengths, Claim(w, i, n)
        PROVE  /\ (status[r] = "running" <=> leaseOwner[r] # NoWorker)'
               /\ (leaseLeft[r] > 0 => status[r] = "running")'
    BY <2>2, LeaseAssumption DEF Claim, Buried, Spent, Expired
  <2>3. CASE ClaimNothing
    BY <2>3 DEF ClaimNothing, Buried, Spent, Expired
  <2>4. ASSUME NEW i \in Items, Enqueue(i)
        PROVE  /\ (status[r] = "running" <=> leaseOwner[r] # NoWorker)'
               /\ (leaseLeft[r] > 0 => status[r] = "running")'
    BY <2>4 DEF Enqueue
  <2>5. ASSUME NEW i \in Items, Operator(i)
        PROVE  /\ (status[r] = "running" <=> leaseOwner[r] # NoWorker)'
               /\ (leaseLeft[r] > 0 => status[r] = "running")'
    BY <2>5 DEF Operator, Cancel, Requeue, Approve, Hold
  <2>6. ASSUME NEW i \in Items, NEW w \in Workers, NEW g \in 1..leaseGeneration[i],
               Fenced(i, w, g)
        PROVE  /\ (status[r] = "running" <=> leaseOwner[r] # NoWorker)'
               /\ (leaseLeft[r] > 0 => status[r] = "running")'
    <3>1. ASSUME NEW n \in LeaseLengths, Renew(i, w, g, n)
          PROVE  /\ (status[r] = "running" <=> leaseOwner[r] # NoWorker)'
                 /\ (leaseLeft[r] > 0 => status[r] = "running")'
      BY <3>1, LeaseAssumption DEF Renew, Holds
    <3>2. ASSUME NEW v \in Workers, Rebind(i, w, v, g)
          PROVE  /\ (status[r] = "running" <=> leaseOwner[r] # NoWorker)'
                 /\ (leaseLeft[r] > 0 => status[r] = "running")'
      BY <3>2 DEF Rebind, Holds
    <3>3. CASE SaveProgress(i, w, g)
      BY <3>3 DEF SaveProgress
    <3>4. ASSUME NEW outcome \in Outcomes, Complete(i, w, g, outcome)
          PROVE  /\ (status[r] = "running" <=> leaseOwner[r] # NoWorker)'
                 /\ (leaseLeft[r] > 0 => status[r] = "running")'
      BY <3>4, OutcomeStatusType DEF Complete
    <3>5. CASE HoldFenced(i, w, g)
      BY <3>5 DEF HoldFenced
    <3>. QED BY <2>6, <3>1, <3>2, <3>3, <3>4, <3>5 DEF Fenced
  <2>7. CASE UNCHANGED queueVars
    BY <2>7 DEF queueVars
  <2>. QED BY <2>1, <2>2, <2>3, <2>4, <2>5, <2>6, <2>7 DEF QueueNext, ClaimAny
<1>. QED BY <1>1, <1>2, TypeCorrect, PTL DEF QueueSpec

(***************************************************************************)
(* Bounded retry: a row is claimed at most max_attempts times per lifetime *)
(* between requeues, plus once per approval.  The inductive part is        *)
(* EpochBudget: a ready row always has a claim to spare.                   *)
(***************************************************************************)
THEOREM RetryBudget == QueueSpec => []ClaimBudget
<1>1. QueueInit => EpochBudget
  <2>. SUFFICES ASSUME QueueInit, NEW r \in Items
                PROVE  /\ attempts[r] <= MaxAttempts[r] + approvals[r]
                       /\ attempts[r] < MaxAttempts[r] + approvals[r]
                       /\ leaseGeneration[r] - attempts[r]
                            <= MaxAttempts[r] * requeues[r] + pastApprovals[r]
    BY DEF EpochBudget
  <2>1. MaxAttempts[r] \in Nat /\ 0 < MaxAttempts[r] /\ MaxAttempts[r] * 0 = 0
    BY AttemptsAssumption
  <2>. QED BY <2>1 DEF QueueInit
<1>2. TypeOK /\ EpochBudget /\ [QueueNext]_queueVars => EpochBudget'
  <2>. DEFINE Spare(r) ==
         /\ attempts[r] <= MaxAttempts[r] + approvals[r]
         /\ status[r] \in {"absent", "ready"} => attempts[r] < MaxAttempts[r] + approvals[r]
         /\ leaseGeneration[r] - attempts[r] <= MaxAttempts[r] * requeues[r] + pastApprovals[r]
  <2>. SUFFICES ASSUME TypeOK, EpochBudget, [QueueNext]_queueVars, NEW r \in Items
                PROVE  Spare(r)'
    BY DEF EpochBudget
  <2>. USE AttemptsAssumption DEF TypeOK, EpochBudget, history
  <2>1. CASE Tick
    BY <2>1 DEF Tick
  <2>2. ASSUME NEW w \in Workers, NEW i \in Items, NEW n \in LeaseLengths, Claim(w, i, n)
        PROVE  Spare(r)'
    BY <2>2 DEF Claim, Buried, Spent, Expired, DueFirst, Claimable
  <2>3. CASE ClaimNothing
    BY <2>3 DEF ClaimNothing, Buried
  <2>4. ASSUME NEW i \in Items, Enqueue(i) PROVE Spare(r)'
    BY <2>4 DEF Enqueue
  <2>5. ASSUME NEW i \in Items, Operator(i) PROVE Spare(r)'
    <3>1. CASE Cancel(i) BY <3>1 DEF Cancel
    <3>2. CASE Requeue(i)
      <4>1. MaxAttempts[i] * (requeues[i] + 1) = MaxAttempts[i] * requeues[i] + MaxAttempts[i]
        OBVIOUS
      <4>. QED BY <3>2, <4>1 DEF Requeue
    <3>3. CASE Approve(i) BY <3>3 DEF Approve
    <3>4. CASE Hold(i) BY <3>4 DEF Hold
    <3>. QED BY <2>5, <3>1, <3>2, <3>3, <3>4 DEF Operator
  <2>6. ASSUME NEW i \in Items, NEW w \in Workers, NEW g \in 1..leaseGeneration[i],
               Fenced(i, w, g)
        PROVE  Spare(r)'
    <3>1. ASSUME NEW n \in LeaseLengths, Renew(i, w, g, n) PROVE Spare(r)'
      BY <3>1 DEF Renew
    <3>2. ASSUME NEW v \in Workers, Rebind(i, w, v, g) PROVE Spare(r)'
      BY <3>2 DEF Rebind
    <3>3. CASE SaveProgress(i, w, g)
      BY <3>3 DEF SaveProgress
    <3>4. ASSUME NEW outcome \in Outcomes, Complete(i, w, g, outcome) PROVE Spare(r)'
      BY <3>4 DEF Complete, OutcomeStatus, Outcomes
    <3>5. CASE HoldFenced(i, w, g)
      BY <3>5 DEF HoldFenced
    <3>. QED BY <2>6, <3>1, <3>2, <3>3, <3>4, <3>5 DEF Fenced
  <2>7. CASE UNCHANGED queueVars
    BY <2>7 DEF queueVars
  <2>. QED BY <2>1, <2>2, <2>3, <2>4, <2>5, <2>6, <2>7 DEF QueueNext, ClaimAny
<1>3. TypeOK /\ EpochBudget => ClaimBudget
  <2>. SUFFICES ASSUME TypeOK, EpochBudget, NEW r \in Items
                PROVE  leaseGeneration[r] <= MaxAttempts[r] * (requeues[r] + 1)
                                               + approvals[r] + pastApprovals[r]
    BY DEF ClaimBudget
  <2>1. MaxAttempts[r] * (requeues[r] + 1) = MaxAttempts[r] * requeues[r] + MaxAttempts[r]
    BY AttemptsAssumption DEF TypeOK
  <2>2. MaxAttempts[r] * requeues[r] \in Nat
    BY AttemptsAssumption DEF TypeOK
  <2>. QED BY <2>1, <2>2, AttemptsAssumption DEF TypeOK, EpochBudget
<1>. QED BY <1>1, <1>2, <1>3, TypeCorrect, PTL DEF QueueSpec

-----------------------------------------------------------------------------
(***************************************************************************)
(* One row's step as LeasedWork sees it.                                   *)
(***************************************************************************)
SameRow(r) ==
  /\ Standing(r)' = Standing(r)
  /\ Authority(r)' = Authority(r)
  /\ leaseGeneration'[r] = leaseGeneration[r]

RowStep(r) ==
  \/ SameRow(r)
  \/ /\ Standing(r) = "absent" /\ Standing(r)' = "open"
     /\ Authority(r)' = Authority(r)
     /\ leaseGeneration'[r] = leaseGeneration[r]
  \/ /\ Standing(r) = "open" /\ Standing(r)' = "open"
     /\ Authority(r) = 0 /\ Authority(r)' = leaseGeneration[r] + 1
     /\ leaseGeneration'[r] = leaseGeneration[r] + 1
  \/ /\ Authority(r) # 0 /\ Authority(r)' = 0
     /\ Standing(r)' \in {Standing(r), "succeeded", "cancelled", "given_up"}
     /\ leaseGeneration'[r] = leaseGeneration[r]
  \/ /\ Standing(r) = "open" /\ Standing(r)' \in {"cancelled", "given_up"}
     /\ Authority(r)' = 0
     /\ leaseGeneration'[r] = leaseGeneration[r]
  \/ /\ Standing(r) = "given_up" /\ Standing(r)' = "open"
     /\ Authority(r)' = Authority(r)
     /\ leaseGeneration'[r] = leaseGeneration[r]

(***************************************************************************)
(* A running row has been claimed: its generation is not zero.             *)
(***************************************************************************)
Claimed == \A i \in Items : status[i] = "running" => leaseGeneration[i] > 0

(***************************************************************************)
(* What one step may do to one row: the facts that fencing, finality and   *)
(* the refinement rest on, action by action.                               *)
(***************************************************************************)
LEMMA EveryRowSteps ==
  ASSUME TypeOK, LeaseCoherent, Claimed, [QueueNext]_queueVars, NEW r \in Items
  PROVE  RowStep(r)
<1>. USE DEF TypeOK, RowStep, SameRow, Standing, Authority, Open
<1>1. CASE Tick
  BY <1>1 DEF Tick, LeaseCoherent, Claimed
<1>2. ASSUME NEW w \in Workers, NEW i \in Items, NEW n \in LeaseLengths, Claim(w, i, n)
      PROVE  RowStep(r)
  <2>1. CASE r = i
    <3>1. status[i] \in Open /\ Authority(i) = 0
      BY <1>2 DEF Claim, DueFirst, Claimable, Expired
    <3>2. /\ status'[i] = "running" /\ leaseLeft'[i] = n
          /\ leaseGeneration'[i] = leaseGeneration[i] + 1
      BY <1>2 DEF Claim, Buried
    <3>3. Standing(i) = "open" /\ Standing(i)' = "open"
      BY <3>1, <3>2
    <3>4. Authority(i)' = leaseGeneration[i] + 1
      BY <3>2, LeaseAssumption
    <3>. QED BY <2>1, <3>1, <3>2, <3>3, <3>4 DEF RowStep
  <2>2. CASE r # i
    BY <1>2, <2>2 DEF Claim, Buried, Spent, Expired
  <2>. QED BY <2>1, <2>2
<1>3. CASE ClaimNothing
  BY <1>3 DEF ClaimNothing, Buried, Spent, Expired
<1>4. ASSUME NEW i \in Items, Enqueue(i) PROVE RowStep(r)
  BY <1>4 DEF Enqueue, LeaseCoherent
<1>5. ASSUME NEW i \in Items, Operator(i) PROVE RowStep(r)
  <2>1. CASE Cancel(i) BY <2>1 DEF Cancel
  <2>2. CASE Requeue(i) BY <2>2 DEF Requeue, LeaseCoherent
  <2>3. CASE Approve(i) BY <2>3 DEF Approve
  <2>4. CASE Hold(i) BY <2>4 DEF Hold
  <2>. QED BY <1>5, <2>1, <2>2, <2>3, <2>4 DEF Operator
<1>6. ASSUME NEW i \in Items, NEW w \in Workers, NEW g \in 1..leaseGeneration[i],
             Fenced(i, w, g)
      PROVE  RowStep(r)
  <2>1. ASSUME NEW n \in LeaseLengths, Renew(i, w, g, n) PROVE RowStep(r)
    BY <2>1, LeaseAssumption DEF Renew, Holds
  <2>2. ASSUME NEW v \in Workers, Rebind(i, w, v, g) PROVE RowStep(r)
    BY <2>2 DEF Rebind
  <2>3. CASE SaveProgress(i, w, g)
    BY <2>3 DEF SaveProgress
  <2>4. ASSUME NEW outcome \in Outcomes, Complete(i, w, g, outcome) PROVE RowStep(r)
    <3>1. Authority(i) # 0
      BY <2>4 DEF Complete, Holds
    <3>. QED BY <2>4, <3>1, OutcomeStatusType DEF Complete, Holds
  <2>5. CASE HoldFenced(i, w, g)
    BY <2>5 DEF HoldFenced, Holds
  <2>. QED BY <1>6, <2>1, <2>2, <2>3, <2>4, <2>5 DEF Fenced
<1>7. CASE UNCHANGED queueVars
  BY <1>7 DEF queueVars
<1>. QED BY <1>1, <1>2, <1>3, <1>4, <1>5, <1>6, <1>7 DEF QueueNext, ClaimAny

(***************************************************************************)
(* In every reachable state a running row has been claimed.                *)
(***************************************************************************)
LEMMA RunningWasClaimed == QueueSpec => []Claimed
<1>1. QueueInit => Claimed
  BY DEF QueueInit, Claimed
<1>2. TypeOK /\ Claimed /\ [QueueNext]_queueVars => Claimed'
  <2>. SUFFICES ASSUME TypeOK, Claimed, [QueueNext]_queueVars, NEW r \in Items,
                       status'[r] = "running"
                PROVE  leaseGeneration'[r] > 0
    BY DEF Claimed
  <2>. USE DEF TypeOK, Claimed
  <2>1. CASE Tick
    BY <2>1 DEF Tick
  <2>2. ASSUME NEW w \in Workers, NEW i \in Items, NEW n \in LeaseLengths, Claim(w, i, n)
        PROVE  leaseGeneration'[r] > 0
    BY <2>2 DEF Claim, Buried
  <2>3. CASE ClaimNothing
    BY <2>3 DEF ClaimNothing, Buried
  <2>4. ASSUME NEW i \in Items, Enqueue(i) PROVE leaseGeneration'[r] > 0
    BY <2>4 DEF Enqueue
  <2>5. ASSUME NEW i \in Items, Operator(i) PROVE leaseGeneration'[r] > 0
    BY <2>5 DEF Operator, Cancel, Requeue, Approve, Hold
  <2>6. ASSUME NEW i \in Items, NEW w \in Workers, NEW g \in 1..leaseGeneration[i],
               Fenced(i, w, g)
        PROVE  leaseGeneration'[r] > 0
    BY <2>6, OutcomeStatusType
       DEF Fenced, Renew, Rebind, SaveProgress, Complete, HoldFenced
  <2>7. CASE UNCHANGED queueVars
    BY <2>7 DEF queueVars
  <2>. QED BY <2>1, <2>2, <2>3, <2>4, <2>5, <2>6, <2>7 DEF QueueNext, ClaimAny
<1>. QED BY <1>1, <1>2, TypeCorrect, PTL DEF QueueSpec

(***************************************************************************)
(* Lease fencing: a generation that lapsed never gets write access again,  *)
(* because a row's authority only ever becomes none or a new number.       *)
(***************************************************************************)
THEOREM Fencing == QueueSpec => LapsedStaysLapsed
<1>1. ASSUME TypeOK, LeaseCoherent, Claimed, [QueueNext]_queueVars
      PROVE  [\A i \in Items : \A g \in 1..leaseGeneration[i] :
                ~Live(i, g) => ~Live(i, g)']_queueVars
  <2>. SUFFICES ASSUME NEW i \in Items, NEW g \in 1..leaseGeneration[i], Live(i, g)'
                PROVE  Live(i, g)
    OBVIOUS
  <2>1. RowStep(i)
    BY <1>1, EveryRowSteps
  <2>2. Authority(i)' = g /\ g # 0 /\ g <= leaseGeneration[i]
    BY <1>1 DEF Live, Authority, TypeOK
  <2>3. Authority(i) = g
    BY <2>1, <2>2, <1>1 DEF RowStep, SameRow, TypeOK
  <2>. QED BY <2>2, <2>3 DEF Live, Authority
<1>. QED BY <1>1, TypeCorrect, OwnerIffRunning, RunningWasClaimed, PTL
     DEF QueueSpec, LapsedStaysLapsed

(***************************************************************************)
(* The queue implements LeasedWork.                                        *)
(***************************************************************************)
THEOREM QueueImplementsPromise == QueueSpec => ImplementsLeasedWork
<1>1. QueueInit => Promise!Init
  BY DEF QueueInit, Promise!Init, Standing, Authority, Open
<1>2. ASSUME TypeOK, LeaseCoherent, Claimed, [QueueNext]_queueVars
      PROVE  [Promise!Next]_Promise!vars
  <2>1. ASSUME NEW r \in Items PROVE Promise!Step(r)
    <3>1. RowStep(r)
      BY <1>2, <2>1, EveryRowSteps
    <3>. QED BY <3>1 DEF RowStep, SameRow, Promise!Step, Promise!Keep, Promise!Admit,
                Promise!Grant, Promise!Lapse, Promise!Decide, Promise!Withdraw,
                Promise!Reopen
  <2>2. TypeOK'
    BY <1>2, QueueStepKeepsType
  <2>. QED BY <2>1, <2>2 DEF Promise!Next, TypeOK
<1>. QED BY <1>1, <1>2, TypeCorrect, OwnerIffRunning, RunningWasClaimed, PTL
     DEF QueueSpec, ImplementsLeasedWork, Promise!Spec

(***************************************************************************)
(* Success and cancellation are final, and a dead letter moves only by a   *)
(* requeue, whatever a late worker or an operator calls.                   *)
(***************************************************************************)
THEOREM SettledIsFinal == QueueSpec => SettledStays
<1>. DEFINE Final(r) ==
       /\ status[r] \in {"succeeded", "cancelled"} => status'[r] = status[r]
       /\ status[r] = "dead_letter" =>
            status'[r] = status[r] \/ requeues'[r] = requeues[r] + 1
<1>1. ASSUME TypeOK, [QueueNext]_queueVars, NEW r \in Items
      PROVE  Final(r)
  <2>. USE <1>1 DEF TypeOK
  <2>1. CASE Tick
    BY <2>1 DEF Tick
  <2>2. ASSUME NEW w \in Workers, NEW i \in Items, NEW n \in LeaseLengths, Claim(w, i, n)
        PROVE  Final(r)
    BY <2>2 DEF Claim, Buried, Spent, Expired, DueFirst, Claimable
  <2>3. CASE ClaimNothing
    BY <2>3 DEF ClaimNothing, Buried, Spent, Expired
  <2>4. ASSUME NEW i \in Items, Enqueue(i) PROVE Final(r)
    BY <2>4 DEF Enqueue
  <2>5. ASSUME NEW i \in Items, Operator(i) PROVE Final(r)
    BY <2>5 DEF Operator, Cancel, Requeue, Approve, Hold
  <2>6. ASSUME NEW i \in Items, NEW w \in Workers, NEW g \in 1..leaseGeneration[i],
               Fenced(i, w, g)
        PROVE  Final(r)
    BY <2>6 DEF Fenced, Holds, Renew, Rebind, SaveProgress, Complete, HoldFenced
  <2>7. CASE UNCHANGED queueVars
    BY <2>7 DEF queueVars
  <2>. QED BY <1>1, <2>1, <2>2, <2>3, <2>4, <2>5, <2>6, <2>7 DEF QueueNext, ClaimAny
<1>2. ASSUME TypeOK, [QueueNext]_queueVars
      PROVE  [\A i \in Items : Final(i)]_queueVars
  BY <1>1, <1>2
<1>. QED BY <1>2, TypeCorrect, PTL DEF QueueSpec, SettledStays
=============================================================================
