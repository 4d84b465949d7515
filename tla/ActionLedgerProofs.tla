------------------------- MODULE ActionLedgerProofs -------------------------
(***************************************************************************)
(* Theorems about ActionLedger for every set of keys, tasks and callers,   *)
(* every lease and any number of attempts, crashes and lost calls.         *)
(***************************************************************************)
EXTENDS ActionLedger, FiniteSetTheorems, TLAPS

(***************************************************************************)
(* At most one call ever runs under a key of git_push: there is none       *)
(* before the row exists, and the one that inserted it acts only once.     *)
(***************************************************************************)
OnePusher ==
  \A k \in Keys : Caller[k] = "refuse" =>
    /\ status[k] = "absent" => effects[k] = 0 /\ \A t \in Tasks : task[t].key # k
    /\ \A a, b \in Tasks : task[a].key = k /\ task[b].key = k => a = b
    /\ \A t \in Tasks : task[t].key = k /\ task[t].pc = "begun" => effects[k] = 0

(***************************************************************************)
(* A call that is about to record a success has acted.                     *)
(***************************************************************************)
Witnessed == \A t \in Tasks : task[t].pc = "ok" => effects[task[t].key] > 0

IInv == LedgerTypeOK /\ OnePusher /\ PushedAtMostOnce /\ Witnessed /\ SuccessHappened

-----------------------------------------------------------------------------
(***************************************************************************)
(* A store that has no row yet satisfies the inductive invariant.          *)
(***************************************************************************)
LEMMA InitIInv == Init => IInv
<1> SUFFICES ASSUME Init PROVE IInv
  OBVIOUS
<1> USE LedgerAssumption DEF Init, Idle
<1>1. LedgerTypeOK
  BY DEF LedgerTypeOK
<1>2. OnePusher
  BY DEF OnePusher
<1>3. PushedAtMostOnce /\ Witnessed /\ SuccessHappened
  BY DEF PushedAtMostOnce, Witnessed, SuccessHappened
<1> QED
  BY <1>1, <1>2, <1>3 DEF IInv

(***************************************************************************)
(* A failure recorded by the tool leaves its call with the failure to      *)
(* announce; any other call returns.                                       *)
(***************************************************************************)
LEMMA FailureMoves ==
  ASSUME LedgerTypeOK, NEW t \in Tasks, FinishFailed(t)
  PROVE  /\ \A u \in Tasks \ {t} : task'[u] = task[u]
         /\ IF Caller[task[t].key] = "tool" /\ status[task[t].key] = "in_flight"
            THEN /\ task' = [task EXCEPT ![t] = task'[t]]
                 /\ task'[t] \in [pc : {"announce"}, key : {task[t].key},
                                  attempt : {attempts[task[t].key]}]
            ELSE task' = [task EXCEPT ![t] = Idle]
<1>1. CASE Caller[task[t].key] = "tool" /\ status[task[t].key] = "in_flight"
  <2>1. PICK k, n : k = task[t].key /\ n = attempts[k]
    OBVIOUS
  <2>2. task' = [task EXCEPT ![t] = [@ EXCEPT !.pc = "announce", !.attempt = n]]
    BY <1>1, <2>1 DEF FinishFailed
  <2>3. task'[t] \in [pc : {"announce"}, key : {k}, attempt : {n}]
    BY <2>1, <2>2 DEF LedgerTypeOK
  <2> QED
    BY <1>1, <2>1, <2>2, <2>3 DEF LedgerTypeOK
<1>2. CASE ~(Caller[task[t].key] = "tool" /\ status[task[t].key] = "in_flight")
  BY <1>2 DEF FinishFailed, Return, LedgerTypeOK
<1> QED
  BY <1>1, <1>2

(***************************************************************************)
(* Every step keeps the types.                                             *)
(***************************************************************************)
LEMMA StepTypes == LedgerTypeOK /\ [Next]_vars => LedgerTypeOK'
<1> SUFFICES ASSUME LedgerTypeOK, [Next]_vars PROVE LedgerTypeOK'
  OBVIOUS
<1> USE LedgerAssumption DEF LedgerTypeOK, Idle, Begun, At
<1>1. ASSUME NEW t \in Tasks, NEW k \in Keys, Fresh(t, k) PROVE LedgerTypeOK'
  <2>1. task' \in [Tasks -> [pc : {"idle", "begun", "ok", "error", "announce"},
                            key : Keys \cup {NoKey}, attempt : Nat]]
    BY <1>1 DEF Fresh
  <2>2. \A u \in Tasks : task'[u].key = NoKey <=> task'[u].pc = "idle"
    BY <1>1 DEF Fresh
  <2> QED
    BY <1>1, <2>1, <2>2 DEF Fresh, Reclaimable
<1>2. ASSUME NEW t \in Tasks, NEW k \in Keys, Reclaim(t, k) PROVE LedgerTypeOK'
  <2>1. task' \in [Tasks -> [pc : {"idle", "begun", "ok", "error", "announce"},
                            key : Keys \cup {NoKey}, attempt : Nat]]
    BY <1>2 DEF Reclaim
  <2>2. \A u \in Tasks : task'[u].key = NoKey <=> task'[u].pc = "idle"
    BY <1>2 DEF Reclaim
  <2> QED
    BY <1>2, <2>1, <2>2 DEF Reclaim, Reclaimable
<1>3. ASSUME NEW t \in Tasks, NEW result \in {"ok", "error"}, NEW happened \in BOOLEAN,
             Perform(t, result, happened)
      PROVE  LedgerTypeOK'
  BY <1>3 DEF Perform, Goto
<1>4. ASSUME NEW t \in Tasks, FinishSucceeded(t) PROVE LedgerTypeOK'
  BY <1>4 DEF FinishSucceeded, Record, Return
<1>5. ASSUME NEW t \in Tasks, FinishFailed(t) PROVE LedgerTypeOK'
  <2>1. At(t, "error") /\ task[t].key \in Keys
    BY <1>5 DEF FinishFailed
  <2>2. /\ task' \in [Tasks -> [pc : {"idle", "begun", "ok", "error", "announce"},
                               key : Keys \cup {NoKey}, attempt : Nat]]
        /\ \A u \in Tasks : task'[u].key = NoKey <=> task'[u].pc = "idle"
    BY <1>5, <2>1, FailureMoves
  <2> QED
    BY <1>5, <2>1, <2>2 DEF FinishFailed, Record
<1>6. ASSUME NEW t \in Tasks, Announce(t) PROVE LedgerTypeOK'
  BY <1>6 DEF Announce, Return
<1>7. ASSUME NEW t \in Tasks, Abandon(t) PROVE LedgerTypeOK'
  BY <1>7 DEF Abandon, Return
<1>8. CASE Crash
  BY <1>8 DEF Crash
<1>9. CASE Tick
  BY <1>9 DEF Tick
<1>10. CASE UNCHANGED vars
  BY <1>10 DEF vars
<1> QED
  BY <1>1, <1>2, <1>3, <1>4, <1>5, <1>6, <1>7, <1>8, <1>9, <1>10 DEF Next, Step

(***************************************************************************)
(* A step that pushes nothing, deletes no row and only takes keys away     *)
(* from calls leaves every key of git_push with one pusher.                *)
(***************************************************************************)
LEMMA OnePusherKept ==
  ASSUME OnePusher, effects' = effects,
         \A k \in Keys : status'[k] = "absent" => status[k] = "absent",
         \A u \in Tasks : task'[u].key \in {task[u].key, NoKey},
         \A u \in Tasks : task'[u].pc = "begun" => task[u].pc = "begun"
  PROVE  OnePusher'
<1> SUFFICES ASSUME NEW k \in Keys, Caller[k] = "refuse"
             PROVE  /\ status'[k] = "absent" => effects[k] = 0 /\ \A t \in Tasks : task'[t].key # k
                    /\ \A a, b \in Tasks : task'[a].key = k /\ task'[b].key = k => a = b
                    /\ \A t \in Tasks : task'[t].key = k /\ task'[t].pc = "begun" => effects[k] = 0
  BY DEF OnePusher
<1>1. \A u \in Tasks : task'[u].key = k => task[u].key = k
  BY LedgerAssumption
<1>2. /\ status[k] = "absent" => effects[k] = 0 /\ \A t \in Tasks : task[t].key # k
      /\ \A a, b \in Tasks : task[a].key = k /\ task[b].key = k => a = b
      /\ \A t \in Tasks : task[t].key = k /\ task[t].pc = "begun" => effects[k] = 0
  BY DEF OnePusher
<1> QED
  BY <1>1, <1>2

(***************************************************************************)
(* Every step keeps the invariant.  Only Fresh starts a push, and only     *)
(* Perform adds an effect.                                                 *)
(***************************************************************************)
LEMMA StepIInv == IInv /\ [Next]_vars => IInv'
<1> SUFFICES ASSUME IInv, [Next]_vars PROVE (OnePusher /\ PushedAtMostOnce /\ Witnessed /\ SuccessHappened)'
  BY StepTypes DEF IInv
<1> USE LedgerAssumption
    DEF IInv, LedgerTypeOK, PushedAtMostOnce, Witnessed, SuccessHappened, Idle, Begun, At
<1> DEFINE Kept == (OnePusher /\ PushedAtMostOnce /\ Witnessed /\ SuccessHappened)'
<1>1. ASSUME NEW t \in Tasks, NEW k \in Keys, Fresh(t, k) PROVE Kept
  BY <1>1 DEF Fresh, OnePusher
<1>2. ASSUME NEW t \in Tasks, NEW k \in Keys, Reclaim(t, k) PROVE Kept
  BY <1>2 DEF Reclaim, Reclaimable, OnePusher
<1>3. ASSUME NEW t \in Tasks, NEW result \in {"ok", "error"}, NEW happened \in BOOLEAN,
             Perform(t, result, happened)
      PROVE  Kept
  BY <1>3 DEF Perform, Goto, OnePusher
<1>4. ASSUME NEW t \in Tasks, FinishSucceeded(t) PROVE Kept
  <2>1. /\ effects' = effects
        /\ \A u \in Tasks : task'[u] = IF u = t THEN Idle ELSE task[u]
    BY <1>4 DEF FinishSucceeded, Return
  <2>2. \A k \in Keys : status'[k] = "absent" => status[k] = "absent"
    BY <1>4 DEF FinishSucceeded, Record
  <2>3. \A k \in Keys : status'[k] = "succeeded" => effects[k] > 0
    BY <1>4 DEF FinishSucceeded, Record
  <2>4. \A u \in Tasks : task'[u].key \in {task[u].key, NoKey}
    BY <2>1
  <2>5. \A u \in Tasks : task'[u].pc = "begun" => task[u].pc = "begun"
    BY <2>1
  <2>6. OnePusher'
    BY <2>1, <2>2, <2>4, <2>5, OnePusherKept
  <2> QED
    BY <2>1, <2>3, <2>6
<1>5. ASSUME NEW t \in Tasks, FinishFailed(t) PROVE Kept
  <2>1. \A u \in Tasks : task'[u].key \in {task[u].key, NoKey}
    BY <1>5, FailureMoves
  <2>2. \A u \in Tasks : task'[u] = task[u] \/ task'[u].pc \in {"idle", "announce"}
    BY <1>5, FailureMoves
  <2>3. \A u \in Tasks : task'[u].pc = "begun" => task[u].pc = "begun"
    BY <2>2
  <2>4. effects' = effects
    BY <1>5 DEF FinishFailed
  <2>5. \A k \in Keys : status'[k] = "absent" => status[k] = "absent"
    BY <1>5 DEF FinishFailed, Record
  <2>6. \A k \in Keys : status'[k] = "succeeded" => status[k] = "succeeded"
    BY <1>5 DEF FinishFailed, Record
  <2>7. OnePusher'
    BY <2>1, <2>3, <2>4, <2>5, OnePusherKept
  <2>8. Witnessed'
    BY <2>1, <2>2, <2>4
  <2> QED
    BY <2>4, <2>6, <2>7, <2>8
<1>6. ASSUME NEW t \in Tasks, Announce(t) \/ Abandon(t) PROVE Kept
  <2>1. /\ effects' = effects /\ status' = status
        /\ \A u \in Tasks : task'[u] = IF u = t THEN Idle ELSE task[u]
    BY <1>6 DEF Announce, Abandon, Return
  <2>2. OnePusher'
    BY <2>1, OnePusherKept
  <2> QED
    BY <2>1, <2>2
<1>7. CASE Crash
  <2>1. OnePusher'
    BY <1>7, OnePusherKept DEF Crash
  <2> QED
    BY <1>7, <2>1 DEF Crash
<1>8. CASE Tick \/ UNCHANGED vars
  BY <1>8 DEF Tick, vars, OnePusher
<1> QED
  BY <1>1, <1>2, <1>3, <1>4, <1>5, <1>6, <1>7, <1>8 DEF Next, Step

(***************************************************************************)
(* The inductive invariant holds in every reachable state.                 *)
(***************************************************************************)
THEOREM LedgerInvariant == Spec => []IInv
BY InitIInv, StepIInv, PTL DEF Spec

-----------------------------------------------------------------------------
(***************************************************************************)
(* Type correctness; a row exists exactly when an attempt was counted.     *)
(***************************************************************************)
THEOREM LedgerTypeCorrect == Spec => []LedgerTypeOK
<1>1. IInv => LedgerTypeOK
  BY DEF IInv
<1> QED
  BY <1>1, LedgerInvariant, PTL

(***************************************************************************)
(* git_push and github_create_pull_request act at most once under a key,   *)
(* whatever is lost, late, retried or crashed.                             *)
(***************************************************************************)
THEOREM AtMostOnePush == Spec => []PushedAtMostOnce
<1>1. IInv => PushedAtMostOnce
  BY DEF IInv
<1> QED
  BY <1>1, LedgerInvariant, PTL

(***************************************************************************)
(* The ledger says succeeded only of an action that happened.              *)
(***************************************************************************)
THEOREM NoFalseSuccess == Spec => []SuccessHappened
<1>1. IInv => SuccessHappened
  BY DEF IInv
<1> QED
  BY <1>1, LedgerInvariant, PTL

(***************************************************************************)
(* After a recorded success no late failure overwrites it and no attempt   *)
(* of the same key is begun.                                               *)
(***************************************************************************)
THEOREM SuccessStands == Spec => SuccessIsFinal
<1> DEFINE Final ==
      \A k \in Keys : status[k] = "succeeded" =>
        /\ status'[k] = "succeeded" /\ attempts'[k] = attempts[k]
        /\ \A t \in Tasks : Underway(t, k)' => Underway(t, k)
<1>1. ASSUME LedgerTypeOK, [Next]_vars PROVE [Final]_vars
  <2> USE <1>1, LedgerAssumption DEF LedgerTypeOK, Idle, Begun, At, Underway
  <2>1. ASSUME NEW t \in Tasks, NEW k \in Keys, Fresh(t, k) PROVE Final
    BY <2>1 DEF Fresh
  <2>2. ASSUME NEW t \in Tasks, NEW k \in Keys, Reclaim(t, k) PROVE Final
    BY <2>2 DEF Reclaim, Reclaimable
  <2>3. ASSUME NEW t \in Tasks, NEW result \in {"ok", "error"}, NEW happened \in BOOLEAN,
               Perform(t, result, happened)
        PROVE  Final
    BY <2>3 DEF Perform, Goto
  <2>4. ASSUME NEW t \in Tasks, FinishSucceeded(t) PROVE Final
    BY <2>4 DEF FinishSucceeded, Record, Return
  <2>5. ASSUME NEW t \in Tasks, FinishFailed(t) PROVE Final
    <3>1. \A u \in Tasks : task'[u] = task[u] \/ task'[u].pc \in {"idle", "announce"}
      BY <2>5, FailureMoves
    <3>2. \A k \in Keys : status[k] = "succeeded" => status'[k] = "succeeded"
      BY <2>5 DEF FinishFailed, Record
    <3>3. attempts' = attempts
      BY <2>5 DEF FinishFailed
    <3> QED
      BY <3>1, <3>2, <3>3
  <2>6. ASSUME NEW t \in Tasks, Announce(t) PROVE Final
    BY <2>6 DEF Announce, Return
  <2>7. ASSUME NEW t \in Tasks, Abandon(t) PROVE Final
    BY <2>7 DEF Abandon, Return
  <2>8. CASE Crash
    BY <2>8 DEF Crash
  <2>9. CASE Tick
    BY <2>9 DEF Tick
  <2> QED
    BY <2>1, <2>2, <2>3, <2>4, <2>5, <2>6, <2>7, <2>8, <2>9 DEF Next, Step
<1> QED
  BY <1>1, LedgerTypeCorrect, PTL DEF Spec, SuccessIsFinal

-----------------------------------------------------------------------------
(***************************************************************************)
(* An attempt whose failure was recorded is over: it is an earlier one     *)
(* than the row's, or the row says failed.  So the failures that calls     *)
(* are about to publish are all different, and none is published yet.      *)
(***************************************************************************)
Over(k, n) == n \in 1..attempts[k] /\ (n = attempts[k] => status[k] = "failed")
Announcing(t, k, n) == task[t].pc = "announce" /\ task[t].key = k /\ task[t].attempt = n
EachOnce ==
  /\ \A k \in Keys, n \in Nat : <<k, n>> \in announced => Over(k, n)
  /\ \A t \in Tasks, k \in Keys, n \in Nat : Announcing(t, k, n) =>
       /\ Over(k, n) /\ <<k, n>> \notin announced
       /\ \A u \in Tasks : Announcing(u, k, n) => u = t

\* The failures published under a key.
Said(k) == {n \in 1..attempts[k] : <<k, n>> \in announced}

\* What was over stays over: a row leaves failed only for a further attempt.
LEMMA OverStays ==
  ASSUME LedgerTypeOK, [Next]_vars, NEW k \in Keys, NEW n \in Nat, Over(k, n)
  PROVE  Over(k, n)'
<1> USE DEF Over, LedgerTypeOK
<1>1. ASSUME NEW t \in Tasks, NEW j \in Keys, Fresh(t, j) \/ Reclaim(t, j) PROVE Over(k, n)'
  BY <1>1 DEF Fresh, Reclaim
<1>2. ASSUME NEW t \in Tasks, FinishSucceeded(t) \/ FinishFailed(t) PROVE Over(k, n)'
  BY <1>2 DEF FinishSucceeded, FinishFailed, Record
<1>3. CASE UNCHANGED <<status, attempts>>
  BY <1>3
<1>4. ASSUME NEW t \in Tasks,
             \/ \E result \in {"ok", "error"}, happened \in BOOLEAN : Perform(t, result, happened)
             \/ Announce(t) \/ Abandon(t)
      PROVE  Over(k, n)'
  BY <1>3, <1>4 DEF Perform, Announce, Abandon
<1>5. CASE Crash \/ Tick \/ UNCHANGED vars
  BY <1>3, <1>5 DEF Crash, Tick, vars
<1> QED
  BY <1>1, <1>2, <1>4, <1>5 DEF Next, Step

\* The calls about to publish: FinishFailed adds one, for an attempt that was not over.
LEMMA EachOnceKept ==
  ASSUME LedgerTypeOK, EachOnce, [Next]_vars
  PROVE  EachOnce'
<1> DEFINE Quiet == /\ announced' = announced
                    /\ \A u \in Tasks : task'[u].pc = "announce" => task'[u] = task[u]
<1>1. \A k \in Keys, n \in Nat : Over(k, n) => Over(k, n)'
  BY OverStays
<1>2. ASSUME Quiet PROVE EachOnce'
  BY <1>1, <1>2 DEF EachOnce, Announcing
<1>3. ASSUME NEW t \in Tasks, Announce(t) PROVE EachOnce'
  <2> DEFINE j == task[t].key
             m == task[t].attempt
  <2>1. /\ announced' = announced \cup {<<j, m>>}
        /\ j \in Keys /\ m \in Nat /\ Announcing(t, j, m)
    BY <1>3 DEF Announce, At, Announcing, LedgerTypeOK
  <2>2. task'[t].pc = "idle" /\ \A u \in Tasks \ {t} : task'[u] = task[u]
    BY <1>3 DEF Announce, Return, Idle, LedgerTypeOK
  <2>3. ASSUME NEW k \in Keys, NEW n \in Nat, <<k, n>> \in announced' PROVE Over(k, n)'
    <3>1. <<k, n>> \in announced \/ (k = j /\ n = m)
      BY <2>1, <2>3
    <3> QED
      BY <1>1, <2>1, <3>1 DEF EachOnce
  <2>4. ASSUME NEW u \in Tasks, NEW k \in Keys, NEW n \in Nat, Announcing(u, k, n)'
        PROVE  /\ Over(k, n)' /\ <<k, n>> \notin announced'
               /\ \A v \in Tasks : Announcing(v, k, n)' => v = u
    <3>1. u # t /\ Announcing(u, k, n)
      BY <2>2, <2>4 DEF Announcing
    <3>2. ~(k = j /\ n = m)
      BY <2>1, <3>1 DEF EachOnce
    <3>3. \A v \in Tasks : Announcing(v, k, n)' => Announcing(v, k, n)
      BY <2>2 DEF Announcing
    <3> HIDE DEF j, m
    <3> QED
      BY <1>1, <2>1, <3>1, <3>2, <3>3 DEF EachOnce
  <2> QED
    BY <2>3, <2>4 DEF EachOnce
<1>4. ASSUME NEW t \in Tasks, FinishFailed(t), Caller[task[t].key] = "tool",
             status[task[t].key] = "in_flight"
      PROVE  EachOnce'
  <2>1. PICK j \in Keys, m \in Nat \ {0} : j = task[t].key /\ m = attempts[j]
    BY <1>4 DEF FinishFailed, At, LedgerTypeOK
  <2>2. /\ announced' = announced /\ attempts' = attempts /\ status'[j] = "failed"
        /\ task'[t].key = j /\ task'[t].attempt = m
        /\ \A u \in Tasks \ {t} : task'[u] = task[u]
    <3>1. announced' = announced /\ attempts' = attempts /\ status'[j] = "failed"
      BY <1>4, <2>1 DEF FinishFailed, Record, LedgerTypeOK
    <3> QED
      BY <1>4, <2>1, <3>1, FailureMoves DEF LedgerTypeOK
  <2>3. ~Over(j, m)
    BY <1>4, <2>1 DEF Over
  <2>4. Over(j, m)'
    BY <2>1, <2>2 DEF Over
  <2>5. ASSUME NEW u \in Tasks, NEW k \in Keys, NEW n \in Nat, Announcing(u, k, n)'
        PROVE  /\ Over(k, n)' /\ <<k, n>> \notin announced'
               /\ \A v \in Tasks : Announcing(v, k, n)' => v = u
    <3>1. CASE k = j /\ n = m
      <4>1. <<j, m>> \notin announced /\ \A v \in Tasks : ~Announcing(v, j, m)
        BY <2>1, <2>3 DEF EachOnce
      <4>2. \A v \in Tasks \ {t} : ~Announcing(v, j, m)'
        BY <2>2, <4>1 DEF Announcing
      <4>3. \A v \in Tasks : Announcing(v, j, m)' => v = t
        BY <4>2
      <4>4. u = t
        BY <2>5, <3>1, <4>3
      <4> QED
        BY <2>2, <2>4, <3>1, <4>1, <4>3, <4>4
    <3>2. CASE ~(k = j /\ n = m)
      <4>1. \A v \in Tasks : Announcing(v, k, n)' => Announcing(v, k, n)
        BY <2>2, <3>2 DEF Announcing
      <4> QED
        BY <1>1, <2>2, <2>5, <4>1 DEF EachOnce
    <3> QED
      BY <3>1, <3>2
  <2> QED
    BY <1>1, <2>2, <2>5 DEF EachOnce
<1>5. ASSUME NEW t \in Tasks, Step(t) PROVE EachOnce'
  <2> USE DEF LedgerTypeOK, Idle, Begun
  <2>1. CASE \E k \in Keys : Fresh(t, k) \/ Reclaim(t, k)
    BY <1>2, <2>1 DEF Fresh, Reclaim
  <2>2. CASE \E result \in {"ok", "error"}, happened \in BOOLEAN : Perform(t, result, happened)
    BY <1>2, <2>2 DEF Perform, Goto
  <2>3. CASE FinishSucceeded(t) \/ Abandon(t)
    BY <1>2, <2>3 DEF FinishSucceeded, Abandon, Return
  <2>4. CASE FinishFailed(t)
    <3>1. CASE ~(Caller[task[t].key] = "tool" /\ status[task[t].key] = "in_flight")
      BY <1>2, <2>4, <3>1 DEF FinishFailed, Return
    <3> QED
      BY <1>4, <2>4, <3>1
  <2> QED
    BY <1>3, <1>5, <2>1, <2>2, <2>3, <2>4 DEF Step
<1>6. CASE Crash
  BY <1>2, <1>6 DEF Crash, Idle
<1>7. CASE Tick \/ UNCHANGED vars
  BY <1>2, <1>7 DEF Tick, vars
<1> QED
  BY <1>5, <1>6, <1>7 DEF Next

\* A publication adds one number to those said under its key; nothing else does.
LEMMA CountKept ==
  ASSUME LedgerTypeOK, EachOnce, NoFailureSwallowed, [Next]_vars, NEW k \in Keys
  PROVE  calls'[k] = Cardinality(Said(k)')
<1>0. calls[k] = Cardinality(Said(k)) /\ attempts[k] \in Nat
  BY DEF NoFailureSwallowed, Said, LedgerTypeOK
<1>1. ASSUME announced' = announced, calls' = calls PROVE calls'[k] = Cardinality(Said(k)')
  <2>1. \A n \in Nat : <<k, n>> \in announced => n \in 1..attempts[k] /\ n \in 1..attempts'[k]
    <3>1. \A n \in Nat : Over(k, n) => Over(k, n)'
      BY OverStays
    <3> QED
      BY <3>1 DEF EachOnce, Over
  <2>2. attempts'[k] \in Nat
    BY StepTypes DEF LedgerTypeOK
  <2>3. Said(k)' = Said(k)
    BY <1>0, <1>1, <2>1, <2>2 DEF Said
  <2> QED
    BY <1>0, <1>1, <2>3
<1>2. ASSUME NEW t \in Tasks, Announce(t) PROVE calls'[k] = Cardinality(Said(k)')
  <2> DEFINE j == task[t].key
             m == task[t].attempt
  <2>1. /\ announced' = announced \cup {<<j, m>>} /\ attempts' = attempts
        /\ calls' = [calls EXCEPT ![j] = @ + 1]
        /\ j \in Keys /\ m \in Nat /\ Announcing(t, j, m)
    BY <1>2 DEF Announce, At, Announcing, LedgerTypeOK
  <2>2. Over(j, m) /\ <<j, m>> \notin announced
    BY <2>1 DEF EachOnce
  <2> HIDE DEF j, m
  <2>3. CASE k = j
    <3>1. Said(k)' = Said(k) \cup {m}
      BY <2>1, <2>2, <2>3 DEF Said, Over
    <3>2. m \notin Said(k)
      BY <2>2, <2>3 DEF Said
    <3>3. IsFiniteSet(Said(k))
      <4>1. IsFiniteSet(1..attempts[k])
        BY <1>0, FS_Interval
      <4>2. Said(k) \subseteq 1..attempts[k]
        BY DEF Said
      <4> QED
        BY <4>1, <4>2, FS_Subset
    <3>4. Cardinality(Said(k) \cup {m}) = Cardinality(Said(k)) + 1
      BY <3>2, <3>3, FS_AddElement
    <3>5. calls'[k] = calls[k] + 1
      BY <2>1, <2>3 DEF LedgerTypeOK
    <3> QED
      BY <1>0, <3>1, <3>4, <3>5
  <2>4. CASE k # j
    <3>1. Said(k)' = Said(k)
      BY <2>1, <2>4 DEF Said
    <3>2. calls'[k] = calls[k]
      BY <2>1, <2>4 DEF LedgerTypeOK
    <3> QED
      BY <1>0, <3>1, <3>2
  <2> QED
    BY <2>3, <2>4
<1>3. ASSUME NEW t \in Tasks, Step(t), ~Announce(t) PROVE announced' = announced /\ calls' = calls
  BY <1>3 DEF Step, Fresh, Reclaim, Perform, FinishSucceeded, FinishFailed, Abandon
<1>4. CASE Crash \/ Tick \/ UNCHANGED vars
  BY <1>1, <1>4 DEF Crash, Tick, vars
<1> QED
  BY <1>1, <1>2, <1>3, <1>4 DEF Next

(***************************************************************************)
(* Every failure the tool publishes reaches the event log under a key of   *)
(* its own, although a late attempt may record its failure for the attempt *)
(* that replaced it: whichever records it, the row's number is new.        *)
(***************************************************************************)
THEOREM EveryFailureHeard == Spec => []NoFailureSwallowed
<1>1. Init => EachOnce /\ NoFailureSwallowed
  <2> SUFFICES ASSUME Init PROVE EachOnce /\ NoFailureSwallowed
    OBVIOUS
  <2>1. EachOnce
    BY DEF Init, EachOnce, Announcing, Idle
  <2>2. ASSUME NEW k \in Keys
        PROVE  calls[k] = Cardinality({n \in 1..attempts[k] : <<k, n>> \in announced})
    <3>1. calls[k] = 0 /\ {n \in 1..attempts[k] : <<k, n>> \in announced} = {}
      BY DEF Init
    <3> QED
      BY <3>1, FS_EmptySet
  <2> QED
    BY <2>1, <2>2 DEF NoFailureSwallowed
<1>2. LedgerTypeOK /\ EachOnce /\ NoFailureSwallowed /\ [Next]_vars
        => EachOnce' /\ NoFailureSwallowed'
  <2> SUFFICES ASSUME LedgerTypeOK, EachOnce, NoFailureSwallowed, [Next]_vars
               PROVE  EachOnce' /\ NoFailureSwallowed'
    OBVIOUS
  <2>1. \A k \in Keys : calls'[k] = Cardinality(Said(k)')
    BY CountKept
  <2> QED
    BY <2>1, EachOnceKept DEF NoFailureSwallowed, Said
<1> QED
  BY <1>1, <1>2, LedgerTypeCorrect, PTL DEF Spec
=============================================================================
