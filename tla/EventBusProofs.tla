--------------------------- MODULE EventBusProofs ---------------------------
(***************************************************************************)
(* Theorems about EventBus for every set of rules, every rate and failure  *)
(* limit, every batch size, and any number of events, switches and crashes.*)
(***************************************************************************)
EXTENDS EventBus, WellFoundedInduction, TLAPS

(***************************************************************************)
(* First picks the least element of a nonempty set of numbers.             *)
(***************************************************************************)
LEMMA FirstIsLeast ==
  ASSUME NEW S, S \subseteq Nat, S # {}
  PROVE  First(S) \in S /\ \A m \in S : First(S) <= m
<1>1. PICK x \in S : \A y \in S : ~(<<y, x>> \in OpToRel(<, Nat))
  BY NatLessThanWellFounded, WFMin
<1>2. \A y \in S : x <= y
  <2> SUFFICES ASSUME NEW y \in S, y < x PROVE FALSE
    OBVIOUS
  <2>1. <<y, x>> \in {pair \in Nat \X Nat : pair[1] < pair[2]}
    OBVIOUS
  <2>2. <<y, x>> \in OpToRel(<, Nat)
    BY <2>1 DEF OpToRel
  <2> QED
    BY <1>1, <2>2
<1> QED
  BY <1>2 DEF First

-----------------------------------------------------------------------------
(***************************************************************************)
(* The shape of a round: a batch is loaded exactly while the pump is not   *)
(* idle, and a rule is chosen while one is being dispatched.               *)
(***************************************************************************)
Round ==
  /\ pump.pc = "idle" <=> pump.batch = {}
  /\ pump.pc \notin {"idle", "events", "rules"} => pump.rules # {}

Shape == BusTypeOK /\ Round

(***************************************************************************)
(* The event being dispatched is the least of the batch, the rule one of   *)
(* those left.                                                             *)
(***************************************************************************)
LEMMA EventInBatch ==
  ASSUME BusTypeOK, pump.batch # {}
  PROVE  Event \in pump.batch /\ Event \in 1..Len(log) /\ \A m \in pump.batch : Event <= m
<1>1. pump.batch \subseteq 1..Len(log) /\ Len(log) \in Nat
  BY DEF BusTypeOK
<1>2. pump.batch \subseteq Nat
  BY <1>1
<1> QED
  BY <1>1, <1>2, FirstIsLeast DEF Event

(***************************************************************************)
(* The rule being dispatched is one of the rules left for the event.       *)
(***************************************************************************)
LEMMA RuleIsRule ==
  ASSUME BusTypeOK, pump.rules # {}
  PROVE  Rule \in pump.rules /\ Rule \in Rules
<1>1. pump.rules \subseteq Rules /\ Rules \subseteq Nat
  BY BusAssumption DEF BusTypeOK
<1>2. pump.rules \subseteq Nat
  BY <1>1
<1> QED
  BY <1>1, <1>2, FirstIsLeast DEF Rule

(***************************************************************************)
(* So the dispatch row at hand is one of the table's.                      *)
(***************************************************************************)
LEMMA PairIsPair ==
  ASSUME BusTypeOK, pump.batch # {}, pump.rules # {}
  PROVE  Pair \in Pairs /\ Rule \in Rules /\ Event \in Events
<1>1. Len(log) \in Nat /\ Len(log) <= MaxEvents /\ MaxEvents \in Nat
  BY BusAssumption DEF BusTypeOK
<1>2. Event \in Events
  BY <1>1, EventInBatch DEF Events
<1> QED
  BY <1>2, RuleIsRule DEF Pair, Pairs

(***************************************************************************)
(* The two outcomes of reserve_event_rule_trigger.                         *)
(***************************************************************************)
LEMMA TriggerGranted ==
  ReserveTrigger /\ enabled[Rule] /\ WithinLimit(Rule) =>
         /\ triggers' = [triggers EXCEPT ![Rule] = Triggered(Rule) + 1]
         /\ windowLeft' = [windowLeft EXCEPT ![Rule] = IF @ = 0 THEN Window ELSE @]
         /\ pump' = [pump EXCEPT !.pc = "act"]
BY DEF ReserveTrigger, Goto

(***************************************************************************)
(* A refused trigger clears the dispatch of a plan_goal rule, and fails    *)
(* any other rule at once.                                                 *)
(***************************************************************************)
LEMMA TriggerRefused ==
  ReserveTrigger /\ ~(enabled[Rule] /\ WithinLimit(Rule)) =>
         /\ UNCHANGED <<triggers, windowLeft>>
         /\ pump' = [pump EXCEPT !.pc = IF Effect[Rule] = "plan_goal" THEN "clear" ELSE "failed"]
         /\ pump' \in {[pump EXCEPT !.pc = "clear"], [pump EXCEPT !.pc = "failed"]}
BY DEF ReserveTrigger, Goto

(***************************************************************************)
(* The two steps with the most branches, apart: they keep the types.       *)
(***************************************************************************)
LEMMA ReserveDispatchTypes == BusTypeOK /\ Round /\ ReserveDispatch => BusTypeOK'
<1> SUFFICES ASSUME BusTypeOK, Round, ReserveDispatch PROVE BusTypeOK'
  OBVIOUS
<1>1. Pair \in Pairs
  BY PairIsPair DEF ReserveDispatch, Round, At
<1>2. \/ pump' = [pump EXCEPT !.pc = "rules", !.rules = @ \ {Rule}]
      \/ pump' = [pump EXCEPT !.pc = "trigger"]
  BY DEF ReserveDispatch, NextRule, Goto
<1>3. dispatch' \in [Pairs -> {"none", "reserved", "completed"}]
  <2>1. dispatch \in [Pairs -> {"none", "reserved", "completed"}]
    BY DEF BusTypeOK
  <2>2. dispatch' = dispatch \/ dispatch' = [dispatch EXCEPT ![Pair] = "reserved"]
    BY DEF ReserveDispatch
  <2> QED
    BY <2>1, <2>2
<1>4. pump' \in [pc : Pcs, batch : SUBSET (1..Len(log)), rules : SUBSET Rules,
                handled : BOOLEAN, planFailed : BOOLEAN]
  <2>1. pump \in [pc : Pcs, batch : SUBSET (1..Len(log)), rules : SUBSET Rules,
                handled : BOOLEAN, planFailed : BOOLEAN]
    BY DEF BusTypeOK
  <2>2. CASE pump' = [pump EXCEPT !.pc = "rules", !.rules = @ \ {Rule}]
    BY <2>1, <2>2 DEF Pcs
  <2>3. CASE pump' = [pump EXCEPT !.pc = "trigger"]
    BY <2>1, <2>3 DEF Pcs
  <2> QED
    BY <1>2, <2>2, <2>3
<1> QED
  BY <1>3, <1>4 DEF ReserveDispatch, BusTypeOK, rulesVars, history

(***************************************************************************)
(* A granted trigger stays within max_triggers, also at the moment the     *)
(* window has passed and the count starts again.                           *)
(***************************************************************************)
LEMMA ReserveTriggerTypes == BusTypeOK /\ Round /\ ReserveTrigger => BusTypeOK'
<1> SUFFICES ASSUME BusTypeOK, Round, ReserveTrigger PROVE BusTypeOK'
  OBVIOUS
<1>1. Rule \in Rules
  BY RuleIsRule DEF ReserveTrigger, Round, At
<1>2. Window \in Nat /\ MaxTriggers[Rule] \in Nat /\ Triggered(Rule) \in Nat
  BY <1>1, BusAssumption DEF BusTypeOK, Triggered
<1>3. triggers' \in [Rules -> Nat] /\ \A r \in Rules : triggers'[r] <= MaxTriggers[r]
  <2>1. CASE enabled[Rule] /\ WithinLimit(Rule)
    <3>1. triggers \in [Rules -> Nat] /\ \A r \in Rules : triggers[r] <= MaxTriggers[r]
      BY DEF BusTypeOK
    <3>2. triggers' = [triggers EXCEPT ![Rule] = Triggered(Rule) + 1]
      BY <2>1, TriggerGranted
    <3>3. Triggered(Rule) + 1 <= MaxTriggers[Rule]
      BY <1>2, <2>1 DEF WithinLimit
    <3> QED
      BY <1>1, <1>2, <3>1, <3>2, <3>3
  <2>2. CASE ~(enabled[Rule] /\ WithinLimit(Rule))
    BY <2>2, TriggerRefused DEF BusTypeOK
  <2> QED
    BY <2>1, <2>2
<1>4. windowLeft' \in [Rules -> 0..Window]
  <2>1. CASE enabled[Rule] /\ WithinLimit(Rule)
    <3>1. windowLeft \in [Rules -> 0..Window]
      BY DEF BusTypeOK
    <3>2. windowLeft' = [windowLeft EXCEPT ![Rule] = IF @ = 0 THEN Window ELSE @]
      BY <2>1, TriggerGranted
    <3> QED
      BY <1>1, <1>2, <3>1, <3>2
  <2>2. CASE ~(enabled[Rule] /\ WithinLimit(Rule))
    BY <2>2, TriggerRefused DEF BusTypeOK
  <2> QED
    BY <2>1, <2>2
<1>5. pump' \in {[pump EXCEPT !.pc = "act"], [pump EXCEPT !.pc = "clear"],
                [pump EXCEPT !.pc = "failed"]}
  BY TriggerGranted, TriggerRefused
<1>6. pump' \in [pc : Pcs, batch : SUBSET (1..Len(log)), rules : SUBSET Rules,
                handled : BOOLEAN, planFailed : BOOLEAN]
  BY <1>5 DEF BusTypeOK, Pcs
<1> QED
  BY <1>3, <1>4, <1>6 DEF ReserveTrigger, BusTypeOK, history

(***************************************************************************)
(* The count of a goal's planner runs.                                     *)
(***************************************************************************)
LEMMA PlanCounted ==
  ASSUME plans \in [Pairs -> Nat], Pair \in Pairs, NEW ok \in BOOLEAN, PlanGoal(ok)
  PROVE  plans' \in [Pairs -> Nat]
BY DEF PlanGoal

(***************************************************************************)
(* The switches of the rules, turned by a failure or by the user.          *)
(***************************************************************************)
LEMMA Switched ==
  ASSUME enabled \in [Rules -> BOOLEAN], NEW r, NEW on \in BOOLEAN,
         enabled' = [enabled EXCEPT ![r] = on]
  PROVE  enabled' \in [Rules -> BOOLEAN]
OBVIOUS

(***************************************************************************)
(* Every step keeps the types.                                             *)
(***************************************************************************)
LEMMA StepTypes == Shape /\ [Next]_vars => BusTypeOK'
<1> SUFFICES ASSUME BusTypeOK, Round, [Next]_vars PROVE BusTypeOK'
  BY DEF Shape
<1> USE BusAssumption DEF BusTypeOK, Pcs, Resting, At, Goto, NextRule, rulesVars, history
<1>1. ASSUME NEW k \in Kinds, Publish(k) PROVE BusTypeOK'
  BY <1>1 DEF Publish
<1>2. CASE Subscribe
  BY <1>2 DEF Subscribe
<1>3. CASE LoadBatch
  <2>1. Batch \subseteq 1..Len(log)
    BY DEF Batch
  <2> QED
    BY <1>3, <2>1 DEF LoadBatch
<1>4. CASE LoadRules
  <2>1. Event \in 1..Len(log)
    BY <1>4, EventInBatch DEF LoadRules, Round
  <2> QED
    BY <1>4, <2>1 DEF LoadRules
<1>5. CASE Malformed
  BY <1>5 DEF Malformed
<1>6. CASE ReserveDispatch
  BY <1>6, ReserveDispatchTypes
<1>7. CASE ReserveTrigger
  BY <1>7, ReserveTriggerTypes
<1>8. CASE EnqueueWork
  <2>1. Pair \in Pairs
    BY <1>8, PairIsPair DEF EnqueueWork, Round
  <2> QED
    BY <1>8, <2>1 DEF EnqueueWork
<1>9. ASSUME NEW ok \in BOOLEAN, PlanGoal(ok) PROVE BusTypeOK'
  <2>1. pump' \in [pc : Pcs, batch : SUBSET (1..Len(log)), rules : SUBSET Rules,
                  handled : BOOLEAN, planFailed : BOOLEAN]
    BY <1>9 DEF PlanGoal
  <2>2. Pair \in Pairs
    BY <1>9, PairIsPair DEF PlanGoal, Round
  <2>3. plans' \in [Pairs -> Nat]
    BY <1>9, <2>2, PlanCounted
  <2> QED
    BY <1>9, <2>1, <2>3 DEF PlanGoal
<1>10. CASE CompleteDispatch
  BY <1>10 DEF CompleteDispatch
<1>11. CASE ClearDispatch
  BY <1>11 DEF ClearDispatch
<1>12. CASE RecordSuccess
  BY <1>12, RuleIsRule, PairIsPair DEF RecordSuccess, Round
<1>13. CASE RecordFailure
  <2>1. Pair \in Pairs /\ Rule \in Rules
    BY <1>13, PairIsPair DEF RecordFailure, Round
  <2>2. enabled' \in [Rules -> BOOLEAN]
    <3>1. RuleSurvives(Rule) \in BOOLEAN
      BY DEF RuleSurvives
    <3>2. enabled' = [enabled EXCEPT ![Rule] = RuleSurvives(Rule)]
      BY <1>13 DEF RecordFailure
    <3> QED
      BY <3>1, <3>2, Switched
  <2>3. failures' \in [Rules -> Nat] /\ owed' \subseteq Pairs
    BY <1>13, <2>1, SMTT(30) DEF RecordFailure
  <2>4. (~pump.planFailed /\ ~RuleSurvives(Rule)) \in BOOLEAN
    OBVIOUS
  <2>5. pump' \in [pc : Pcs, batch : SUBSET (1..Len(log)), rules : SUBSET Rules,
                  handled : BOOLEAN, planFailed : BOOLEAN]
    BY <1>13, <2>4 DEF RecordFailure
  <2> QED
    BY <1>13, <2>2, <2>3, <2>5 DEF RecordFailure
<1>14. CASE FinishEvent
  <2>1. Event \in 1..Len(log)
    BY <1>14, EventInBatch DEF FinishEvent, Round
  <2>2. cursor' \in 0..Len(log) /\ start \in 0..cursor'
    BY <1>14, <2>1 DEF FinishEvent
  <2> QED
    BY <1>14, <2>2 DEF FinishEvent
<1>15. ASSUME NEW r \in Rules, Switch(r) PROVE BusTypeOK'
  <2>1. enabled[r] \in BOOLEAN /\ enabled' = [enabled EXCEPT ![r] = ~enabled[r]]
    BY <1>15 DEF Switch
  <2>2. (~enabled[r]) \in BOOLEAN
    OBVIOUS
  <2>3. enabled' \in [Rules -> BOOLEAN]
    BY <2>1, <2>2, Switched
  <2>4. switches' \in 0..MaxSwitches
    BY <1>15 DEF Switch
  <2>5. UNCHANGED <<log, subscribed, cursor, failures, triggers, windowLeft, dispatch,
                    worked, pump, start, visited, plans, owed, crashes>>
    BY <1>15 DEF Switch
  <2> QED
    BY <2>3, <2>4, <2>5, SMTT(30)
<1>16. CASE Tick
  <2>1. windowLeft' \in [Rules -> 0..Window]
    BY <1>16 DEF Tick
  <2> QED
    BY <1>16, <2>1 DEF Tick
<1>17. CASE Crash
  BY <1>17 DEF Crash
<1>18. CASE UNCHANGED vars
  BY <1>18 DEF vars, rulesVars, history
<1> QED
  BY <1>1, <1>2, <1>3, <1>4, <1>5, <1>6, <1>7, <1>8, <1>9,
     <1>10, <1>11, <1>12, <1>13, <1>14, <1>15, <1>16, <1>17, <1>18 DEF Next, PumpStep

(***************************************************************************)
(* Every step keeps the shape of a round.                                  *)
(***************************************************************************)
LEMMA StepRound == Shape /\ [Next]_vars => Round'
<1> SUFFICES ASSUME Shape, [Next]_vars PROVE Round'
  OBVIOUS
<1>0. pump \in [pc : Pcs, batch : SUBSET (1..Len(log)), rules : SUBSET Rules,
              handled : BOOLEAN, planFailed : BOOLEAN]
  BY DEF Shape, BusTypeOK
<1> USE <1>0 DEF Shape, Round, Resting, At, Goto, NextRule
<1>1. ASSUME NEW k \in Kinds, Publish(k) PROVE Round'
  BY <1>1 DEF Publish
<1>2. CASE Subscribe
  BY <1>2 DEF Subscribe
<1>3. CASE LoadBatch
  BY <1>3 DEF LoadBatch
<1>4. CASE LoadRules
  BY <1>4 DEF LoadRules
<1>5. CASE Malformed
  BY <1>5 DEF Malformed
<1>6. CASE ReserveDispatch
  BY <1>6 DEF ReserveDispatch
<1>7. CASE ReserveTrigger
  <2>1. pump' \in {[pump EXCEPT !.pc = "act"], [pump EXCEPT !.pc = "clear"],
                  [pump EXCEPT !.pc = "failed"]}
    BY <1>7, TriggerGranted, TriggerRefused
  <2>2. pump.batch # {} /\ pump.rules # {}
    BY <1>7 DEF ReserveTrigger
  <2> QED
    BY <2>1, <2>2
<1>8. CASE EnqueueWork
  BY <1>8 DEF EnqueueWork
<1>9. ASSUME NEW ok \in BOOLEAN, PlanGoal(ok) PROVE Round'
  BY <1>9 DEF PlanGoal
<1>10. CASE CompleteDispatch
  BY <1>10 DEF CompleteDispatch
<1>11. CASE ClearDispatch
  BY <1>11 DEF ClearDispatch
<1>12. CASE RecordSuccess
  BY <1>12 DEF RecordSuccess
<1>13. CASE RecordFailure
  BY <1>13 DEF RecordFailure
<1>14. CASE FinishEvent
  <2>1. CASE pump.batch = {Event}
    BY <1>14, <2>1 DEF FinishEvent
  <2>2. CASE pump.batch # {Event}
    <3>1. pump' = [pump EXCEPT !.pc = "events", !.batch = pump.batch \ {Event}]
      BY <1>14, <2>2 DEF FinishEvent
    <3>2. pump.batch # {} /\ pump.batch \ {Event} # {}
      BY <1>14, <2>2 DEF FinishEvent
    <3> QED
      BY <3>1, <3>2
  <2> QED
    BY <2>1, <2>2
<1>15. ASSUME NEW r \in Rules, Switch(r) PROVE Round'
  BY <1>15 DEF Switch
<1>16. CASE Tick
  BY <1>16 DEF Tick
<1>17. CASE Crash
  BY <1>17 DEF Crash
<1>18. CASE UNCHANGED vars
  BY <1>18 DEF vars, rulesVars, history
<1> QED
  BY <1>1, <1>2, <1>3, <1>4, <1>5, <1>6, <1>7, <1>8, <1>9,
     <1>10, <1>11, <1>12, <1>13, <1>14, <1>15, <1>16, <1>17, <1>18 DEF Next, PumpStep

(***************************************************************************)
(* A goal is planned only under a dispatch row that was reserved for this  *)
(* very run, and the row stays: planned once, it is never free again.      *)
(***************************************************************************)
Reserved ==
  /\ \A p \in Pairs : plans[p] <= 1 /\ (plans[p] > 0 => dispatch[p] # "none")
  /\ pump.pc \in {"trigger", "clear"} => Effect[Rule] = "plan_goal"
  /\ pump.pc \in {"trigger", "act", "clear"} /\ Effect[Rule] = "plan_goal"
       => plans[Pair] = 0 /\ dispatch[Pair] = "reserved"

(***************************************************************************)
(* Every step keeps the reservation invariant.                             *)
(***************************************************************************)
LEMMA StepReserved == Shape /\ Reserved /\ [Next]_vars => Reserved'
<1> SUFFICES ASSUME Shape, Reserved, [Next]_vars PROVE Reserved'
  OBVIOUS
<1>0. /\ pump \in [pc : Pcs, batch : SUBSET (1..Len(log)), rules : SUBSET Rules,
                 handled : BOOLEAN, planFailed : BOOLEAN]
      /\ dispatch \in [Pairs -> {"none", "reserved", "completed"}]
      /\ plans \in [Pairs -> Nat]
  BY DEF Shape, BusTypeOK
<1>a. pump.pc \notin {"idle", "events", "rules"} => Pair \in Pairs
  BY PairIsPair DEF Shape, Round
<1>b. pump.pc # "idle" /\ pump.rules # {} => Pair \in Pairs
  BY PairIsPair DEF Shape, Round
<1> USE <1>0, <1>a, <1>b
    DEF rulesVars, history, Reserved, Resting, At, Goto, NextRule, Pair, Event, Rule
<1>1. ASSUME NEW k \in Kinds, Publish(k) PROVE Reserved'
  BY <1>1 DEF Publish
<1>2. CASE Subscribe
  BY <1>2 DEF Subscribe
<1>3. CASE LoadBatch
  BY <1>3 DEF LoadBatch
<1>4. CASE LoadRules
  BY <1>4 DEF LoadRules
<1>5. CASE Malformed
  BY <1>5 DEF Malformed
<1>6. CASE ReserveDispatch
  <2>1. CASE dispatch[Pair] # "none"
    BY <1>6, <2>1 DEF ReserveDispatch
  <2>2. CASE dispatch[Pair] = "none"
    <3>1. /\ pump' = [pump EXCEPT !.pc = "trigger"]
          /\ dispatch' = [dispatch EXCEPT ![Pair] = "reserved"]
          /\ plans' = plans /\ Effect[Rule] = "plan_goal"
      BY <1>6, <2>2 DEF ReserveDispatch
    <3> QED
      BY <1>6, <2>2, <3>1 DEF ReserveDispatch
  <2> QED
    BY <2>1, <2>2
<1>7. CASE ReserveTrigger
  <2>1. CASE enabled[Rule] /\ WithinLimit(Rule)
    <3>1. pump' = [pump EXCEPT !.pc = "act"]
      BY <1>7, <2>1, TriggerGranted DEF Rule
    <3> QED
      BY <1>7, <3>1 DEF ReserveTrigger
  <2>2. CASE ~(enabled[Rule] /\ WithinLimit(Rule))
    <3>1. pump' = [pump EXCEPT !.pc = IF Effect[Rule] = "plan_goal" THEN "clear" ELSE "failed"]
      BY <1>7, <2>2, TriggerRefused DEF Rule
    <3> QED
      BY <1>7, <3>1 DEF ReserveTrigger
  <2> QED
    BY <2>1, <2>2
<1>8. CASE EnqueueWork
  BY <1>8 DEF EnqueueWork
<1>9. ASSUME NEW ok \in BOOLEAN, PlanGoal(ok) PROVE Reserved'
  <2>1. plans[Pair] = 0 /\ dispatch[Pair] = "reserved" /\ dispatch' = dispatch
    BY <1>9 DEF PlanGoal
  <2>2. CASE ok
    <3>1. /\ pump' = [pump EXCEPT !.pc = "complete", !.planFailed = ~ok]
          /\ plans' = [plans EXCEPT ![Pair] = plans[Pair] + 1]
      BY <1>9, <2>2 DEF PlanGoal
    <3>2. Pair \in Pairs
      BY <1>9 DEF PlanGoal
    <3>3. pump'.pc = "complete" /\ Pair' = Pair
      BY <3>1
    <3> QED
      BY <2>1, <3>1, <3>2, <3>3, SMTT(30)
  <2>3. CASE ~ok
    <3>1. /\ pump' = [pump EXCEPT !.pc = "clear", !.planFailed = ~ok]
          /\ plans' = plans /\ Effect[Rule] = "plan_goal"
      BY <1>9, <2>3 DEF PlanGoal
    <3> QED
      BY <2>1, <3>1
  <2> QED
    BY <2>2, <2>3
<1>10. CASE CompleteDispatch
  BY <1>10 DEF CompleteDispatch
<1>11. CASE ClearDispatch
  BY <1>11 DEF ClearDispatch
<1>12. CASE RecordSuccess
  BY <1>12 DEF RecordSuccess
<1>13. CASE RecordFailure
  BY <1>13 DEF RecordFailure
<1>14. CASE FinishEvent
  BY <1>14 DEF FinishEvent
<1>15. ASSUME NEW r \in Rules, Switch(r) PROVE Reserved'
  BY <1>15 DEF Switch
<1>16. CASE Tick
  BY <1>16 DEF Tick
<1>17. CASE Crash
  BY <1>17 DEF Crash
<1>18. CASE UNCHANGED vars
  BY <1>18 DEF vars, rulesVars, history
<1> QED
  BY <1>1, <1>2, <1>3, <1>4, <1>5, <1>6, <1>7, <1>8, <1>9,
     <1>10, <1>11, <1>12, <1>13, <1>14, <1>15, <1>16, <1>17, <1>18 DEF Next, PumpStep

(***************************************************************************)
(* What lies before an event of the batch was examined or is still in the  *)
(* batch, and the event being dispatched was examined.                     *)
(***************************************************************************)
Examined ==
  /\ EveryEventExamined
  /\ \A m \in pump.batch, n \in Events : start < n /\ n < m => n \in pump.batch \cup visited
  /\ pump.pc \notin {"idle", "events"} => Event \in visited

(***************************************************************************)
(* Every step keeps the examination invariant.                             *)
(***************************************************************************)
LEMMA StepExamined == Shape /\ Examined /\ [Next]_vars => Examined'
<1> SUFFICES ASSUME Shape, Examined, [Next]_vars PROVE Examined'
  OBVIOUS
<1>0. /\ pump \in [pc : Pcs, batch : SUBSET (1..Len(log)), rules : SUBSET Rules,
                 handled : BOOLEAN, planFailed : BOOLEAN]
      /\ Len(log) \in Nat /\ cursor \in Nat /\ start \in Nat
  BY DEF Shape, BusTypeOK
<1>a. Events \subseteq Nat
  BY BusAssumption DEF Events
<1> USE <1>0, <1>a
    DEF rulesVars, history, Examined, EveryEventExamined, Resting, At, Goto, NextRule, Event
<1>1. ASSUME NEW k \in Kinds, Publish(k) PROVE Examined'
  BY <1>1 DEF Publish
<1>2. CASE Subscribe
  BY <1>2 DEF Subscribe
<1>3. CASE LoadBatch
  <2>1. \A m \in Batch, n \in Events : start < n /\ n < m => n \in Batch \cup visited
    BY BusAssumption DEF Batch
  <2> QED
    BY <1>3, <2>1 DEF LoadBatch
<1>4. CASE LoadRules
  BY <1>4 DEF LoadRules
<1>5. CASE Malformed
  BY <1>5 DEF Malformed
<1>6. CASE ReserveDispatch
  BY <1>6 DEF ReserveDispatch
<1>7. CASE ReserveTrigger
  <2>1. pump' \in {[pump EXCEPT !.pc = "act"], [pump EXCEPT !.pc = "clear"],
                  [pump EXCEPT !.pc = "failed"]}
    BY <1>7, TriggerGranted, TriggerRefused
  <2> QED
    BY <1>7, <2>1 DEF ReserveTrigger
<1>8. CASE EnqueueWork
  BY <1>8 DEF EnqueueWork
<1>9. ASSUME NEW ok \in BOOLEAN, PlanGoal(ok) PROVE Examined'
  BY <1>9 DEF PlanGoal
<1>10. CASE CompleteDispatch
  BY <1>10 DEF CompleteDispatch
<1>11. CASE ClearDispatch
  BY <1>11 DEF ClearDispatch
<1>12. CASE RecordSuccess
  BY <1>12 DEF RecordSuccess
<1>13. CASE RecordFailure
  BY <1>13 DEF RecordFailure
<1>14. CASE FinishEvent
  <2>1. First(pump.batch) \in pump.batch /\ \A m \in pump.batch : First(pump.batch) <= m
    BY <1>14, EventInBatch DEF FinishEvent, Shape, Round
  <2>2. \A n \in Events : start < n /\ n <= First(pump.batch) => n \in visited
    BY <1>14, <2>1 DEF FinishEvent
  <2>3. EveryEventExamined'
    BY <1>14, <2>2 DEF FinishEvent, history
  <2> QED
    BY <1>14, <2>1, <2>2, <2>3 DEF FinishEvent, history
<1>15. ASSUME NEW r \in Rules, Switch(r) PROVE Examined'
  BY <1>15 DEF Switch
<1>16. CASE Tick
  BY <1>16 DEF Tick
<1>17. CASE Crash
  BY <1>17 DEF Crash
<1>18. CASE UNCHANGED vars
  BY <1>18 DEF vars, rulesVars, history
<1> QED
  BY <1>1, <1>2, <1>3, <1>4, <1>5, <1>6, <1>7, <1>8, <1>9,
     <1>10, <1>11, <1>12, <1>13, <1>14, <1>15, <1>16, <1>17, <1>18 DEF Next, PumpStep

-----------------------------------------------------------------------------
(***************************************************************************)
(* The inductive invariant.                                                *)
(***************************************************************************)
BusInv == Shape /\ Reserved /\ Examined

(***************************************************************************)
(* An empty database satisfies the inductive invariant.                    *)
(***************************************************************************)
LEMMA InitBusInv == Init => BusInv
<1> SUFFICES ASSUME Init PROVE BusInv
  OBVIOUS
<1> USE BusAssumption DEF Init, Resting
<1>1. BusTypeOK
  <2>1. log \in Seq(Kinds) /\ Len(log) = 0
    OBVIOUS
  <2>2. \A r \in Rules : triggers[r] <= MaxTriggers[r]
    OBVIOUS
  <2>3. /\ plans \in [Pairs -> Nat] /\ dispatch \in [Pairs -> {"none", "reserved", "completed"}]
        /\ enabled \in [Rules -> BOOLEAN] /\ failures \in [Rules -> Nat]
        /\ triggers \in [Rules -> Nat] /\ windowLeft \in [Rules -> 0..Window]
    OBVIOUS
  <2>4. pump \in [pc : Pcs, batch : SUBSET (1..Len(log)), rules : SUBSET Rules,
                 handled : BOOLEAN, planFailed : BOOLEAN]
    BY DEF Pcs
  <2>5. /\ cursor \in 0..Len(log) /\ start \in 0..cursor /\ Len(log) <= MaxEvents
        /\ switches \in 0..MaxSwitches /\ crashes \in 0..MaxCrashes
    BY <2>1
  <2>7. subscribed \in BOOLEAN
    OBVIOUS
  <2>6. worked \subseteq Pairs /\ owed \subseteq Pairs /\ visited \subseteq 1..Len(log)
    OBVIOUS
  <2> HIDE DEF Init, Resting
  <2> QED
    BY <2>1, <2>2, <2>3, <2>4, <2>5, <2>6, <2>7 DEF BusTypeOK
<1>2. Round
  BY DEF Round
<1>3. Reserved
  BY DEF Reserved
<1>4. Examined
  BY DEF Examined, EveryEventExamined, Events
<1> QED
  BY <1>1, <1>2, <1>3, <1>4 DEF BusInv, Shape

(***************************************************************************)
(* Every reachable state has the inductive invariant.                      *)
(***************************************************************************)
THEOREM BusInvariant == Spec => []BusInv
<1>1. BusInv /\ [Next]_vars => BusInv'
  BY StepTypes, StepRound, StepReserved, StepExamined DEF BusInv, Shape
<1> QED
  BY <1>1, InitBusInv, PTL DEF Spec

(***************************************************************************)
(* Types; among them, no rule's trigger count passes its limit in a        *)
(* window, and the cursor never passes the end of the log.                 *)
(***************************************************************************)
THEOREM BusTypeCorrect == Spec => []BusTypeOK
<1>1. BusInv => BusTypeOK
  BY DEF BusInv, Shape
<1> QED
  BY <1>1, BusInvariant, PTL

(***************************************************************************)
(* A goal is planned at most once for an event, however often the event is *)
(* read again and wherever the process crashed.                            *)
(***************************************************************************)
THEOREM NoDoublePlan == Spec => []PlannedAtMostOnce
<1>1. BusInv => PlannedAtMostOnce
  BY DEF BusInv, Reserved, PlannedAtMostOnce
<1> QED
  BY <1>1, BusInvariant, PTL

(***************************************************************************)
(* The cursor passes no event whose rules were not looked up.              *)
(***************************************************************************)
THEOREM NothingPassedUnseen == Spec => []EveryEventExamined
<1>1. BusInv => EveryEventExamined
  BY DEF BusInv, Examined
<1> QED
  BY <1>1, BusInvariant, PTL
=============================================================================
