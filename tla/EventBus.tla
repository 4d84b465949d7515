------------------------------ MODULE EventBus ------------------------------
(***************************************************************************)
(* The durable event bus: the event log with the cursor of its one         *)
(* consumer, the rules with their rate limit and failure count, and the    *)
(* pump that every five seconds reads the events after the cursor and      *)
(* dispatches each to the rules that match it.                             *)
(*                                                                         *)
(* Each step of the pump is one store call (or the planner run it awaits), *)
(* so publishers, the user's switches, the clock and a crash come between  *)
(* any two of them.  An event is its position in the log: publish_event    *)
(* numbers events without gaps under the connection mutex, and a duplicate *)
(* dedup_key adds nothing.                                                 *)
(***************************************************************************)
EXTENDS Naturals, Sequences

CONSTANTS
  Kinds,         \* event kinds
  Rules,         \* rule ids, in the order load_event_rules returns them
  Matches,       \* the kinds each rule's kind_pattern matches
  Effect,        \* effect_kind of each rule, or "invalid" for a malformed one
  Refused,       \* enqueue_work rules whose item the store does not take
  MaxTriggers,   \* max_triggers of each rule
  Window,        \* window_seconds, in ticks
  FailureLimit,  \* failure_limit of each rule
  BatchSize,     \* events read per round
  MaxEvents,     \* bound: events published
  MaxSwitches,   \* bound: times the user switches a rule on or off
  MaxCrashes     \* bound: process crashes

Effects == {"enqueue_work", "plan_goal", "invalid"}

ASSUME BusAssumption ==
  /\ Rules \subseteq Nat
  /\ Matches \in [Rules -> SUBSET Kinds]
  /\ Effect \in [Rules -> Effects] /\ Refused \subseteq Rules
  /\ MaxTriggers \in [Rules -> Nat \ {0}]
  /\ FailureLimit \in [Rules -> Nat \ {0}]
  /\ Window \in Nat \ {0} /\ BatchSize \in Nat \ {0}
  /\ MaxEvents \in Nat /\ MaxSwitches \in Nat /\ MaxCrashes \in Nat

VARIABLES
  log,         \* kind of each event, by sequence number
  subscribed,  \* the consumer has a row in event_cursors
  cursor,      \* its sequence
  enabled,     \* enabled column of each rule
  failures,    \* consecutive_failures
  triggers,    \* trigger_count
  windowLeft,  \* ticks until the rule's window has passed, 0 if it has none
  dispatch,    \* event_dispatches
  worked,      \* dedup keys of the work items the rules enqueued
  pump,        \* run_event_bus_pump
  start,       \* history: the cursor's first value
  visited,     \* history: events whose rules were looked up
  plans,       \* history: successful planner runs per dispatch
  owed,        \* history: dispatches that failed last
  switches,
  crashes

rulesVars == <<enabled, failures, triggers, windowLeft>>
history == <<start, visited, plans, owed>>
vars == <<log, subscribed, cursor, rulesVars, dispatch, worked, pump,
          history, switches, crashes>>

Events == 1..MaxEvents
Pairs == Rules \X Events

First(S) == CHOOSE n \in S : \A m \in S : n <= m

Resting == [pc |-> "idle", batch |-> {}, rules |-> {}, handled |-> TRUE, planFailed |-> FALSE]

\* The event and the rule the pump is at.
Event == First(pump.batch)
Rule == First(pump.rules)
Pair == <<Rule, Event>>

At(pc) == pump.pc = pc
Goto(pc) == pump' = [pump EXCEPT !.pc = pc]
NextRule == pump' = [pump EXCEPT !.pc = "rules", !.rules = @ \ {Rule}]

-----------------------------------------------------------------------------
Init ==
  /\ log = <<>> /\ subscribed = FALSE /\ cursor = 0
  /\ enabled = [r \in Rules |-> TRUE]
  /\ failures = [r \in Rules |-> 0]
  /\ triggers = [r \in Rules |-> 0]
  /\ windowLeft = [r \in Rules |-> 0]
  /\ dispatch = [p \in Pairs |-> "none"]
  /\ worked = {}
  /\ pump = Resting
  /\ start = 0 /\ visited = {} /\ plans = [p \in Pairs |-> 0] /\ owed = {}
  /\ switches = 0 /\ crashes = 0

Publish(k) ==
  /\ Len(log) < MaxEvents
  /\ log' = Append(log, k)
  /\ UNCHANGED <<subscribed, cursor, rulesVars, dispatch, worked, pump,
                 history, switches, crashes>>

(***************************************************************************)
(* load_events_after_from_tail.  The first call places the cursor at the   *)
(* end of the log, in the transaction that reads from it.                  *)
(***************************************************************************)
BatchFromSecond ==  \* mutant: sequence > cursor + 1
  {n \in cursor + 2..Len(log) : n <= cursor + 1 + BatchSize}

Batch == {n \in cursor + 1..Len(log) : n <= cursor + BatchSize}

Subscribe ==
  /\ At("idle") /\ ~subscribed
  /\ subscribed' = TRUE /\ cursor' = Len(log) /\ start' = Len(log)
  /\ UNCHANGED <<log, rulesVars, dispatch, worked, pump, visited, plans, owed,
                 switches, crashes>>

LoadBatch ==
  /\ At("idle") /\ subscribed /\ Batch # {}
  /\ pump' = [Resting EXCEPT !.pc = "events", !.batch = Batch]
  /\ UNCHANGED <<log, subscribed, cursor, rulesVars, dispatch, worked, history,
                 switches, crashes>>

(***************************************************************************)
(* The rules enabled now that match the event.  A rule switched off later  *)
(* is still dispatched: dispatch_event looks at the copy.                  *)
(***************************************************************************)
LoadRulesMatched ==  \* mutant: an event no rule matches is not handled
  /\ At("events")
  /\ LET matching == {r \in Rules : enabled[r] /\ log[Event] \in Matches[r]}
     IN  pump' = [pump EXCEPT !.pc = "rules", !.handled = matching # {}, !.rules = matching]
  /\ visited' = visited \cup {Event}
  /\ UNCHANGED <<log, subscribed, cursor, rulesVars, dispatch, worked, start,
                 plans, owed, switches, crashes>>

LoadRules ==
  /\ At("events")
  /\ pump' = [pump EXCEPT !.pc = "rules", !.handled = TRUE,
                !.rules = {r \in Rules : enabled[r] /\ log[Event] \in Matches[r]}]
  /\ visited' = visited \cup {Event}
  /\ UNCHANGED <<log, subscribed, cursor, rulesVars, dispatch, worked, start,
                 plans, owed, switches, crashes>>

(***************************************************************************)
(* dispatch_event.  A plan_goal rule reserves its dispatch row first; one  *)
(* that is already there, whatever its status, is taken as handled.        *)
(***************************************************************************)
Malformed ==
  /\ At("rules") /\ pump.rules # {} /\ Effect[Rule] = "invalid"
  /\ Goto("failed")
  /\ UNCHANGED <<log, subscribed, cursor, rulesVars, dispatch, worked, history,
                 switches, crashes>>

ReserveIfNotCompleted ==  \* mutant: a reserved row may be reserved again
  /\ At("rules") /\ pump.rules # {} /\ Effect[Rule] = "plan_goal"
  /\ IF dispatch[Pair] = "completed"
     THEN NextRule /\ UNCHANGED dispatch
     ELSE Goto("trigger") /\ dispatch' = [dispatch EXCEPT ![Pair] = "reserved"]
  /\ UNCHANGED <<log, subscribed, cursor, rulesVars, worked, history, switches, crashes>>

ReserveDispatch ==
  /\ At("rules") /\ pump.rules # {} /\ Effect[Rule] = "plan_goal"
  /\ IF dispatch[Pair] # "none"
     THEN NextRule /\ UNCHANGED dispatch
     ELSE Goto("trigger") /\ dispatch' = [dispatch EXCEPT ![Pair] = "reserved"]
  /\ UNCHANGED <<log, subscribed, cursor, rulesVars, worked, history, switches, crashes>>

\* reserve_event_rule_trigger: refused when the rule is off or its window is used up.
Triggered(r) == IF windowLeft[r] = 0 THEN 0 ELSE triggers[r]

WithinLimitLate(r) == Triggered(r) <= MaxTriggers[r]  \* mutant: off by one

WithinLimit(r) == Triggered(r) < MaxTriggers[r]

ReserveTrigger ==
  /\ \/ At("trigger")
     \/ At("rules") /\ pump.rules # {} /\ Effect[Rule] = "enqueue_work"
  /\ IF enabled[Rule] /\ WithinLimit(Rule)
     THEN /\ triggers' = [triggers EXCEPT ![Rule] = Triggered(Rule) + 1]
          /\ windowLeft' = [windowLeft EXCEPT ![Rule] = IF @ = 0 THEN Window ELSE @]
          /\ Goto("act")
     ELSE /\ UNCHANGED <<triggers, windowLeft>>
          /\ Goto(IF Effect[Rule] = "plan_goal" THEN "clear" ELSE "failed")
  /\ UNCHANGED <<log, subscribed, cursor, enabled, failures, dispatch, worked,
                 history, switches, crashes>>

(***************************************************************************)
(* enqueue_work_item under the dedup key of rule and event: a second call  *)
(* finds the first one's row.  Whether the store takes the item depends on *)
(* the rule alone: its task type and its number of attempts.               *)
(***************************************************************************)
EnqueueWork ==
  /\ At("act") /\ Effect[Rule] = "enqueue_work"
  /\ Goto(IF Rule \in Refused THEN "failed" ELSE "succeeded")
  /\ worked' = IF Rule \in Refused THEN worked ELSE worked \cup {Pair}
  /\ UNCHANGED <<log, subscribed, cursor, rulesVars, dispatch, history, switches, crashes>>

\* run_goal_planner, awaited by the pump.
PlanGoal(planned) ==
  /\ At("act") /\ Effect[Rule] = "plan_goal"
  /\ pump' = [pump EXCEPT !.pc = IF planned THEN "complete" ELSE "clear",
                          !.planFailed = ~planned]
  /\ plans' = IF planned THEN [plans EXCEPT ![Pair] = @ + 1] ELSE plans
  /\ UNCHANGED <<log, subscribed, cursor, rulesVars, dispatch, worked, start,
                 visited, owed, switches, crashes>>

CompleteDispatch ==
  /\ At("complete")
  /\ dispatch' = [dispatch EXCEPT ![Pair] = "completed"]
  /\ Goto("succeeded")
  /\ UNCHANGED <<log, subscribed, cursor, rulesVars, worked, history, switches, crashes>>

ClearDispatch ==
  /\ At("clear")
  /\ dispatch' = [dispatch EXCEPT ![Pair] = "none"]
  /\ Goto("failed")
  /\ UNCHANGED <<log, subscribed, cursor, rulesVars, worked, history, switches, crashes>>

RecordSuccess ==
  /\ At("succeeded")
  /\ failures' = [failures EXCEPT ![Rule] = 0]
  /\ NextRule
  /\ owed' = owed \ {Pair}
  /\ UNCHANGED <<log, subscribed, cursor, enabled, triggers, windowLeft, dispatch,
                 worked, start, visited, plans, switches, crashes>>

(***************************************************************************)
(* record_event_rule_failure.  A dispatch error that leaves the rule       *)
(* switched off counts the EVENT as handled; a planner error does not.     *)
(***************************************************************************)
RuleSurvives(r) == enabled[r] /\ failures[r] + 1 < FailureLimit[r]

RecordFailure ==
  /\ At("failed")
  /\ failures' = [failures EXCEPT ![Rule] = @ + 1]
  /\ enabled' = [enabled EXCEPT ![Rule] = RuleSurvives(Rule)]
  /\ pump' = [pump EXCEPT !.pc = "rules", !.rules = @ \ {Rule}, !.planFailed = FALSE,
                          !.handled = ~pump.planFailed /\ ~RuleSurvives(Rule)]
  /\ owed' = owed \cup {Pair}
  /\ UNCHANGED <<log, subscribed, cursor, triggers, windowLeft, dispatch, worked,
                 start, visited, plans, switches, crashes>>

(***************************************************************************)
(* ack_event, for an event no rule of which failed, matched or not; an     *)
(* event that failed is left, and the round goes on to the next one.       *)
(***************************************************************************)
FinishEvent ==
  /\ At("rules") /\ pump.rules = {}
  /\ cursor' = IF pump.handled /\ Event > cursor THEN Event ELSE cursor
  /\ pump' = IF pump.batch = {Event} THEN Resting
             ELSE [pump EXCEPT !.pc = "events", !.batch = @ \ {Event}]
  /\ UNCHANGED <<log, subscribed, rulesVars, dispatch, worked, history, switches, crashes>>

-----------------------------------------------------------------------------
(***************************************************************************)
(* set_event_rule_enabled, either way; the failure count stays.            *)
(***************************************************************************)
Switch(r) ==
  /\ switches < MaxSwitches
  /\ switches' = switches + 1
  /\ enabled' = [enabled EXCEPT ![r] = ~@]
  /\ UNCHANGED <<log, subscribed, cursor, failures, triggers, windowLeft, dispatch,
                 worked, pump, history, crashes>>

Tick ==
  /\ \E r \in Rules : windowLeft[r] > 0
  /\ windowLeft' = [r \in Rules |-> IF windowLeft[r] > 0 THEN windowLeft[r] - 1 ELSE 0]
  /\ UNCHANGED <<log, subscribed, cursor, enabled, failures, triggers, dispatch,
                 worked, pump, history, switches, crashes>>

Crash ==
  /\ crashes < MaxCrashes
  /\ crashes' = crashes + 1
  /\ pump' = Resting
  /\ UNCHANGED <<log, subscribed, cursor, rulesVars, dispatch, worked, history, switches>>

PumpStep ==
  \/ Subscribe \/ LoadBatch \/ LoadRules
  \/ Malformed \/ ReserveDispatch \/ ReserveTrigger
  \/ EnqueueWork \/ \E planned \in BOOLEAN : PlanGoal(planned)
  \/ CompleteDispatch \/ ClearDispatch \/ RecordSuccess \/ RecordFailure
  \/ FinishEvent

Next ==
  \/ PumpStep
  \/ \E k \in Kinds : Publish(k)
  \/ \E r \in Rules : Switch(r)
  \/ Tick
  \/ Crash

Spec == Init /\ [][Next]_vars

(***************************************************************************)
(* The pump's loop runs for ever and the planner run it awaits ends.       *)
(***************************************************************************)
FairSpec == Spec /\ WF_vars(PumpStep)

-----------------------------------------------------------------------------
Pcs == {"idle", "events", "rules", "trigger", "act", "complete", "succeeded",
        "clear", "failed"}

BusTypeOK ==
  /\ log \in Seq(Kinds) /\ Len(log) <= MaxEvents
  /\ subscribed \in BOOLEAN
  /\ cursor \in 0..Len(log) /\ start \in 0..cursor
  /\ enabled \in [Rules -> BOOLEAN]
  /\ failures \in [Rules -> Nat]
  /\ triggers \in [Rules -> Nat] /\ \A r \in Rules : triggers[r] <= MaxTriggers[r]
  /\ windowLeft \in [Rules -> 0..Window]
  /\ dispatch \in [Pairs -> {"none", "reserved", "completed"}]
  /\ worked \subseteq Pairs /\ owed \subseteq Pairs
  /\ visited \subseteq 1..Len(log)
  /\ plans \in [Pairs -> Nat]
  /\ pump \in [pc : Pcs, batch : SUBSET (1..Len(log)), rules : SUBSET Rules,
               handled : BOOLEAN, planFailed : BOOLEAN]
  /\ switches \in 0..MaxSwitches /\ crashes \in 0..MaxCrashes

(***************************************************************************)
(* A goal is planned at most once for an event, through retries of the     *)
(* event for another rule's sake, and through a crash at any point, also   *)
(* one between the planner's success and its record.                       *)
(***************************************************************************)
PlannedAtMostOnce == \A p \in Pairs : plans[p] <= 1

(***************************************************************************)
(* No event is passed over unseen: every event between the cursor's first  *)
(* value and the cursor had its rules looked up, whatever was published    *)
(* while a batch was being worked off and wherever a crash cut it short.   *)
(***************************************************************************)
EveryEventExamined == \A n \in Events : start < n /\ n <= cursor => n \in visited

(***************************************************************************)
(* A poisoned event does not block the bus: a rule that keeps failing is   *)
(* switched off by its failure limit, and an event it failed on is then    *)
(* acknowledged.  A success on any event takes the rule's count back,      *)
(* though, so two rules that enqueue may keep an event for ever, when      *)
(* their rate limits let each succeed where the other is refused.  It      *)
(* takes two of them that go on so: nothing else keeps an event.           *)
(***************************************************************************)
Resets(r) == RecordSuccess /\ Rule = r /\ failures[r] > 0

EnqueueingPairs ==
  {p \in Rules \X Rules : p[1] < p[2] /\ \A r \in {p[1], p[2]} :
                            Effect[r] = "enqueue_work" /\ r \notin Refused}

EventsDrain ==
  \A n \in Events :
    \/ Len(log) >= n ~> cursor >= n
    \/ \E p \in EnqueueingPairs :
         []<><<Resets(p[1])>>_vars /\ []<><<Resets(p[2])>>_vars

(***************************************************************************)
(* Stated by the knowledge base the program ships, and not so.             *)
(*                                                                         *)
(* An event whose processing failed is kept for later: the cursor stays    *)
(* before it for as long as the rule that failed is on.                    *)
(***************************************************************************)
FailedEventsAreKept == \A p \in owed : enabled[p[1]] => cursor < p[2]
=============================================================================
