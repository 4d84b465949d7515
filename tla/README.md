# OPCOS: a TLA+ model of its durable, autonomous core

OPCOS is a desktop application (Rust, Tauri) that runs coding and operations
agents. A user talks to an agent in a *session*. Beside that, the program works
by itself: goals are planned into work items, events trigger rules, a runner
claims work items and runs agent turns for them, and agents act on the outside
world. What must hold when several of these run at once, when a process dies or
when an answer is late is decided by a few tables of one SQLite database and by
the loops around them. That is what these modules model.

Line numbers refer to `src/crates/opcos-store/src/lib.rs` (store),
`src/src-tauri/src/main.rs` (main) and `src/src-tauri/src/work_runner.rs`
(runner) unless a file is named.

## Inventory

| Component | State | Operations | Modelled |
|---|---|---|---|
| Work queue (store 3643-4183) | `work_queue`, `work_queue_progress` | enqueue, claim, renew, rebind, save progress, complete, cancel, requeue, approve, hold | `WorkQueue`, `LeasedWork` |
| Work runner (runner) | permits, one task per claimed row, the session's unattended flag | poll, guard, rebind, select between turn and heartbeat, disposition | `WorkRunner` |
| Event bus (store 2962-3441, `event_bus.rs`, main 5509-5566) | `events`, `event_cursors`, `event_rules`, `event_dispatches` | publish, read after the cursor, reserve, trigger, plan or enqueue, acknowledge | `EventBus` |
| Action ledger (store 2653-2851, callers in main) | `action_ledger` | begin, act, finish, publish the failure | `ActionLedger` |
| Goals and planner (store 3461-3640, main 5236-5502) | `goals`, one run at a time per goal | call, check limits, plan in a turn, enqueue and hold, record, pause | `GoalPlanner`, `GoalApproval` |
| Engine (`opcos-engine/src/lib.rs`, "engine" below) | `turn_active`, interrupt and steering in memory; transcript, tool calls, pending rows, run state in the store | begin and finish a turn, run the calls of a message, park for the user, resolve, steer, interrupt, resume after restart | `Engine` |
| Desktop sessions (main) | map of live engines, message numbers, run and sleep state | submit, resolve, wake, restart, capability recheck, idle sleep | `Session` |
| External ingress (`external_ingress.rs`) | one row per source: target, cursor, initialized, backoff and breaker | save, enable, delete, poll by the loop or by hand, publish | `Ingress` |
| CI repair loop (`ci_repair.rs`) | its progress row and budget | diagnose, repair, push, wait for CI, stop | its queue writes, in `WorkRunner` |
| Orchestration board (`orchestration.rs`) | board tasks in memory | dispatch, lease, report | no |
| Policy, scheduler, hosts, MCP/ACP/LSP, providers, assets, evaluation, front end | little of their own, or none that survives | classification, adapters, views | no |

How they interact. Everybody shares the store; a store call is one transaction
under the connection's mutex, hence one atomic step, and everything between two
calls may be interleaved with everything else. Planner, event rules, agents and
the user *enqueue*; the runner *claims* and submits a turn to an engine, which
refuses it if one is running (`turn_active`); the agent inside the turn calls
back into the queue (`work_queue_complete`) under the session's name, which is
why the runner *rebinds* the lease from itself to the session. Dead letters,
failed actions and paused goals are *published* as events, which rules turn
into work again.

Hard behaviours, in the order of what goes wrong most quietly: leases that end
while their holder is still busy; two runs of one row in one session under one
owner name; a turn whose future is dropped where it stands; values read before
an await and used after it (unattended flag, row status, in-flight count, a
source's cursor, the other pending calls of a message); an engine that is torn
down while a command is on its way to it; two counters for the numbers of one
table; a crash between a tool call and its result; reservations left behind by a
crash; acknowledgements that cover more than was
handled; late results recorded for someone else's attempt. `PROJECT.json` lists
them, each at its line, as hazards.

What makes each component correct:

* queue: only the current lease holder writes; retries are bounded; settled rows
  stay settled; ready rows are served;
* runner: one writer per row; every row settles and every permit returns;
* event bus: nothing passed over unseen, nothing planned twice, no single rule blocks
  it for ever, nothing acknowledged that failed;
* ledger: an external action happens at most once per key, and its record is true;
* planner: limits hold, nothing runs that was only proposed;
* engine: nothing that needs the user runs without an approval of its own, no side
  effect happens twice, no call of a message is forgotten, recovery tells the
  truth about what it has a marker for, every turn ends and none leaves the session
  "running";
* sessions: commands that race for an engine end up in one, a session is not put to
  sleep over work, an answer comes after its question;
* ingress: the cursor never passes an event that was not published, old events are
  not reported, new ones are in the end.

## Modules

**WorkQueue** keeps a function per column over `Items`. Times are kept relative
to now: `leaseLeft` is `lease_until - now` and `runAfter` is `run_after - now`, so
the clock is the action `Tick`. Every store function is one action with the
guards of its SQL; `Holds` is the `WHERE` clause the fenced statements repeat.
`Claim` first buries spent rows, then takes the row due longest, as the
transaction does. `QueueNext` lets any worker name call anything with any
generation ever handed out: that is what an agent's tools can do. `approvals`,
`pastApprovals` and `requeues` are history variables for the retry bound.

**LeasedWork** is what the queue promises, without leases, clocks or owners:
each run gets a number, numbers are used once and in order, at most one is
valid, only a valid one records success, an operator may cancel, and only what
was given up is reopened. `ImplementsLeasedWork` instantiates it with "the
authority is the generation while the lease has time left".

**WorkRunner** composes the queue with its real callers: a task per permit with
a program counter through `run_item`, a session's engine (`turnActive`), the
session's user, an operator, and a crash that loses tasks and engines but not
the database. The agent reports under the session's name and the generation it
was told. A refused renewal (`LoseLease`) leaves the turn where it stands, as
`tokio::select!` does.

**EventBus** has one pump whose every store call is a step, so publishers,
switches, the clock and a crash come between any two. An event is its position
in the log. The rule that failed, the event's `handled` flag and the order of
rules are kept because the acknowledgement depends on them. A planner run is
an awaited call that succeeds or fails. Whether the item of an enqueueing rule is
refused depends on the rule alone (store 3654-3673), hence the constant `Refused`.

**ActionLedger** has rows named by idempotency key and calls that begin, act
and finish. The callers differ only in what they do when told
`PreviouslyFailed`: git_push and pull requests refuse, login-state and
computer-use calls go on, agents with the ledger tools go on and also publish
the failure. An action that returned an error may have happened.

**GoalPlanner** follows each caller of `run_goal_planner` through the function, one
store call per step: the key in `trigger_runs` (`planning`), dead letters, the
limits, the in-flight count it keeps in a local, the turn, the steps one by one,
the round's record. Rows are seen by their status only; `Claim`, `Settle`,
`Approve`, `Cancel` and `Requeue` are what the rest of the program does to them
(`WorkQueue` says when it may). `cadenceLeft` is what is left of
`cadence_seconds` since `last_planned_at`, `rounds` counts the rounds on record by
their age. `requeues` and `reactivated` are history variables.

**GoalApproval** adds to it the history of what the operator let through.

**Engine** is one session's `TurnEngine`. A task is one call of an engine method (a
turn, a resume after a restart, the resolution of a pending row) and takes a
step for each await or store call that another task could observe: the order of
marking a call, running it and storing its result is what recovery lives on.
The transcript is reduced to one assistant message with tool calls (`batch`) and
the results that follow it. A call is its id, so a message has it once. The lists
`execute_tools` and the resolutions go through are sets (`todo`, `reads`, `held`): the
next call of `todo` is the one that comes first in the message (`Next1`), as in the
loop over `calls`. `pending` is the row of each call, `marked` its
`dispatch_attempted`. `turnActive` is claimed by turns only: resolutions neither
claim nor test it, so tasks may overlap, and `overlap` records that they did.
`ran`, `approved` and `verdict` are history: what ran, what the user allowed and
what recovery said of it. `rows` are the calls whose `tool_calls` row is under the
message's sequence: none when a steering message got between the assistant
message and the reading of that sequence, and the reads that recovery retries.
Not every call gets a marker: scripts and messages to the user return from
`execute_tool_once` before it (engine 4493-4503), the controls of a recording from
`execute_tool_streaming_for_sequence` (5091). They are the constant `Unmarked`. A
resume decides once what it may retry (`Recover`), stores one result after the
other for the rest (`Persist`), then adds the rows of what it retries (`Retry`): a
crash may fall between any two of them.

**Session** has the commands of one session: a submit reads the next number of
`messages` and stores the user's message under it in a second store call (`Number`,
`Accept`), which fails if another got it first; each command finds the live engine or
builds and inserts one, may run a turn in it, and finishes. An engine has the name of
the command that built it. Idle sleep (check, then teardown over awaits), a wake that
fails, a restart, a capability recheck that unlists an engine in use, and a crash come
between any two steps. `messages` and `notices` are the numbers in use;
`counter` is the engine's own. `broken`, `raced` and `mixed` are history: an engine
was lost while in use, a session was put to sleep under a command, an engine
wrote while another one's counter was in hand. Properties that these cases break
are stated without them, and the README says so under "Known disagreements".

**Ingress** is one source with the polls of the loop and of the user. A poll reads the
row, asks the upstream, publishes item by item and writes the row back from what
it had read. Ids are numbers that are compared as the strings they are in the
code (`Before`). A page, and what of it is left to publish, are sets: their order is
that of the ids. The loop is `away` while it sleeps or polls its other sources. A feed
may answer with nothing that can be read (`Unreadable`): its poll reports no item and
writes a cursor that is no id. `baseline`, `overflowed` and `late` are history.

`MC*` modules give small values to the constants (the goal's modules take theirs
straight from the `.cfg`); each `.cfg` is one question.
`*Proofs` modules hold the proofs. Definitions marked "mutant" are
plausible slips of the code next to the definition they would replace; each
property is violated when its mutant is put in place.

## Runs

| Run | Checks | Shows |
|---|---|---|
| `queue` | `TypeOK` `ClaimBudget` `LapsedStaysLapsed` `SettledStays` `ImplementsLeasedWork` `ReadyIsServed` | unrestricted callers cannot write without the lease, exceed the retry budget, revive a settled row or starve a ready one |
| `runner` | `RunnerTypeOK` `OneWriter` `FinishedRunIsHarmless` `RunningSettles` `PermitsReturn` | overlapping runs of one row never both write, late runs change nothing, every row settles, every permit comes back |
| `events` | `BusTypeOK` `PlannedAtMostOnce` `EveryEventExamined` `EventsDrain` | no double planning and no event passed unseen through failures, rate limits and a crash; an event is acknowledged in the end unless two enqueueing rules reset each other's failure counts without end |
| `ledger` | `PushedAtMostOnce` `SuccessHappened` `NoFailureSwallowed` `SuccessIsFinal` | at most one push per key, no false or undone success, no failure event lost to deduplication |
| `planner` | `PlannerTypeOK` `InFlightBounded` `FailingGoalPauses` `BeginsWithinLimits` `PlanningResumes` | competing callers, a count taken before an awaited turn, status changes and crashes do not break a goal's limits, a failing goal pauses, and planning always comes back |
| `engine` | `EngineTypeOK` `NeverUnapproved` `OnceWhenSerial` `NoCallForgotten` `HonestRecovery` `NoneLeftRunning` `ResolvedStays` `EveryTaskEnds` | whatever overlaps and wherever the process dies, a guarded call runs once per approval and the session is not left running; while callers keep the methods apart, no side effect is repeated, no call left without an answer, and recovery does not lie about a call that carries a marker; every task ends |
| `session` | `SessionTypeOK` `OneTurnAtATime` `NotLeftRunning` `SleepsQuietly` `AnswersFollow` | commands that race for a number and for the engine with sleep, failing wakes, restarts and a crash run one turn at a time, and an answer's number follows its question's |
| `ingress` | `NothingSkipped` `OnlyNews` `EventuallyReported` | polls that overlap, fail half way and write old cursors back neither skip an event nor report the past, and new events are reported in the end unless the loop waits for an answer for ever |
| `runner_orphan` (violated) | `NoOrphanTurn` | after a refused renewal the engine says a turn is active for ever |
| `event_ack` (violated) | `FailedEventsAreKept` | acknowledging a later event drops an earlier one that failed |
| `planner_propose` (violated) | `ProposedWaitsForApproval` | the runner works on a proposed step before it is held |
| `session_second_turn` (violated) | `RecordedTurnRuns` | a message sent to a session whose engine is live gets the number the engine is about to use, and the answer cannot be stored |

The violated ones are disagreements between the code and its own documents,
tests or messages; `PROJECT.json` quotes both sides under "findings".

### Bounds, and why they are enough

* `queue`: two rows with budgets of one and two attempts, two workers, leases of
  one tick, one approval and one requeue per row. Two rows give an order of due
  times and a claim that buries one row while it takes another; budgets 1 and 2
  give both a first failure that is final and one that is not. `Aging = 0`: how long
  a row has been overdue is not told apart, so every tie of the due order is
  explored both ways. Both rows have no `dedup_key`; with equal keys the second
  row would only be absent.
* `runner`: one row, of any kind (in a user's session or without one, repair or
  not), two permits, one crash, one approval. Two runs of one row are the
  interesting case; runs of different rows share only the session's engine,
  which the user's turns stand for. `Requeue` and the unfenced `Hold` belong to
  the queue's run.
* `events`: two events and five rules: a planning and an enqueueing one match one
  kind, two enqueueing ones match another (the second kind shares a rule with the
  first), a malformed one and one whose item is refused a third. One trigger per
  window of one tick, failure limit 2, one switch by the user, one crash. Two events
  are one batch, so that the second can be acknowledged past the first, and a success
  on one event can reset the failures of a rule that keeps the other.
* `ledger`: one key per kind of caller, two calls at a time, three attempts, one
  loss (crash or cut-off call). Two calls give a late finisher and its
  successor, three attempts give a successor of the successor.
* `planner`: a proposing goal, three steps for a room of two (so that an answer can
  be too long, and too long only because of what is in flight), two callers, one
  round per hour with a cadence and an hour of one tick each, failure limit 2,
  and two disturbances out of calls by the user, changes of status, requeues and
  crashes. Two failures are the limit and a third comes after a
  reactivation. An executing goal skips the hold and has fewer behaviours; the
  theorems cover it. A tick is a period of the planner's loop. The calls between
  the reading of the clock and the turn are synchronous and take no time; the
  turn takes any.
* `planner_propose`: one step and no disturbance at all.
* `engine`: a message with a read, a guarded call and a write in this order, or one
  with a script, which runs unmarked, and a question; two tasks at a time out of three called, one steering message,
  one crash. The read is deferred, the guarded call pauses the batch and the write
  is parked behind it, so that each list of `execute_tools` is in use. Three calls
  are a turn, a resolution and either the resume after a crash or a second
  resolution of the same row.
* `session`: two submits and one more command that is a resolution, a wake or a
  restart, one teardown, one crash. Two submits compete for building the engine and
  for its turn while the third command resolves, wakes or restarts. The submits are
  interchangeable, hence the symmetry (no liveness is checked there).
  `session_second_turn` calls the same commands one after another, with neither
  teardown nor crash. Two submits are enough for both to read the same number.
* `ingress`: a repository and a feed, three events with the ids 97, 98 and 99 of
  which one is of no reported kind, two to a page (so that one can leave it), one
  edit, one poll by hand and one failure, unreadable answer or crash. The edit may aim the source
  elsewhere, disable or delete it while polls are under way.

`CHECK_DEADLOCK FALSE` is set where the bounds let the system stop: in `events`
when all events that may be published are drained, in `ledger` when every key
has succeeded or used its attempts, in `engine` and `session` when the commands are
used up, in `ingress` when a source was deleted and nothing is left to happen. The runs over queue, runner and
planner keep deadlock checking on: time always passes.

### Fairness

* `queue`: weak fairness of `Tick` and of claiming: the runner's loop claims
  whenever a permit is free (runner 97-156). Nothing is promised of holders.
* `runner`: weak fairness of the clock, of polling, of each task's own steps (the
  async runtime schedules every task) and of the end of a turn (the engine
  bounds its iterations and its streams' idle time). An agent need not
  report, a user need not act, an operator need not approve.
* `events`: weak fairness of the pump: its loop never ends (main 30432-30440) and the
  planner run it awaits does. Rules, publishers, users and the clock owe nothing:
  the excuse of `EventsDrain` is a behaviour of the code, not a gap in the fairness.
* `planner`: weak fairness of the clock, of the loop's call (its interval elapses
  again and again, main 30418-30431) and of each round's own steps: they are
  statements of one async function, and the engine bounds the turn. Runner,
  operator and user owe nothing.
* `engine`: weak fairness of each task's own steps. Between two of them is a store
  call, a provider's stream, which ends at the latest by the chunk idle timeout, or
  a tool, which returns or is interrupted. Users, models and steering owe nothing; the
  model is not obliged to ask for tools.
* `ingress`: weak fairness of the loop's listing, once it is back, and of the steps it
  takes without waiting for anybody, from the answer to the write-back. Its clients
  set no timeout (external_ingress.rs 18-21, 125-128), so nothing obliges an answer
  to come, neither that of this source nor those of the sources between two listings:
  `EventuallyReported` excuses a loop that waits for ever (`Waiting`). Upstreams, users
  and polls by hand owe nothing.
* `session` checks no liveness and assumes no fairness.

## What is proved

For every value of the constants, `tlapm` checks:

* `WorkQueueProofs`: `TypeCorrect`, `OwnerIffRunning`, `RetryBudget`, `Fencing`,
  `SettledIsFinal`, `QueueImplementsPromise`. The retry bound `ClaimBudget` is not
  inductive: a claim of a *ready* row does not look at `attempts`. Its strengthening
  `EpochBudget` says that a ready row has an attempt to spare, counting approvals,
  and relates the generation to the attempts of the current lifetime. Fencing,
  finality and the refinement follow from one lemma, `EveryRowSteps`, which says
  which of six abstract things a step may do to a single row.
* `EventBusProofs`: `BusTypeCorrect`, `NoDoublePlan`, `NothingPassedUnseen`. The
  first needs the shape of a round (`Round`); no double planning needs that a planner
  runs only under a row reserved for that very run (`Reserved`); the last needs that
  everything before an event of the batch was examined or is still in the
  batch (`Examined`), and that a batch has a least event (`FirstIsLeast`, from the
  well-foundedness of the naturals).
* `ActionLedgerProofs`: `LedgerTypeCorrect`, `AtMostOnePush`, `NoFalseSuccess`,
  `SuccessStands`, `EveryFailureHeard`. The invariant `OnePusher` says that only the call that inserted
  the row ever acts on a push, and acts once; `Witnessed` that whoever is about
  to record success has acted.
  `EveryFailureHeard` rests on `EachOnce`: an attempt whose failure was recorded is
  over, so the next failure under the key has another number, and the published
  numbers can be counted.
* `GoalPlannerProofs`: `InFlightLimit`, `LimitsHoldAtTurn`, `FailuresPause`,
  `PlannerTypeCorrect`. The last covers all of `PlannerTypeOK`: `RoundsInHour` says that
  `Tick` drops a round once it is past the hour and that only the end of a round
  records one, under an age it has carried since it began. `InFlightBounded` is not inductive: `RoomKept` says that the
  count kept in a local still bounds what is open, and that the steps to be
  enqueued fit beside it; it stands on `OnePlanner` (the key keeps the callers
  apart) and on `OneRowChanges` (a change of one row opens at most one).
  `StillAllowed` carries the limits from the check to the beginning of the turn.
* `WorkRunnerProofs`: `RunnerTypeCorrect`, `RunnerUsesTheQueue`,
  `OverlappingRunsHaveOneWriter`, `FinishedRunsAreHarmless`. Every step of the runner is
  a step of the queue or leaves the queue alone (`QueueSeesItsOwn`), so a behaviour of
  the runner is one of `QueueSpec` and all the queue's theorems hold of it. On top of
  that, `Numbered` says that the runs of a row carry different numbers, none beyond
  the row's own, and `Reported` that a run that reported has lost its lease;
  both use that a row's number only grows and a lapsed one stays lapsed
  (`RowsOnlyGrow`, from `EveryRowSteps`).
* `SessionProofs`: `SessionTypeCorrect`, `TurnsExcludeEachOther`, `RunningIsReplaced`,
  `AsleepIsQuiet`, `AnswersComeAfter`, each `OneTurnAtATime`, `NotLeftRunning`,
  `SleepsQuietly` and `AnswersFollow` in this order for any number of commands. The types
  need that the numbers in use are bounded (`Bounded`), or there would be no next
  one. `Claims` says who holds an engine's claim, `Underway` what each place in a command
  implies for the run state, `Places` and `Quiet` what a sleeping session may still
  have, and `Numbers` relates every engine's counter to the tables.
* `EngineProofs`, whatever overlaps: `EngineTypeCorrect`, `GuardedCallsAreApproved`,
  `TasksCloseTheSession`. The types need `Placed`: a task works on calls of the message
  only, and a list that is not empty has a next call (`NextIsOne`, from the
  well-foundedness of the naturals). The approvals need to be counted: the
  executions of a call plus the tasks that have taken its row and not yet run it
  (`Spending`) never exceed its approvals (`Covered`).
* `EngineProofs`, while callers keep the methods apart: `NothingHappensTwice`,
  `RecoveryIsHonest`, `CallsAreRemembered`, `ResolutionsStay`. None of the four
  properties is inductive; they follow from one invariant, `Serial`. `Apart` says that
  at most one task is under way. `Hand` are the calls it still has to answer, and `Known`
  says that every call of the message has a result, waits in a row, or is in that hand,
  unless a crash emptied it. `Kept` says that the calls in hand have no result and those
  not begun have not run; `InBatch` and `InResolution` say what their rows may be at each
  place in `execute_tools` and in a resolution; `Answers` that a resumed turn holds
  everything unanswered. `Sound` relates result, row, marker, execution and verdict of a
  call: it is where the order mark, run, record matters. `SerialStep` goes through
  the steps of a task one by one; `SerialCall` and `SerialKept` do the calls of methods, the crash and the rest.
* `IngressProofs`: `IngressInvariant`, `NoEventIsSkipped`, `OnlyNewsIsReported`. A poll's
  write-back carries a cursor read before its awaits, so the invariant speaks of what every
  poll has in hand: `PollCarries` says that the cursor it will write has nothing untold
  behind it, given what it will have published by then, and is beyond what happened before
  the row was aimed; `RowCarries` says the same of the row. `OneLength` turns string order
  into number order up to the first id of another length, and `GreatestExists` gives
  a page its first item. What is excused (late writes, overflows, longer ids) is excused
  exactly as in the properties.

The theorem about an abstract promise is `QueueImplementsPromise`, and by
`RunnerUsesTheQueue` the runner keeps that promise too.

The assumptions are those named in the modules: constants have their types, a message
names no call twice (the id is the key of its rows), lease
lengths and attempts lie in the ranges the store validates, placeholders differ
from values, tasks and commands are finitely many. The bounds on crashes,
requeues and so on are arbitrary numbers.

Only model-checked:

* all liveness (`ReadyIsServed`, `RunningSettles`, `PermitsReturn`, `EventsDrain`,
  `PlanningResumes`, `EveryTaskEnds`, `EventuallyReported`), which is out of the
  prover's reach;
* the four violated properties, which are false.

Every invariant and every action property of the passing runs is a theorem.

A remark on form. tlapm 1.4.5 gives its SMT backend `[f EXCEPT ![t].a = x, ![t].b = y]` as
if the two indices differed, and then proves what does not follow. Records that
change in several fields are therefore updated as
`[f EXCEPT ![t] = [@ EXCEPT !.a = x, !.b = y]]` in every module, all proofs are checked
in that form, and lemmas that name the fields (`Becomes` and the lemmas on it) carry
the updates into the longer proofs.

## What the models leave out

* Payloads, error texts, redaction, SQL errors (a store that is locked makes a rule or
  a submit fail once more) and a full disk. A store call
  either does what it says or is refused by its conditions.
* The user's own switching of the unattended flag during a run.
* `cause_depth` and the deduplication of published events: an event of `EventBus` is
  one that was inserted.
* The lookup of an existing pull request before creating one: it can only turn a
  creation into a success without an effect of its own.
* An agent is taken to report honestly to `action_ledger_finish`, and to finish what
  it began; nothing in the code compels it.
* Rows enqueued by other producers whose payload names a goal: they count as in
  flight and no limit stops their producers. The events a pausing goal publishes.
* Wall-clock adjustments: ticks only go forward.
* In the engine: the calls a script makes in its turn (the script is one call), what a
  failing marker write does, and messages to the user beyond their being unmarked;
  compaction, hooks, subagents, usage limits, plans, checkpoints, and
  everything of a stream but whether it ends in text, tools or failure. A provider that
  gives two calls of a message one id (their rows would be one). A second
  assistant message with tools in one run: each begins as the first does.
* In the session: deleting, archiving, forking and rewinding, and what happens inside
  a turn (`Engine` has it).
* In ingress: intervals, backoff and breaker (a poll may begin at any time, which has
  every behaviour a delay allows), several sources (they share only the event log)
  and the parsing of what is fetched.
* Adapters, providers, hosts, policy classification, assets, evaluation and the
  front end: input and output or pure functions, with tests of their own.

## Known disagreements without a run

Met while modelling; each is either excused in a property by a named history variable
or lies beside what the properties are about.

* Two overlapping runs of a user's session leave it unattended: the second reads the
  flag the first one set and restores it (runner 168-180). The test
  `reused_session_unattended_value_is_restored_on_guard_drop` (runner 673) covers one
  guard only.
* The progress row can be written only by the worker and generation that wrote it
  first (store 3897), so the holder of a later generation is told "lease is missing,
  expired, or owned by another worker" (store 3911) although the lease is its own. The
  run gives up; its row is claimed again once the lease has lapsed.
* `disposition_after_turn` (runner 84) looks for `completed`, which the queue never
  stores: success is `succeeded`. A run that succeeded is judged Failed; its
  row is settled by then and the write is refused (`FinishedRunIsHarmless`).
* A push refused as "previously failed" has put its row in flight again (main 2583):
  nobody performs it, and the next call is told "still in flight" (main 2580).
* `resolve_approval` and `resolve_pending_input` do not claim `turn_active`. Two that
  overlap on calls of one message read each other's rows before they act and open a
  resolved one again; "重复处理是幂等的，第一次解决结果保留" (docs/03-lifecycle.md
  147-148) then does not hold. `ResolvedStays` excuses `overlap`.
* Idle sleep looks at pending approvals only; docs/03-lifecycle.md 51-54 names
  questions as well. `SleepsQuietly` speaks of approvals.
* A steering message that arrives after `finish_turn` has taken the waiters is never
  answered; docs/02 line 111 promises a `turn_done` on every path.
* After a crash recovery says `dispatch_attempted: false` of calls that may have happened:
  of allowed scripts, messages to the user and recording controls, which run before
  the marker is written (engine 4493-4503, 5091), and of calls whose row was stored
  under another message's sequence (engine 3758). `HonestRecovery` leaves out the first
  (`Unmarked`) and the second (`rows`).
* Two submits that read the same number before either stores its message (engine
  1063-1086): the second is refused by the primary key and ends in an error, its
  message is lost.
* Two enqueueing rules on one kind can keep an event for ever: with other events of
  that kind about, each is refused by its rate limit where the other succeeds, and a
  success sets the count of failures back to zero (store 3431), so neither reaches its
  limit. `EventsDrain` excuses two rules that do this, and nothing else.
* A capability recheck takes an engine with a running turn out of the map (main
  12449); the next command builds a second one. `OneTurnAtATime` excuses `broken`.
* A restart of a sleeping session leaves it asleep with a runtime. `SleepsQuietly`
  excuses a restart's.
* Ingress: the loop polls all sources one after another with clients that set no timeout;
  one upstream that accepts a request and never answers stops them all, until the
  program is restarted. `EventuallyReported` excuses `<>[]Waiting`.
* Ingress: a poll that began before the source was aimed anew or initialized writes its
  old cursor over the new one (`late`), and events before it are lost. Ids are compared
  as strings, so GitHub's events stop when ids get longer (`Rolled`). Events beyond one
  page are lost (`overflowed`). The test
  `external_ingress_target_changes_reset_cursor_but_interval_changes_do_not` (store
  9569) changes a target with no poll under way.
* The desktop never calls `resume_pending_turn`: after a crash a turn goes on only when
  the user sends something.

## Not modelled, and what could follow

* The repair loop's own budget and its poller (`ci_repair.rs`): next candidate, composed
  with the progress row of `WorkQueue`.
* The orchestration board (`orchestration.rs`): leases and dispatch limits in memory,
  under one mutex and without survival over restarts; its interleavings are few.
* MCP, ACP and LSP bridges: request correlation and reference counts of servers could be
  modelled; framing and schemas could not.
* The composition of queue and event log (`queue.dead_letter` and `goal.paused` are
  published under one key per row or reason, see the hazards).
* Policy and scheduler are pure functions of strings and timestamps with tests of
  their own; hosts, providers, assets, evaluation, traces and the front end are input and
  output. Most of the repository's lines are of this kind, or wiring of commands,
  so the share of lines the modules stand for stays small; they stand for the
  part whose correctness depends on order, overlap and failure.
* To prove next: that `Engine`, while methods are kept apart, implements an abstract
  promise of a call (asked, perhaps waiting, run at most once, answered once), from `Serial`.
