------------------------------ MODULE Ingress -------------------------------
(***************************************************************************)
(* One external ingress source: the poller's loop, manual polls and the    *)
(* user's edits of its row, and the events it publishes.                   *)
(*                                                                         *)
(* A poll reads the row, waits for the answer of the upstream, publishes   *)
(* item by item and writes the row back from what it had read.  Each of    *)
(* these is a step.  Delays (the interval, backoff, the breaker) are left  *)
(* out: a poll may begin at any time.  The loop polls all sources, one     *)
(* after another; while it is at the others it is away.  No request has a  *)
(* timeout: an upstream that does not answer keeps whoever asked it.  An   *)
(* id is a number whose decimal form is the upstream's string; ids grow    *)
(* and are shared by all targets.                                          *)
(***************************************************************************)
EXTENDS Naturals, FiniteSetsExt

CONSTANTS
  Repos,          \* targets polled as GitHub repositories
  Feeds,          \* targets polled as RSS or Atom feeds
  Loop,           \* the poller of the background loop
  Manual,         \* polls asked for by the user or an agent
  FirstId,        \* the first id of the upstream
  Quiet,          \* ids of GitHub events of no kind that is reported
  MaxEventsPerPoll,
  NoRow,
  MaxEvents,      \* bound: upstream events
  MaxEdits,       \* bound: edits of the row by the user
  MaxPolls,       \* bound: manual polls
  MaxFailures     \* bound: polls that fail, unreadable answers, and crashes

Targets == Repos \cup Feeds
Pollers == {Loop} \cup Manual
Ids == FirstId..(FirstId + MaxEvents - 1)

ASSUME IngressAssumption ==
  /\ Repos \cap Feeds = {} /\ Loop \notin Manual
  /\ FirstId \in Nat \ {0} /\ MaxEventsPerPoll \in Nat \ {0}
  /\ MaxEvents \in Nat /\ MaxEdits \in Nat /\ MaxPolls \in Nat /\ MaxFailures \in Nat
  /\ NoRow \notin [target : Targets, enabled : BOOLEAN, cursor : Nat,
                   initialized : BOOLEAN, epoch : Nat, since : Nat]

VARIABLES
  upstream,    \* the ids of each target's events
  row,         \* the source's row; history in it: the number of the edit that aimed
               \* it at its target, and the last id there was then
  poll,        \* the polls
  published,   \* ids in the event log, by their dedup keys
  baseline,    \* history: the newest id when the row was initialized
  overflowed,  \* history: ids that had left the page when a poll looked for them
  late,        \* history: a poll wrote back over a row aimed or initialized meanwhile
  edits, polls, failures

vars == <<upstream, row, poll, published, baseline, overflowed, late, edits, polls, failures>>
bounds == <<edits, polls, failures>>

Resting == [pc |-> "idle", seen |-> NoRow, items |-> {}, newest |-> 0]
Away == [Resting EXCEPT !.pc = "away"]
Over(p) == IF p = Loop THEN Away ELSE Resting
Listed == row # NoRow /\ row.enabled
Existing == UNION {upstream[t] : t \in Targets}
NextId == FirstId + Cardinality(Existing)
Aimed(t, enabled, epoch) ==
  [target |-> t, enabled |-> enabled, cursor |-> 0, initialized |-> FALSE,
   epoch |-> epoch, since |-> NextId - 1]
At(p, pc) == poll[p].pc = pc
Seen(p) == poll[p].seen

\* The order of strings on decimal numerals; 0 stands for no string.  Numerals of
\* one length are in the order of the numbers; others are compared padded.
Width(n) == CHOOSE k \in 1..n : 10^(k - 1) <= n /\ n < 10^k
Before(a, b) ==
  \/ a = 0 /\ b # 0
  \/ a # 0 /\ b # 0 /\ IF Width(a) = Width(b) THEN a < b
                       ELSE LET x == a * 10^Width(b)
                                y == b * 10^Width(a)
                            IN  x < y \/ (x = y /\ a < b)

-----------------------------------------------------------------------------
\* A source has been saved and enabled.
Init ==
  /\ upstream = [t \in Targets |-> {}]
  /\ row \in {Aimed(t, TRUE, 0) : t \in Targets}
  /\ poll = [p \in Pollers |-> Resting]
  /\ published = {} /\ baseline = 0 /\ overflowed = {} /\ late = FALSE
  /\ edits = 0 /\ polls = 0 /\ failures = 0

Happen(t) ==
  /\ NextId \in Ids
  /\ upstream' = [upstream EXCEPT ![t] = @ \cup {NextId}]
  /\ UNCHANGED <<row, poll, published, baseline, overflowed, late, bounds>>

\* save_external_ingress_source: another target begins anew.
Save(t) ==
  /\ edits < MaxEdits /\ edits' = edits + 1
  /\ row # NoRow => row.target # t
  /\ row' = Aimed(t, row # NoRow /\ row.enabled, edits')
  /\ UNCHANGED <<upstream, poll, published, baseline, overflowed, late, polls, failures>>

SetEnabled(enabled) ==
  /\ edits < MaxEdits /\ edits' = edits + 1
  /\ row # NoRow /\ row.enabled # enabled
  /\ row' = [row EXCEPT !.enabled = enabled]
  /\ UNCHANGED <<upstream, poll, published, baseline, overflowed, late, polls, failures>>

Delete ==
  /\ edits < MaxEdits /\ edits' = edits + 1
  /\ row # NoRow /\ row' = NoRow
  /\ UNCHANGED <<upstream, poll, published, baseline, overflowed, late, polls, failures>>

-----------------------------------------------------------------------------
(* A poll *)

ListUnfailed ==  \* mutant: a source that failed is not tried again
  /\ At(Loop, "idle")
  /\ poll' = [poll EXCEPT ![Loop] =
                 IF Listed /\ failures = 0
                 THEN [Resting EXCEPT !.pc = "loaded", !.seen = row] ELSE Away]
  /\ UNCHANGED <<upstream, row, published, baseline, overflowed, late, bounds>>

\* The loop lists the enabled sources and polls them in turn.
List ==
  /\ At(Loop, "idle")
  /\ poll' = [poll EXCEPT ![Loop] =
                 IF Listed THEN [Resting EXCEPT !.pc = "loaded", !.seen = row] ELSE Away]
  /\ UNCHANGED <<upstream, row, published, baseline, overflowed, late, bounds>>

\* The sources after this one have been polled, and the loop has slept.
Return ==
  /\ At(Loop, "away")
  /\ poll' = [poll EXCEPT ![Loop] = Resting]
  /\ UNCHANGED <<upstream, row, published, baseline, overflowed, late, bounds>>

\* poll_once asks for no permission of the row.
PollOnce(p) ==
  /\ At(p, "idle") /\ row # NoRow /\ polls < MaxPolls
  /\ polls' = polls + 1
  /\ poll' = [poll EXCEPT ![p] = [Resting EXCEPT !.pc = "loaded", !.seen = row]]
  /\ UNCHANGED <<upstream, row, published, baseline, overflowed, late, edits, failures>>

\* The page holds the newest events; its order is theirs, newest first.
Page(t) ==
  {id \in upstream[t] : Cardinality({other \in upstream[t] : other > id}) < MaxEventsPerPoll}
FirstOf(page) == IF page = {} THEN 0 ELSE Max(page)

\* The items after the cursor; a feed has none and repeats itself.
Fresh(s, page) ==
  IF s.target \in Feeds THEN page ELSE {id \in page : Before(s.cursor, id)}

\* The first poll takes the first item for its baseline and publishes nothing.
\* A feed's cursor is its first item; GitHub's the greatest id in string order.
Newest(s, page) ==
  IF ~s.initialized \/ s.target \in Feeds THEN FirstOf(page)
  ELSE CHOOSE id \in {s.cursor} \cup Fresh(s, page) :
         \A other \in {s.cursor} \cup Fresh(s, page) : ~Before(id, other)
ReportsBaseline(s, page) ==  \* mutant: the first poll reports as well
  IF s.target \in Feeds THEN page ELSE Fresh(s, page) \ Quiet

Reported(s, page) ==
  IF ~s.initialized THEN {}
  ELSE IF s.target \in Feeds THEN page ELSE Fresh(s, page) \ Quiet

Fetch(p) ==
  /\ At(p, "loaded")
  /\ LET s == Seen(p)
         page == Page(s.target)
     IN  /\ poll' = [poll EXCEPT ![p] = [pc |-> "publish", seen |-> s,
                       items |-> Reported(s, page), newest |-> Newest(s, page)]]
         /\ overflowed' = IF s.initialized
                          THEN overflowed \cup (upstream[s.target] \ (page \cup published))
                          ELSE overflowed
  /\ UNCHANGED <<upstream, row, published, baseline, late, bounds>>

\* A feed answers with nothing that can be parsed: the poll succeeds and leaves a
\* hash for a cursor, or none at first, which is no id (and publishes a rejection).
Unreadable(p) ==
  /\ At(p, "loaded") /\ Seen(p).target \in Feeds
  /\ failures < MaxFailures /\ failures' = failures + 1
  /\ poll' = [poll EXCEPT ![p] = [pc |-> "publish", seen |-> Seen(p), items |-> {},
                                  newest |-> 0]]
  /\ UNCHANGED <<upstream, row, published, baseline, overflowed, late, edits, polls>>

\* publish_event: a key that is known publishes nothing.
Publish(p) ==
  /\ At(p, "publish") /\ poll[p].items # {}
  /\ published' = published \cup {Max(poll[p].items)}
  /\ poll' = [poll EXCEPT ![p].items = @ \ {Max(@)}]
  /\ UNCHANGED <<upstream, row, baseline, overflowed, late, bounds>>

\* The row as the poll had read it: what was done to it meanwhile is undone.
WriteBack(p, cursor, initialized) ==
  /\ poll' = [poll EXCEPT ![p] = Over(p)]
  /\ row' = IF row = NoRow THEN NoRow
            ELSE [row EXCEPT !.cursor = cursor, !.initialized = initialized]
  /\ late' = (late \/ (row # NoRow /\ (row.epoch # Seen(p).epoch
                                       \/ row.initialized # Seen(p).initialized)))
  /\ UNCHANGED <<upstream, published, overflowed, edits, polls>>

Succeed(p) ==
  /\ At(p, "publish") /\ poll[p].items = {}
  /\ WriteBack(p, poll[p].newest, TRUE)
  /\ baseline' = IF Seen(p).initialized THEN baseline ELSE poll[p].newest
  /\ UNCHANGED failures

FailForward(p) ==  \* mutant: a failure keeps the new cursor
  /\ poll[p].pc \in {"loaded", "publish"}
  /\ failures < MaxFailures /\ failures' = failures + 1
  /\ WriteBack(p, poll[p].newest, Seen(p).initialized)
  /\ UNCHANGED baseline

\* The request, its parsing or a publication fails; poll_once writes nothing then.
Fail(p) ==
  /\ poll[p].pc \in {"loaded", "publish"}
  /\ failures < MaxFailures /\ failures' = failures + 1
  /\ IF p = Loop
     THEN WriteBack(p, Seen(p).cursor, Seen(p).initialized) /\ UNCHANGED baseline
     ELSE /\ poll' = [poll EXCEPT ![p] = Resting]
          /\ UNCHANGED <<upstream, row, published, baseline, overflowed, late, edits, polls>>

Crash ==
  /\ failures < MaxFailures /\ failures' = failures + 1
  /\ poll' = [p \in Pollers |-> Resting]
  /\ UNCHANGED <<upstream, row, published, baseline, overflowed, late, edits, polls>>

-----------------------------------------------------------------------------
Step(p) == Fetch(p) \/ Unreadable(p) \/ Publish(p) \/ Succeed(p) \/ Fail(p)
Edit == (\E t \in Targets : Save(t)) \/ (\E b \in BOOLEAN : SetEnabled(b)) \/ Delete

Next ==
  \/ \E t \in Targets : Happen(t)
  \/ Edit \/ List \/ Return \/ (\E p \in Manual : PollOnce(p))
  \/ (\E p \in Pollers : Step(p)) \/ Crash

Spec == Init /\ [][Next]_vars
\* The loop goes on by itself, but for the answers it waits for: its upstream's,
\* and those of the other sources.
FairSpec == Spec /\ WF_vars(List) /\ WF_vars(At(Loop, "publish") /\ Step(Loop))

-----------------------------------------------------------------------------
\* The events a source is to report, but for kinds nobody asked for, those that
\* had left the page, and all once ids have different lengths: string order then
\* puts "100" before "99" and GitHub's new events behind the cursor.
Rolled == \E id \in Existing : Width(id) # Width(FirstId)
Due(id) ==
  /\ row # NoRow /\ row.initialized
  /\ id \in upstream[row.target] /\ id > baseline
  /\ row.target \in Repos => id \notin Quiet
Excused(id) == id \in overflowed \/ late \/ Rolled

\* The cursor is never ahead of what was published: polls that overlap and write
\* older cursors back, that fail half way, and crashes lose no event.
NothingSkipped ==
  \A id \in Ids : Due(id) /\ ~Before(row.cursor, id) => id \in published \/ Excused(id)

\* What happened in a repository before a source was aimed at it is not reported,
\* by any of the polls that overlap.  (A feed's past is, from its second poll on.)
OnlyNews ==
  ~late /\ ~Rolled =>
    \A p \in Pollers : \A id \in poll[p].items :
      Seen(p).target \in Repos => id > Seen(p).since

\* An event of an enabled source is reported in the end, unless the loop waits for
\* the answer of some source for ever.
Waiting == poll[Loop].pc \in {"loaded", "away"}
EventuallyReported ==
  \/ <>[]Waiting
  \/ \A id \in Ids : Due(id) /\ row.enabled
       ~> id \in published \/ Excused(id) \/ ~Due(id) \/ ~row.enabled
=============================================================================
