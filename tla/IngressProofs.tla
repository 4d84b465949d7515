--------------------------- MODULE IngressProofs ----------------------------
(***************************************************************************)
(* Theorems about Ingress for any targets, pollers, pages and bounds.      *)
(***************************************************************************)
EXTENDS Ingress, FiniteSetTheorems, WellFoundedInduction, TLAPS

\* A set of numbers that is not empty and has a bound has a greatest number.
LEMMA GreatestExists ==
  ASSUME NEW N \in Nat, NEW S, S # {}, S \subseteq 0..N
  PROVE  Max(S) \in S /\ \A n \in S : n <= Max(S)
<1> DEFINE Down == {N - n : n \in S}
<1>1. Down \subseteq Nat
  OBVIOUS
<1>2. Down # {}
  OBVIOUS
<1>3. PICK d \in Down : \A e \in Down : ~(<<e, d>> \in OpToRel(<, Nat))
  BY <1>1, <1>2, NatLessThanWellFounded, WFMin
<1>4. PICK m \in S : d = N - m
  OBVIOUS
<1>5. \A n \in S : m >= n
  <2> SUFFICES ASSUME NEW n \in S, ~(m >= n) PROVE FALSE
    OBVIOUS
  <2>1. N - n \in Down /\ N - n \in Nat /\ d \in Nat
    BY <1>1
  <2>2. N - n < d
    BY <1>4
  <2>3. <<N - n, d>> \in {pair \in Nat \X Nat : pair[1] < pair[2]}
    BY <2>1, <2>2
  <2>4. <<N - n, d>> \in OpToRel(<, Nat)
    BY <2>3 DEF OpToRel
  <2> QED
    BY <1>3, <2>1, <2>4
<1>6. Max(S) \in S /\ \A n \in S : Max(S) >= n
  BY <1>5 DEF Max
<1> QED
  BY <1>6

-----------------------------------------------------------------------------
(***************************************************************************)
(* The ids of the upstream are the numbers from FirstId on, without gaps.  *)
(***************************************************************************)
Numbered ==
  /\ upstream \in [Targets -> SUBSET Nat]
  /\ IsFiniteSet(Existing) /\ Cardinality(Existing) \in Nat
  /\ Existing = FirstId..(NextId - 1)

\* What happens gets the next id and is behind no event.
LEMMA HappenNumbers ==
  ASSUME Numbered, NEW t \in Targets, Happen(t)
  PROVE  Numbered' /\ Existing' = Existing \cup {NextId} /\ NextId' = NextId + 1
<1>1. FirstId \in Nat \ {0} /\ NextId \in Nat
  BY IngressAssumption DEF Numbered, NextId
<1>2. Existing' = Existing \cup {NextId}
  BY DEF Happen, Existing, Numbered
<1>3. NextId \notin Existing
  BY <1>1 DEF Numbered
<1>4. IsFiniteSet(Existing') /\ Cardinality(Existing') = Cardinality(Existing) + 1
  BY <1>2, <1>3, FS_AddElement DEF Numbered
<1>5. NextId' = NextId + 1
  BY <1>1, <1>4 DEF NextId, Numbered
<1>6. Existing' = FirstId..(NextId' - 1)
  <2>1. Existing = FirstId..(NextId - 1)
    BY DEF Numbered
  <2>2. NextId >= FirstId
    BY <1>1 DEF NextId, Numbered
  <2> QED
    BY <1>1, <1>2, <1>5, <2>1, <2>2
<1>7. upstream' \in [Targets -> SUBSET Nat]
  BY <1>1 DEF Happen, Numbered
<1> QED
  BY <1>2, <1>4, <1>5, <1>6, <1>7 DEF Numbered

\* Nothing but what happens changes the upstream.
LEMMA OnlyHappenChanges ==
  ASSUME [Next]_vars, \A t \in Targets : ~Happen(t)
  PROVE  upstream' = upstream
BY DEF Next, Edit, Step, Save, SetEnabled, Delete, List, Return, PollOnce, Fetch, Unreadable,
   Publish, Succeed, Fail, Crash, WriteBack, vars

\* The ids upstream are consecutive, always.
LEMMA AlwaysNumbered == Spec => []Numbered
<1>1. Init => Numbered
  <2> SUFFICES ASSUME Init PROVE Numbered
    OBVIOUS
  <2>1. Existing = {}
    BY DEF Init, Existing
  <2>2. FirstId \in Nat
    BY IngressAssumption
  <2> QED
    BY <2>1, <2>2, FS_EmptySet DEF Init, Numbered, NextId
<1>2. Numbered /\ [Next]_vars => Numbered'
  <2> SUFFICES ASSUME Numbered, [Next]_vars PROVE Numbered'
    OBVIOUS
  <2>1. CASE upstream' = upstream
    BY <2>1 DEF Numbered, Existing, NextId
  <2> QED
    BY <2>1, OnlyHappenChanges, HappenNumbers
<1> QED
  BY <1>1, <1>2, PTL DEF Spec

-----------------------------------------------------------------------------
(***************************************************************************)
(* Up to the first late write and the first id of another length.          *)
(***************************************************************************)
Orderly == ~late /\ ~Rolled

RowType == [target : Targets, enabled : BOOLEAN, cursor : Nat, initialized : BOOLEAN,
            epoch : Nat, since : Nat]
\* A row, in the table or as a poll had read it.
Sound(r) ==
  /\ r \in RowType /\ r.cursor \in {0} \cup Existing
  /\ r.since < NextId /\ r.epoch <= edits

\* The events a row is to report, and those of them told of up to an id.
News(r) == {id \in upstream[r.target] : r.target \in Repos => id \notin Quiet}
Told(r, n, more) ==
  \A id \in News(r) : id > baseline /\ id <= n => id \in published \cup overflowed \cup more
\* An id behind which is all that happened in a repository before the row was aimed at it.
Beyond(r, n) == r.target \in Repos => \A id \in upstream[r.target] : id <= r.since => id <= n

\* The row's cursor has passed the past, and nothing was passed untold.
RowCarries ==
  row # NoRow =>
    /\ Sound(row)
    /\ row.initialized => Beyond(row, row.cursor) /\ Told(row, row.cursor, {})

\* The row is still the one the poll had read, but for its cursor.
Current(p) == row # NoRow /\ row.epoch = Seen(p).epoch

UnderWay(p) == poll[p].pc \in {"loaded", "publish"}

\* What a poll had read, and what it has fetched, will do as the row's cursor.
PollCarries(p) ==
  /\ ~At(p, "publish") => poll[p].items = {}
  /\ UnderWay(p) =>
       /\ Sound(Seen(p))
       /\ Seen(p).initialized => Beyond(Seen(p), Seen(p).cursor)
       /\ Current(p) =>
            /\ row.target = Seen(p).target /\ row.since = Seen(p).since
            /\ Seen(p).initialized => row.initialized /\ Told(Seen(p), Seen(p).cursor, {})
  /\ At(p, "publish") =>
       /\ poll[p].newest \in {0} \cup Existing
       /\ poll[p].items \subseteq Existing
       /\ Beyond(Seen(p), poll[p].newest)
       /\ Seen(p).target \in Repos => \A id \in poll[p].items : id > Seen(p).since
       /\ Current(p) /\ Seen(p).initialized => Told(Seen(p), poll[p].newest, poll[p].items)

Fields ==
  /\ edits \in Nat /\ late \in BOOLEAN /\ baseline \in Nat
  /\ DOMAIN poll = Pollers
  /\ \A p \in Pollers : /\ DOMAIN poll[p] = {"pc", "seen", "items", "newest"}
                        /\ poll[p].pc \in {"idle", "loaded", "publish", "away"}

Carried == Fields /\ RowCarries /\ \A p \in Pollers : PollCarries(p)
IInv == Numbered /\ (Orderly => Carried)

-----------------------------------------------------------------------------
\* Among ids of one length string order is the order of the numbers.
LEMMA OneLength ==
  ASSUME Numbered, Orderly, NEW a \in {0} \cup Existing, NEW b \in Existing
  PROVE  Before(a, b) <=> a < b
<1>1. b # 0 /\ b \in Nat /\ a \in Nat
  BY IngressAssumption DEF Numbered, NextId
<1>2. CASE a = 0
  BY <1>1, <1>2 DEF Before
<1>3. CASE a # 0
  <2>1. Width(a) = Width(b)
    BY <1>3 DEF Orderly, Rolled
  <2> QED
    BY <1>1, <1>3, <2>1 DEF Before
<1> QED
  BY <1>2, <1>3

\* What is orderly after a step was so before.
LEMMA OrderlyBefore ==
  ASSUME Numbered, [Next]_vars, Orderly'
  PROVE  Orderly
<1>1. Existing \subseteq Existing'
  <2>1. CASE upstream' = upstream
    BY <2>1 DEF Existing
  <2> QED
    BY <2>1, OnlyHappenChanges, HappenNumbers
<1>2. ~late' => ~late
  BY DEF Next, Happen, Edit, Step, Save, SetEnabled, Delete, List, Return, PollOnce, Fetch,
     Unreadable, Publish, Succeed, Fail, Crash, WriteBack, vars
<1> QED
  BY <1>1, <1>2 DEF Orderly, Rolled

\* What happens is newer than all that was read.
LEMMA HappenCarries ==
  ASSUME Numbered, Carried, NEW t \in Targets, Happen(t)
  PROVE  Carried'
<1>1. /\ Existing' = Existing \cup {NextId} /\ NextId' = NextId + 1 /\ NextId \in Nat
      /\ \A id \in {0} \cup Existing : id < NextId
  BY HappenNumbers, IngressAssumption DEF Numbered, NextId
<1>2. /\ row' = row /\ poll' = poll /\ published' = published /\ baseline' = baseline
      /\ overflowed' = overflowed /\ late' = late /\ edits' = edits
      /\ \A u \in Targets : upstream'[u] \subseteq upstream[u] \cup {NextId}
  BY DEF Happen, bounds, Numbered
<1>3. ASSUME NEW r, Sound(r)
      PROVE  /\ Sound(r)'
             /\ \A n \in {0} \cup Existing : Beyond(r, n) => Beyond(r, n)'
             /\ \A n \in {0} \cup Existing : \A more : Told(r, n, more) => Told(r, n, more)'
  <2>1. r \in RowType /\ r.since < NextId
    BY <1>3 DEF Sound
  <2>2. Sound(r)'
    BY <1>1, <1>2, <1>3 DEF Sound, RowType
  <2>3. \A n \in {0} \cup Existing : Beyond(r, n) => Beyond(r, n)'
    BY <1>1, <1>2, <2>1 DEF Beyond, RowType
  <2>4. \A id \in News(r)' : id \in News(r) \/ id = NextId
    BY <1>2, <2>1 DEF News, RowType
  <2>5. \A n \in {0} \cup Existing : \A more : Told(r, n, more) => Told(r, n, more)'
    BY <1>1, <1>2, <2>4 DEF Told
  <2> QED
    BY <2>2, <2>3, <2>5
<1>4. RowCarries'
  BY <1>2, <1>3 DEF Carried, RowCarries, Sound
<1>5. ASSUME NEW p \in Pollers PROVE PollCarries(p)'
  <2>1. PollCarries(p) /\ poll'[p] = poll[p] /\ Seen(p)' = Seen(p)
        /\ (Current(p)' <=> Current(p))
    BY <1>2 DEF Carried, Current, Seen
  <2>2. CASE ~UnderWay(p)
    BY <2>1, <2>2 DEF PollCarries, UnderWay, At
  <2>3. CASE UnderWay(p)
    <3>1. PICK s : s = Seen(p)
      OBVIOUS
    <3>2. Sound(s) /\ s.cursor \in {0} \cup Existing
      BY <2>1, <2>3, <3>1 DEF PollCarries, Sound
    <3>3. /\ Sound(s)'
          /\ \A n \in {0} \cup Existing : Beyond(s, n) => Beyond(s, n)'
          /\ \A n \in {0} \cup Existing : \A more : Told(s, n, more) => Told(s, n, more)'
      BY <1>3, <3>2
    <3> QED
      BY <1>1, <1>2, <2>1, <2>3, <3>1, <3>2, <3>3 DEF PollCarries, UnderWay, At
  <2> QED
    BY <2>2, <2>3
<1> QED
  BY <1>2, <1>4, <1>5 DEF Carried, Fields

\* What a row carries is kept when more is published and edited.
LEMMA RowsKeep ==
  ASSUME edits \in Nat, edits' \in Nat, edits' >= edits, upstream' = upstream,
         baseline' = baseline,
         published \subseteq published', overflowed \subseteq overflowed'
  PROVE  \A r : /\ Sound(r) => Sound(r)'
                /\ \A n : Beyond(r, n) => Beyond(r, n)'
                /\ \A n, more : Told(r, n, more) => Told(r, n, more)'
BY DEF Sound, Beyond, Told, News, RowType, Existing, NextId

\* A poll at rest keeps what it carries when the row stays the one it had read.
LEMMA PollKeeps ==
  ASSUME edits \in Nat, edits' \in Nat, edits' >= edits, upstream' = upstream,
         baseline' = baseline,
         published \subseteq published', overflowed \subseteq overflowed',
         NEW p \in Pollers, PollCarries(p), poll'[p] = poll[p],
         Current(p)' => /\ Current(p)
                        /\ row'.target = row.target /\ row'.since = row.since
                        /\ row.initialized => row'.initialized
  PROVE  PollCarries(p)'
<1>1. \A r : /\ Sound(r) => Sound(r)'
             /\ \A n : Beyond(r, n) => Beyond(r, n)'
             /\ \A n, more : Told(r, n, more) => Told(r, n, more)'
  BY RowsKeep
<1>2. Existing' = Existing
  BY DEF Existing
<1> QED
  BY <1>1, <1>2 DEF PollCarries, UnderWay, At, Seen

\* The user's edits: a row aimed anew is one no poll has read.
LEMMA EditCarries ==
  ASSUME Numbered, Carried, Edit
  PROVE  Carried'
<1>1. /\ edits \in Nat /\ edits' = edits + 1 /\ upstream' = upstream /\ poll' = poll
      /\ published' = published /\ baseline' = baseline
      /\ overflowed' = overflowed /\ late' = late
  BY DEF Edit, Save, SetEnabled, Delete, Carried, Fields
<1>2. \A r : /\ Sound(r) => Sound(r)'
             /\ \A n : Beyond(r, n) => Beyond(r, n)'
             /\ \A n, more : Told(r, n, more) => Told(r, n, more)'
  BY <1>1, RowsKeep
<1>3. Fields'
  BY <1>1 DEF Carried, Fields
<1>4. ASSUME NEW t \in Targets, Save(t) PROVE Carried'
  <2>1. /\ row' = Aimed(t, row # NoRow /\ row.enabled, edits')
        /\ NextId \in Nat \ {0} /\ edits' \in Nat
    BY <1>1, <1>4, IngressAssumption DEF Save, Numbered, NextId
  <2>2. row # NoRow => row.enabled \in BOOLEAN
    BY DEF Carried, RowCarries, Sound, RowType
  <2>3. /\ row' \in RowType /\ row'.cursor = 0 /\ row'.since = NextId - 1
        /\ row'.epoch = edits' /\ ~row'.initialized
    BY <2>1, <2>2 DEF Aimed, RowType
  <2>4. Existing' = Existing /\ NextId' = NextId
    BY <1>1 DEF Existing, NextId
  <2>5. RowCarries'
    BY <2>1, <2>3, <2>4 DEF RowCarries, Sound
  <2>6. ASSUME NEW p \in Pollers PROVE PollCarries(p)'
    <3>1. CASE ~UnderWay(p)
      BY <1>1, <3>1 DEF Carried, PollCarries, At, UnderWay
    <3>2. CASE UnderWay(p)
      <4>1. Seen(p).epoch \in Nat /\ Seen(p).epoch <= edits
        BY <3>2 DEF Carried, PollCarries, Sound, RowType
      <4>2. ~Current(p)'
        BY <1>1, <2>1, <2>3, <4>1 DEF Current, Seen
      <4> QED
        BY <1>1, <2>1, <4>2, PollKeeps DEF Carried
    <3> QED
      BY <3>1, <3>2
  <2> QED
    BY <1>3, <2>5, <2>6 DEF Carried
<1>5. ASSUME NEW b \in BOOLEAN, SetEnabled(b) PROVE Carried'
  <2>1. row # NoRow /\ row \in RowType /\ row' = [row EXCEPT !.enabled = b]
    BY <1>5 DEF SetEnabled, Carried, RowCarries, Sound
  <2>2. /\ row' \in RowType /\ row'.target = row.target /\ row'.cursor = row.cursor
        /\ row'.initialized = row.initialized /\ row'.epoch = row.epoch
        /\ row'.since = row.since
    BY <2>1 DEF RowType
  <2>3. RowCarries'
    <3>1. Existing' = Existing /\ NextId' = NextId
      BY <1>1 DEF Existing, NextId
    <3> QED
      BY <1>1, <2>1, <2>2, <3>1 DEF Carried, RowCarries, Sound, RowType, Beyond, Told, News
  <2>4. ASSUME NEW p \in Pollers PROVE PollCarries(p)'
    BY <1>1, <2>1, <2>2, PollKeeps DEF Carried, Current, Seen
  <2> QED
    BY <1>3, <2>3, <2>4 DEF Carried
<1>6. CASE Delete
  <2>1. row' = NoRow
    BY <1>6 DEF Delete
  <2>2. ASSUME NEW p \in Pollers PROVE PollCarries(p)'
    BY <1>1, <2>1, PollKeeps DEF Carried, Current
  <2> QED
    BY <1>3, <2>1, <2>2 DEF Carried, RowCarries
<1> QED
  BY <1>4, <1>5, <1>6 DEF Edit

-----------------------------------------------------------------------------
\* A step of one poll that changes neither the row nor the baseline.
LEMMA OnePollMoves ==
  ASSUME Numbered, Carried, NEW p \in Pollers, NEW next,
         DOMAIN next = {"pc", "seen", "items", "newest"},
         next.pc \in {"idle", "loaded", "publish", "away"},
         poll' = [poll EXCEPT ![p] = next], PollCarries(p)',
         UNCHANGED <<upstream, row, baseline, late, edits>>,
         published \subseteq published', overflowed \subseteq overflowed'
  PROVE  Carried'
<1>1. \A q \in Pollers : q # p => poll'[q] = poll[q]
  BY DEF Carried, Fields
<1>2. Fields'
  BY DEF Carried, Fields
<1>3. ASSUME NEW q \in Pollers, q # p PROVE PollCarries(q)'
  <2>1. PollCarries(q) /\ poll'[q] = poll[q] /\ edits \in Nat
    BY <1>1, <1>3 DEF Carried, Fields
  <2>2. Current(q)' => Current(q)
    BY <2>1 DEF Current, Seen
  <2> QED
    BY <2>1, <2>2, PollKeeps
<1>4. RowCarries'
  <2>1. \A r : /\ Sound(r) => Sound(r)'
               /\ \A n : Beyond(r, n) => Beyond(r, n)'
               /\ \A n, more : Told(r, n, more) => Told(r, n, more)'
    BY RowsKeep DEF Carried, Fields
  <2> QED
    BY <2>1 DEF Carried, RowCarries
<1> QED
  BY <1>2, <1>3, <1>4 DEF Carried

\* A poll begins with the row as it is.
LEMMA ReadCarries ==
  ASSUME Numbered, Carried, NEW p \in Pollers, row # NoRow,
         poll' = [poll EXCEPT ![p] = [Resting EXCEPT !.pc = "loaded", !.seen = row]],
         UNCHANGED <<upstream, row, published, baseline, overflowed, late, edits>>
  PROVE  Carried'
<1>1. PICK next : next = [Resting EXCEPT !.pc = "loaded", !.seen = row]
  OBVIOUS
<1>2. /\ DOMAIN next = {"pc", "seen", "items", "newest"}
      /\ next.pc = "loaded" /\ next.seen = row /\ next.items = {}
  BY <1>1 DEF Resting
<1>3. poll' = [poll EXCEPT ![p] = next] /\ poll'[p] = next
  BY <1>1 DEF Carried, Fields
<1>4. \A r : /\ Sound(r) => Sound(r)'
             /\ \A n : Beyond(r, n) => Beyond(r, n)'
             /\ \A n, more : Told(r, n, more) => Told(r, n, more)'
  BY RowsKeep DEF Carried, Fields
<1>5. /\ Sound(row)'
      /\ row.initialized => Beyond(row, row.cursor)' /\ Told(row, row.cursor, {})'
  BY <1>4 DEF Carried, RowCarries
<1>6. PollCarries(p)'
  BY <1>2, <1>3, <1>5 DEF PollCarries, UnderWay, At, Seen, Current
<1> QED
  BY <1>2, <1>3, <1>6, OnePollMoves

\* The ids that exist are positive numbers below the next.
LEMMA IdsAreNumbers ==
  ASSUME Numbered
  PROVE  /\ NextId \in Nat /\ 0 \notin Existing
         /\ \A id \in Existing : id \in Nat /\ id < NextId
         /\ \A t \in Targets : upstream[t] \subseteq Existing
<1>1. FirstId \in Nat \ {0} /\ NextId \in Nat /\ Existing = FirstId..(NextId - 1)
  BY IngressAssumption DEF Numbered, NextId
<1>2. \A t \in Targets : upstream[t] \subseteq Existing
  BY DEF Existing
<1> QED
  BY <1>1, <1>2

\* A poll that is at rest, here or away, carries nothing.
LEMMA RestCarries ==
  ASSUME Numbered, Carried, NEW p \in Pollers, NEW next,
         next \in {Resting, Away}, poll' = [poll EXCEPT ![p] = next],
         UNCHANGED <<upstream, row, published, baseline, overflowed, late, edits>>
  PROVE  Carried'
<1>1. /\ DOMAIN next = {"pc", "seen", "items", "newest"} /\ next.items = {}
      /\ next.pc \in {"idle", "away"}
  BY DEF Away, Resting
<1>2. poll'[p] = next
  BY DEF Carried, Fields
<1>3. PollCarries(p)'
  BY <1>1, <1>2 DEF PollCarries, UnderWay, At
<1> QED
  BY <1>1, <1>3, OnePollMoves

\* The loop's steps outside a poll of this source.
LEMMA LoopCarries ==
  ASSUME Numbered, Carried, List \/ Return
  PROVE  Carried'
<1>0. Loop \in Pollers
  BY DEF Pollers
<1>1. CASE List /\ Listed
  BY <1>0, <1>1, ReadCarries DEF List, Listed, bounds
<1>2. CASE List /\ ~Listed
  BY <1>0, <1>2, RestCarries DEF List, bounds
<1>3. CASE Return
  BY <1>0, <1>3, RestCarries DEF Return, bounds
<1> QED
  BY <1>1, <1>2, <1>3

\* An answer nothing can be read in is no news of a feed.
LEMMA UnreadableCarries ==
  ASSUME Numbered, Carried, NEW p \in Pollers, Unreadable(p)
  PROVE  Carried'
<1>0. PICK s, next : /\ s = Seen(p)
                     /\ next = [pc |-> "publish", seen |-> s, items |-> {}, newest |-> 0]
  OBVIOUS
<1>1. /\ poll' = [poll EXCEPT ![p] = next] /\ UnderWay(p) /\ s.target \notin Repos
      /\ UNCHANGED <<upstream, row, published, baseline, overflowed, late, edits>>
  BY <1>0, IngressAssumption DEF Unreadable, At, UnderWay
<1>2. /\ DOMAIN next = {"pc", "seen", "items", "newest"} /\ next.pc = "publish"
      /\ next.seen = s /\ next.items = {} /\ next.newest = 0 /\ poll'[p] = next
  BY <1>0, <1>1 DEF Carried, Fields
<1>3. \A r : /\ Sound(r) => Sound(r)'
             /\ \A n : Beyond(r, n) => Beyond(r, n)'
             /\ \A n, more : Told(r, n, more) => Told(r, n, more)'
  BY <1>1, RowsKeep DEF Carried, Fields
<1>4. /\ Sound(s)' /\ (s.initialized => Beyond(s, s.cursor)')
      /\ Current(p) => /\ row.target = s.target /\ row.since = s.since
                       /\ s.initialized => row.initialized /\ Told(s, s.cursor, {})'
  BY <1>0, <1>1, <1>3 DEF Carried, PollCarries
<1>5. Seen(p)' = s /\ (Current(p)' <=> Current(p))
  BY <1>0, <1>1, <1>2 DEF Seen, Current
<1>6. Told(s, 0, {})'
  <2>1. s.target \in Targets /\ upstream[s.target] \subseteq Existing
    BY <1>0, <1>1, IdsAreNumbers DEF Carried, PollCarries, Sound, RowType
  <2>2. \A id \in upstream[s.target] : id \in Nat /\ id # 0
    BY <2>1, IdsAreNumbers
  <2> QED
    BY <1>1, <2>2 DEF Told, News
<1>7. PollCarries(p)'
  BY <1>1, <1>2, <1>4, <1>5, <1>6 DEF PollCarries, UnderWay, At, Beyond
<1> QED
  BY <1>1, <1>2, <1>7, OnePollMoves

\* The page holds the newest event, if there is one.
LEMMA PageHoldsNewest ==
  ASSUME Numbered, NEW t \in Targets
  PROVE  /\ Page(t) \subseteq upstream[t] /\ upstream[t] \subseteq Existing
         /\ FirstOf(Page(t)) \in {0} \cup Page(t)
         /\ \A id \in upstream[t] : id <= FirstOf(Page(t))
<1>1. /\ NextId \in Nat /\ upstream[t] \subseteq Existing /\ upstream[t] \subseteq 0..NextId
      /\ \A id \in upstream[t] : id \in Nat
  BY IdsAreNumbers
<1>2. Page(t) \subseteq upstream[t]
  BY DEF Page
<1>3. CASE upstream[t] = {}
  BY <1>1, <1>2, <1>3 DEF FirstOf
<1>4. CASE upstream[t] # {}
  <2> DEFINE m == Max(upstream[t])
  <2>1. m \in upstream[t] /\ \A id \in upstream[t] : id <= m
    BY <1>1, <1>4, GreatestExists
  <2> HIDE DEF m
  <2>2. {other \in upstream[t] : other > m} = {}
    BY <1>1, <2>1
  <2>3. m \in Page(t)
    BY <2>1, <2>2, FS_EmptySet, IngressAssumption DEF Page
  <2>4. Max(Page(t)) \in Page(t) /\ \A id \in Page(t) : id <= Max(Page(t))
    BY <1>1, <1>2, <2>3, GreatestExists
  <2>5. FirstOf(Page(t)) = Max(Page(t))
    BY <2>3 DEF FirstOf
  <2> QED
    BY <1>1, <1>2, <2>1, <2>3, <2>4, <2>5
<1> QED
  BY <1>3, <1>4

\* The cursor a poll will leave is behind neither its old one nor a new item.
LEMMA NewestIsGreatest ==
  ASSUME Numbered, Orderly, NEW s, Sound(s), s.initialized, s.target \notin Feeds,
         NEW page, page \subseteq Existing
  PROVE  Newest(s, page) \in {0} \cup Existing /\ s.cursor <= Newest(s, page)
<1> DEFINE S == {s.cursor} \cup Fresh(s, page)
<1>1. /\ NextId \in Nat /\ S \subseteq {0} \cup Existing /\ S # {} /\ S \subseteq 0..NextId
      /\ \A id \in {0} \cup Existing : id \in Nat
  BY IdsAreNumbers DEF Sound, Fresh
<1>2. PICK m \in S : \A n \in S : n <= m
  BY <1>1, GreatestExists
<1>3. \A n \in S : ~Before(m, n)
  <2> SUFFICES ASSUME NEW n \in S, Before(m, n) PROVE FALSE
    OBVIOUS
  <2>1. n # 0
    BY DEF Before
  <2>2. n \in Existing /\ m \in {0} \cup Existing /\ n <= m
    BY <1>1, <1>2, <2>1
  <2> HIDE DEF S
  <2>3. m < n
    BY <2>2, OneLength
  <2> QED
    BY <1>1, <2>2, <2>3
<1>4. Newest(s, page) = CHOOSE id \in S : \A other \in S : ~Before(id, other)
  BY DEF Newest
<1>5. Newest(s, page) \in S /\ ~Before(Newest(s, page), s.cursor)
  BY <1>3, <1>4
<1> HIDE DEF S
<1>b. Newest(s, page) \in {0} \cup Existing
  BY <1>1, <1>5
<1>c. Newest(s, page) \in Nat /\ s.cursor \in Nat
  BY <1>1, <1>b DEF Sound
<1>6. CASE s.cursor = 0
  BY <1>b, <1>c, <1>6
<1>7. CASE s.cursor # 0
  <2>1. s.cursor \in Existing
    BY <1>7 DEF Sound
  <2>2. ~(Newest(s, page) < s.cursor)
    BY <1>5, <1>b, <2>1, OneLength
  <2> QED
    BY <1>b, <1>c, <2>2
<1> QED
  BY <1>6, <1>7

\* What a poll fetched: all there is, but for what it had told and what has left the page.
LEMMA FetchCarries ==
  ASSUME Numbered, Orderly, Carried, NEW p \in Pollers, Fetch(p)
  PROVE  Carried'
<1>0. PICK s, page : s = Seen(p) /\ page = Page(s.target)
  OBVIOUS
<1>a. PICK i, n : i = Reported(s, page) /\ n = Newest(s, page)
  OBVIOUS
<1> DEFINE next == [pc |-> "publish", seen |-> s, items |-> i, newest |-> n]
<1>1. /\ poll' = [poll EXCEPT ![p] = next] /\ At(p, "loaded")
      /\ UNCHANGED <<upstream, row, published, baseline, late, edits>>
      /\ overflowed \subseteq overflowed'
      /\ s.initialized => \A id \in upstream[s.target] : id \in page \cup published \cup overflowed'
  BY <1>0, <1>a DEF Fetch, bounds
<1>2. /\ Sound(s) /\ s \in RowType /\ s.target \in Targets
      /\ s.initialized => Beyond(s, s.cursor)
      /\ Current(p) =>
            /\ row.target = s.target /\ row.since = s.since
            /\ s.initialized => row.initialized /\ Told(s, s.cursor, {})
  BY <1>0, <1>1 DEF Carried, PollCarries, UnderWay, At, Sound, RowType
<1>3. /\ page \subseteq upstream[s.target] /\ upstream[s.target] \subseteq Existing
      /\ FirstOf(page) \in {0} \cup page
      /\ \A id \in upstream[s.target] : id <= FirstOf(page)
  BY <1>0, <1>2, PageHoldsNewest
<1>4. /\ 0 \notin Existing /\ \A id \in {0} \cup Existing : id \in Nat
      /\ s.cursor \in {0} \cup Existing /\ s.since \in Nat /\ s.cursor \in Nat
  BY <1>2, IdsAreNumbers DEF Sound, RowType
<1>5. n \in {0} \cup Existing
  <2>1. CASE ~s.initialized \/ s.target \in Feeds
    BY <1>a, <1>3, <2>1 DEF Newest
  <2>2. CASE s.initialized /\ s.target \notin Feeds
    BY <1>a, <1>2, <1>3, <2>2, NewestIsGreatest
  <2> QED
    BY <2>1, <2>2
<1>6. Beyond(s, n)
  <2>1. CASE ~s.initialized \/ s.target \in Feeds
    BY <1>a, <1>3, <2>1 DEF Newest, Beyond
  <2>2. CASE s.initialized /\ s.target \notin Feeds
    <3>1. s.cursor <= n /\ Beyond(s, s.cursor)
      BY <1>a, <1>2, <1>3, <2>2, NewestIsGreatest
    <3>2. n \in Nat /\ \A id \in upstream[s.target] : id \in Nat
      BY <1>3, <1>4, <1>5
    <3> QED
      BY <1>4, <3>1, <3>2 DEF Beyond
  <2> QED
    BY <2>1, <2>2
<1>7. i \subseteq page
  BY <1>a DEF Reported, Fresh
<1>8. s.target \in Repos => \A id \in i : id > s.since
  <2> SUFFICES ASSUME s.target \in Repos, NEW id \in i PROVE id > s.since
    OBVIOUS
  <2>1. s.initialized /\ id \in page /\ Before(s.cursor, id)
    BY <1>a, IngressAssumption DEF Reported, Fresh
  <2>2. s.cursor < id
    BY <1>3, <1>4, <2>1, OneLength
  <2>3. id <= s.since => id <= s.cursor
    BY <1>2, <1>3, <2>1 DEF Beyond
  <2>4. id \in Nat
    BY <1>3, <1>4, <2>1
  <2> QED
    BY <1>4, <2>2, <2>3, <2>4
<1>9. ASSUME Current(p), s.initialized
      PROVE  \A id \in News(s) : id > baseline => id \in published \cup overflowed' \cup i
  <2> SUFFICES ASSUME NEW id \in News(s), id > baseline, id \in page, id \notin i
               PROVE  id \in published \cup overflowed'
    BY <1>1, <1>9 DEF News
  <2>1. s.target \in Repos /\ ~Before(s.cursor, id)
    BY <1>a, <1>2, <1>9 DEF Reported, Fresh, News, Targets
  <2>2. id \in Existing /\ id \in Nat
    BY <1>3, <1>4
  <2>3. ~(s.cursor < id)
    BY <1>4, <2>1, <2>2, OneLength
  <2>4. id <= s.cursor
    BY <1>4, <2>2, <2>3
  <2> QED
    BY <1>1, <1>2, <1>9, <2>4 DEF Told
<1>10. poll'[p] = next
  BY <1>1 DEF Carried, Fields
<1>11. Existing' = Existing /\ NextId' = NextId
  BY <1>1 DEF Existing, NextId
<1>12. \A r : /\ Sound(r) => Sound(r)'
              /\ \A k : Beyond(r, k) => Beyond(r, k)'
              /\ \A k, more : Told(r, k, more) => Told(r, k, more)'
  BY <1>1, RowsKeep DEF Carried, Fields
<1>13. Seen(p)' = s /\ (Current(p)' <=> Current(p))
  BY <1>0, <1>1, <1>10 DEF Seen, Current
<1>14. ASSUME Current(p), s.initialized
       PROVE  Told(s, n, i)'
  BY <1>1, <1>9, <1>14 DEF Told, News
<1>15. /\ UnderWay(p)' /\ At(p, "publish")' /\ poll'[p].items = i /\ poll'[p].newest = n
  BY <1>10 DEF At, UnderWay
<1> HIDE DEF next
<1>16. i \subseteq Existing' /\ n \in {0} \cup Existing'
  BY <1>3, <1>5, <1>7, <1>11
<1>17. Sound(s)' /\ (s.initialized => Beyond(s, s.cursor)') /\ Beyond(s, n)'
  BY <1>2, <1>6, <1>12
<1>18. Current(p) => /\ row'.target = s.target /\ row'.since = s.since
                     /\ s.initialized => row'.initialized /\ Told(s, s.cursor, {})'
  BY <1>1, <1>2, <1>12
<1>19. PollCarries(p)'
  BY <1>8, <1>13, <1>14, <1>15, <1>16, <1>17, <1>18 DEF PollCarries
<1> QED
  BY <1>1, <1>19, OnePollMoves DEF next

\* An item published is among those told of.
LEMMA PublishCarries ==
  ASSUME Numbered, Carried, NEW p \in Pollers, Publish(p)
  PROVE  Carried'
<1>0. PICK s, m, n, i, next :
        /\ s = Seen(p) /\ m = Max(poll[p].items) /\ n = poll[p].newest /\ i = poll[p].items
        /\ next = [poll[p] EXCEPT !.items = @ \ {m}]
  OBVIOUS
<1>1. /\ poll' = [poll EXCEPT ![p] = next] /\ At(p, "publish")
      /\ UNCHANGED <<upstream, row, baseline, overflowed, late, edits>>
      /\ published' = published \cup {m}
  BY <1>0 DEF Publish, bounds, Carried, Fields
<1>2. /\ DOMAIN next = {"pc", "seen", "items", "newest"} /\ next.pc = "publish"
      /\ poll'[p] = next /\ next.seen = s /\ next.newest = n
      /\ next.items = i \ {m}
  BY <1>0, <1>1 DEF Carried, Fields, At, Seen
<1>3. \A r : /\ Sound(r) => Sound(r)'
             /\ \A k : Beyond(r, k) => Beyond(r, k)'
             /\ \A k, more : Told(r, k, more) => Told(r, k, more)'
  BY <1>1, RowsKeep DEF Carried, Fields
<1>4. Told(s, n, i) => Told(s, n, next.items)'
  BY <1>1, <1>2 DEF Told, News
<1>5. Existing' = Existing /\ Seen(p)' = s /\ (Current(p)' <=> Current(p))
  BY <1>0, <1>1, <1>2 DEF Existing, Seen, Current
<1>6. /\ Sound(s) /\ (s.initialized => Beyond(s, s.cursor))
      /\ Current(p) =>
           /\ row.target = s.target /\ row.since = s.since
           /\ s.initialized => row.initialized /\ Told(s, s.cursor, {})
      /\ n \in {0} \cup Existing /\ i \subseteq Existing /\ Beyond(s, n)
      /\ s.target \in Repos => \A id \in i : id > s.since
      /\ Current(p) /\ s.initialized => Told(s, n, i)
  BY <1>0, <1>1 DEF Carried, PollCarries, UnderWay, At
<1>7. /\ UnderWay(p)' /\ At(p, "publish")' /\ poll'[p].items = i \ {m} /\ poll'[p].newest = n
  BY <1>2 DEF At, UnderWay
<1>8. PollCarries(p)'
  BY <1>1, <1>2, <1>3, <1>4, <1>5, <1>6, <1>7 DEF PollCarries
<1> QED
  BY <1>1, <1>2, <1>8, OnePollMoves

-----------------------------------------------------------------------------
\* A poll ends and writes a row back that was not touched: the others keep what
\* they carry, for a row initialized by this step was initialized for none of them.
LEMMA WriteBackCarries ==
  ASSUME Numbered, Carried, NEW p \in Pollers, UnderWay(p), NEW s, s = Seen(p),
         NEW n \in {0} \cup Existing, NEW b \in BOOLEAN, s.initialized => b,
         ~late', WriteBack(p, n, b), published' = published, baseline' \in Nat,
         b => Beyond(s, n),
         Current(p) /\ b => Told(s, n, {})' /\ (~s.initialized \/ baseline' = baseline),
         ~b => baseline' = baseline
  PROVE  Carried'
<1>0. PICK over : over = Over(p)
  OBVIOUS
<1>a. /\ DOMAIN over = {"pc", "seen", "items", "newest"} /\ over.items = {}
      /\ over.pc \in {"idle", "away"}
  BY <1>0 DEF Over, Away, Resting
<1>1. /\ poll' = [poll EXCEPT ![p] = over] /\ edits \in Nat /\ edits' = edits
      /\ upstream' = upstream /\ overflowed' = overflowed /\ late' = FALSE
  BY <1>0 DEF WriteBack, Carried, Fields
<1>2. Existing' = Existing /\ NextId' = NextId
  BY <1>1 DEF Existing, NextId
<1>3. Fields'
  BY <1>1, <1>a DEF Carried, Fields
<1>4. /\ poll'[p] = over
      /\ \A q \in Pollers : q # p => poll'[q] = poll[q]
  BY <1>1 DEF Carried, Fields
<1>5. PollCarries(p)'
  BY <1>4, <1>a DEF PollCarries, UnderWay, At
<1>6. CASE row = NoRow
  <2>1. row' = NoRow
    BY <1>6 DEF WriteBack
  <2>2. ASSUME NEW q \in Pollers, q # p PROVE PollCarries(q)'
    <3>1. PollCarries(q) /\ poll'[q] = poll[q] /\ ~Current(q)'
      BY <1>4, <2>1, <2>2 DEF Carried, Current
    <3>2. \A r : (Sound(r) => Sound(r)') /\ \A k : Beyond(r, k) => Beyond(r, k)'
      BY <1>1, <1>2 DEF Sound, Beyond
    <3> QED
      BY <1>2, <3>1, <3>2 DEF PollCarries, UnderWay, At, Seen
  <2> QED
    BY <1>3, <1>5, <2>1, <2>2 DEF Carried, RowCarries
<1>7. CASE row # NoRow
  <2>1. /\ row' = [row EXCEPT !.cursor = n, !.initialized = b] /\ row \in RowType
        /\ row.epoch = s.epoch /\ row.initialized = s.initialized
    BY <1>7 DEF WriteBack, Carried, RowCarries, Sound
  <2>2. /\ Current(p) /\ row.target = s.target /\ row.since = s.since
    BY <1>7, <2>1 DEF Current, Carried, PollCarries
  <2>3. n \in Nat
    BY IdsAreNumbers
  <2>4. /\ row' \in RowType /\ row' # NoRow /\ row'.target = row.target /\ row'.since = row.since
        /\ row'.epoch = row.epoch /\ row'.cursor = n /\ row'.initialized = b
    BY <2>1, <2>3, IngressAssumption DEF RowType
  <2>5. Sound(row)'
    BY <1>1, <1>2, <1>7, <2>4 DEF Carried, RowCarries, Sound
  <2>6. ASSUME b PROVE Beyond(row, row.cursor)' /\ Told(row, row.cursor, {})'
    <3>1. Beyond(s, n) /\ Told(s, n, {})'
      BY <2>2, <2>6
    <3> QED
      BY <1>1, <2>2, <2>4, <3>1 DEF Beyond, Told, News
  <2>7. ASSUME NEW q \in Pollers, q # p PROVE PollCarries(q)'
    <3>0. PICK r : r = Seen(q)
      OBVIOUS
    <3>1. PollCarries(q) /\ poll'[q] = poll[q] /\ (Current(q)' <=> Current(q)) /\ Seen(q)' = r
      BY <1>4, <1>7, <2>4, <2>7, <3>0 DEF Carried, Current, Seen, RowType
    <3>2. \A t : (Sound(t) => Sound(t)') /\ \A k : Beyond(t, k) => Beyond(t, k)'
      BY <1>1, <1>2 DEF Sound, Beyond
    <3>3. CASE baseline' = baseline
      BY <1>1, <2>1, <2>4, <3>1, <3>3, PollKeeps
    <3>4. CASE baseline' # baseline
      <4>1. b /\ ~s.initialized /\ ~row.initialized
        BY <2>1, <2>2, <3>4
      <4>2. UnderWay(q) /\ Current(q) => ~r.initialized
        BY <3>0, <3>1, <4>1 DEF PollCarries
      <4>3. poll[q].newest \in {0} \cup Existing => poll[q].newest \in {0} \cup Existing'
        BY <1>2
      <4> QED
        BY <1>2, <2>4, <3>0, <3>1, <3>2, <4>2 DEF PollCarries, UnderWay, At
    <3> QED
      BY <3>3, <3>4
  <2> QED
    BY <1>3, <1>5, <2>4, <2>5, <2>6, <2>7 DEF Carried, RowCarries
<1> QED
  BY <1>6, <1>7

\* A poll that succeeds leaves a cursor behind which all was told.
LEMMA SucceedCarries ==
  ASSUME Numbered, Carried, ~late', NEW p \in Pollers, Succeed(p)
  PROVE  Carried'
<1>1. PICK s, n : s = Seen(p) /\ n = poll[p].newest
  OBVIOUS
<1>2. /\ At(p, "publish") /\ poll[p].items = {} /\ WriteBack(p, n, TRUE)
      /\ baseline' = IF s.initialized THEN baseline ELSE n
      /\ UNCHANGED <<upstream, published, overflowed>>
  BY <1>1 DEF Succeed, WriteBack
<1>3. /\ n \in {0} \cup Existing /\ n \in Nat /\ Beyond(s, n) /\ s.initialized \in BOOLEAN
      /\ s \in RowType /\ s.target \in Targets
      /\ Current(p) /\ s.initialized => Told(s, n, {})
  <2>1. PollCarries(p) /\ UnderWay(p)
    BY <1>2 DEF Carried, At, UnderWay
  <2>2. s \in RowType
    BY <1>1, <2>1 DEF PollCarries, Sound
  <2>3. /\ n \in {0} \cup Existing /\ Beyond(s, n)
        /\ Current(p) /\ s.initialized => Told(s, n, {})
    BY <1>1, <1>2, <2>1 DEF PollCarries
  <2> QED
    BY <2>2, <2>3, IdsAreNumbers DEF RowType
<1>4. Current(p) => Told(s, n, {})'
  <2>1. CASE s.initialized
    BY <1>2, <1>3, <2>1 DEF Told, News
  <2>2. CASE ~s.initialized
    <3>1. \A id \in upstream[s.target] : id \in Nat
      BY <1>3, IdsAreNumbers
    <3> QED
      BY <1>2, <1>3, <2>2, <3>1 DEF Told, News
  <2> QED
    BY <2>1, <2>2
<1>5. baseline' \in Nat /\ published' = published /\ UnderWay(p)
  BY <1>2, <1>3 DEF At, UnderWay, Carried, Fields
<1> QED
  BY <1>1, <1>2, <1>3, <1>4, <1>5, WriteBackCarries

\* A poll that fails writes back the cursor it had read, or nothing.
LEMMA FailCarries ==
  ASSUME Numbered, Carried, ~late', NEW p \in Pollers, Fail(p)
  PROVE  Carried'
<1>1. PICK s : s = Seen(p)
  OBVIOUS
<1>2. /\ UnderWay(p) /\ Sound(s) /\ s \in RowType
      /\ s.initialized => Beyond(s, s.cursor)
      /\ Current(p) /\ s.initialized => Told(s, s.cursor, {})
  BY <1>1 DEF Fail, Carried, PollCarries, UnderWay, At, Sound
<1>3. CASE p = Loop
  <2>1. /\ WriteBack(p, s.cursor, s.initialized) /\ baseline' = baseline
        /\ UNCHANGED <<upstream, published, overflowed>>
    BY <1>1, <1>3 DEF Fail, WriteBack
  <2>2. Current(p) /\ s.initialized => Told(s, s.cursor, {})'
    BY <1>2, <2>1 DEF Told, News
  <2>3. baseline' \in Nat /\ published' = published
    BY <2>1 DEF Carried, Fields
  <2>4. s.cursor \in {0} \cup Existing /\ s.initialized \in BOOLEAN
    BY <1>2 DEF Sound, RowType
  <2> QED
    BY <1>1, <1>2, <2>1, <2>2, <2>3, <2>4, WriteBackCarries
<1>4. CASE p # Loop
  <2> QED
    BY <1>4, RestCarries DEF Fail
<1> QED
  BY <1>3, <1>4

\* After a crash no poll is under way; the row stays.
LEMMA CrashCarries ==
  ASSUME Numbered, Carried, Crash
  PROVE  Carried'
<1>1. /\ poll' = [p \in Pollers |-> Resting]
      /\ UNCHANGED <<upstream, row, published, baseline, overflowed, late, edits>>
  BY DEF Crash
<1>2. \A p \in Pollers : poll'[p].pc = "idle" /\ poll'[p].items = {}
                         /\ DOMAIN poll'[p] = {"pc", "seen", "items", "newest"}
  BY <1>1 DEF Resting
<1>3. Fields'
  BY <1>1, <1>2 DEF Carried, Fields
<1>4. RowCarries'
  <2>1. \A r : /\ Sound(r) => Sound(r)'
               /\ \A n : Beyond(r, n) => Beyond(r, n)'
               /\ \A n, more : Told(r, n, more) => Told(r, n, more)'
    BY <1>1, RowsKeep DEF Carried, Fields
  <2> QED
    BY <1>1, <2>1 DEF Carried, RowCarries
<1>5. \A p \in Pollers : PollCarries(p)'
  BY <1>2 DEF PollCarries, UnderWay, At
<1> QED
  BY <1>3, <1>4, <1>5 DEF Carried

\* Every step keeps what the row and the polls carry.
LEMMA StepCarries ==
  ASSUME Numbered, Orderly', Carried, Orderly, [Next]_vars
  PROVE  Carried'
<1>0. ~late'
  BY DEF Orderly
<1>1. ASSUME NEW t \in Targets, Happen(t) PROVE Carried'
  BY <1>1, HappenCarries
<1>2. CASE Edit
  BY <1>2, EditCarries
<1>3. CASE List \/ Return
  BY <1>3, LoopCarries
<1>4. ASSUME NEW p \in Manual, PollOnce(p) PROVE Carried'
  BY <1>4, ReadCarries DEF PollOnce, Pollers
<1>5. ASSUME NEW p \in Pollers, Step(p) PROVE Carried'
  BY <1>0, <1>5, FetchCarries, UnreadableCarries, PublishCarries, SucceedCarries, FailCarries DEF Step
<1>6. CASE Crash
  BY <1>6, CrashCarries
<1>7. CASE UNCHANGED vars
  <2>1. UNCHANGED <<upstream, row, poll, published, baseline, overflowed, late, edits>>
    BY <1>7 DEF vars, bounds
  <2>2. Fields'
    BY <2>1 DEF Carried, Fields
  <2>3. RowCarries'
    BY <2>1 DEF Carried, RowCarries, Sound, RowType, Beyond, Told, News, Existing, NextId
  <2>4. \A p \in Pollers : PollCarries(p)'
    BY <2>1, PollKeeps DEF Carried, Fields, Current, Seen
  <2> QED
    BY <2>2, <2>3, <2>4 DEF Carried
<1> QED
  BY <1>1, <1>2, <1>3, <1>4, <1>5, <1>6, <1>7 DEF Next

(***************************************************************************)
(* The inductive invariant: ids without gaps, and, until a late write or   *)
(* an id of another length, cursors that have nothing untold behind them.  *)
(***************************************************************************)
THEOREM IngressInvariant == Spec => []IInv
<1>1. Init => IInv
  <2> SUFFICES ASSUME Init, Numbered PROVE Carried
    <3>1. Init => Numbered
      <4> SUFFICES ASSUME Init PROVE Numbered
        OBVIOUS
      <4>1. Existing = {}
        BY DEF Init, Existing
      <4> QED
        BY <4>1, FS_EmptySet, IngressAssumption DEF Init, Numbered, NextId
    <3> QED
      BY <3>1 DEF IInv
  <2>1. NextId \in Nat \ {0}
    BY IngressAssumption DEF Numbered, NextId
  <2>2. PICK t \in Targets : row = Aimed(t, TRUE, 0)
    BY DEF Init
  <2>3. /\ row \in RowType /\ row.cursor = 0 /\ row.since = NextId - 1
        /\ row.epoch = 0 /\ ~row.initialized
    BY <2>1, <2>2 DEF Aimed, RowType
  <2>4. RowCarries
    BY <2>1, <2>3 DEF Init, RowCarries, Sound
  <2>5. Fields /\ \A p \in Pollers : PollCarries(p)
    BY DEF Init, Fields, PollCarries, UnderWay, At, Resting
  <2> QED
    BY <2>4, <2>5 DEF Carried
<1>2. Numbered /\ Numbered' /\ IInv /\ [Next]_vars => IInv'
  BY OrderlyBefore, StepCarries DEF IInv
<1> QED
  BY <1>1, <1>2, AlwaysNumbered, PTL DEF Spec

-----------------------------------------------------------------------------
(***************************************************************************)
(* The row's cursor is never ahead of what was published, whichever polls  *)
(* overlap, fail half way and write older cursors back.                    *)
(***************************************************************************)
THEOREM NoEventIsSkipped == Spec => []NothingSkipped
<1>1. IInv => NothingSkipped
  <2> SUFFICES ASSUME Numbered, Orderly => Carried, NEW id \in Ids, Due(id),
                      ~Before(row.cursor, id), ~Excused(id)
               PROVE  id \in published
    BY DEF IInv, NothingSkipped
  <2>1. Orderly /\ Carried /\ id \notin overflowed
    BY DEF Excused, Orderly
  <2>2. /\ row \in RowType /\ row.cursor \in {0} \cup Existing
        /\ Told(row, row.cursor, {}) /\ id \in News(row) /\ id > baseline
    BY <2>1 DEF Due, Carried, RowCarries, Sound, News
  <2>3. id \in Existing /\ id \in Nat /\ row.cursor \in Nat
    BY <2>2, IdsAreNumbers DEF News, RowType
  <2>4. ~(row.cursor < id)
    BY <2>1, <2>2, <2>3, OneLength
  <2> QED
    BY <2>1, <2>2, <2>3, <2>4 DEF Told
<1> QED
  BY <1>1, IngressInvariant, PTL

(***************************************************************************)
(* What happened in a repository before the source was aimed at it is not  *)
(* reported, by whichever poll and under whichever baseline.               *)
(***************************************************************************)
THEOREM OnlyNewsIsReported == Spec => []OnlyNews
<1>1. IInv => OnlyNews
  <2> SUFFICES ASSUME Carried, NEW p \in Pollers, NEW id \in poll[p].items,
                      Seen(p).target \in Repos
               PROVE  id > Seen(p).since
    BY DEF IInv, Orderly, OnlyNews
  <2> QED
    BY DEF Carried, PollCarries
<1> QED
  BY <1>1, IngressInvariant, PTL

=============================================================================
