--------------------------- MODULE SessionProofs ---------------------------
(***************************************************************************)
(* Theorems about Session for any number of commands, sleeps and crashes.  *)
(***************************************************************************)
EXTENDS Session, FiniteSetTheorems, NaturalsInduction, TLAPS

(***************************************************************************)
(* The sequence numbers in use are bounded, so that there is a largest.    *)
(***************************************************************************)
Bounded == \E b \in Nat : \A n \in messages \cup notices : n <= b

Typed == SessionTypeOK /\ Bounded

-----------------------------------------------------------------------------
(***************************************************************************)
(* A bounded set of numbers has a largest, which is 0 for no number.       *)
(***************************************************************************)
LEMMA LargestIsLargest ==
  ASSUME NEW S, S \subseteq Nat, NEW b \in Nat, \A n \in S : n <= b
  PROVE  /\ Largest(S) \in Nat
         /\ \A n \in S : n <= Largest(S)
         /\ Largest(S) \in S \cup {0}
<1> DEFINE Above == {m \in Nat : \A n \in S : n <= m}
           U == S \cup {0}
<1>1. Above \subseteq Nat /\ Above # {}
  OBVIOUS
<1>2. PICK m \in Above : \A k \in Above : ~(<<k, m>> \in OpToRel(<, Nat))
  BY <1>1, NatLessThanWellFounded, WFMin
<1>3. \A k \in Above : m <= k
  <2> SUFFICES ASSUME NEW k \in Above, k < m PROVE FALSE
    OBVIOUS
  <2>1. <<k, m>> \in {pair \in Nat \X Nat : pair[1] < pair[2]}
    OBVIOUS
  <2>2. <<k, m>> \in OpToRel(<, Nat)
    BY <2>1 DEF OpToRel
  <2> QED
    BY <1>2, <2>2
<1>4. m \in U
  <2> SUFFICES ASSUME m \notin U PROVE FALSE
    OBVIOUS
  <2>1. m - 1 \in Nat /\ \A n \in S : n <= m - 1
    OBVIOUS
  <2> QED
    BY <1>3, <2>1
<1>5. \A n \in U : m >= n
  OBVIOUS
<1>6. Max(U) \in U /\ \A n \in U : Max(U) >= n
  BY <1>4, <1>5 DEF Max
<1>7. Largest(S) = Max(U)
  BY DEF Largest
<1>8. U \subseteq Nat
  OBVIOUS
<1> HIDE DEF U
<1>9. Max(U) \in Nat
  BY <1>6, <1>8
<1>10. \A n \in U : n <= Max(U)
  BY <1>6, <1>8, <1>9
<1>11. S \subseteq U
  BY DEF U
<1> QED
  BY <1>6, <1>7, <1>9, <1>10, <1>11 DEF U

\* The largest number in messages, and in both tables, is at least every message's.
LEMMA LargestTyped ==
  ASSUME Typed
  PROVE  /\ Largest(messages) \in Nat
         /\ \A n \in messages : n <= Largest(messages)
         /\ Largest(messages \cup notices) \in Nat
         /\ \A n \in messages : n <= Largest(messages \cup notices)
<1>1. PICK b \in Nat : \A n \in messages \cup notices : n <= b
  BY DEF Typed, Bounded
<1>2. messages \subseteq Nat /\ messages \cup notices \subseteq Nat
  BY DEF Typed, SessionTypeOK
<1> QED
  BY <1>1, <1>2, LargestIsLargest

(***************************************************************************)
(* One more number leaves the numbers bounded.                             *)
(***************************************************************************)
LEMMA StillBounded ==
  ASSUME Typed, NEW n \in Nat,
         messages' \cup notices' \subseteq messages \cup notices \cup {n}
  PROVE  Bounded'
<1>1. PICK b \in Nat : \A k \in messages \cup notices : k <= b
  BY DEF Typed, Bounded
<1>2. messages \cup notices \subseteq Nat
  BY DEF Typed, SessionTypeOK
<1>3. b + n \in Nat /\ \A k \in messages' \cup notices' : k <= b + n
  BY <1>1, <1>2
<1> QED
  BY <1>3 DEF Bounded

(***************************************************************************)
(* What moving a command writes is a command.                              *)
(***************************************************************************)
CmdType == [Commands -> [kind : Kinds, pc : Pcs, eng : Commands \cup {NoEngine},
                         outcome : {"idle", "error"}, user : Nat]]

\* Moving a command, with or without a result, keeps the commands' type.
LEMMA MovedTyped ==
  ASSUME NEW f \in CmdType, NEW c \in Commands, NEW p \in Pcs,
         NEW n \in Nat, NEW o \in {"idle", "error"}
  PROVE  /\ [f EXCEPT ![c].pc = p] \in CmdType
         /\ [f EXCEPT ![c] = [@ EXCEPT !.pc = p, !.user = n]] \in CmdType
         /\ [f EXCEPT ![c] = [@ EXCEPT !.pc = p, !.outcome = o]] \in CmdType
<1> DEFINE R == [kind : Kinds, pc : Pcs, eng : Commands \cup {NoEngine},
                 outcome : {"idle", "error"}, user : Nat]
           g == [f EXCEPT ![c].pc = p]
<1>1. \A r \in R : [r EXCEPT !.pc = p] \in R
  OBVIOUS
<1>2. \A r \in R : [r EXCEPT !.user = n] \in R
  OBVIOUS
<1>3. \A r \in R : [r EXCEPT !.outcome = o] \in R
  OBVIOUS
<1>4. f \in [Commands -> R]
  BY DEF CmdType
<1>5. CmdType = [Commands -> R]
  BY DEF CmdType
<1> HIDE DEF R
<1>6. g \in [Commands -> R]
  BY <1>1, <1>4
<1>7. [f EXCEPT ![c] = [@ EXCEPT !.pc = p,
                                 !.user = n]] = [g EXCEPT ![c] = [g[c] EXCEPT !.user = n]]
  BY <1>4
<1>8. [f EXCEPT ![c] = [@ EXCEPT !.pc = p,
                                 !.outcome = o]] = [g EXCEPT ![c] = [g[c] EXCEPT !.outcome = o]]
  BY <1>4
<1> HIDE DEF g
<1> QED
  BY <1>2, <1>3, <1>5, <1>6, <1>7, <1>8 DEF g

\* The end of a command leaves it without an engine.
LEMMA EndEnds ==
  ASSUME cmd \in CmdType, NEW c \in Commands, End(c)
  PROVE  /\ \A d \in Commands : d # c => cmd'[d] = cmd[d]
         /\ cmd'[c].pc = "ended" /\ cmd'[c].eng = NoEngine
         /\ cmd'[c].kind = cmd[c].kind /\ cmd'[c].outcome = "idle"
BY DEF CmdType, End, Ended, Fresh

\* The engine in the map when a command has inserted its own is the one it uses.
LEMMA InsertMoves ==
  ASSUME Typed, NEW c \in Commands, Insert(c)
  PROVE  /\ cmd[c].pc = "insert" /\ live' \in Commands /\ (live' = live \/ live' = c)
         /\ (live # NoEngine => live' = live)
         /\ UNCHANGED <<messages, notices, open, runState, asleep, active, counter, sleeper,
                        broken, mixed, sleeps, crashes>>
         /\ cmd' \in CmdType
         /\ \A d \in Commands \ {c} : cmd'[d] = cmd[d]
         /\ cmd'[c].kind = cmd[c].kind
         /\ \/ /\ cmd[c].kind = "restart"
               /\ cmd'[c].eng = NoEngine /\ cmd'[c].pc = "ended" /\ cmd'[c].outcome = "idle"
            \/ /\ cmd[c].kind \in Kinds \ {"restart"}
               /\ cmd'[c].eng = live' /\ cmd'[c].pc \in {"awake", "have"}
               /\ (cmd'[c].pc = "awake" <=> cmd[c].kind = "wake")
               /\ cmd'[c].user = cmd[c].user /\ cmd'[c].outcome = cmd[c].outcome
<1>0. cmd \in CmdType /\ live \in Commands \cup {NoEngine} /\ cmd[c].kind \in Kinds
  BY DEF Typed, SessionTypeOK, CmdType
<1>1. /\ cmd[c].pc = "insert" /\ live' \in Commands /\ (live' = live \/ live' = c)
      /\ (live # NoEngine => live' = live)
      /\ UNCHANGED <<messages, notices, open, runState, asleep, active, counter, sleeper,
                     broken, mixed, sleeps, crashes>>
  BY <1>0 DEF Insert, At, store, bounds
<1>2. CASE cmd[c].kind = "restart"
  BY <1>0, <1>1, <1>2 DEF Insert, Kind, End, Ended, Fresh, CmdType, Kinds, Pcs
<1>3. CASE cmd[c].kind # "restart"
  <2>1. PICK e, p : e = live' /\ p = IF cmd[c].kind = "wake" THEN "awake" ELSE "have"
    OBVIOUS
  <2>2. cmd' = [cmd EXCEPT ![c] = [@ EXCEPT !.eng = e, !.pc = p]]
    BY <1>3, <2>1 DEF Insert, Kind
  <2>3. e \in Commands /\ p \in Pcs /\ p \in {"awake", "have"}
    BY <1>1, <2>1 DEF Pcs
  <2>4. cmd' \in CmdType /\ cmd'[c].eng = e /\ cmd'[c].pc = p
    BY <1>0, <2>2, <2>3 DEF CmdType
  <2>5. /\ \A d \in Commands \ {c} : cmd'[d] = cmd[d]
        /\ cmd'[c].kind = cmd[c].kind /\ cmd'[c].user = cmd[c].user
        /\ cmd'[c].outcome = cmd[c].outcome
    BY <1>0, <2>2 DEF CmdType
  <2> QED
    BY <1>0, <1>1, <1>3, <2>1, <2>3, <2>4, <2>5
<1> QED
  BY <1>2, <1>3

\* What Number writes is a command that is to record its message.
LEMMA NumberMoves ==
  ASSUME Typed, NEW c \in Commands, Number(c)
  PROVE  /\ cmd' \in CmdType
         /\ \A d \in Commands : d # c => cmd'[d] = cmd[d]
         /\ cmd[c].pc = "new" /\ cmd[c].kind = "submit"
         /\ cmd'[c].pc = "accept" /\ cmd'[c].kind = "submit" /\ cmd'[c].eng = cmd[c].eng
         /\ cmd'[c].user - 1 \in messages \cup {0} /\ cmd'[c].user \in Nat
<1>1. PICK n : n = Largest(messages) + 1
  OBVIOUS
<1>2. n \in Nat /\ n - 1 \in messages \cup {0}
  <2>1. PICK b \in Nat : \A m \in messages : m <= b
    BY DEF Typed, Bounded
  <2>2. Largest(messages) \in Nat /\ Largest(messages) \in messages \cup {0}
    BY <2>1, LargestIsLargest DEF Typed, SessionTypeOK
  <2> QED
    BY <1>1, <2>2
<1>3. cmd' = [cmd EXCEPT ![c] = [@ EXCEPT !.pc = "accept", !.user = n]]
  BY <1>1 DEF Number
<1>4. cmd \in CmdType /\ "accept" \in Pcs
  BY DEF Typed, SessionTypeOK, CmdType, Pcs
<1>5. cmd' \in CmdType
  BY <1>2, <1>3, <1>4, MovedTyped
<1>6. cmd[c].pc = "new" /\ cmd[c].kind = "submit"
  BY DEF Number, At, Kind
<1> QED
  BY <1>2, <1>3, <1>4, <1>5, <1>6 DEF CmdType

\* What Accept writes is a command, on its way or ended.
LEMMA AcceptMoves ==
  ASSUME Typed, NEW c \in Commands, Accept(c)
  PROVE  /\ cmd' \in CmdType
         /\ \A d \in Commands : d # c => cmd'[d] = cmd[d]
         /\ cmd[c].pc = "accept" /\ cmd'[c].kind = cmd[c].kind
         /\ \/ /\ cmd'[c].pc = "find" /\ cmd'[c].eng = cmd[c].eng
               /\ cmd'[c].user = cmd[c].user /\ cmd[c].user \notin messages
               /\ messages' = messages \cup {cmd[c].user} /\ asleep' = FALSE
            \/ /\ cmd'[c].pc = "ended" /\ cmd'[c].eng = NoEngine
               /\ runState' = "error" /\ UNCHANGED <<messages, asleep>>
<1>1. cmd \in CmdType /\ "find" \in Pcs /\ "ended" \in Pcs
  BY DEF Typed, SessionTypeOK, CmdType, Pcs
<1>2. cmd[c].pc = "accept"
  BY DEF Accept, At
<1>3. CASE cmd[c].user \in messages
  <2>1. End(c) /\ runState' = "error" /\ UNCHANGED <<messages, asleep>>
    BY <1>3 DEF Accept
  <2>2. PICK r : r = Ended(c)
    OBVIOUS
  <2>3. r \in [kind : Kinds, pc : Pcs, eng : Commands \cup {NoEngine},
               outcome : {"idle", "error"}, user : Nat]
    BY <1>1, <2>2 DEF Ended, Fresh, CmdType
  <2>4. cmd' = [cmd EXCEPT ![c] = r]
    BY <2>1, <2>2 DEF End
  <2>5. cmd' \in CmdType
    BY <1>1, <2>3, <2>4 DEF CmdType
  <2> QED
    BY <1>1, <1>2, <2>1, <2>5, EndEnds
<1>4. CASE cmd[c].user \notin messages
  <2>1. /\ cmd' = [cmd EXCEPT ![c].pc = "find"]
        /\ messages' = messages \cup {cmd[c].user} /\ asleep' = FALSE
    BY <1>4 DEF Accept, Goto
  <2> QED
    BY <1>1, <1>2, <1>4, <2>1 DEF CmdType
<1> QED
  BY <1>3, <1>4

\* What the end of an exchange with the provider writes is a command.
LEMMA AnswerMoves ==
  ASSUME Typed, NEW c \in Commands, Reply(c) \/ ProviderFails(c)
  PROVE  cmd' \in CmdType
<1>1. PICK o \in {"idle", "error"} : cmd' = [cmd EXCEPT ![c] = [@ EXCEPT !.pc = "finish",
                                                                         !.outcome = o]]
  BY DEF Reply, ProviderFails, Outcome
<1>2. cmd \in CmdType /\ "finish" \in Pcs
  BY DEF Typed, SessionTypeOK, CmdType, Pcs
<1> QED
  BY <1>1, <1>2, MovedTyped

(***************************************************************************)
(* Every step keeps the types.                                             *)
(***************************************************************************)
LEMMA TypesKept ==
  ASSUME Typed, [Next]_vars
  PROVE  SessionTypeOK'
<1> USE SessionAssumption DEF Typed, SessionTypeOK, Kinds, Pcs, store, engines, bounds
<1>22. ASSUME NEW c \in Commands, Number(c) PROVE SessionTypeOK'
  <2>1. cmd' \in CmdType /\ raced' \in BOOLEAN
    BY <1>22, NumberMoves DEF Number, Step
  <2>2. \A d \in Commands : cmd'[d].pc \in {"have", "turn", "finish"} => cmd'[d].eng \in Commands
    BY <1>22, NumberMoves DEF Engine
  <2> QED
    BY <1>22, <2>1, <2>2 DEF Number, Engine, CmdType
<1>1. ASSUME NEW c \in Commands, Accept(c) PROVE SessionTypeOK'
  <2>1. cmd' \in CmdType /\ raced' \in BOOLEAN
    BY <1>1, AcceptMoves DEF Accept, Step
  <2>2. \A d \in Commands : cmd'[d].pc \in {"have", "turn", "finish"} => cmd'[d].eng \in Commands
    BY <1>1, AcceptMoves DEF Engine
  <2>3. /\ messages' \subseteq Nat /\ asleep' \in BOOLEAN
        /\ runState' \in {"running", "error"}
    <3>1. cmd[c].user \in Nat
      OBVIOUS
    <3>2. \/ runState' = "error" /\ UNCHANGED <<messages, asleep>>
          \/ messages' = messages \cup {cmd[c].user} /\ asleep' = FALSE
             /\ runState' = "running"
      BY <1>1 DEF Accept
    <3> QED
      BY <3>1, <3>2
  <2> QED
    BY <1>1, <2>1, <2>2, <2>3 DEF Accept, Engine, CmdType
<1>2. ASSUME NEW c \in Commands, Call(c) PROVE SessionTypeOK'
  <2>1. PICK p \in {"find", "restart"} : cmd' = [cmd EXCEPT ![c].pc = p]
    BY <1>2 DEF Call, Goto
  <2>2. asleep' \in BOOLEAN /\ raced' \in BOOLEAN
    BY <1>2 DEF Call, Step
  <2> QED
    BY <1>2, <2>1, <2>2 DEF Call, Engine
<1>3. ASSUME NEW c \in Commands, Restart(c) PROVE SessionTypeOK'
  <2>1. CASE live \in active
    <3>1. cmd' = [cmd EXCEPT ![c] = [kind |-> cmd[c].kind, pc |-> "ended", eng |-> NoEngine,
                                     outcome |-> "idle", user |-> 0]]
      BY <1>3, <2>1 DEF Restart, End, Ended, Fresh
    <3> QED
      BY <1>3, <2>1, <3>1 DEF Restart, Step, Engine
  <2>2. CASE live \notin active
    <3>1. cmd' = [cmd EXCEPT ![c].pc = "build"] /\ live' = NoEngine /\ broken' \in BOOLEAN
      BY <1>3, <2>2 DEF Restart, Goto, Unlist
    <3> QED
      BY <1>3, <2>2, <3>1 DEF Restart, Step, Engine
  <2> QED
    BY <2>1, <2>2
<1>4. ASSUME NEW c \in Commands, Find(c) PROVE SessionTypeOK'
  <2>1. PICK e, p : /\ e = live
                    /\ p = IF live = NoEngine THEN "build"
                           ELSE IF cmd[c].kind = "wake" THEN "awake" ELSE "have"
    OBVIOUS
  <2>2. cmd' = [cmd EXCEPT ![c] = [@ EXCEPT !.eng = e, !.pc = p]]
    BY <1>4, <2>1 DEF Find, Kind
  <2>3. p \in Pcs /\ e \in Commands \cup {NoEngine} /\ (p = "have" => e \in Commands)
        /\ p \notin {"turn", "finish"}
    BY <2>1
  <2>4. cmd' \in CmdType /\ (cmd'[c].pc = "have" => cmd'[c].eng \in Commands)
        /\ cmd'[c].pc \notin {"turn", "finish"} /\ \A d \in Commands \ {c} : cmd'[d] = cmd[d]
    <3> HIDE DEF Pcs, Kinds
    <3> QED
      BY <2>2, <2>3 DEF CmdType
  <2> QED
    BY <1>4, <2>4 DEF Find, Step, Engine, CmdType
<1>5. ASSUME NEW c \in Commands, Recheck(c) PROVE SessionTypeOK'
  BY <1>5 DEF Recheck, Step, Goto, Unlist, Engine, At, Kind
<1>6. ASSUME NEW c \in Commands, Build(c) PROVE SessionTypeOK'
  BY LargestTyped, <1>6 DEF Build, Step, Goto, Engine, At, Kind
<1>7. ASSUME NEW c \in Commands, Insert(c) PROVE SessionTypeOK'
  <2>1. raced' \in BOOLEAN
    BY <1>7 DEF Insert, Step
  <2>2. cmd \in CmdType
    BY DEF CmdType
  <2>3. cmd' \in CmdType /\ \A d \in Commands : cmd'[d].pc \in {"have", "turn", "finish"}
                                               => Engine(d)' \in Commands
    <3> HIDE DEF Pcs, Kinds
    <3> QED
      BY <1>7, <2>2, InsertMoves DEF Engine
  <2>4. /\ live' \in Commands
        /\ UNCHANGED <<messages, notices, open, runState, asleep, active, counter, sleeper,
                       broken, mixed, sleeps, crashes>>
    BY <1>7, InsertMoves
  <2> QED
    BY <2>1, <2>3, <2>4 DEF CmdType
<1>8. ASSUME NEW c \in Commands, SetupFails(c) PROVE SessionTypeOK'
  BY <1>8 DEF SetupFails, Step, End, Ended, Fresh, Unlist, Engine, At, Kind
<1>9. ASSUME NEW c \in Commands, WakeFails(c) PROVE SessionTypeOK'
  BY <1>9 DEF WakeFails, Step, End, Ended, Fresh, Unlist, Engine, At, Kind
<1>10. ASSUME NEW c \in Commands, MarkAwake(c) PROVE SessionTypeOK'
  BY <1>10 DEF MarkAwake, Step, End, Ended, Fresh, Engine, At, Kind
<1>11. ASSUME NEW c \in Commands, Begin(c) PROVE SessionTypeOK'
  BY <1>11 DEF Begin, Step, Goto, End, Ended, Fresh, Engine, At, Kind
<1>12. ASSUME NEW c \in Commands, Take(c) PROVE SessionTypeOK'
  BY <1>12 DEF Take, Step, Goto, Engine, At, Kind
<1>13. ASSUME NEW c \in Commands, Reply(c) PROVE SessionTypeOK'
  <2>1. Engine(c) \in Commands /\ counter[Engine(c)] + 1 \in Nat
    BY <1>13 DEF Reply, At, Engine
  <2>2. /\ messages' \subseteq Nat /\ counter' \in [Commands -> Nat]
        /\ raced' \in BOOLEAN /\ mixed' \in BOOLEAN
    BY <1>13, <2>1 DEF Reply, Step, Write
  <2>3. open' \in {"none", "pending", "ask_user"}
    BY <1>13 DEF Reply
  <2>4. PICK o \in {"idle", "error"} : cmd' = [cmd EXCEPT ![c] = [@ EXCEPT !.pc = "finish",
                                                                           !.outcome = o]]
    BY <1>13 DEF Reply, Outcome
  <2>5. cmd' \in CmdType
    BY <1>13, AnswerMoves
  <2>6. \A d \in Commands : cmd'[d].eng = cmd[d].eng /\ (d # c => cmd'[d].pc = cmd[d].pc)
    BY <2>4
  <2>7. \A d \in Commands : cmd'[d].pc \in {"have", "turn", "finish"} => cmd'[d].eng \in Commands
    BY <2>1, <2>6 DEF Engine
  <2> QED
    BY <1>13, <2>2, <2>3, <2>5, <2>7 DEF Reply, Write, Engine, CmdType
<1>14. ASSUME NEW c \in Commands, ProviderFails(c) PROVE SessionTypeOK'
  <2>1. Engine(c) \in Commands /\ counter[Engine(c)] + 1 \in Nat
    BY <1>14 DEF ProviderFails, At, Engine
  <2>2. /\ notices' \subseteq Nat /\ counter' \in [Commands -> Nat]
        /\ raced' \in BOOLEAN /\ mixed' \in BOOLEAN
    BY <1>14, <2>1 DEF ProviderFails, Step, Write
  <2>5. cmd' \in CmdType
    BY <1>14, AnswerMoves
  <2>6. \A d \in Commands : cmd'[d].eng = cmd[d].eng /\ (d # c => cmd'[d].pc = cmd[d].pc)
    BY <1>14 DEF ProviderFails
  <2>7. \A d \in Commands : cmd'[d].pc \in {"have", "turn", "finish"} => cmd'[d].eng \in Commands
    BY <2>1, <2>6 DEF Engine
  <2> QED
    BY <1>14, <2>2, <2>5, <2>7 DEF ProviderFails, Write, Engine, CmdType
<1>15. ASSUME NEW c \in Commands, Finish(c) PROVE SessionTypeOK'
  BY <1>15 DEF Finish, Step, End, Ended, Fresh, Engine, At, Kind
<1>16. CASE SleepCheck
  BY <1>16 DEF SleepCheck, CanIdleSleep, Engine
<1>17. CASE Teardown
  BY <1>17 DEF Teardown, Unlist, Engine
<1>18. CASE TeardownRefused
  BY <1>18 DEF TeardownRefused, Engine
<1>19. CASE MarkSleeping
  BY <1>19 DEF MarkSleeping, Engine
<1>20. CASE Crash
  BY <1>20 DEF Crash, Ended, Fresh, Under, Engine
<1>21. CASE UNCHANGED vars
  BY <1>21 DEF vars, Engine
<1> QED
  BY <1>22, <1>1, <1>2, <1>3, <1>4, <1>5, <1>6, <1>7, <1>8, <1>9, <1>10, <1>11, <1>12,
     <1>13, <1>14, <1>15, <1>16, <1>17, <1>18, <1>19, <1>20, <1>21 DEF Next, Proceed, Lookup,
     Turn, Sleep

(***************************************************************************)
(* Every step keeps the numbers bounded.                                   *)
(***************************************************************************)
LEMMA BoundsKept ==
  ASSUME Typed, [Next]_vars
  PROVE  Bounded'
<1>1. ASSUME NEW c \in Commands, Accept(c) PROVE Bounded'
  <2> DEFINE n == cmd[c].user
  <2>1. n \in Nat
    BY DEF Typed, SessionTypeOK
  <2>2. messages' \cup notices' \subseteq messages \cup notices \cup {n}
    BY <1>1 DEF Accept
  <2> HIDE DEF n
  <2> QED
    BY <2>1, <2>2, StillBounded
<1>2. ASSUME NEW c \in Commands, Reply(c) \/ ProviderFails(c) PROVE Bounded'
  <2> DEFINE n == counter[Engine(c)] + 1
  <2>1. n \in Nat
    BY <1>2 DEF Reply, ProviderFails, At, Engine, Typed, SessionTypeOK
  <2>2. messages' \cup notices' \subseteq messages \cup notices \cup {n}
    BY <1>2 DEF Reply, ProviderFails
  <2> HIDE DEF n
  <2> QED
    BY <2>1, <2>2, StillBounded
<1>3. CASE UNCHANGED <<messages, notices>>
  BY <1>3 DEF Typed, Bounded
<1> QED
  BY <1>1, <1>2, <1>3 DEF Next, Proceed, Lookup, Turn, Sleep, vars, store, engines,
     Number, Call, Restart, Find, Recheck, Build, Insert, SetupFails, WakeFails, MarkAwake,
     Begin, Take, Finish, SleepCheck, Teardown, TeardownRefused, MarkSleeping, Crash

\* The first state has the types, and its numbers are bounded.
LEMMA TypedFirst ==
  ASSUME Init
  PROVE  Typed
<1>1. SessionTypeOK
  <2>1. PICK kind \in [Commands -> Kinds] : cmd = [c \in Commands |-> Fresh(kind[c])]
    BY DEF Init
  <2>2. /\ cmd \in CmdType
        /\ \A c \in Commands : cmd[c].pc = "new"
    BY <2>1 DEF Fresh, CmdType, Pcs
  <2> QED
    BY <2>2 DEF Init, SessionTypeOK, CmdType
<1>2. Bounded
  BY DEF Init, Bounded
<1> QED
  BY <1>1, <1>2 DEF Typed

(***************************************************************************)
(* The invariant the others rest on: types, and numbers with a largest.    *)
(***************************************************************************)
LEMMA AlwaysTyped == Spec => []Typed
<1>1. Typed /\ [Next]_vars => Typed'
  BY TypesKept, BoundsKept DEF Typed
<1> QED
  BY TypedFirst, <1>1, PTL DEF Spec

(***************************************************************************)
(* The state of a session keeps its types, for any number of commands.     *)
(***************************************************************************)
THEOREM SessionTypeCorrect == Spec => []SessionTypeOK
<1>1. Typed => SessionTypeOK
  BY DEF Typed
<1> QED
  BY AlwaysTyped, <1>1, PTL

\* An engine that leaves the map without breaking anything was used by no command.
LEMMA UnlistedWhenUnused ==
  ASSUME Unlist, broken \in BOOLEAN
  PROVE  /\ live' = NoEngine /\ broken' \in BOOLEAN /\ (broken => broken')
         /\ ~broken' /\ live # NoEngine => \A c \in Commands : cmd[c].eng # live
BY DEF Unlist, Engine

-----------------------------------------------------------------------------
(***************************************************************************)
(* Until an engine is lost every command uses the live one, and a submit   *)
(* in its turn holds it.                                                   *)
(***************************************************************************)
UsesTheLive == ~broken => \A c \in Commands : Engine(c) \in {NoEngine, live}
HoldsItsEngine ==
  ~broken => \A c \in Commands : Kind(c) = "submit" /\ At(c, "turn") => Engine(c) \in active
NoneBefore ==
  \A c \in Commands :
    cmd[c].pc \in {"new", "accept", "ended", "restart", "find", "build", "insert"}
      => Engine(c) = NoEngine
OneInTurn ==
  ~broken => \A c, d \in Commands :
               Kind(c) = "submit" /\ At(c, "turn") /\ Kind(d) = "submit" /\ At(d, "turn") => c = d
Claims == UsesTheLive /\ HoldsItsEngine /\ NoneBefore /\ OneInTurn

\* Every step keeps the claims.
LEMMA ClaimsKept ==
  ASSUME Typed, Claims, [Next]_vars
  PROVE  Claims'
<1> USE DEF Claims, UsesTheLive, HoldsItsEngine, NoneBefore, OneInTurn, Engine, At, Kind,
     store, engines, bounds
<1>0. /\ cmd \in CmdType /\ live \in Commands \cup {NoEngine} /\ NoEngine \notin Commands
      /\ broken \in BOOLEAN
      /\ \A c \in Commands : cmd[c].pc \in {"have", "turn", "finish"} => cmd[c].eng \in Commands
  BY SessionAssumption DEF Typed, SessionTypeOK, CmdType
<1>22. ASSUME NEW c \in Commands, Number(c) PROVE Claims'
  <2>1. UNCHANGED <<live, active, broken>>
    BY <1>22 DEF Number
  <2> QED
    BY <1>0, <1>22, <2>1, NumberMoves
<1>1. ASSUME NEW c \in Commands, Accept(c) PROVE Claims'
  <2>1. UNCHANGED <<live, active, broken>>
    BY <1>1 DEF Accept
  <2>2. /\ \A d \in Commands : d # c => cmd'[d] = cmd[d]
        /\ cmd'[c].eng \in {cmd[c].eng, NoEngine} /\ cmd'[c].pc \in {"find", "ended"}
        /\ cmd[c].pc = "accept"
    BY <1>1, AcceptMoves
  <2>3. \A d \in Commands : cmd'[d].eng \in {cmd[d].eng, NoEngine}
    BY <2>2
  <2> QED
    BY <1>0, <2>1, <2>2, <2>3
<1>2. ASSUME NEW c \in Commands, Call(c) PROVE Claims'
  BY <1>0, <1>2 DEF Call, Goto, CmdType
<1>3. ASSUME NEW c \in Commands, Restart(c) PROVE Claims'
  <2>1. CASE live \in active
    <3>1. End(c) /\ UNCHANGED <<live, broken, active>>
      BY <1>3, <2>1 DEF Restart
    <3> QED
      BY <1>0, <3>1, EndEnds
  <2>2. CASE live \notin active
    <3>1. cmd' = [cmd EXCEPT ![c].pc = "build"] /\ UNCHANGED active /\ cmd[c].pc = "restart"
      BY <1>3, <2>2 DEF Restart, Goto
    <3>2. Unlist
      BY <1>3, <2>2 DEF Restart
    <3> QED
      BY <1>0, <3>1, <3>2, UnlistedWhenUnused DEF CmdType
  <2> QED
    BY <2>1, <2>2
<1>4. ASSUME NEW c \in Commands, Find(c) PROVE Claims'
  BY <1>0, <1>4 DEF Find, CmdType
<1>5. ASSUME NEW c \in Commands, Recheck(c) PROVE Claims'
  BY <1>0, <1>5 DEF Recheck, Goto, Unlist, CmdType
<1>6. ASSUME NEW c \in Commands, Build(c) PROVE Claims'
  BY <1>0, <1>6 DEF Build, Goto, CmdType
<1>7. ASSUME NEW c \in Commands, Insert(c) PROVE Claims'
  BY <1>0, <1>7, InsertMoves DEF CmdType
<1>8. ASSUME NEW c \in Commands, SetupFails(c) PROVE Claims'
  <2>1. End(c) /\ UNCHANGED active
    BY <1>8 DEF SetupFails
  <2>2. \/ UNCHANGED <<live, broken>>
        \/ Unlist
    BY <1>8 DEF SetupFails
  <2>3. CASE UNCHANGED <<live, broken>>
    BY <1>0, <2>1, <2>3, EndEnds
  <2>4. CASE Unlist
    BY <1>0, <2>1, <2>4, EndEnds, UnlistedWhenUnused
  <2> QED
    BY <2>2, <2>3, <2>4
<1>9. ASSUME NEW c \in Commands, WakeFails(c) PROVE Claims'
  BY <1>0, <1>9 DEF WakeFails, End, Ended, Fresh, Unlist, CmdType
<1>10. ASSUME NEW c \in Commands, MarkAwake(c) PROVE Claims'
  BY <1>0, <1>10 DEF MarkAwake, End, Ended, Fresh, CmdType
<1>11. ASSUME NEW c \in Commands, Begin(c) PROVE Claims'
  BY <1>0, <1>11 DEF Begin, Goto, End, Ended, Fresh, CmdType
<1>12. ASSUME NEW c \in Commands, Take(c) PROVE Claims'
  BY <1>0, <1>12 DEF Take, Goto, CmdType
<1>13. ASSUME NEW c \in Commands, Reply(c) PROVE Claims'
  BY <1>0, <1>13 DEF Reply, Outcome, CmdType
<1>14. ASSUME NEW c \in Commands, ProviderFails(c) PROVE Claims'
  BY <1>0, <1>14 DEF ProviderFails, CmdType
<1>15. ASSUME NEW c \in Commands, Finish(c) PROVE Claims'
  <2>1. End(c) /\ UNCHANGED live /\ active' = active \ {cmd[c].eng}
    BY <1>15 DEF Finish
  <2>2. ~broken' => ~broken /\ \A d \in Commands :
          d # c /\ cmd[d].kind = "submit" /\ cmd[d].pc = "turn" => cmd[d].eng # cmd[c].eng
    BY <1>15 DEF Finish, Submits
  <2> QED
    BY <1>0, <2>1, <2>2, EndEnds
<1>16. CASE SleepCheck
  BY <1>0, <1>16 DEF SleepCheck, CanIdleSleep, CmdType
<1>17. CASE Teardown
  BY <1>0, <1>17 DEF Teardown, Unlist, CmdType
<1>18. CASE TeardownRefused
  BY <1>0, <1>18 DEF TeardownRefused, CmdType
<1>19. CASE MarkSleeping
  BY <1>0, <1>19 DEF MarkSleeping, CmdType
<1>20. CASE Crash
  BY <1>0, <1>20 DEF Crash, Ended, Fresh, Under, CmdType
<1>21. CASE UNCHANGED vars
  BY <1>21 DEF vars
<1> QED
  BY <1>22, <1>1, <1>2, <1>3, <1>4, <1>5, <1>6, <1>7, <1>8, <1>9, <1>10, <1>11, <1>12,
     <1>13, <1>14, <1>15, <1>16, <1>17, <1>18, <1>19, <1>20, <1>21 DEF Next, Proceed, Lookup,
     Turn, Sleep

\* The claims hold in every reachable state.
LEMMA AlwaysClaims == Spec => []Claims
<1>1. Init => Claims
  <2> SUFFICES ASSUME Init PROVE Claims
    OBVIOUS
  <2>1. PICK kind \in [Commands -> Kinds] : cmd = [c \in Commands |-> Fresh(kind[c])]
    BY DEF Init
  <2>2. \A c \in Commands : cmd[c].pc = "new" /\ cmd[c].eng = NoEngine
    BY <2>1 DEF Fresh
  <2> QED
    BY <2>2 DEF Claims, UsesTheLive, HoldsItsEngine, NoneBefore, OneInTurn, Engine, At
<1>2. Typed /\ Claims /\ [Next]_vars => Claims'
  BY ClaimsKept
<1> QED
  BY <1>1, <1>2, AlwaysTyped, PTL DEF Spec

(***************************************************************************)
(* Two submits never run a turn of the session at the same time, until an  *)
(* engine is lost: whatever number of commands interleave.                 *)
(***************************************************************************)
THEOREM TurnsExcludeEachOther == Spec => []OneTurnAtATime
<1>1. ASSUME Claims PROVE OneTurnAtATime
  <2> SUFFICES ASSUME ~broken
               PROVE  Cardinality({c \in Submits : At(c, "turn")}) <= 1
    BY DEF OneTurnAtATime
  <2> DEFINE T == {c \in Submits : At(c, "turn")}
  <2>1. \A c, d \in T : c = d
    BY <1>1 DEF Claims, OneInTurn, Submits
  <2> HIDE DEF T
  <2>2. CASE T = {}
    BY <2>2, FS_EmptySet DEF T
  <2>3. CASE T # {}
    <3>1. PICK c : T = {c}
      BY <2>1, <2>3
    <3>2. Cardinality(T) = 1
      BY <3>1, FS_Singleton
    <3> QED
      BY <3>2 DEF T
  <2> QED
    BY <2>2, <2>3
<1>2. Claims => OneTurnAtATime
  BY <1>1
<1> QED
  BY AlwaysClaims, <1>2, PTL

-----------------------------------------------------------------------------
(***************************************************************************)
(* Who sets turn_active is there to clear it, and who writes "running" is  *)
(* there to replace it.                                                    *)
(***************************************************************************)
ActiveIsHeld ==
  \A e \in active : \E c \in Commands :
    Kind(c) = "submit" /\ Engine(c) = e /\ cmd[c].pc \in {"turn", "finish"}
RunningIsUnderway ==
  runState = "running" => \E c \in Commands :
    cmd[c].pc \in {"turn", "finish"} \/ (Kind(c) = "submit" /\ Under(c))
BeginsAsCalled ==
  \A c \in Commands :
    /\ At(c, "restart") => Kind(c) = "restart"
    /\ At(c, "accept") => Kind(c) = "submit"
Underway == ActiveIsHeld /\ RunningIsUnderway /\ BeginsAsCalled

\* Every step keeps a holder for turn_active and for "running".
LEMMA UnderwayKept ==
  ASSUME Typed, Underway, [Next]_vars
  PROVE  Underway'
<1> USE DEF Underway, ActiveIsHeld, RunningIsUnderway, BeginsAsCalled, Engine, At, Kind, Under,
     store, engines, bounds
<1>0. cmd \in CmdType
  BY DEF Typed, SessionTypeOK, CmdType
<1>22. ASSUME NEW c \in Commands, Number(c) PROVE Underway'
  BY <1>0, <1>22, NumberMoves DEF Number, CmdType
<1>1. ASSUME NEW c \in Commands, Accept(c) PROVE Underway'
  <2>1. UNCHANGED active /\ runState' \in {"running", "error"}
    BY <1>1 DEF Accept
  <2>2. /\ \A d \in Commands : d # c => cmd'[d] = cmd[d]
        /\ cmd[c].pc = "accept" /\ cmd'[c].pc \in {"find", "ended"}
        /\ cmd[c].kind = "submit" /\ cmd'[c].kind = "submit"
        /\ cmd'[c].pc = "ended" => runState' = "error"
    BY <1>1, AcceptMoves
  <2> QED
    BY <1>0, <2>1, <2>2
<1>2. ASSUME NEW c \in Commands, Call(c) PROVE Underway'
  BY <1>0, <1>2 DEF Call, Goto, CmdType
<1>3. ASSUME NEW c \in Commands, Restart(c) PROVE Underway'
  <2>1. cmd[c].kind = "restart" /\ cmd[c].pc = "restart" /\ UNCHANGED <<active, runState>>
    BY <1>3 DEF Restart
  <2>2. CASE End(c)
    BY <1>0, <2>1, <2>2, EndEnds
  <2>3. CASE cmd' = [cmd EXCEPT ![c].pc = "build"]
    BY <1>0, <2>1, <2>3 DEF CmdType
  <2> QED
    BY <1>3, <2>2, <2>3 DEF Restart, Goto
<1>4. ASSUME NEW c \in Commands, Find(c) PROVE Underway'
  BY <1>0, <1>4 DEF Find, CmdType
<1>5. ASSUME NEW c \in Commands, Recheck(c) PROVE Underway'
  BY <1>0, <1>5 DEF Recheck, Goto, Unlist, CmdType
<1>6. ASSUME NEW c \in Commands, Build(c) PROVE Underway'
  BY <1>0, <1>6 DEF Build, Goto, CmdType
<1>7. ASSUME NEW c \in Commands, Insert(c) PROVE Underway'
  BY <1>0, <1>7, InsertMoves DEF CmdType
<1>8. ASSUME NEW c \in Commands, SetupFails(c) PROVE Underway'
  BY <1>0, <1>8 DEF SetupFails, End, Ended, Fresh, Unlist, CmdType
<1>9. ASSUME NEW c \in Commands, WakeFails(c) PROVE Underway'
  BY <1>0, <1>9 DEF WakeFails, End, Ended, Fresh, Unlist, CmdType
<1>10. ASSUME NEW c \in Commands, MarkAwake(c) PROVE Underway'
  BY <1>0, <1>10 DEF MarkAwake, End, Ended, Fresh, CmdType
<1>11. ASSUME NEW c \in Commands, Begin(c) PROVE Underway'
  BY <1>0, <1>11 DEF Begin, Goto, End, Ended, Fresh, CmdType
<1>12. ASSUME NEW c \in Commands, Take(c) PROVE Underway'
  BY <1>0, <1>12 DEF Take, Goto, CmdType
<1>13. ASSUME NEW c \in Commands, Reply(c) PROVE Underway'
  BY <1>0, <1>13 DEF Reply, Outcome, CmdType
<1>14. ASSUME NEW c \in Commands, ProviderFails(c) PROVE Underway'
  BY <1>0, <1>14 DEF ProviderFails, CmdType
<1>15. ASSUME NEW c \in Commands, Finish(c) PROVE Underway'
  BY <1>0, <1>15 DEF Finish, End, Ended, Fresh, CmdType
<1>16. CASE SleepCheck
  BY <1>0, <1>16 DEF SleepCheck, CanIdleSleep, CmdType
<1>17. CASE Teardown
  BY <1>0, <1>17 DEF Teardown, Unlist, CmdType
<1>18. CASE TeardownRefused
  BY <1>0, <1>18 DEF TeardownRefused, CmdType
<1>19. CASE MarkSleeping
  BY <1>0, <1>19 DEF MarkSleeping, CmdType
<1>20. CASE Crash
  BY <1>0, <1>20 DEF Crash, Ended, Fresh, CmdType
<1>21. CASE UNCHANGED vars
  BY <1>21 DEF vars
<1> QED
  BY <1>22, <1>1, <1>2, <1>3, <1>4, <1>5, <1>6, <1>7, <1>8, <1>9, <1>10, <1>11, <1>12,
     <1>13, <1>14, <1>15, <1>16, <1>17, <1>18, <1>19, <1>20, <1>21 DEF Next, Proceed, Lookup,
     Turn, Sleep

\* Turn_active and "running" have their holder in every reachable state.
LEMMA AlwaysUnderway == Spec => []Underway
<1>1. Init => Underway
  <2> SUFFICES ASSUME Init PROVE Underway
    OBVIOUS
  <2>1. PICK kind \in [Commands -> Kinds] : cmd = [c \in Commands |-> Fresh(kind[c])]
    BY DEF Init
  <2>2. \A c \in Commands : cmd[c].pc = "new"
    BY <2>1 DEF Fresh
  <2> QED
    BY <2>2 DEF Init, Underway, ActiveIsHeld, RunningIsUnderway, BeginsAsCalled, At
<1>2. Typed /\ Underway /\ [Next]_vars => Underway'
  BY UnderwayKept
<1> QED
  BY <1>1, <1>2, AlwaysTyped, PTL DEF Spec

(***************************************************************************)
(* With no command under way the session is not left "running".            *)
(***************************************************************************)
THEOREM RunningIsReplaced == Spec => []NotLeftRunning
<1>1. Underway => NotLeftRunning
  BY DEF Underway, RunningIsUnderway, NotLeftRunning, Under
<1> QED
  BY AlwaysUnderway, <1>1, PTL

-----------------------------------------------------------------------------
(***************************************************************************)
(* Where each kind of command can be.                                      *)
(***************************************************************************)
Places ==
  \A c \in Commands :
    /\ cmd[c].pc = "accept" => Kind(c) = "submit"
    /\ cmd[c].pc = "restart" => Kind(c) = "restart"
    /\ cmd[c].pc = "find" => Kind(c) # "restart"
    /\ cmd[c].pc = "awake" => Kind(c) = "wake"
    /\ cmd[c].pc \in {"have", "turn", "finish"} => Kind(c) \in {"submit", "resolve"}

\* Every step keeps the commands where their kind can be, and their kind.
LEMMA PlacesKept ==
  ASSUME Typed, Places, [Next]_vars
  PROVE  Places' /\ \A c \in Commands : cmd'[c].kind = cmd[c].kind
<1> DEFINE Goal == Places' /\ \A c \in Commands : cmd'[c].kind = cmd[c].kind
<1> SUFFICES Goal
  OBVIOUS
<1> USE DEF Places, Engine, At, Kind, store, engines, bounds
<1>0. cmd \in CmdType
  BY DEF Typed, SessionTypeOK, CmdType
<1>22. ASSUME NEW c \in Commands, Number(c) PROVE Goal
  BY <1>0, <1>22, NumberMoves DEF Number, CmdType, Kinds
<1>1. ASSUME NEW c \in Commands, Accept(c) PROVE Goal
  <2>1. /\ \A d \in Commands : d # c => cmd'[d] = cmd[d]
        /\ cmd[c].kind = "submit" /\ cmd'[c].kind = "submit"
        /\ cmd'[c].pc \in {"find", "ended"}
    BY <1>1, AcceptMoves
  <2> QED
    BY <2>1
<1>2. ASSUME NEW c \in Commands, Call(c) PROVE Goal
  BY <1>0, <1>2 DEF Call, Goto, CmdType, Kinds
<1>3. ASSUME NEW c \in Commands, Restart(c) PROVE Goal
  <2>1. cmd[c].kind = "restart" /\ cmd[c].pc = "restart"
    BY <1>3 DEF Restart
  <2>2. CASE End(c)
    BY <1>0, <2>1, <2>2, EndEnds
  <2>3. CASE cmd' = [cmd EXCEPT ![c].pc = "build"]
    BY <1>0, <2>1, <2>3 DEF CmdType, Kinds
  <2> QED
    BY <1>3, <2>2, <2>3 DEF Restart, Goto
<1>4. ASSUME NEW c \in Commands, Find(c) PROVE Goal
  BY <1>0, <1>4 DEF Find, CmdType, Kinds
<1>5. ASSUME NEW c \in Commands, Recheck(c) PROVE Goal
  BY <1>0, <1>5 DEF Recheck, Goto, Unlist, CmdType, Kinds
<1>6. ASSUME NEW c \in Commands, Build(c) PROVE Goal
  BY <1>0, <1>6 DEF Build, Goto, CmdType, Kinds
<1>7. ASSUME NEW c \in Commands, Insert(c) PROVE Goal
  BY <1>0, <1>7, InsertMoves DEF CmdType, Kinds
<1>8. ASSUME NEW c \in Commands, SetupFails(c) PROVE Goal
  BY <1>0, <1>8 DEF SetupFails, End, Ended, Fresh, Unlist, CmdType, Kinds
<1>9. ASSUME NEW c \in Commands, WakeFails(c) PROVE Goal
  BY <1>0, <1>9 DEF WakeFails, End, Ended, Fresh, Unlist, CmdType, Kinds
<1>10. ASSUME NEW c \in Commands, MarkAwake(c) PROVE Goal
  BY <1>0, <1>10 DEF MarkAwake, End, Ended, Fresh, CmdType, Kinds
<1>11. ASSUME NEW c \in Commands, Begin(c) PROVE Goal
  BY <1>0, <1>11 DEF Begin, Goto, End, Ended, Fresh, CmdType, Kinds
<1>12. ASSUME NEW c \in Commands, Take(c) PROVE Goal
  BY <1>0, <1>12 DEF Take, Goto, CmdType, Kinds
<1>13. ASSUME NEW c \in Commands, Reply(c) PROVE Goal
  BY <1>0, <1>13 DEF Reply, Outcome, CmdType, Kinds
<1>14. ASSUME NEW c \in Commands, ProviderFails(c) PROVE Goal
  BY <1>0, <1>14 DEF ProviderFails, CmdType, Kinds
<1>15. ASSUME NEW c \in Commands, Finish(c) PROVE Goal
  BY <1>0, <1>15 DEF Finish, End, Ended, Fresh, CmdType, Kinds
<1>16. CASE UNCHANGED cmd
  BY <1>16
<1>17. CASE Crash
  BY <1>0, <1>17 DEF Crash, Ended, Fresh, Under, CmdType
<1> QED
  BY <1>22, <1>1, <1>2, <1>3, <1>4, <1>5, <1>6, <1>7, <1>8, <1>9, <1>10, <1>11, <1>12,
     <1>13, <1>14, <1>15, <1>16, <1>17 DEF Next, Proceed, Lookup, Turn, Sleep, SleepCheck,
     Teardown,
     TeardownRefused, MarkSleeping, vars

-----------------------------------------------------------------------------
(***************************************************************************)
(* From the check of the maintenance until the session is woken no turn    *)
(* is active and no command uses the session but one that wakes it,        *)
(* restarts its runtime, is to record its message or clears up after its   *)
(* turn.                                                                   *)
(***************************************************************************)
Undisturbed == ~raced /\ ~broken
Falling ==
  asleep \/ sleeper # "watch" \/ \E c \in Commands : Kind(c) = "wake" /\ Under(c)
FallingIsQuiet ==
  Undisturbed /\ Falling =>
    /\ active = {} /\ open # "pending"
    /\ \A c \in Commands : Under(c) =>
         \/ Kind(c) \in {"wake", "restart"}
         \/ Kind(c) = "submit" /\ cmd[c].pc \in {"accept", "finish"}
AsleepHasNoRuntime ==
  Undisturbed /\ asleep =>
    /\ live = NoEngine \/ Kind(live) = "restart"
    /\ \A c \in Commands : Kind(c) = "wake" => ~Under(c)
TornDown == Undisturbed /\ sleeper = "mark" => live = NoEngine
NoneUnclaimed ==
  Undisturbed /\ sleeper # "watch" => \A c \in Commands : ~Unclaimed(c)
Quiet == FallingIsQuiet /\ AsleepHasNoRuntime /\ TornDown /\ NoneUnclaimed

\* Every step keeps a session that falls asleep quiet.
LEMMA QuietKept ==
  ASSUME Typed, Claims, Underway, Places, Quiet, [Next]_vars
  PROVE  Quiet'
<1> USE DEF Quiet, FallingIsQuiet, AsleepHasNoRuntime, TornDown, NoneUnclaimed, Falling,
     Undisturbed, Engine, At, Kind, Under, Unclaimed, Submits, FallingAsleep,
     store, engines, bounds
<1>0. /\ cmd \in CmdType /\ live \in Commands \cup {NoEngine} /\ NoEngine \notin Commands
      /\ broken \in BOOLEAN /\ raced \in BOOLEAN /\ asleep \in BOOLEAN
      /\ active \subseteq Commands
      /\ sleeper \in {"watch", "teardown", "mark"}
  BY SessionAssumption DEF Typed, SessionTypeOK, CmdType
<1>22. ASSUME NEW c \in Commands, Number(c) PROVE Quiet'
  <2>1. /\ \A d \in Commands : d # c => cmd'[d] = cmd[d]
        /\ cmd[c].pc = "new" /\ cmd[c].kind = "submit"
        /\ cmd'[c].pc = "accept" /\ cmd'[c].kind = "submit"
    BY <1>22, NumberMoves
  <2>2. /\ UNCHANGED <<asleep, live, active, open, sleeper, broken>>
        /\ raced => raced'
        /\ ~raced' => sleeper = "watch"
    BY <1>22 DEF Number, Step
  <2> QED
    BY <1>0, <2>1, <2>2
<1>1. ASSUME NEW c \in Commands, Accept(c) PROVE Quiet'
  <2>1. /\ \A d \in Commands : d # c => cmd'[d] = cmd[d]
        /\ cmd[c].kind = "submit" /\ cmd'[c].kind = "submit"
    BY <1>1, AcceptMoves DEF Places
  <2>2. /\ UNCHANGED <<live, active, open, sleeper, broken>>
        /\ raced => raced'
        /\ ~raced' => sleeper = "watch" /\ \A d \in Commands \ {c} :
                                               cmd[d].kind = "wake" => cmd[d].pc \in {"new", "ended"}
    BY <1>0, <1>1 DEF Accept, Step
  <2>3. CASE asleep' = FALSE
    <3>1. ~raced' => ~Falling'
      BY <2>1, <2>2, <2>3
    <3> QED
      BY <2>2, <2>3, <3>1
  <2>4. CASE cmd'[c].pc = "ended" /\ UNCHANGED asleep
    BY <1>0, <2>1, <2>2, <2>4
  <2> QED
    BY <1>1, <2>3, <2>4, AcceptMoves
<1>2. ASSUME NEW c \in Commands, Call(c) PROVE Quiet'
  <2>1. PICK p \in {"find", "restart"} : cmd' = [cmd EXCEPT ![c].pc = p]
    BY <1>2 DEF Call, Goto
  <2>2. \A d \in Commands : cmd'[d].kind = cmd[d].kind /\ (d # c => cmd'[d].pc = cmd[d].pc)
    BY <1>0, <2>1 DEF CmdType
  <2>3. /\ UNCHANGED <<active, open, live, sleeper, broken>>
        /\ raced => raced'
        /\ ~raced' => sleeper = "watch" /\ \A d \in Commands \ {c} :
                                               cmd[d].kind = "wake" => cmd[d].pc \in {"new", "ended"}
    BY <1>0, <1>2 DEF Call, Step
  <2>4. CASE cmd[c].kind = "resolve" /\ asleep' = FALSE
    <3>1. ~raced' => ~Falling'
      BY <2>2, <2>3, <2>4
    <3> QED
      BY <2>3, <2>4, <3>1
  <2>5. CASE cmd[c].kind = "wake" /\ asleep /\ asleep' = FALSE
    <3>1. Undisturbed' => Undisturbed /\ Falling /\ sleeper' = "watch"
      BY <2>3, <2>5
    <3>2. Undisturbed' => FallingIsQuiet'
      <4>1. SUFFICES ASSUME Undisturbed', Falling'
                     PROVE  FallingIsQuiet'
        OBVIOUS
      <4>2. active' = {} /\ open' # "pending"
        BY <2>3, <2>5, <3>1, <4>1
      <4>3. ASSUME NEW d \in Commands, Under(d)'
            PROVE  \/ Kind(d)' \in {"wake", "restart"}
                   \/ Kind(d)' = "submit" /\ cmd'[d].pc \in {"accept", "finish"}
        <5>1. CASE d = c
          <6>1. Kind(c)' \in {"wake", "restart"}
            BY <2>2, <2>5
          <6> HIDE DEF Kind
          <6> QED
            BY <5>1, <6>1
        <5>2. CASE d # c
          BY <1>0, <2>2, <3>1, <4>1, <4>3, <5>2
        <5> QED
          BY <5>1, <5>2
      <4> QED
        BY <4>2, <4>3
    <3> QED
      BY <2>5, <3>1, <3>2
  <2>6. CASE cmd[c].kind = "restart" /\ asleep' = asleep
    <3>1. Undisturbed' => Undisturbed /\ sleeper' = "watch" /\ (Falling' => Falling)
      BY <2>2, <2>3, <2>6
    <3>2. \A d \in Commands : Kind(d)' = "wake" => Under(d)' = Under(d)
      BY <2>2, <2>6
    <3>3. (Kind(live) = "restart" => Kind(live)' = "restart") \/ live = NoEngine
      BY <1>0, <2>2, <2>3
    <3>4. Undisturbed' => FallingIsQuiet'
      <4>1. SUFFICES ASSUME Undisturbed', Falling'
                     PROVE  FallingIsQuiet'
        OBVIOUS
      <4>2. active' = {} /\ open' # "pending"
        BY <2>3, <2>6, <3>1, <4>1
      <4>3. ASSUME NEW d \in Commands, Under(d)'
            PROVE  \/ Kind(d)' \in {"wake", "restart"}
                   \/ Kind(d)' = "submit" /\ cmd'[d].pc \in {"accept", "finish"}
        <5>1. CASE d = c
          <6>1. Kind(c)' \in {"wake", "restart"}
            BY <2>2, <2>6
          <6> HIDE DEF Kind
          <6> QED
            BY <5>1, <6>1
        <5>2. CASE d # c
          BY <1>0, <2>2, <3>1, <4>1, <4>3, <5>2
        <5> QED
          BY <5>1, <5>2
      <4> QED
        BY <4>2, <4>3
    <3>5. Undisturbed' => AsleepHasNoRuntime'
      BY <2>2, <2>3, <2>6, <3>1, <3>2, <3>3
    <3> QED
      BY <3>1, <3>4, <3>5
  <2> QED
    BY <1>2, <2>4, <2>5, <2>6 DEF Call
<1>3. ASSUME NEW c \in Commands, Restart(c) PROVE Quiet'
  <2>1. /\ cmd[c].kind = "restart" /\ cmd[c].pc = "restart"
        /\ UNCHANGED <<active, open, asleep, sleeper>>
        /\ raced => raced'
        /\ ~raced' => sleeper = "watch"
    BY <1>0, <1>3 DEF Restart, Step, Places
  <2>2. CASE End(c) /\ UNCHANGED <<live, broken>>
    BY <1>0, <2>1, <2>2, EndEnds DEF CmdType
  <2>3. CASE cmd' = [cmd EXCEPT ![c].pc = "build"] /\ Unlist
    BY <1>0, <2>1, <2>3, UnlistedWhenUnused DEF CmdType
  <2> QED
    BY <1>3, <2>2, <2>3 DEF Restart, Goto
<1>4. ASSUME NEW c \in Commands, Find(c) PROVE Quiet'
  BY <1>0, <1>4 DEF Find, Step, CmdType, Places
<1>5. ASSUME NEW c \in Commands, Recheck(c) PROVE Quiet'
  BY <1>0, <1>5 DEF Recheck, Step, Goto, Unlist, CmdType, Places
<1>6. ASSUME NEW c \in Commands, Build(c) PROVE Quiet'
  BY <1>0, <1>6 DEF Build, Step, Goto, CmdType, Places
<1>7. ASSUME NEW c \in Commands, Insert(c) PROVE Quiet'
  <2>1. Undisturbed' => Undisturbed /\ ~FallingAsleep(c)
    BY <1>7, InsertMoves DEF Insert, Step
  <2>2. Under(c) /\ \A d \in Commands : Under(d)' => Under(d)
    BY <1>7, InsertMoves
  <2>3. \A d \in Commands : Kind(d)' = Kind(d)
    BY <1>7, InsertMoves
  <2>4. Falling' => Falling
    BY <1>7, <2>2, <2>3, InsertMoves
  <2>5. \A d \in Commands : At(d, "finish") => At(d, "finish")'
    BY <1>7, InsertMoves
  <2>6. FallingIsQuiet'
    BY <1>7, <2>1, <2>2, <2>3, <2>4, <2>5, InsertMoves
  <2>7. Undisturbed' => sleeper' = "watch"
    BY <1>7, <2>1, InsertMoves
  <2>8. Undisturbed' /\ asleep' => Kind(c) \in {"wake", "restart"}
    BY <1>7, <2>1, <2>2, InsertMoves
  <2>9. AsleepHasNoRuntime'
    <3>1. ASSUME Undisturbed', asleep' PROVE Kind(c) = "restart" /\ asleep
      BY <1>7, <3>1, <2>1, <2>2, <2>8, InsertMoves
    <3> QED
      BY <1>0, <1>7, <2>1, <2>2, <2>3, <3>1, InsertMoves
  <2> QED
    BY <2>6, <2>7, <2>9
<1>8. ASSUME NEW c \in Commands, SetupFails(c) PROVE Quiet'
  BY <1>0, <1>8 DEF SetupFails, Step, End, Ended, Fresh, Unlist, CmdType, Places
<1>9. ASSUME NEW c \in Commands, WakeFails(c) PROVE Quiet'
  BY <1>0, <1>9 DEF WakeFails, Step, End, Ended, Fresh, Unlist, CmdType, Places
<1>10. ASSUME NEW c \in Commands, MarkAwake(c) PROVE Quiet'
  BY <1>0, <1>10 DEF MarkAwake, Step, End, Ended, Fresh, CmdType, Places
<1>11. ASSUME NEW c \in Commands, Begin(c) PROVE Quiet'
  BY <1>0, <1>11 DEF Begin, Step, Goto, End, Ended, Fresh, CmdType, Places
<1>12. ASSUME NEW c \in Commands, Take(c) PROVE Quiet'
  BY <1>0, <1>12 DEF Take, Step, Goto, CmdType, Places
<1>13. ASSUME NEW c \in Commands, Reply(c) PROVE Quiet'
  BY <1>0, <1>13 DEF Reply, Step, Outcome, CmdType, Places
<1>14. ASSUME NEW c \in Commands, ProviderFails(c) PROVE Quiet'
  BY <1>0, <1>14 DEF ProviderFails, Step, CmdType, Places
<1>15. ASSUME NEW c \in Commands, Finish(c) PROVE Quiet'
  BY <1>0, <1>15 DEF Finish, Step, End, Ended, Fresh, CmdType, Places
<1>16. CASE SleepCheck
  <2>1. /\ ~asleep /\ live \notin active /\ open # "pending" /\ sleeper' = "teardown"
        /\ UNCHANGED <<store, engines, cmd, broken>>
        /\ raced => raced'
        /\ ~raced' => \A c \in Commands : ~Unclaimed(c)
    BY <1>0, <1>16 DEF SleepCheck, CanIdleSleep
  <2> SUFFICES ASSUME ~raced', ~broken' PROVE Quiet'
    BY <1>0, <2>1
  <2>2. \A e \in active : FALSE
    BY <1>0, <2>1 DEF Claims, UsesTheLive, Underway, ActiveIsHeld
  <2>3. \A c \in Commands : cmd[c].kind = "submit" => cmd[c].pc # "turn"
    BY <2>1, <2>2 DEF Claims, HoldsItsEngine
  <2>4. \A c \in Commands : Under(c) => Kind(c) = "submit" /\ At(c, "finish")
    BY <2>1, <2>3
  <2>5. cmd' = cmd /\ active' = active /\ open' = open /\ asleep' = asleep
    BY <2>1
  <2>6. \A c \in Commands : ~Unclaimed(c)'
    BY <2>1, <2>5
  <2>7. \A c \in Commands : Under(c)' =>
          Kind(c)' = "submit" /\ cmd'[c].pc \in {"accept", "finish"}
    BY <2>4, <2>5
  <2> HIDE DEF Under, At, Unclaimed, Falling
  <2>8. FallingIsQuiet'
    BY <2>1, <2>2, <2>5, <2>7
  <2>9. AsleepHasNoRuntime' /\ TornDown'
    BY <2>1, <2>5
  <2>10. NoneUnclaimed'
    BY <2>6
  <2> QED
    BY <2>8, <2>9, <2>10
<1>17. CASE Teardown
  BY <1>0, <1>17 DEF Teardown, Unlist, CmdType
<1>18. CASE TeardownRefused
  BY <1>0, <1>18 DEF TeardownRefused, CmdType
<1>19. CASE MarkSleeping
  BY <1>0, <1>19 DEF MarkSleeping, CmdType
<1>20. CASE Crash
  BY <1>0, <1>20 DEF Crash, Ended, Fresh, CmdType
<1>21. CASE UNCHANGED vars
  BY <1>21 DEF vars
<1> QED
  BY <1>22, <1>1, <1>2, <1>3, <1>4, <1>5, <1>6, <1>7, <1>8, <1>9, <1>10, <1>11, <1>12,
     <1>13, <1>14, <1>15, <1>16, <1>17, <1>18, <1>19, <1>20, <1>21 DEF Next, Proceed, Lookup,
     Turn, Sleep

\* A session that falls asleep is quiet in every reachable state.
LEMMA AlwaysQuiet == Spec => [](Places /\ Quiet)
<1>1. Init => Places /\ Quiet
  <2> SUFFICES ASSUME Init PROVE Places /\ Quiet
    OBVIOUS
  <2>1. PICK kind \in [Commands -> Kinds] : cmd = [c \in Commands |-> Fresh(kind[c])]
    BY DEF Init
  <2>2. \A c \in Commands : cmd[c].pc = "new"
    BY <2>1 DEF Fresh
  <2>3. ~Falling /\ ~asleep /\ sleeper = "watch"
    BY <2>2 DEF Init, Falling, Under
  <2> QED
    BY <2>2, <2>3 DEF Places, Quiet, FallingIsQuiet, AsleepHasNoRuntime, TornDown,
       NoneUnclaimed
<1>2. Typed /\ Claims /\ Underway /\ Places /\ Quiet /\ [Next]_vars => (Places /\ Quiet)'
  BY PlacesKept, QuietKept
<1> QED
  BY <1>1, <1>2, AlwaysTyped, AlwaysClaims, AlwaysUnderway, PTL DEF Spec

(***************************************************************************)
(* A session asleep has no turn, no approval open and no runtime but one a *)
(* restart gave it, unless it was put to sleep under a command nobody saw. *)
(***************************************************************************)
THEOREM AsleepIsQuiet == Spec => []SleepsQuietly
<1>1. Quiet => SleepsQuietly
  BY DEF Quiet, FallingIsQuiet, AsleepHasNoRuntime, Falling, Undisturbed, SleepsQuietly
<1> QED
  BY AlwaysQuiet, <1>1, PTL

-----------------------------------------------------------------------------
(***************************************************************************)
(* While one engine writes at a time, every number above its counter, up   *)
(* to the largest in messages, is taken by a message.                      *)
(***************************************************************************)
NoGapFor(e) ==
  \A m \in messages, k \in Nat : counter[e] < k /\ k <= m => k \in messages
NoGap == ~mixed => \A e \in InHand : NoGapFor(e)
\* The message before the one to record is recorded, and so is an accepted one.
UserRecorded ==
  \A c \in Commands : Kind(c) = "submit" /\ Under(c) =>
    IF At(c, "accept") THEN cmd[c].user - 1 \in messages \cup {0}
    ELSE cmd[c].user \in messages
Numbers == NoGap /\ UserRecorded

(***************************************************************************)
(* The engines in hand only change by being built.                         *)
(***************************************************************************)
LEMMA InHandTyped ==
  ASSUME Typed
  PROVE  InHand \subseteq Commands
BY DEF Typed, SessionTypeOK, InHand, Engine

\* A step adds an engine to those in hand only by building it.
LEMMA HandsKept ==
  ASSUME Typed, Claims, [Next]_vars
  PROVE  \/ InHand' \subseteq InHand
         \/ \E c \in Commands : Build(c) /\ InHand' \subseteq InHand \cup {c}
<1> DEFINE Goal == \/ InHand' \subseteq InHand
                   \/ \E c \in Commands : Build(c) /\ InHand' \subseteq InHand \cup {c}
<1> SUFFICES Goal
  OBVIOUS
<1> USE DEF InHand, Engine, At, store, engines, bounds
<1>0. /\ cmd \in CmdType /\ live \in Commands \cup {NoEngine} /\ NoEngine \notin Commands
  BY SessionAssumption DEF Typed, SessionTypeOK, CmdType
<1>22. ASSUME NEW c \in Commands, Number(c) PROVE Goal
  <2>1. UNCHANGED live
    BY <1>22 DEF Number
  <2> QED
    BY <1>0, <1>22, <2>1, NumberMoves
<1>1. ASSUME NEW c \in Commands, Accept(c) PROVE Goal
  <2>1. UNCHANGED live
    BY <1>1 DEF Accept
  <2>2. /\ \A d \in Commands : d # c => cmd'[d] = cmd[d]
        /\ cmd'[c].eng \in {cmd[c].eng, NoEngine} /\ cmd'[c].pc \in {"find", "ended"}
        /\ cmd[c].pc = "accept"
    BY <1>1, AcceptMoves
  <2>3. \A d \in Commands : cmd'[d].eng \in {cmd[d].eng, NoEngine}
    BY <2>2
  <2> QED
    BY <1>0, <2>1, <2>2, <2>3
<1>2. ASSUME NEW c \in Commands, Call(c) PROVE Goal
  BY <1>0, <1>2 DEF Call, Goto, CmdType
<1>3. ASSUME NEW c \in Commands, Restart(c) PROVE Goal
  BY <1>0, <1>3, EndEnds DEF Restart, Goto, Unlist, CmdType
<1>4. ASSUME NEW c \in Commands, Find(c) PROVE Goal
  BY <1>0, <1>4 DEF Find, CmdType
<1>5. ASSUME NEW c \in Commands, Recheck(c) PROVE Goal
  BY <1>0, <1>5 DEF Recheck, Goto, Unlist, CmdType
<1>6. ASSUME NEW c \in Commands, Build(c) PROVE Goal
  <2>1. InHand' \subseteq InHand \cup {c}
    BY <1>0, <1>6 DEF Build, Goto, CmdType
  <2> QED
    BY <1>6, <2>1
<1>7. ASSUME NEW c \in Commands, Insert(c) PROVE Goal
  BY <1>0, <1>7, InsertMoves DEF CmdType
<1>8. ASSUME NEW c \in Commands, SetupFails(c) PROVE Goal
  BY <1>0, <1>8, EndEnds DEF SetupFails, Unlist, CmdType
<1>9. ASSUME NEW c \in Commands, WakeFails(c) PROVE Goal
  BY <1>0, <1>9, EndEnds DEF WakeFails, Unlist, CmdType
<1>10. ASSUME NEW c \in Commands, MarkAwake(c) PROVE Goal
  BY <1>0, <1>10, EndEnds DEF MarkAwake, CmdType
<1>11. ASSUME NEW c \in Commands, Begin(c) PROVE Goal
  BY <1>0, <1>11, EndEnds DEF Begin, Goto, CmdType
<1>12. ASSUME NEW c \in Commands, Take(c) PROVE Goal
  BY <1>0, <1>12 DEF Take, Goto, CmdType
<1>13. ASSUME NEW c \in Commands, Reply(c) PROVE Goal
  BY <1>0, <1>13 DEF Reply, CmdType
<1>14. ASSUME NEW c \in Commands, ProviderFails(c) PROVE Goal
  BY <1>0, <1>14 DEF ProviderFails, CmdType
<1>15. ASSUME NEW c \in Commands, Finish(c) PROVE Goal
  BY <1>0, <1>15, EndEnds DEF Finish, CmdType
<1>16. CASE SleepCheck
  BY <1>0, <1>16 DEF SleepCheck, CanIdleSleep, CmdType
<1>17. CASE Teardown
  BY <1>0, <1>17 DEF Teardown, Unlist, CmdType
<1>18. CASE TeardownRefused
  BY <1>0, <1>18 DEF TeardownRefused, CmdType
<1>19. CASE MarkSleeping
  BY <1>0, <1>19 DEF MarkSleeping, CmdType
<1>20. CASE Crash
  BY <1>0, <1>20 DEF Crash, Ended, Fresh, Under, CmdType, Claims, NoneBefore
<1>21. CASE UNCHANGED vars
  BY <1>21 DEF vars
<1> QED
  BY <1>22, <1>1, <1>2, <1>3, <1>4, <1>5, <1>6, <1>7, <1>8, <1>9, <1>10, <1>11, <1>12,
     <1>13, <1>14, <1>15, <1>16, <1>17, <1>18, <1>19, <1>20, <1>21 DEF Next, Proceed, Lookup,
     Turn, Sleep

\* Every step keeps the accepted messages recorded.
LEMMA UserKept ==
  ASSUME Typed, UserRecorded, [Next]_vars
  PROVE  UserRecorded'
<1> USE DEF UserRecorded, Under, Kind, At, store, engines, bounds
<1>0. cmd \in CmdType
  BY DEF Typed, SessionTypeOK, CmdType
<1>22. ASSUME NEW c \in Commands, Number(c) PROVE UserRecorded'
  BY <1>0, <1>22, NumberMoves DEF Number, CmdType
<1>1. ASSUME NEW c \in Commands, Accept(c) PROVE UserRecorded'
  BY <1>0, <1>1, AcceptMoves DEF Accept, CmdType
<1>2. ASSUME NEW c \in Commands, Call(c) PROVE UserRecorded'
  BY <1>0, <1>2 DEF Call, Goto, CmdType
<1>3. ASSUME NEW c \in Commands, Restart(c) PROVE UserRecorded'
  BY <1>0, <1>3, EndEnds DEF Restart, Goto, Unlist, CmdType
<1>4. ASSUME NEW c \in Commands, Find(c) PROVE UserRecorded'
  BY <1>0, <1>4 DEF Find, CmdType
<1>5. ASSUME NEW c \in Commands, Recheck(c) PROVE UserRecorded'
  BY <1>0, <1>5 DEF Recheck, Goto, Unlist, CmdType
<1>6. ASSUME NEW c \in Commands, Build(c) PROVE UserRecorded'
  BY <1>0, <1>6 DEF Build, Goto, CmdType
<1>7. ASSUME NEW c \in Commands, Insert(c) PROVE UserRecorded'
  BY <1>0, <1>7, InsertMoves DEF CmdType
<1>8. ASSUME NEW c \in Commands, SetupFails(c) PROVE UserRecorded'
  BY <1>0, <1>8, EndEnds DEF SetupFails, Unlist, CmdType
<1>9. ASSUME NEW c \in Commands, WakeFails(c) PROVE UserRecorded'
  BY <1>0, <1>9, EndEnds DEF WakeFails, Unlist, CmdType
<1>10. ASSUME NEW c \in Commands, MarkAwake(c) PROVE UserRecorded'
  BY <1>0, <1>10, EndEnds DEF MarkAwake, CmdType
<1>11. ASSUME NEW c \in Commands, Begin(c) PROVE UserRecorded'
  BY <1>0, <1>11, EndEnds DEF Begin, Goto, CmdType
<1>12. ASSUME NEW c \in Commands, Take(c) PROVE UserRecorded'
  BY <1>0, <1>12 DEF Take, Goto, CmdType
<1>13. ASSUME NEW c \in Commands, Reply(c) PROVE UserRecorded'
  BY <1>0, <1>13 DEF Reply, CmdType
<1>14. ASSUME NEW c \in Commands, ProviderFails(c) PROVE UserRecorded'
  BY <1>0, <1>14 DEF ProviderFails, CmdType
<1>15. ASSUME NEW c \in Commands, Finish(c) PROVE UserRecorded'
  BY <1>0, <1>15, EndEnds DEF Finish, CmdType
<1>16. CASE SleepCheck
  BY <1>0, <1>16 DEF SleepCheck, CanIdleSleep, CmdType
<1>17. CASE Teardown
  BY <1>0, <1>17 DEF Teardown, Unlist, CmdType
<1>18. CASE TeardownRefused
  BY <1>0, <1>18 DEF TeardownRefused, CmdType
<1>19. CASE MarkSleeping
  BY <1>0, <1>19 DEF MarkSleeping, CmdType
<1>20. CASE Crash
  BY <1>0, <1>20 DEF Crash, Ended, Fresh, CmdType
<1>21. CASE UNCHANGED vars
  BY <1>21 DEF vars
<1> QED
  BY <1>22, <1>1, <1>2, <1>3, <1>4, <1>5, <1>6, <1>7, <1>8, <1>9, <1>10, <1>11, <1>12,
     <1>13, <1>14, <1>15, <1>16, <1>17, <1>18, <1>19, <1>20, <1>21 DEF Next, Proceed, Lookup,
     Turn, Sleep

(***************************************************************************)
(* A turn ends with an answer or with the failure of the provider.         *)
(***************************************************************************)
LEMMA TurnsEnd ==
  ASSUME Typed, [Next]_vars, NEW c \in Commands, cmd[c].pc = "turn", cmd'[c].pc = "finish"
  PROVE  Reply(c) \/ ProviderFails(c)
<1> SUFFICES ASSUME ~Reply(c), ~ProviderFails(c) PROVE FALSE
  OBVIOUS
<1> USE DEF Engine, At, Kind, store, engines, bounds
<1>0. cmd \in CmdType
  BY DEF Typed, SessionTypeOK, CmdType
<1>22. ASSUME NEW d \in Commands, Number(d) PROVE FALSE
  BY <1>0, <1>22, NumberMoves DEF CmdType
<1>1. ASSUME NEW d \in Commands, Accept(d) PROVE FALSE
  BY <1>0, <1>1, AcceptMoves DEF CmdType
<1>2. ASSUME NEW d \in Commands, Call(d) PROVE FALSE
  BY <1>0, <1>2 DEF Call, Goto, CmdType
<1>3. ASSUME NEW d \in Commands, Restart(d) PROVE FALSE
  BY <1>0, <1>3, EndEnds DEF Restart, Goto, CmdType
<1>4. ASSUME NEW d \in Commands, Find(d) PROVE FALSE
  BY <1>0, <1>4 DEF Find, CmdType
<1>5. ASSUME NEW d \in Commands, Recheck(d) PROVE FALSE
  BY <1>0, <1>5 DEF Recheck, Goto, CmdType
<1>6. ASSUME NEW d \in Commands, Build(d) PROVE FALSE
  BY <1>0, <1>6 DEF Build, Goto, CmdType
<1>7. ASSUME NEW d \in Commands, Insert(d) PROVE FALSE
  BY <1>0, <1>7, InsertMoves DEF CmdType
<1>8. ASSUME NEW d \in Commands, SetupFails(d) PROVE FALSE
  BY <1>0, <1>8, EndEnds DEF SetupFails, CmdType
<1>9. ASSUME NEW d \in Commands, WakeFails(d) PROVE FALSE
  BY <1>0, <1>9, EndEnds DEF WakeFails, CmdType
<1>10. ASSUME NEW d \in Commands, MarkAwake(d) PROVE FALSE
  BY <1>0, <1>10, EndEnds DEF MarkAwake, CmdType
<1>11. ASSUME NEW d \in Commands, Begin(d) PROVE FALSE
  BY <1>0, <1>11, EndEnds DEF Begin, Goto, CmdType
<1>12. ASSUME NEW d \in Commands, Take(d) PROVE FALSE
  BY <1>0, <1>12 DEF Take, Goto, CmdType
<1>13. ASSUME NEW d \in Commands, Reply(d) PROVE FALSE
  <2>1. d # c
    BY <1>13
  <2> QED
    BY <1>0, <1>13, <2>1 DEF Reply, CmdType
<1>14. ASSUME NEW d \in Commands, ProviderFails(d) PROVE FALSE
  <2>1. d # c
    BY <1>14
  <2> QED
    BY <1>0, <1>14, <2>1 DEF ProviderFails, CmdType
<1>15. ASSUME NEW d \in Commands, Finish(d) PROVE FALSE
  BY <1>0, <1>15, EndEnds DEF Finish, CmdType
<1>16. CASE UNCHANGED cmd
  BY <1>16
<1>17. CASE Crash
  BY <1>0, <1>17 DEF Crash, Ended, Fresh, Under, CmdType
<1> QED
  BY <1>22, <1>1, <1>2, <1>3, <1>4, <1>5, <1>6, <1>7, <1>8, <1>9, <1>10, <1>11, <1>12,
     <1>13, <1>14, <1>15, <1>16, <1>17 DEF Next, Proceed, Lookup, Turn, Sleep, SleepCheck,
     Teardown,
     TeardownRefused, MarkSleeping, vars

\* Every step keeps the numbers above a counter in hand taken.
LEMMA GapsKept ==
  ASSUME Typed, Claims, Places, Numbers, [Next]_vars
  PROVE  NoGap'
<1>0. /\ counter \in [Commands -> Nat] /\ messages \subseteq Nat /\ mixed \in BOOLEAN
      /\ InHand \subseteq Commands /\ NoGap
  BY InHandTyped DEF Typed, SessionTypeOK, Numbers
<1>1. ASSUME NEW c \in Commands, Accept(c), UNCHANGED messages PROVE NoGap'
  <2>1. UNCHANGED <<counter, mixed>> /\ ~(\E d \in Commands : Build(d))
    BY <1>1, AcceptMoves DEF Accept, engines, bounds, Build, Goto, At, Typed, SessionTypeOK
  <2>2. InHand' \subseteq InHand
    BY <2>1, HandsKept
  <2> QED
    BY <1>0, <1>1, <2>1, <2>2 DEF NoGap, NoGapFor
<1>9. ASSUME NEW c \in Commands, Accept(c), messages' # messages PROVE NoGap'
  <2> DEFINE n == cmd[c].user
  <2>1. /\ n \in Nat /\ n - 1 \in messages \cup {0}
        /\ messages' = messages \cup {n} /\ cmd'[c].pc = "find"
        /\ \A d \in Commands : d # c => cmd'[d] = cmd[d]
    BY <1>9, AcceptMoves
       DEF Numbers, UserRecorded, Places, Under, At, Kind, Typed, SessionTypeOK
  <2>2. UNCHANGED <<counter, mixed>>
    BY <1>9 DEF Accept, engines, bounds
  <2>3. InHand' \subseteq InHand
    <3>1. ASSUME NEW d \in Commands, Build(d) PROVE FALSE
      <4>1. cmd[d].pc = "build" /\ cmd'[d].pc = "insert"
        BY <3>1 DEF Build, Goto, At, Typed, SessionTypeOK
      <4> QED
        BY <2>1, <4>1
    <3> QED
      BY <3>1, HandsKept
  <2> HIDE DEF n
  <2> SUFFICES ASSUME ~mixed, NEW e \in InHand, NEW m \in messages', NEW k \in Nat,
                      counter[e] < k, k <= m
               PROVE  k \in messages'
    BY <2>2, <2>3 DEF NoGap, NoGapFor
  <2>4. \A j \in messages : k <= j => k \in messages
    BY <1>0 DEF NoGap, NoGapFor
  <2>5. counter[e] \in Nat
    BY <1>0
  <2>6. CASE m \in messages
    BY <2>1, <2>4, <2>6
  <2>7. CASE m = n
    <3>1. CASE k = n
      BY <2>1, <3>1
    <3>2. CASE k # n
      <4>1. k <= n - 1 /\ n - 1 # 0
        BY <2>1, <2>5, <2>7, <3>2
      <4> QED
        BY <2>1, <2>4, <4>1
    <3> QED
      BY <3>1, <3>2
  <2> QED
    BY <2>1, <2>6, <2>7
<1>2. ASSUME NEW c \in Commands, Reply(c) \/ ProviderFails(c) PROVE NoGap'
  <2> DEFINE n == counter[Engine(c)] + 1
  <2>1. Engine(c) \in Commands /\ n \in Nat /\ counter[Engine(c)] \in Nat
    BY <1>2 DEF Reply, ProviderFails, At, Engine, Typed, SessionTypeOK
  <2>2. /\ messages' \in {messages, messages \cup {n}}
        /\ counter' = [counter EXCEPT ![Engine(c)] = n]
        /\ mixed' = (mixed \/ InHand # {Engine(c)})
    BY <1>2 DEF Reply, ProviderFails, Write
  <2>3. counter'[Engine(c)] = n
    BY <1>0, <2>1, <2>2
  <2>4. n = counter[Engine(c)] + 1
    OBVIOUS
  <2>5. InHand' \subseteq InHand
    <3>1. ASSUME NEW d \in Commands, Build(d) PROVE FALSE
      <4>1. cmd'[d].pc = "insert"
        BY <3>1 DEF Build, Goto, At, Typed, SessionTypeOK
      <4>2. cmd[d].pc = "build"
        BY <3>1 DEF Build, At
      <4>3. d # c => cmd'[d].pc = cmd[d].pc
        BY <1>2 DEF Reply, ProviderFails, Typed, SessionTypeOK
      <4>4. cmd[c].pc = "turn"
        BY <1>2 DEF Reply, ProviderFails, At
      <4> QED
        BY <4>1, <4>2, <4>3, <4>4
    <3> QED
      BY <3>1, HandsKept
  <2> HIDE DEF n
  <2> SUFFICES ASSUME ~mixed', NEW m \in messages', NEW k \in Nat, n < k, k <= m
               PROVE  k \in messages'
    BY <1>0, <2>2, <2>3, <2>5 DEF NoGap, NoGapFor
  <2>6. m \in messages
    BY <1>0, <2>1, <2>2
  <2>7. Engine(c) \in InHand /\ ~mixed
    <3>1. Engine(c) # NoEngine
      BY <2>1, SessionAssumption
    <3> QED
      BY <1>0, <2>2, <3>1 DEF InHand
  <2>8. counter[Engine(c)] < k
    BY <2>1, <2>4
  <2>9. k \in messages
    BY <1>0, <2>6, <2>7, <2>8 DEF NoGap, NoGapFor
  <2> QED
    BY <2>2, <2>9
<1>3. ASSUME NEW c \in Commands, Build(c) PROVE NoGap'
  <2> DEFINE n == Largest(messages \cup notices)
  <2>1. n \in Nat /\ \A m \in messages : m <= n
    BY LargestTyped
  <2>2. UNCHANGED <<messages, mixed>> /\ counter' = [counter EXCEPT ![c] = n]
    BY <1>3 DEF Build, store, bounds
  <2> HIDE DEF n
  <2>3. InHand' \subseteq InHand \cup {c}
    <3>1. ASSUME NEW d \in Commands, Build(d), d # c PROVE FALSE
      <4>1. cmd'[d].pc = cmd[d].pc
        BY <1>3, <3>1 DEF Build, Goto, Typed, SessionTypeOK
      <4>2. cmd'[d].pc = "insert" /\ cmd[d].pc = "build"
        BY <3>1 DEF Build, Goto, At, Typed, SessionTypeOK
      <4> QED
        BY <4>1, <4>2
    <3> QED
      BY <3>1, HandsKept
  <2>4. NoGapFor(c)'
    BY <1>0, <2>1, <2>2 DEF NoGapFor
  <2>5. ASSUME NEW e \in InHand, e # c, NoGapFor(e) PROVE NoGapFor(e)'
    BY <1>0, <2>2, <2>5 DEF NoGapFor
  <2> QED
    BY <1>0, <2>2, <2>3, <2>4, <2>5 DEF NoGap
<1>4. CASE Crash
  <2>1. InHand' = {}
    BY <1>4, SessionAssumption
       DEF Crash, Claims, NoneBefore, Typed, SessionTypeOK, Under, Ended, Fresh, InHand,
           Engine, At
  <2> QED
    BY <2>1 DEF NoGap
<1>5. ASSUME UNCHANGED <<messages, counter, mixed>>, InHand' \subseteq InHand PROVE NoGap'
  BY <1>0, <1>5 DEF NoGap, NoGapFor
<1>6. CASE UNCHANGED vars
  <2>1. InHand' = InHand
    BY <1>6 DEF vars, engines, InHand, Engine, At
  <2> QED
    BY <1>5, <1>6, <2>1 DEF vars, store, engines, bounds
<1>7. InHand' \subseteq InHand \/ \E c \in Commands : Build(c)
  BY HandsKept
<1> QED
  BY <1>1, <1>2, <1>3, <1>4, <1>5, <1>6, <1>7, <1>9 DEF Next, Number, Proceed, Lookup, Turn,
     Sleep, store,
     engines, bounds, Call, Restart, Find, Recheck, Insert, SetupFails, WakeFails, MarkAwake,
     Begin, Take, Finish, SleepCheck, Teardown, TeardownRefused, MarkSleeping

\* The numbers of messages have no gap in every reachable state.
LEMMA AlwaysNumbered == Spec => []Numbers
<1>1. Init => Numbers
  <2> SUFFICES ASSUME Init PROVE Numbers
    OBVIOUS
  <2>1. PICK kind \in [Commands -> Kinds] : cmd = [c \in Commands |-> Fresh(kind[c])]
    BY DEF Init
  <2>2. \A c \in Commands : cmd[c].pc = "new" /\ cmd[c].eng = NoEngine
    BY <2>1 DEF Fresh
  <2>3. InHand = {}
    BY <2>2 DEF Init, InHand, Engine, At
  <2> QED
    BY <2>2, <2>3 DEF Numbers, NoGap, UserRecorded, Under
<1>2. Typed /\ Claims /\ Places /\ Numbers /\ [Next]_vars => Numbers'
  BY GapsKept, UserKept DEF Numbers
<1> QED
  BY <1>1, <1>2, AlwaysTyped, AlwaysClaims, AlwaysQuiet, PTL DEF Spec

(***************************************************************************)
(* An answer has a larger number than the message it answers, as long as   *)
(* the engines that wrote were the only ones at their time.                *)
(***************************************************************************)
THEOREM AnswersComeAfter == Spec => AnswersFollow
<1> DEFINE A(c) ==
      ~mixed' /\ At(c, "turn") /\ cmd'[c].outcome = "idle" /\ cmd'[c].pc = "finish"
        => counter'[Engine(c)] > cmd[c].user
<1>1. ASSUME Typed, Numbers, [Next]_vars, NEW c \in Submits PROVE A(c)
  <2> SUFFICES ASSUME ~mixed', At(c, "turn"), cmd'[c].outcome = "idle", cmd'[c].pc = "finish"
               PROVE  counter'[Engine(c)] > cmd[c].user
    OBVIOUS
  <2> DEFINE n == counter[Engine(c)] + 1
  <2>1. /\ c \in Commands /\ cmd[c].pc = "turn" /\ Kind(c) = "submit" /\ Under(c)
    BY DEF Submits, At, Under
  <2>2. Reply(c)
    <3>1. Reply(c) \/ ProviderFails(c)
      BY <1>1, <2>1, TurnsEnd
    <3>2. ProviderFails(c) => cmd'[c].outcome = "error"
      BY <1>1, <2>1 DEF ProviderFails, Typed, SessionTypeOK
    <3> QED
      BY <3>1, <3>2
  <2>3. /\ Engine(c) \in Commands /\ counter[Engine(c)] \in Nat /\ cmd[c].user \in Nat
        /\ counter \in [Commands -> Nat] /\ cmd \in CmdType /\ mixed \in BOOLEAN
    BY <1>1, <2>1 DEF Typed, SessionTypeOK, CmdType, Engine
  <2>4. counter'[Engine(c)] = n
    BY <2>2, <2>3 DEF Reply
  <2>5. n \notin messages
    <3>1. cmd'[c].outcome = Outcome(n)
      BY <2>1, <2>2, <2>3 DEF Reply, CmdType
    <3> QED
      BY <3>1 DEF Outcome
  <2>6. NoGapFor(Engine(c))
    <3>1. Engine(c) \in InHand
      BY <2>1, <2>3, SessionAssumption DEF InHand
    <3>2. ~mixed
      BY <2>2, <2>3 DEF Reply, Write
    <3> QED
      BY <1>1, <3>1, <3>2 DEF Numbers, NoGap
  <2>7. cmd[c].user \in messages
    BY <1>1, <2>1 DEF Numbers, UserRecorded, At
  <2>8. n \in Nat /\ counter[Engine(c)] < n
    BY <2>3
  <2> HIDE DEF n
  <2>9. ~(n <= cmd[c].user)
    BY <2>5, <2>6, <2>7, <2>8 DEF NoGapFor
  <2> QED
    BY <2>3, <2>4, <2>8, <2>9
<1>2. Typed /\ Numbers /\ [Next]_vars => [\A c \in Submits : A(c)]_vars
  BY <1>1
<1> QED
  BY AlwaysTyped, AlwaysNumbered, <1>2, PTL DEF Spec, AnswersFollow

=============================================================================
