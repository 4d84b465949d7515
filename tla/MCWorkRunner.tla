---------------------------- MODULE MCWorkRunner ----------------------------
(***************************************************************************)
(* Two permits; a row in a user's session, and a repair without a session. *)
(***************************************************************************)
EXTENDS WorkRunner

CONSTANTS i1, i2, r1, r2, s1, f1, f2

MCSlots == {r1, r2}
MCSessions == {s1, f1, f2}
MCWorkers == MCSlots \cup MCSessions
MCFreshOf == [t \in Slots |-> IF t = r1 THEN f1 ELSE f2]
MCLeaseLengths == {1}
MCDedupKey == [i \in Items |-> NoKey]

MCMaxAttempts == [i \in Items |-> 2]

\* A row of a user's session, and rows the runner finds a session for.
MCKinds == [session : {s1, NoSession}, repair : BOOLEAN]
MCShared == [session : {s1}, repair : {FALSE}]
=============================================================================
