--------------------------- MODULE MCActionLedger ---------------------------
(***************************************************************************)
(* Instances of ActionLedger: one key of each kind of caller, two calls at *)
(* a time.                                                                 *)
(***************************************************************************)
EXTENDS ActionLedger, TLC

CONSTANTS push, backup, tool, t1, t2

AllKeys == {push, backup, tool}
CallerOf == (push :> "refuse" @@ backup :> "retry" @@ tool :> "tool")
Calls == {t1, t2}
Symmetry == Permutations(Calls)
=============================================================================
