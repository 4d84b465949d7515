----------------------------- MODULE MCWorkQueue -----------------------------
(***************************************************************************)
(* A small instance of WorkQueue: two rows with different retry budgets.   *)
(***************************************************************************)
EXTENDS WorkQueue

CONSTANTS i1, i2, w1, w2

MCItems == {i1, i2}
MCMaxAttempts == [i \in Items |-> IF i = i1 THEN 1 ELSE 2]
MCDedupKey == [i \in Items |-> NoKey]
MCLeaseLengths == {1}
=============================================================================
