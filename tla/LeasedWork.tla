----------------------------- MODULE LeasedWork -----------------------------
(***************************************************************************)
(* What the durable work queue promises, without leases, clocks, owners or *)
(* SQL.  A piece of work is decided under an authority: a number handed    *)
(* out for one run of the work.  Authorities are used once, in order; at   *)
(* most one is valid; only a valid one can record success; an operator     *)
(* may cancel at any time and may reopen only what was given up.           *)
(***************************************************************************)
EXTENDS Naturals

CONSTANT Items

VARIABLES
  outcome,    \* how the work stands
  authority,  \* the number under which it may be decided now, 0 for none
  issued      \* how many numbers were handed out

vars == <<outcome, authority, issued>>

Outcomes == {"absent", "open", "succeeded", "cancelled", "given_up"}

Init ==
  /\ outcome = [i \in Items |-> "absent"]
  /\ authority = [i \in Items |-> 0]
  /\ issued = [i \in Items |-> 0]

Keep(i) ==
  outcome'[i] = outcome[i] /\ authority'[i] = authority[i] /\ issued'[i] = issued[i]

Admit(i) ==
  /\ outcome[i] = "absent" /\ outcome'[i] = "open"
  /\ authority'[i] = authority[i] /\ issued'[i] = issued[i]

\* A new run is authorised: never while another one is.
Grant(i) ==
  /\ outcome[i] = "open" /\ authority[i] = 0
  /\ outcome'[i] = "open"
  /\ issued'[i] = issued[i] + 1
  /\ authority'[i] = issued[i] + 1

\* The run's authority ends without a decision.
Lapse(i) ==
  /\ authority[i] # 0 /\ authority'[i] = 0
  /\ outcome'[i] = outcome[i] /\ issued'[i] = issued[i]

\* The authorised run decides.
Decide(i) ==
  /\ authority[i] # 0 /\ authority'[i] = 0
  /\ outcome'[i] \in {"succeeded", "cancelled", "given_up"}
  /\ issued'[i] = issued[i]

\* Without an authority, open work can only be withdrawn or given up.
Withdraw(i) ==
  /\ outcome[i] = "open" /\ outcome'[i] \in {"cancelled", "given_up"}
  /\ authority'[i] = 0 /\ issued'[i] = issued[i]

Reopen(i) ==
  /\ outcome[i] = "given_up" /\ outcome'[i] = "open"
  /\ authority'[i] = authority[i] /\ issued'[i] = issued[i]

Step(i) ==
  Keep(i) \/ Admit(i) \/ Grant(i) \/ Lapse(i) \/ Decide(i) \/ Withdraw(i) \/ Reopen(i)

\* One transaction may move several pieces of work, each by a step of its own.
Next ==
  /\ DOMAIN outcome' = Items /\ DOMAIN authority' = Items /\ DOMAIN issued' = Items
  /\ \A i \in Items : Step(i)

Spec == Init /\ [][Next]_vars
=============================================================================
