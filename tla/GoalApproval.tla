---------------------------- MODULE GoalApproval ----------------------------
(***************************************************************************)
(* GoalPlanner with a history of what the operator let through, for goals  *)
(* of level "propose".                                                     *)
(***************************************************************************)
EXTENDS GoalPlanner

VARIABLE approved  \* history: steps approved or requeued since they were last held

ApprovalInit == Init /\ approved = {}

ApprovalNext ==
  /\ Next
  /\ approved' =
       LET held == {s \in Steps : row'[s] = "pending_approval"}
           released == {s \in Steps : row[s] \in {"pending_approval", "dead_letter"}
                                        /\ row'[s] = "ready"}
       IN  (approved \ held) \cup released

ApprovalSpec == ApprovalInit /\ [][ApprovalNext]_<<vars, approved>>

(***************************************************************************)
(* Stated by the knowledge base the program ships, and not so.             *)
(*                                                                         *)
(* What a goal of level "propose" produced is worked on only after the     *)
(* operator let it through.                                                *)
(***************************************************************************)
ProposedWaitsForApproval ==
  Autonomy = "propose" => \A s \in Steps : row[s] = "running" => s \in approved
=============================================================================
