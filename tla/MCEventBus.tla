----------------------------- MODULE MCEventBus -----------------------------
(***************************************************************************)
(* Five rules in order: one that plans and one that enqueues match kind    *)
(* "both", two that enqueue match kind "work", and a malformed one and one *)
(* whose item is refused match kind "broken".                              *)
(***************************************************************************)
EXTENDS EventBus

MCRules == 1..5
MCKinds == {"both", "work", "broken"}
MCMatches == [r \in Rules |-> CASE r = 1 -> {"both"}
                                [] r = 2 -> {"both", "work"}
                                [] r = 3 -> {"work"}
                                [] OTHER -> {"broken"}]
MCEffect == [r \in Rules |-> CASE r = 1 -> "plan_goal"
                               [] r = 4 -> "invalid"
                               [] OTHER -> "enqueue_work"]
MCMaxTriggers == [r \in Rules |-> 1]
MCFailureLimit == [r \in Rules |-> 2]
=============================================================================
