------------------------------ MODULE MCEngine ------------------------------
(***************************************************************************)
(* A read and a write around a call that needs the user; a script and a    *)
(* question.                                                               *)
(***************************************************************************)
EXTENDS Engine

CONSTANTS r, w, g, s, q

MCCalls == {r, w, g, s, q}
MCKind == [c \in MCCalls |-> CASE c = r -> "read" [] c \in {w, s} -> "write"
                               [] c = q -> "question" [] OTHER -> "guarded"]
MCBatches == {<<r, g, w>>, <<s, q>>}
MCUnmarked == {s}
=============================================================================
