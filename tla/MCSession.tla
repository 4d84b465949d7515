------------------------------ MODULE MCSession ------------------------------
(* Two submits, and a resolution, a wake or a restart beside them. *)
EXTENDS Session, TLC

CONSTANTS s1, s2, x

MCCommands == {s1, s2, x}
MCMay == [c \in MCCommands |-> IF c = x THEN {"resolve", "wake", "restart"}
                               ELSE {"submit"}]
\* Commands are called one after another.
MCSerialSpec ==
  Init /\ [][Next /\ \A c \in Commands : At(c, "new") /\ cmd'[c].pc # "new"
                       => \A d \in Commands : ~Under(d)]_vars
MCSymmetry == Permutations({s1, s2})
=============================================================================
