----------------------------- MODULE MCIngress ------------------------------
(* A repository and a feed; the ids are of one length. *)
EXTENDS Ingress
MCFirstId == 97
MCQuiet == {98}
=============================================================================
