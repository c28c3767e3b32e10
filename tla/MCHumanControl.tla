--------------------------- MODULE MCHumanControl ---------------------------
(* Instances of HumanControl for TLC: everything happens in one conversation. *)
EXTENDS HumanControl

CONSTANTS c1, b1, g1, g2, t1, t2

OneConversation == [x \in Echoes |-> c1]
=============================================================================
