------------------------- MODULE MCConversationLock -------------------------
(* Instances of ConversationLock for TLC: a few calls over two connections. *)
EXTENDS ConversationLock

CONSTANTS a, b, k1, k2

\* Every conversation has a key of its own.
DistinctKeys == [v \in Conversations |-> IF v = a THEN k1 ELSE k2]
=============================================================================
