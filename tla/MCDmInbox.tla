------------------------------ MODULE MCDmInbox ------------------------------
(* Instances of DmInbox for TLC: a customer who writes in a burst, and one  *)
(* whose rows are due at the same time.                                     *)
EXTENDS DmInbox

CONSTANTS m1, m2, m3, k1, k2

\* m1 and m2 are one customer's burst, m3 another customer's message.
BurstKeys == [m \in Msgs |-> IF m = m3 THEN k2 ELSE k1]
=============================================================================
