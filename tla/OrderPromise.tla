---------------------------- MODULE OrderPromise ----------------------------
(***************************************************************************)
(* What the synchronisation of orders promises the merchant: an order is   *)
(* shown as synced only after it was sent to the shop's platform and the   *)
(* platform took it.  Showing may be taken back at any time; what the      *)
(* platform took stays taken.                                              *)
(***************************************************************************)
CONSTANT Orders

VARIABLES
    stage,   \* stage[o]: how far order o has come towards the platform
    shown    \* orders the admin panel shows as synced

promiseVars == <<stage, shown>>

Init ==
    /\ stage = [o \in Orders |-> "local"]
    /\ shown = {}

Send(o) ==
    /\ stage[o] = "local"
    /\ stage' = [stage EXCEPT ![o] = "sent"]
    /\ UNCHANGED shown

Accept(o) ==
    /\ stage[o] = "sent"
    /\ stage' = [stage EXCEPT ![o] = "accepted"]
    /\ UNCHANGED shown

Show(o) ==
    /\ stage[o] = "accepted"
    /\ shown' = shown \cup {o}
    /\ UNCHANGED stage

Hide(o) ==
    /\ shown' = shown \ {o}
    /\ UNCHANGED stage

Next == \E o \in Orders : Send(o) \/ Accept(o) \/ Show(o) \/ Hide(o)

Spec == Init /\ [][Next]_promiseVars
=============================================================================
