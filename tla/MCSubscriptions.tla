-------------------------- MODULE MCSubscriptions --------------------------
EXTENDS Subscriptions

\* A plan given, a plan taken back, a plan stopped.
MCUpdates == {[type |-> "paid", status |-> "active"], [type |-> "trial", status |-> "kept"],
              [type |-> "kept", status |-> "expired"]}
=============================================================================
