---------------------------- MODULE MCDemoBuffer ----------------------------
(* Instances of DemoBuffer for TLC: a session with a handful of requests.   *)
EXTENDS DemoBuffer

CONSTANTS p1, p2, p3
=============================================================================
