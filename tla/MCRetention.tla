---------------------------- MODULE MCRetention ----------------------------
(* Instances of Retention for TLC: minutes of two ticks, hours of two or    *)
(* three minutes, a tick every three, and a few samples around the edges.   *)
EXTENDS Retention, TLC
=============================================================================
