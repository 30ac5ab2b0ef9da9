------------------------------- MODULE MCFeed -------------------------------
(* Instances of Feed for TLC: one tab, with queues of two messages.  *)
EXTENDS Feed, TLC

CONSTANTS tab
=============================================================================
