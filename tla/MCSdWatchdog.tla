---------------------------- MODULE MCSdWatchdog ----------------------------
(* An instance of SdWatchdog for TLC, in the proportions of the unit file    *)
(* (60 s, 15 s, 30 s), with a short grace.                                   *)
EXTENDS SdWatchdog, TLC
=============================================================================
