---------------------------- MODULE MCAtsService ----------------------------
(* Instances of AtsService for TLC: a companion that is fine, one that is    *)
(* not and differs from it in every register, with a version the service    *)
(* does not know, and one that only bears another unit id and shows a       *)
(* position outside the documented range; polls that bring everything,      *)
(* nothing, or everything but the faults.                                   *)
EXTENDS AtsService, TLC

CONSTANT input

Fine == [position |-> 0, mode |-> 0, normal |-> "up", emergency |-> "up", faults |-> {},
         wallclock |-> 0, major |-> 1, minor |-> 0, unit |-> 1]
Foreign == [position |-> 1, mode |-> 4, normal |-> "down", emergency |-> "down",
            faults |-> {input}, wallclock |-> 2, major |-> 2, minor |-> 1, unit |-> 2]
Replaced == [Fine EXCEPT !.position = 4, !.unit = 2]
MCFace == {Fine, Foreign, Replaced}

MCYields ==
  [prime |-> {Registers["prime"], Registers["prime"] \ {"faults"}},
   base |-> {Registers["base"], {}}]

\* No step reads the events of the last poll, so states that differ only in
\* them behave alike; the action properties are evaluated on every step.
MCView == <<companion, link, reading, session, rows, told, rebooted, orphans>>
=============================================================================
