--------------------------- MODULE MCStateMachine ---------------------------
(* Instances of StateMachine for TLC: one alarm bit, debounced and          *)
(* suppressed while cooling, one banded register, and two maps, the second  *)
(* without the bit's rule and with numeric alarms off.                      *)
EXTENDS StateMachine, TLC

CONSTANTS q1, q2, bit, oil, mA, mB

MCRules ==
  mA :> [bits |-> {bit}, min |-> (bit :> 2), suppress |-> (bit :> {"cooling"}),
         numeric |-> TRUE, bands |-> {oil}] @@
  mB :> [bits |-> {}, min |-> (bit :> 1), suppress |-> (bit :> {}),
         numeric |-> FALSE, bands |-> {}]

MCPower == {<<"low", "low">>, <<"high", "high">>}
View(pos, normal) == [auth |-> TRUE, pos |-> pos, normal |-> normal]
MCAtsView == {NoAts, View("generator", FALSE)}
MCSymmetry == Permutations(AckRequest)

\* Without load and announced: they are read only to compute themselves, and by
\* no property of the runs that use the view.
MCView == <<regmap, seen, link, ats, engine, shared, displayed, counts, raised, ncounts,
            numRaised, dcount, disRaised, ack, rows, balance, since, orphans>>
=============================================================================
