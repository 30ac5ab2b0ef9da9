------------------------------ MODULE MCPoller ------------------------------
(* Instances of Poller for TLC: an engine-state register, and a stranger    *)
(* that one map polls in the prime tier and the other in the base tier.     *)
EXTENDS Poller, TLC

CONSTANTS out, key, mA, mB

MCBatches ==
  mA :> [prime |-> << {out}, {key} >>, base |-> <<>>] @@
  mB :> [prime |-> << {out} >>, base |-> << {key} >>]
MCStateRegs == [m \in Map |-> {out}]

MCCadence == [t \in Tier |-> 1]
=============================================================================
