---------------------------- MODULE MCRegisters ----------------------------
(* An instance of Registers for TLC: every map of up to three registers with *)
(* one- and two-word types, at addresses around the gap tolerance, the block *)
(* limit and the end of the address space; words of three bits.              *)
EXTENDS Registers, TLC

CONSTANTS MCAddrs, MCTypes, MCSeeds

\* The n-th register has the n-th name.
MCMaps ==
  LET Reg(n) == {[name |-> n, addr |-> a, type |-> t] : a \in MCAddrs, t \in MCTypes}
  IN  {{r, q, s} : r \in Reg("a"), q \in Reg("b"), s \in Reg("c")}
      \cup {{r} : r \in Reg("a")} \cup {{}}
\* Neighbouring words differ, and between them they take every value.
MCMemories == {[a \in 0..Top |-> (3 * a + seed) % Base] : seed \in MCSeeds}
=============================================================================
