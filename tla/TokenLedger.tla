---------------------------- MODULE TokenLedger ----------------------------
(***************************************************************************)
(* What the confirm-token store promises, whatever surfaces share it: a    *)
(* token is handed out once, authorises at most one write, and once it is  *)
(* spent or void it stays so.                                              *)
(***************************************************************************)
CONSTANT Token

VARIABLE ledger

In(state) == {t \in Token : ledger[t] = state}

Init == ledger = [t \in Token |-> "unissued"]

\* V expire, are denied or die with the process; at most one token is handed
\* out (I) or spent on a write (S) in the same step.
Step(V, I, S) ==
  /\ V \subseteq In("live") /\ S \subseteq In("live") \ V /\ I \subseteq In("unissued")
  /\ \A t, u \in I \cup S : t = u
  /\ ledger' = [t \in Token |-> IF t \in V THEN "void"
                                ELSE IF t \in I THEN "live"
                                ELSE IF t \in S THEN "spent"
                                ELSE ledger[t]]

Next == \E V, I, S \in SUBSET Token : Step(V, I, S)

Spec == Init /\ [][Next]_ledger
=============================================================================
