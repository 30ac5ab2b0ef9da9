-------------------------- MODULE MCSlackNotifier --------------------------
(* An instance of SlackNotifier for TLC: one alarm code, a queue of two, and *)
(* the configurations complete, switched off, and without a token.           *)
EXTENDS SlackNotifier, TLC

MCConfigs ==
  {[enabled |-> e, wired |-> w, flags |-> Flag] : <<e, w>> \in {<<TRUE, TRUE>>, <<TRUE, FALSE>>}}
    \cup {[enabled |-> FALSE, wired |-> TRUE, flags |-> Flag]}
MCBackoff == <<1, 2>>
=============================================================================
