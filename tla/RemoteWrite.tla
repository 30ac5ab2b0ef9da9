---------------------------- MODULE RemoteWrite ----------------------------
(***************************************************************************)
(* What a Modbus client promises to the services that command a controller *)
(* through it: a write is answered once; it takes effect only after it was *)
(* asked for and only a bounded number of times, possibly after its caller *)
(* was told that it failed; and "ok" is said only of a write that has taken *)
(* effect.  ModbusClient implements it with as many effects as the library  *)
(* sends frames, and Control's writes keep to it for every such number.     *)
(***************************************************************************)
EXTENDS Integers

CONSTANTS
  Write,      \* calls of client.write()
  MaxEffect   \* how often a single call may take effect

VARIABLES
  answer,     \* what each caller knows: nothing asked, waiting, or the outcome
  effect      \* how often each write took effect at the controller

Outcome == {"ok", "failed"}

Init == answer = [w \in Write |-> "unasked"] /\ effect = [w \in Write |-> 0]

Ask(w) ==
  /\ answer[w] = "unasked" /\ answer' = [answer EXCEPT ![w] = "waiting"]
  /\ UNCHANGED effect

Land(w) ==
  /\ answer[w] # "unasked" /\ effect[w] < MaxEffect
  /\ effect' = [effect EXCEPT ![w] = @ + 1] /\ UNCHANGED answer

Answer(w, o) ==
  /\ answer[w] \in {"unasked", "waiting"}
  /\ o = "ok" => answer[w] = "waiting" /\ effect[w] > 0
  /\ answer' = [answer EXCEPT ![w] = o] /\ UNCHANGED effect

Next == \E w \in Write : Ask(w) \/ Land(w) \/ \E o \in Outcome : Answer(w, o)

Spec == Init /\ [][Next]_<<answer, effect>>
=============================================================================
