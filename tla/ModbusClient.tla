---------------------------- MODULE ModbusClient ----------------------------
(***************************************************************************)
(* A Modbus client (modbus/client.py): the serial client and the TCP client *)
(* with its reconnect.  The prime and the base loop read through it again   *)
(* and again, control handlers write through it; all of them share one wire *)
(* and one asyncio.Lock, taken for each attempt and released while a read   *)
(* backs off.                                                               *)
(*                                                                          *)
(* The lock is its queue: the head holds it, the rest wait first-in         *)
(* first-out.  A caller that finds the lock free takes it in a step of its  *)
(* own, which only adds the interleavings that a contended lock has anyway. *)
(* What travels back is the environment's choice: an answer with all words  *)
(* asked for or with fewer, an exception, or nothing until wait_for gives   *)
(* up.  A write that was sent may reach the controller at any later time.   *)
(***************************************************************************)
EXTENDS Integers, Sequences, FiniteSets

CONSTANTS
  Reader,     \* the polling loops; each has at most one read under way
  Write,      \* calls of write()
  Invalid,    \* the writes whose arguments _coerce_write_args rejects
  Transport,  \* kinds of client considered, a subset of {"serial", "tcp"}
  Retries,    \* retries of a read; a write has one attempt
  MaxSend     \* frames the library sends for one request: it resends on silence

Call == Reader \cup Write

ASSUME ClientAssumption ==
  /\ Reader \cap Write = {} /\ Invalid \subseteq Write
  /\ Transport \subseteq {"serial", "tcp"} /\ Transport # {}
  /\ Retries \in Nat /\ MaxSend \in Nat \ {0}

VARIABLES
  transport,  \* which class the client is of
  client,     \* _client: None, built and disconnected, connected, or closed
  pc,         \* where each call is
  attempt,    \* attempts a call has begun
  lock,       \* queue of the asyncio.Lock
  result,     \* outcome of each call
  frames,     \* frames sent for each write
  landed,     \* frames of each write that reached the controller
  turns       \* history: transactions a reader began while a write was queued

vars == <<transport, client, pc, attempt, lock, result, frames, landed, turns>>
device == <<frames, landed>>

Result == {"none", "ok", "failed", "not_connected", "bad_args", "cancelled"}

TypeOK ==
  /\ transport \in Transport /\ client \in {"none", "down", "up", "closed"}
  /\ pc \in [Call -> {"idle", "lock", "connecting", "wire", "backoff", "done"}]
  /\ attempt \in [Call -> 0..(Retries + 1)]
  /\ lock \in Seq(Call)
  /\ result \in [Call -> Result]
  /\ frames \in [Write -> 0..MaxSend] /\ landed \in [Write -> 0..MaxSend]
  /\ turns \in [Write -> [Reader -> Nat]]

-----------------------------------------------------------------------------
\* Mutant: a write is retried like a read.
AttemptsAll(c) == Retries + 1

Attempts(c) == IF c \in Reader THEN Retries + 1 ELSE 1
Missing == client \in {"none", "closed"}
InLock(c) == \E i \in DOMAIN lock : lock[i] = c

\* A queue without c, which is in it at most once.
Without(q, c) ==
  IF \A i \in DOMAIN q : q[i] # c THEN q
  ELSE LET at == CHOOSE i \in DOMAIN q : q[i] = c
       IN  [i \in 1..(Len(q) - 1) |-> IF i < at THEN q[i] ELSE q[i + 1]]

Waiting(w) == InLock(w) /\ pc[w] = "lock"

\* Mutant: a call returns without releasing the lock.
ReturnHolding(c, r) ==
  /\ pc' = [pc EXCEPT ![c] = "done"] /\ result' = [result EXCEPT ![c] = r]
  /\ UNCHANGED lock

\* A call returns: it leaves the lock if it holds it or waits for it.
Return(c, r) ==
  /\ pc' = [pc EXCEPT ![c] = "done"] /\ result' = [result EXCEPT ![c] = r]
  /\ lock' = Without(lock, c)

\* connect() at start-up; a failure leaves a client that is not connected.
Connect ==
  /\ client = "none" /\ client' \in {"down", "up"}
  /\ UNCHANGED <<transport, pc, attempt, lock, result, device, turns>>

\* close() at shutdown, which does not wait for the lock.
Close ==
  /\ client # "closed" /\ client' = "closed"
  /\ UNCHANGED <<transport, pc, attempt, lock, result, device, turns>>

\* The peer or something in between drops the connection.
LinkDrops ==
  /\ client = "up" /\ client' = "down"
  /\ UNCHANGED <<transport, pc, attempt, lock, result, device, turns>>

\* The library reconnects in the background.
LinkReturns ==
  /\ client = "down" /\ client' = "up"
  /\ UNCHANGED <<transport, pc, attempt, lock, result, device, turns>>

\* read() or write() is called; a loop calls read() again when it has returned.
Begin(c) ==
  /\ pc[c] = "idle" \/ (c \in Reader /\ pc[c] = "done")
  /\ attempt' = [attempt EXCEPT ![c] = 0]
  /\ IF Missing \/ c \in Invalid
     THEN Return(c, IF Missing THEN "not_connected" ELSE "bad_args")
     ELSE /\ pc' = [pc EXCEPT ![c] = "lock"] /\ lock' = Append(lock, c)
          /\ result' = [result EXCEPT ![c] = "none"]
  /\ UNCHANGED <<transport, client, device, turns>>

\* Mutant: the lock is held from one attempt to the next.
AttemptFailsHolding(c) ==
  IF attempt'[c] < Attempts(c)
  THEN pc' = [pc EXCEPT ![c] = "lock"] /\ UNCHANGED <<lock, result>>
  ELSE Return(c, "failed")

\* The end of an attempt that brought no result: the lock is released, then a
\* read with attempts left backs off and anything else returns.
AttemptFails(c) ==
  IF attempt'[c] < Attempts(c)
  THEN /\ pc' = [pc EXCEPT ![c] = "backoff"] /\ lock' = Without(lock, c)
       /\ UNCHANGED result
  ELSE Return(c, "failed")

\* The request goes out.
Transmit(c) ==
  /\ pc' = [pc EXCEPT ![c] = "wire"]
  /\ IF c \in Write
     THEN frames' = [frames EXCEPT ![c] = @ + 1] /\ UNCHANGED turns
     ELSE /\ turns' = [w \in Write |->
               IF Waiting(w) THEN [turns[w] EXCEPT ![c] = @ + 1] ELSE turns[w]]
          /\ UNCHANGED frames

\* Mutant: an attempt does not wait for its turn.
AttemptAnyway(c) ==
  /\ pc[c] = "lock" /\ client = "up" /\ attempt' = [attempt EXCEPT ![c] = @ + 1]
  /\ Transmit(c) /\ UNCHANGED <<transport, client, lock, result, landed>>

\* The head of the queue begins an attempt.  The TCP client reconnects first;
\* with _client gone, and on a serial port that is not open, the attempt raises.
Attempt(c) ==
  /\ pc[c] = "lock" /\ lock # <<>> /\ Head(lock) = c
  /\ attempt' = [attempt EXCEPT ![c] = @ + 1]
  /\ \/ /\ Missing \/ (transport = "serial" /\ client = "down")
        /\ AttemptFails(c) /\ UNCHANGED <<frames, turns>>
     \/ /\ transport = "tcp" /\ client = "down"
        /\ pc' = [pc EXCEPT ![c] = "connecting"]
        /\ UNCHANGED <<lock, result, frames, turns>>
     \/ client = "up" /\ Transmit(c) /\ UNCHANGED <<lock, result>>
  /\ UNCHANGED <<transport, client, landed>>

\* _ensure_connected, under the lock: connected, or refused or timed out.  After
\* a close() meanwhile the transaction finds no client and raises.
Reconnected(c) ==
  /\ pc[c] = "connecting" /\ client # "closed"
  /\ client' = "up" /\ Transmit(c)
  /\ UNCHANGED <<transport, attempt, lock, result, landed>>

ReconnectFails(c) ==
  /\ pc[c] = "connecting" /\ attempt' = attempt
  /\ AttemptFails(c) /\ UNCHANGED <<transport, client, device, turns>>

\* An answer that wait_for did not give up on.  A read is successful only if it
\* has as many words as were asked for, a write only if the controller echoed it.
Answered(c) ==
  /\ pc[c] = "wire" /\ (c \in Write => landed[c] > 0)
  /\ Return(c, "ok")
  /\ UNCHANGED <<transport, client, attempt, device, turns>>

\* None, an error answer, fewer words than asked for, an exception or a timeout.
Unanswered(c) ==
  /\ pc[c] = "wire" /\ attempt' = attempt
  /\ AttemptFails(c) /\ UNCHANGED <<transport, client, device, turns>>

\* The library's own timeout is shorter than wait_for's: it sends again.
Resend(c) ==
  /\ c \in Write /\ pc[c] = "wire" /\ client = "up" /\ frames[c] < MaxSend
  /\ frames' = [frames EXCEPT ![c] = @ + 1]
  /\ UNCHANGED <<transport, client, pc, attempt, lock, result, landed, turns>>

\* A frame reaches the controller, whatever has become of the call.
Lands(w) ==
  /\ landed[w] < frames[w] /\ landed' = [landed EXCEPT ![w] = @ + 1]
  /\ UNCHANGED <<transport, client, pc, attempt, lock, result, frames, turns>>

\* The backoff ends and the read queues up again, behind whoever came meanwhile.
BackoffEnds(c) ==
  /\ pc[c] = "backoff" /\ pc' = [pc EXCEPT ![c] = "lock"] /\ lock' = Append(lock, c)
  /\ UNCHANGED <<transport, client, attempt, result, device, turns>>

\* The task is cancelled at the await it is suspended at (Poller.stop, shutdown).
Cancel(c) ==
  /\ pc[c] \in {"lock", "connecting", "wire", "backoff"}
  /\ Return(c, "cancelled")
  /\ UNCHANGED <<transport, client, attempt, device, turns>>

-----------------------------------------------------------------------------
Init ==
  /\ transport \in Transport /\ client = "none"
  /\ pc = [c \in Call |-> "idle"] /\ attempt = [c \in Call |-> 0]
  /\ lock = <<>> /\ result = [c \in Call |-> "none"]
  /\ frames = [w \in Write |-> 0] /\ landed = [w \in Write |-> 0]
  /\ turns = [w \in Write |-> [r \in Reader |-> 0]]

\* The steps that end a suspension of a call.
Proceed(c) ==
  \/ Attempt(c) \/ Reconnected(c) \/ ReconnectFails(c)
  \/ Answered(c) \/ Unanswered(c) \/ BackoffEnds(c)

Next ==
  \/ Connect \/ Close \/ LinkDrops \/ LinkReturns
  \/ \E c \in Call : Begin(c) \/ Proceed(c) \/ Resend(c) \/ Cancel(c)
  \/ \E w \in Write : Lands(w)

Spec == Init /\ [][Next]_vars

\* Every suspension ends: connect and transactions are bounded by wait_for, the
\* backoff is a sleep, and a released lock goes to its first waiter.
FairSpec == Spec /\ \A c \in Call : WF_vars(Proceed(c))

-----------------------------------------------------------------------------
(* Properties.                                                              *)

\* The wire is used by one call at a time: a transaction or a reconnect is
\* made by the holder of the lock only (client.py:200-207).
WireExclusion ==
  \A c, d \in Call : {pc[c], pc[d]} \subseteq {"wire", "connecting"} => c = d

\* A queued control write pre-empts the retry chains of the readers
\* (client.py:195-204): while it waits, no reader begins a second transaction.
WritePreempts == \A w \in Write, r \in Reader : turns[w][r] <= 1

\* The client keeps the promise of RemoteWrite to the control services.
Outcome(w) ==
  CASE pc[w] = "idle" -> "unasked"
    [] pc[w] = "done" -> IF result[w] = "ok" THEN "ok" ELSE "failed"
    [] OTHER -> "waiting"

Remote == INSTANCE RemoteWrite WITH
  answer <- [w \in Write |-> Outcome(w)], effect <- landed, MaxEffect <- MaxSend

ImplementsRemoteWrite == Remote!Spec

\* Every write that was called returns, although both loops read for ever.
WritesReturn == \A w \in Write : pc[w] = "lock" ~> pc[w] = "done"
=============================================================================
