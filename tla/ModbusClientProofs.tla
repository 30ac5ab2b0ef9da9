------------------------ MODULE ModbusClientProofs ------------------------
(***************************************************************************)
(* Proofs about ModbusClient for any number of readers, writes, retries and *)
(* resends: the queue of the lock holds exactly the calls that hold it or   *)
(* wait for it, each once, and only its head is on the wire; a reader that  *)
(* has used the wire while a write waits is behind that write; and a write  *)
(* sends nothing before its only attempt.                                   *)
(***************************************************************************)
EXTENDS ModbusClient, TLAPS

InQueue(q, c) == \E i \in DOMAIN q : q[i] = c
Unique(q) == \A i, j \in DOMAIN q : q[i] = q[j] => i = j

Pc == {"idle", "lock", "connecting", "wire", "backoff", "done"}
Queueing == {"lock", "connecting", "wire"}
OnWire == {"wire", "connecting"}

\* Who is in the queue, and who of them uses the wire.
LockInv ==
  /\ Unique(lock)
  /\ \A c \in Call : InQueue(lock, c) <=> pc[c] \in Queueing
  /\ \A c \in Call : pc[c] \in OnWire => lock # <<>> /\ lock[1] = c

\* A call with an attempt ahead of it has one left.
AttemptInv ==
  \A c \in Call : /\ pc[c] \in {"lock", "backoff"} => attempt[c] < Attempts(c)
                  /\ pc[c] \in OnWire => 1 <= attempt[c] /\ attempt[c] <= Attempts(c)

\* What a write has sent: nothing before its attempt, and what landed was sent.
WriteInv ==
  \A w \in Write :
    /\ pc[w] # "backoff"
    /\ pc[w] \in {"idle", "lock", "connecting"} => frames[w] = 0
    /\ landed[w] <= frames[w]
    /\ attempt[w] <= 1

\* No reader ahead of a write in the queue has had its turn already.
TurnInv ==
  \A w \in Write, r \in Reader :
    /\ turns[w][r] \in 0..1
    /\ pc[w] = "idle" => turns[w][r] = 0
    /\ \A i, j \in DOMAIN lock :
         i < j /\ lock[i] = r /\ lock[j] = w /\ pc[r] \in {"lock", "connecting"}
           => turns[w][r] = 0

IInv == TypeOK /\ LockInv /\ AttemptInv /\ WriteInv /\ TurnInv

-----------------------------------------------------------------------------
(* The two operations on the queue.                                         *)

\* Removing a call keeps the order of the others.
LEMMA WithoutFacts ==
  ASSUME NEW S, NEW q \in Seq(S), NEW c, Unique(q)
  PROVE  /\ Without(q, c) \in Seq(S) /\ Unique(Without(q, c))
         /\ \A d : InQueue(Without(q, c), d) <=> InQueue(q, d) /\ d # c
         /\ q # <<>> /\ q[1] # c => Without(q, c) # <<>> /\ Without(q, c)[1] = q[1]
         /\ \A i, j \in DOMAIN Without(q, c) : i < j =>
              \E k, l \in DOMAIN q : k < l /\ q[k] = Without(q, c)[i] /\ q[l] = Without(q, c)[j]
  <1>1. CASE \A i \in DOMAIN q : q[i] # c
    BY <1>1 DEF Without, InQueue
  <1>2. CASE \E i \in DOMAIN q : q[i] = c
    <2> DEFINE at == CHOOSE i \in DOMAIN q : q[i] = c
               p == [i \in 1..(Len(q) - 1) |-> IF i < at THEN q[i] ELSE q[i + 1]]
    <2>1. at \in 1..Len(q) /\ q[at] = c /\ Len(q) \in Nat /\ DOMAIN q = 1..Len(q)
      BY <1>2
    <2>2. Without(q, c) = p
      BY <1>2 DEF Without
    <2> HIDE DEF at
    <2>3. p \in Seq(S) /\ DOMAIN p = 1..(Len(q) - 1) /\ Len(p) = Len(q) - 1
      <3>1. \A i \in 1..(Len(q) - 1) : (IF i < at THEN q[i] ELSE q[i + 1]) \in S
        BY <2>1
      <3>2. Len(q) - 1 \in Nat  BY <2>1
      <3> QED  BY <3>1, <3>2
    <2>4. \A i \in DOMAIN p : p[i] = IF i < at THEN q[i] ELSE q[i + 1]
      BY <2>3
    <2>5. \A i \in DOMAIN q : q[i] = c => i = at
      BY <2>1 DEF Unique
    <2> HIDE DEF p
    <2>6. Unique(p)
      BY <2>1, <2>3, <2>4 DEF Unique
    <2>7. ASSUME NEW d PROVE InQueue(p, d) <=> InQueue(q, d) /\ d # c
      <3>1. ASSUME NEW i \in DOMAIN p, p[i] = d PROVE InQueue(q, d) /\ d # c
        BY <3>1, <2>1, <2>3, <2>4, <2>5 DEF InQueue
      <3>2. ASSUME NEW i \in DOMAIN q, q[i] = d, d # c PROVE InQueue(p, d)
        <4>1. CASE i < at  BY <4>1, <3>2, <2>1, <2>3, <2>4 DEF InQueue
        <4>2. CASE i > at
          <5>1. i - 1 \in DOMAIN p /\ p[i - 1] = d
            BY <4>2, <3>2, <2>1, <2>3, <2>4
          <5> QED  BY <5>1 DEF InQueue
        <4> QED  BY <4>1, <4>2, <3>2, <2>1
      <3> QED  BY <3>1, <3>2 DEF InQueue
    <2>8. q # <<>> /\ q[1] # c => p # <<>> /\ p[1] = q[1]
      BY <2>1, <2>3, <2>4
    <2>9. ASSUME NEW i \in DOMAIN p, NEW j \in DOMAIN p, i < j
          PROVE  \E k, l \in DOMAIN q : k < l /\ q[k] = p[i] /\ q[l] = p[j]
      <3> DEFINE k == IF i < at THEN i ELSE i + 1
                 l == IF j < at THEN j ELSE j + 1
      <3>1. k \in DOMAIN q /\ l \in DOMAIN q /\ k < l /\ q[k] = p[i] /\ q[l] = p[j]
        BY <2>9, <2>1, <2>3, <2>4
      <3> QED  BY <3>1
    <2> QED  BY <2>2, <2>3, <2>6, <2>7, <2>8, <2>9
  <1> QED  BY <1>1, <1>2

\* A call that joins is last.
LEMMA AppendFacts ==
  ASSUME NEW S, NEW q \in Seq(S), NEW c \in S, Unique(q), ~InQueue(q, c)
  PROVE  /\ Append(q, c) \in Seq(S) /\ Unique(Append(q, c))
         /\ \A d : InQueue(Append(q, c), d) <=> InQueue(q, d) \/ d = c
         /\ q # <<>> => Append(q, c) # <<>> /\ Append(q, c)[1] = q[1]
         /\ \A i, j \in DOMAIN Append(q, c) : i < j =>
              /\ i \in DOMAIN q /\ Append(q, c)[i] = q[i]
              /\ \/ j \in DOMAIN q /\ Append(q, c)[j] = q[j]
                 \/ j = Len(q) + 1 /\ Append(q, c)[j] = c
  <1> DEFINE p == Append(q, c)
  <1>1. /\ p \in Seq(S) /\ Len(q) \in Nat /\ DOMAIN q = 1..Len(q)
        /\ DOMAIN p = 1..(Len(q) + 1) /\ p[Len(q) + 1] = c
        /\ \A i \in DOMAIN q : p[i] = q[i]
    <2>1. p \in Seq(S) /\ Len(q) \in Nat /\ DOMAIN q = 1..Len(q)  OBVIOUS
    <2>2. Len(p) = Len(q) + 1 /\ p[Len(q) + 1] = c  OBVIOUS
    <2>3. \A i \in 1..Len(q) : p[i] = q[i]  OBVIOUS
    <2>4. DOMAIN p = 1..Len(p)  BY <2>1
    <2> QED  BY <2>1, <2>2, <2>3, <2>4
  <1> HIDE DEF p
  <1>2. Unique(p)  BY <1>1 DEF Unique, InQueue
  <1>3. ASSUME NEW d PROVE InQueue(p, d) <=> InQueue(q, d) \/ d = c
    <2>1. InQueue(q, d) => InQueue(p, d)  BY <1>1 DEF InQueue
    <2>2. InQueue(p, c)
      <3>1. Len(q) + 1 \in DOMAIN p  BY <1>1
      <3> QED  BY <3>1, <1>1 DEF InQueue
    <2>3. InQueue(p, d) => InQueue(q, d) \/ d = c
      BY <1>1 DEF InQueue
    <2> QED  BY <2>1, <2>2, <2>3
  <1>4. q # <<>> => p # <<>> /\ p[1] = q[1]  BY <1>1
  <1>5. \A i, j \in DOMAIN p : i < j =>
          /\ i \in DOMAIN q /\ p[i] = q[i]
          /\ \/ j \in DOMAIN q /\ p[j] = q[j]
             \/ j = Len(q) + 1 /\ p[j] = c
    BY <1>1
  <1> QED  BY <1>1, <1>2, <1>3, <1>4, <1>5 DEF p

-----------------------------------------------------------------------------
(* How a step moves a call with respect to the lock.                        *)

LEMMA Leaves ==
  ASSUME IInv, NEW c \in Call, NEW s \in {"done", "backoff"},
         pc' = [pc EXCEPT ![c] = s], lock' = Without(lock, c), turns' = turns
  PROVE  lock' \in Seq(Call) /\ LockInv' /\ TurnInv'
  <1>1. lock \in Seq(Call) /\ Unique(lock) /\ pc \in [Call -> Pc]
    BY DEF IInv, TypeOK, LockInv, Pc
  <1>2. /\ lock' \in Seq(Call) /\ Unique(lock')
        /\ \A d : InQueue(lock', d) <=> InQueue(lock, d) /\ d # c
        /\ lock # <<>> /\ lock[1] # c => lock' # <<>> /\ lock'[1] = lock[1]
        /\ \A i, j \in DOMAIN lock' : i < j =>
             \E k, l \in DOMAIN lock : k < l /\ lock[k] = lock'[i] /\ lock[l] = lock'[j]
    BY <1>1, WithoutFacts
  <1>3. \A d \in Call : pc'[d] = IF d = c THEN s ELSE pc[d]
    BY <1>1
  <1>4. LockInv'
    <2>1. \A d \in Call : InQueue(lock', d) <=> pc'[d] \in Queueing
      BY <1>2, <1>3 DEF IInv, LockInv, Queueing
    <2>2. ASSUME NEW d \in Call, pc'[d] \in OnWire PROVE lock' # <<>> /\ lock'[1] = d
      <3>1. d # c /\ pc[d] \in OnWire  BY <2>2, <1>3 DEF OnWire
      <3>2. lock # <<>> /\ lock[1] = d  BY <3>1 DEF IInv, LockInv
      <3> QED  BY <3>1, <3>2, <1>2
    <2> QED  BY <2>1, <2>2, <1>2 DEF LockInv
  <1>5. TurnInv'
    <2> SUFFICES ASSUME NEW w \in Write, NEW r \in Reader
                 PROVE  /\ turns[w][r] \in 0..1
                        /\ pc'[w] = "idle" => turns[w][r] = 0
                        /\ \A i, j \in DOMAIN lock' :
                             i < j /\ lock'[i] = r /\ lock'[j] = w
                               /\ pc'[r] \in {"lock", "connecting"} => turns[w][r] = 0
      BY DEF TurnInv
    <2>1. w \in Call /\ r \in Call  BY DEF Call
    <2>2. turns[w][r] \in 0..1 /\ (pc'[w] = "idle" => turns[w][r] = 0)
      BY <2>1, <1>3 DEF IInv, TurnInv
    <2>3. ASSUME NEW i \in DOMAIN lock', NEW j \in DOMAIN lock', i < j, lock'[i] = r, lock'[j] = w,
                 pc'[r] \in {"lock", "connecting"}
          PROVE  turns[w][r] = 0
      <3>1. PICK k, l \in DOMAIN lock : k < l /\ lock[k] = r /\ lock[l] = w
        BY <2>3, <1>2
      <3>2. pc[r] \in {"lock", "connecting"}  BY <2>1, <2>3, <1>3
      <3> QED  BY <3>1, <3>2 DEF IInv, TurnInv
    <2> QED  BY <2>2, <2>3
  <1> QED  BY <1>2, <1>4, <1>5

LEMMA Joins ==
  ASSUME IInv, NEW c \in Call, pc[c] \notin Queueing, c \in Write => pc[c] = "idle",
         pc' = [pc EXCEPT ![c] = "lock"], lock' = Append(lock, c), turns' = turns
  PROVE  lock' \in Seq(Call) /\ LockInv' /\ TurnInv'
  <1>1. lock \in Seq(Call) /\ Unique(lock) /\ ~InQueue(lock, c) /\ pc \in [Call -> Pc]
    <2>1. lock \in Seq(Call) /\ pc \in [Call -> Pc]  BY DEF IInv, TypeOK, Pc
    <2>2. Unique(lock) /\ ~InQueue(lock, c)  BY DEF IInv, LockInv
    <2> QED  BY <2>1, <2>2
  <1>2. /\ lock' \in Seq(Call) /\ Unique(lock')
        /\ \A d : InQueue(lock', d) <=> InQueue(lock, d) \/ d = c
        /\ lock # <<>> => lock' # <<>> /\ lock'[1] = lock[1]
        /\ \A i, j \in DOMAIN lock' : i < j =>
             /\ i \in DOMAIN lock /\ lock'[i] = lock[i]
             /\ \/ j \in DOMAIN lock /\ lock'[j] = lock[j]
                \/ j = Len(lock) + 1 /\ lock'[j] = c
    BY <1>1, AppendFacts
  <1>3. \A d \in Call : pc'[d] = IF d = c THEN "lock" ELSE pc[d]
    BY <1>1
  <1>4. LockInv'
    BY <1>2, <1>3 DEF IInv, LockInv, Queueing, OnWire
  <1>5. TurnInv'
    <2> SUFFICES ASSUME NEW w \in Write, NEW r \in Reader
                 PROVE  /\ turns[w][r] \in 0..1
                        /\ pc'[w] = "idle" => turns[w][r] = 0
                        /\ \A i, j \in DOMAIN lock' :
                             i < j /\ lock'[i] = r /\ lock'[j] = w
                               /\ pc'[r] \in {"lock", "connecting"} => turns[w][r] = 0
      BY DEF TurnInv
    <2>1. w \in Call /\ r \in Call  BY DEF Call
    <2>2. turns[w][r] \in 0..1 /\ (pc'[w] = "idle" => turns[w][r] = 0)
      BY <2>1, <1>3 DEF IInv, TurnInv
    <2>3. ASSUME NEW i \in DOMAIN lock', NEW j \in DOMAIN lock', i < j, lock'[i] = r, lock'[j] = w,
                 pc'[r] \in {"lock", "connecting"}
          PROVE  turns[w][r] = 0
      <3>1. i \in DOMAIN lock /\ lock[i] = r  BY <2>3, <1>2
      <3>2. CASE j \in DOMAIN lock /\ lock[j] = w
        <4>1. r # c  BY <3>1, <1>1 DEF InQueue
        <4>2. pc[r] \in {"lock", "connecting"}  BY <4>1, <2>1, <2>3, <1>3
        <4> QED  BY <3>1, <3>2, <2>3, <4>2 DEF IInv, TurnInv
      <3>3. CASE w = c
        BY <3>3 DEF IInv, TurnInv
      <3> QED  BY <3>2, <3>3, <2>3, <1>2
    <2> QED  BY <2>2, <2>3
  <1> QED  BY <1>2, <1>4, <1>5

LEMMA Transmits ==
  ASSUME IInv, NEW c \in Call, pc[c] \in {"lock", "connecting"}, lock # <<>>, lock[1] = c,
         Transmit(c), lock' = lock
  PROVE  /\ LockInv' /\ TurnInv' /\ turns' \in [Write -> [Reader -> Nat]]
         /\ pc' \in [Call -> {"idle", "lock", "connecting", "wire", "backoff", "done"}]
         /\ \A d \in Call : pc'[d] = IF d = c THEN "wire" ELSE pc[d]
  <1>1. /\ lock \in Seq(Call) /\ turns \in [Write -> [Reader -> Nat]]
        /\ pc \in [Call -> {"idle", "lock", "connecting", "wire", "backoff", "done"}]
    BY DEF IInv, TypeOK
  <1>2. /\ pc' \in [Call -> {"idle", "lock", "connecting", "wire", "backoff", "done"}]
        /\ \A d \in Call : pc'[d] = IF d = c THEN "wire" ELSE pc[d]
    BY <1>1 DEF Transmit
  <1>3. LockInv'
    BY <1>2 DEF IInv, LockInv, Queueing, OnWire
  <1>4. 1 \in DOMAIN lock  BY <1>1
  <1>5. ASSUME NEW w \in Write, NEW r \in Reader
        PROVE  turns'[w][r] = IF c = r /\ Waiting(w) THEN turns[w][r] + 1 ELSE turns[w][r]
    <2>1. CASE c \in Write
      BY <2>1, ClientAssumption DEF Transmit
    <2>2. CASE c \notin Write
      BY <2>2, <1>1 DEF Transmit
    <2> QED  BY <2>1, <2>2
  <1>6. turns' \in [Write -> [Reader -> Nat]]
    BY <1>1 DEF Transmit
  <1>7. TurnInv'
    <2> SUFFICES ASSUME NEW w \in Write, NEW r \in Reader
                 PROVE  /\ turns'[w][r] \in 0..1
                        /\ pc'[w] = "idle" => turns'[w][r] = 0
                        /\ \A i, j \in DOMAIN lock :
                             i < j /\ lock[i] = r /\ lock[j] = w
                               /\ pc'[r] \in {"lock", "connecting"} => turns'[w][r] = 0
      BY DEF TurnInv
    <2>1. w \in Call /\ r \in Call /\ w # r  BY ClientAssumption DEF Call
    <2>2. /\ turns[w][r] \in 0..1 /\ (pc[w] = "idle" => turns[w][r] = 0)
          /\ \A i, j \in DOMAIN lock :
               i < j /\ lock[i] = r /\ lock[j] = w /\ pc[r] \in {"lock", "connecting"}
                 => turns[w][r] = 0
      BY DEF IInv, TurnInv
    <2>3. CASE c = r /\ Waiting(w)
      <3>1. PICK j \in DOMAIN lock : lock[j] = w  BY <2>3 DEF Waiting, InLock
      <3>2. 1 < j  BY <3>1, <2>1, <2>3, <1>1
      <3>3. turns[w][r] = 0  BY <3>1, <3>2, <2>2, <2>3, <1>4
      <3> QED  BY <3>3, <2>1, <2>3, <1>2, <1>5 DEF Waiting
    <2>4. CASE ~(c = r /\ Waiting(w))
      BY <2>4, <2>1, <2>2, <1>2, <1>5
    <2> QED  BY <2>3, <2>4
  <1> QED  BY <1>2, <1>3, <1>6, <1>7

-----------------------------------------------------------------------------
(* One lemma per action.                                                    *)

\* The end of a call: whatever it was doing, it leaves the lock.
LEMMA ReturnIInv ==
  ASSUME IInv, NEW c \in Call, NEW r \in Result, Return(c, r),
         attempt' \in [Call -> 0..(Retries + 1)],
         \A d \in Call : d # c => attempt'[d] = attempt[d], c \in Write => attempt'[c] <= 1,
         transport' = transport, client' \in {"none", "down", "up", "closed"},
         frames' = frames, landed' = landed, turns' = turns
  PROVE  IInv'
  <1>1. lock' \in Seq(Call) /\ LockInv' /\ TurnInv'
    BY Leaves DEF Return
  <1>2. pc \in [Call -> Pc] /\ result \in [Call -> Result]
    BY DEF IInv, TypeOK, Pc
  <1>3. /\ pc' \in [Call -> Pc] /\ result' \in [Call -> Result]
        /\ \A d \in Call : pc'[d] = IF d = c THEN "done" ELSE pc[d]
    BY <1>2 DEF Return, Pc
  <1>4. TypeOK'
    BY <1>1, <1>3 DEF IInv, TypeOK, Pc
  <1>5. AttemptInv'
    BY <1>3 DEF IInv, AttemptInv, OnWire, Attempts
  <1>6. WriteInv'
    BY <1>3 DEF IInv, WriteInv, Call
  <1> QED  BY <1>1, <1>4, <1>5, <1>6 DEF IInv

\* The end of an attempt that brought nothing.
LEMMA AttemptFailsIInv ==
  ASSUME IInv, NEW c \in Call, pc[c] \in Queueing, AttemptFails(c),
         attempt' \in [Call -> 0..(Retries + 1)], 1 <= attempt'[c], attempt'[c] <= Attempts(c),
         \A d \in Call : d # c => attempt'[d] = attempt[d],
         transport' = transport, client' \in {"none", "down", "up", "closed"},
         frames' = frames, landed' = landed, turns' = turns
  PROVE  IInv'
  <1>1. CASE attempt'[c] < Attempts(c)
    <2>1. /\ pc' = [pc EXCEPT ![c] = "backoff"] /\ lock' = Without(lock, c)
          /\ result' = result
      BY <1>1 DEF AttemptFails
    <2>2. lock' \in Seq(Call) /\ LockInv' /\ TurnInv'
      BY <2>1, Leaves
    <2>3. pc \in [Call -> Pc] /\ attempt'[c] \in Nat /\ attempt[c] \in Nat
      BY DEF IInv, TypeOK, Pc
    <2>4. pc' \in [Call -> Pc] /\ \A d \in Call : pc'[d] = IF d = c THEN "backoff" ELSE pc[d]
      BY <2>1, <2>3 DEF Pc
    <2>5. TypeOK'
      BY <2>1, <2>2, <2>4 DEF IInv, TypeOK, Pc
    <2>6. AttemptInv'
      BY <1>1, <2>4 DEF IInv, AttemptInv, OnWire, Attempts
    <2>7. c \notin Write
      <3>1. SUFFICES ASSUME c \in Write PROVE FALSE  OBVIOUS
      <3>2. Attempts(c) = 1  BY <3>1, ClientAssumption DEF Attempts
      <3> QED  BY <3>2, <1>1, <2>3
    <2>8. WriteInv'
      BY <2>4, <2>7 DEF IInv, WriteInv, Call
    <2> QED  BY <2>2, <2>5, <2>6, <2>8 DEF IInv
  <1>2. CASE ~(attempt'[c] < Attempts(c))
    <2>1. Return(c, "failed")  BY <1>2 DEF AttemptFails
    <2>2. c \in Write => attempt'[c] <= 1
      BY ClientAssumption DEF Attempts
    <2> QED  BY <2>1, <2>2, ReturnIInv DEF Result
  <1> QED  BY <1>1, <1>2

\* A request goes out: the attempt was this call's last if it is a write.
LEMMA TransmitIInv ==
  ASSUME IInv, NEW c \in Call, pc[c] \in {"lock", "connecting"}, lock # <<>>, lock[1] = c,
         Transmit(c), attempt' \in [Call -> 0..(Retries + 1)], 1 <= attempt'[c],
         attempt'[c] <= Attempts(c),
         \A d \in Call : d # c => attempt'[d] = attempt[d],
         transport' = transport, client' \in {"none", "down", "up", "closed"},
         lock' = lock, result' = result, landed' = landed
  PROVE  IInv'
  <1>1. /\ LockInv' /\ TurnInv' /\ turns' \in [Write -> [Reader -> Nat]]
        /\ pc' \in [Call -> Pc]
        /\ \A d \in Call : pc'[d] = IF d = c THEN "wire" ELSE pc[d]
    BY Transmits DEF Pc
  <1>2. /\ frames \in [Write -> 0..MaxSend] /\ landed \in [Write -> 0..MaxSend]
        /\ MaxSend \in Nat /\ MaxSend >= 1
    BY ClientAssumption DEF IInv, TypeOK
  <1>3. c \in Write => frames[c] = 0
    BY DEF IInv, WriteInv
  <1>4. /\ frames' \in [Write -> 0..MaxSend]
        /\ \A w \in Write : frames'[w] = IF w = c THEN 1 ELSE frames[w]
    <2>1. CASE c \in Write
      <3>1. frames' = [frames EXCEPT ![c] = frames[c] + 1]  BY <2>1 DEF Transmit
      <3>2. frames[c] + 1 = 1 /\ 1 \in 0..MaxSend  BY <2>1, <1>2, <1>3
      <3> QED  BY <3>1, <3>2, <1>2
    <2>2. CASE c \notin Write  BY <2>2, <1>2 DEF Transmit
    <2> QED  BY <2>1, <2>2
  <1>5. TypeOK'
    BY <1>1, <1>4 DEF IInv, TypeOK, Pc
  <1>6. AttemptInv'
    BY <1>1 DEF IInv, AttemptInv, OnWire, Attempts
  <1>7. WriteInv'
    <2> SUFFICES ASSUME NEW w \in Write
                 PROVE  /\ pc'[w] # "backoff"
                        /\ pc'[w] \in {"idle", "lock", "connecting"} => frames'[w] = 0
                        /\ landed[w] <= frames'[w] /\ attempt'[w] <= 1
      BY DEF WriteInv
    <2>1. w \in Call /\ (w = c => attempt'[w] <= 1)
      BY ClientAssumption DEF Call, Attempts
    <2>2. CASE w = c
      <3>1. landed[w] <= frames[w] /\ landed[w] \in 0..MaxSend  BY <1>2 DEF IInv, WriteInv
      <3> QED  BY <3>1, <2>1, <2>2, <1>1, <1>2, <1>3, <1>4
    <2>3. CASE w # c
      BY <2>1, <2>3, <1>1, <1>4 DEF IInv, WriteInv
    <2> QED  BY <2>2, <2>3
  <1> QED  BY <1>1, <1>5, <1>6, <1>7 DEF IInv

\* connect(), close() and the link itself move nothing else.
LEMMA ClientMoves ==
  ASSUME IInv, client' \in {"none", "down", "up", "closed"},
         UNCHANGED <<transport, pc, attempt, lock, result, frames, landed, turns>>
  PROVE  IInv'
  BY DEF IInv, TypeOK, LockInv, AttemptInv, WriteInv, TurnInv, InQueue, Unique

LEMMA BeginIInv == ASSUME IInv, NEW c \in Call, Begin(c) PROVE IInv'
  <1>1. /\ attempt \in [Call -> 0..(Retries + 1)] /\ Retries \in Nat
        /\ pc \in [Call -> Pc] /\ result \in [Call -> Result]
        /\ client \in {"none", "down", "up", "closed"}
    BY ClientAssumption DEF IInv, TypeOK, Pc
  <1>2. attempt' = [attempt EXCEPT ![c] = 0]  BY DEF Begin
  <1>3. /\ attempt' \in [Call -> 0..(Retries + 1)] /\ attempt'[c] = 0
        /\ \A d \in Call : d # c => attempt'[d] = attempt[d]
    BY <1>1, <1>2
  <1>4. UNCHANGED <<transport, client, frames, landed, turns>>  BY DEF Begin, device
  <1>5. CASE Missing \/ c \in Invalid
    <2>1. \E r \in Result : Return(c, r)  BY <1>5 DEF Begin, Result
    <2> QED  BY <2>1, <1>1, <1>3, <1>4, ReturnIInv
  <1>6. CASE ~(Missing \/ c \in Invalid)
    <2>1. /\ pc' = [pc EXCEPT ![c] = "lock"] /\ lock' = Append(lock, c)
          /\ result' = [result EXCEPT ![c] = "none"]
      BY <1>6 DEF Begin
    <2>2. pc[c] \notin Queueing /\ (c \in Write => pc[c] = "idle")
      BY ClientAssumption DEF Begin, Queueing
    <2>3. lock' \in Seq(Call) /\ LockInv' /\ TurnInv'
      BY <2>1, <2>2, <1>4, Joins
    <2>4. /\ pc' \in [Call -> Pc] /\ result' \in [Call -> Result]
          /\ \A d \in Call : pc'[d] = IF d = c THEN "lock" ELSE pc[d]
      BY <2>1, <1>1 DEF Pc, Result
    <2>5. TypeOK'
      BY <2>3, <2>4, <1>3, <1>4 DEF IInv, TypeOK, Pc
    <2>6. AttemptInv'
      BY <2>4, <1>1, <1>3 DEF IInv, AttemptInv, OnWire, Attempts
    <2>7. WriteInv'
      BY <2>2, <2>4, <1>3, <1>4 DEF IInv, WriteInv, Call
    <2> QED  BY <2>3, <2>5, <2>6, <2>7 DEF IInv
  <1> QED  BY <1>5, <1>6

LEMMA AttemptIInv == ASSUME IInv, NEW c \in Call, Attempt(c) PROVE IInv'
  <1>1. /\ attempt \in [Call -> 0..(Retries + 1)] /\ Retries \in Nat
        /\ pc \in [Call -> Pc] /\ lock \in Seq(Call)
        /\ client \in {"none", "down", "up", "closed"}
    BY ClientAssumption DEF IInv, TypeOK, Pc
  <1>2. /\ pc[c] = "lock" /\ lock # <<>> /\ lock[1] = c
        /\ attempt' = [attempt EXCEPT ![c] = attempt[c] + 1]
        /\ UNCHANGED <<transport, client, landed>>
    BY <1>1 DEF Attempt
  <1>3. attempt[c] < Attempts(c) /\ Attempts(c) \in 1..(Retries + 1)
    BY <1>1, <1>2 DEF IInv, AttemptInv, Attempts
  <1>4. /\ attempt' \in [Call -> 0..(Retries + 1)]
        /\ 1 <= attempt'[c] /\ attempt'[c] <= Attempts(c)
        /\ \A d \in Call : d # c => attempt'[d] = attempt[d]
    BY <1>1, <1>2, <1>3
  <1>5. CASE AttemptFails(c) /\ UNCHANGED <<frames, turns>>
    BY <1>1, <1>2, <1>4, <1>5, AttemptFailsIInv DEF Queueing
  <1>6. CASE pc' = [pc EXCEPT ![c] = "connecting"] /\ UNCHANGED <<lock, result, frames, turns>>
    <2>1. /\ pc' \in [Call -> Pc]
          /\ \A d \in Call : pc'[d] = IF d = c THEN "connecting" ELSE pc[d]
      BY <1>1, <1>6 DEF Pc
    <2>2. TypeOK'
      BY <2>1, <1>2, <1>4, <1>6 DEF IInv, TypeOK, Pc
    <2>3. LockInv'
      BY <2>1, <1>2, <1>6 DEF IInv, LockInv, Queueing, OnWire
    <2>4. AttemptInv'
      BY <2>1, <1>4 DEF IInv, AttemptInv, OnWire, Attempts
    <2>5. WriteInv'
      <3>1. c \in Write => Attempts(c) = 1  BY ClientAssumption DEF Attempts
      <3> QED  BY <3>1, <2>1, <1>2, <1>4, <1>6 DEF IInv, WriteInv, Call
    <2>6. TurnInv'
      BY <2>1, <1>2, <1>6 DEF IInv, TurnInv, Call
    <2> QED  BY <2>2, <2>3, <2>4, <2>5, <2>6 DEF IInv
  <1>7. CASE Transmit(c) /\ UNCHANGED <<lock, result>>
    BY <1>1, <1>2, <1>4, <1>7, TransmitIInv
  <1> QED  BY <1>5, <1>6, <1>7 DEF Attempt

LEMMA ReconnectedIInv == ASSUME IInv, NEW c \in Call, Reconnected(c) PROVE IInv'
  <1>1. attempt \in [Call -> 0..(Retries + 1)]  BY DEF IInv, TypeOK
  <1>2. lock # <<>> /\ lock[1] = c  BY DEF Reconnected, IInv, LockInv, OnWire
  <1>3. 1 <= attempt[c] /\ attempt[c] <= Attempts(c)
    BY DEF Reconnected, IInv, AttemptInv, OnWire
  <1> QED  BY <1>1, <1>2, <1>3, TransmitIInv DEF Reconnected

LEMMA FailsIInv ==
  ASSUME IInv, NEW c \in Call, ReconnectFails(c) \/ Unanswered(c) PROVE IInv'
  <1>1. attempt \in [Call -> 0..(Retries + 1)] /\ client \in {"none", "down", "up", "closed"}
    BY DEF IInv, TypeOK
  <1>2. pc[c] \in OnWire /\ pc[c] \in Queueing
    BY DEF ReconnectFails, Unanswered, OnWire, Queueing
  <1>3. 1 <= attempt[c] /\ attempt[c] <= Attempts(c)
    BY <1>2 DEF IInv, AttemptInv
  <1> QED  BY <1>1, <1>2, <1>3, AttemptFailsIInv DEF ReconnectFails, Unanswered, device

LEMMA ReturnsIInv ==
  ASSUME IInv, NEW c \in Call, Answered(c) \/ Cancel(c) PROVE IInv'
  <1>1. attempt \in [Call -> 0..(Retries + 1)] /\ client \in {"none", "down", "up", "closed"}
    BY DEF IInv, TypeOK
  <1>2. c \in Write => attempt[c] <= 1  BY DEF IInv, WriteInv
  <1>3. \E r \in Result : Return(c, r)  BY DEF Answered, Cancel, Result
  <1> QED  BY <1>1, <1>2, <1>3, ReturnIInv DEF Answered, Cancel, device

LEMMA ResendIInv == ASSUME IInv, NEW c \in Call, Resend(c) PROVE IInv'
  <1>1. /\ frames \in [Write -> 0..MaxSend] /\ landed \in [Write -> 0..MaxSend]
        /\ MaxSend \in Nat /\ c \in Write /\ frames[c] < MaxSend /\ pc[c] = "wire"
        /\ UNCHANGED <<transport, client, pc, attempt, lock, result, landed, turns>>
    BY ClientAssumption DEF IInv, TypeOK, Resend
  <1>2. /\ frames' \in [Write -> 0..MaxSend]
        /\ \A w \in Write : frames'[w] = IF w = c THEN frames[w] + 1 ELSE frames[w]
    BY <1>1 DEF Resend
  <1>3. WriteInv'
    BY <1>1, <1>2 DEF IInv, WriteInv
  <1>4. TypeOK'
    BY <1>1, <1>2 DEF IInv, TypeOK
  <1>5. LockInv' /\ AttemptInv' /\ TurnInv'
    BY <1>1 DEF IInv, LockInv, AttemptInv, TurnInv, InQueue, Unique
  <1> QED  BY <1>3, <1>4, <1>5 DEF IInv

LEMMA LandsIInv == ASSUME IInv, NEW w \in Write, Lands(w) PROVE IInv'
  <1>1. /\ frames \in [Write -> 0..MaxSend] /\ landed \in [Write -> 0..MaxSend]
        /\ MaxSend \in Nat /\ landed[w] < frames[w]
        /\ UNCHANGED <<transport, client, pc, attempt, lock, result, frames, turns>>
    BY ClientAssumption DEF IInv, TypeOK, Lands
  <1>2. /\ landed' \in [Write -> 0..MaxSend]
        /\ \A v \in Write : landed'[v] = IF v = w THEN landed[v] + 1 ELSE landed[v]
    BY <1>1 DEF Lands
  <1>3. WriteInv'
    BY <1>1, <1>2 DEF IInv, WriteInv
  <1>4. TypeOK'
    BY <1>1, <1>2 DEF IInv, TypeOK
  <1>5. LockInv' /\ AttemptInv' /\ TurnInv'
    BY <1>1 DEF IInv, LockInv, AttemptInv, TurnInv, InQueue, Unique
  <1> QED  BY <1>3, <1>4, <1>5 DEF IInv

LEMMA BackoffEndsIInv == ASSUME IInv, NEW c \in Call, BackoffEnds(c) PROVE IInv'
  <1>1. /\ pc \in [Call -> Pc] /\ pc[c] = "backoff" /\ c \notin Write
        /\ pc' = [pc EXCEPT ![c] = "lock"] /\ lock' = Append(lock, c)
        /\ UNCHANGED <<transport, client, attempt, result, frames, landed, turns>>
    BY DEF IInv, TypeOK, WriteInv, BackoffEnds, device, Pc
  <1>2. lock' \in Seq(Call) /\ LockInv' /\ TurnInv'
    BY <1>1, Joins DEF Queueing
  <1>3. pc' \in [Call -> Pc] /\ \A d \in Call : pc'[d] = IF d = c THEN "lock" ELSE pc[d]
    BY <1>1 DEF Pc
  <1>4. TypeOK'
    BY <1>1, <1>2, <1>3 DEF IInv, TypeOK, Pc
  <1>5. AttemptInv'
    BY <1>1, <1>3 DEF IInv, AttemptInv, OnWire, Attempts
  <1>6. WriteInv'
    BY <1>1, <1>3 DEF IInv, WriteInv, Call
  <1> QED  BY <1>2, <1>4, <1>5, <1>6 DEF IInv

LEMMA InitIInv == Init => IInv
  <1> SUFFICES ASSUME Init PROVE IInv  OBVIOUS
  <1>1. TypeOK
    BY ClientAssumption DEF Init, TypeOK, Result
  <1>2. LockInv
    BY DEF Init, LockInv, Unique, InQueue, Queueing, OnWire
  <1>3. AttemptInv /\ WriteInv
    BY DEF Init, AttemptInv, WriteInv, OnWire, Call
  <1>4. TurnInv
    BY DEF Init, TurnInv, Call
  <1> QED  BY <1>1, <1>2, <1>3, <1>4 DEF IInv

LEMMA NextIInv == IInv /\ [Next]_vars => IInv'
  <1> SUFFICES ASSUME IInv, [Next]_vars PROVE IInv'  OBVIOUS
  <1>1. CASE UNCHANGED vars
    BY <1>1 DEF vars, IInv, TypeOK, LockInv, AttemptInv, WriteInv, TurnInv, InQueue, Unique
  <1>2. CASE Connect \/ Close \/ LinkDrops \/ LinkReturns
    BY <1>2, ClientMoves DEF Connect, Close, LinkDrops, LinkReturns, device
  <1>3. ASSUME NEW c \in Call, Begin(c) \/ Proceed(c) \/ Resend(c) \/ Cancel(c) PROVE IInv'
    BY <1>3, BeginIInv, AttemptIInv, ReconnectedIInv, FailsIInv, ReturnsIInv, ResendIInv,
       BackoffEndsIInv DEF Proceed
  <1>4. ASSUME NEW w \in Write, Lands(w) PROVE IInv'
    BY <1>4, LandsIInv
  <1> QED  BY <1>1, <1>2, <1>3, <1>4 DEF Next

LEMMA Inductive == Spec => []IInv
  BY InitIInv, NextIInv, PTL DEF Spec

-----------------------------------------------------------------------------

\* Every variable of the client keeps its type, for any number of calls.
THEOREM TypeCorrect == Spec => []TypeOK
  <1>1. IInv => TypeOK  BY DEF IInv
  <1> QED  BY <1>1, Inductive, PTL

\* For any number of readers and writes, one call at a time uses the wire.
THEOREM WireIsExclusive == Spec => []WireExclusion
  <1>1. IInv => WireExclusion
    BY DEF IInv, LockInv, WireExclusion, OnWire
  <1> QED  BY <1>1, Inductive, PTL

\* For any number of readers, retries and writes, a write that waits sees each
\* reader begin at most one transaction.
THEOREM WritesPreempt == Spec => []WritePreempts
  <1>1. IInv => WritePreempts
    BY DEF IInv, TurnInv, WritePreempts
  <1> QED  BY <1>1, Inductive, PTL

\* A call that waits for the lock waits for one that is alive: nobody who
\* returned, backs off or was cancelled is at the head of the queue
\* (client.py:206 and 410, with a cancellation at any await).
LockOwned ==
  \A c \in Call : pc[c] = "lock" =>
    lock # <<>> /\ Head(lock) \in Call /\ pc[Head(lock)] \in Queueing

\* The lock is never lost, whatever is cancelled, fails or times out while it is
\* held or waited for.
THEOREM LockIsOwned == Spec => []LockOwned
  <1>1. ASSUME IInv, NEW c \in Call, pc[c] = "lock"
        PROVE  lock # <<>> /\ Head(lock) \in Call /\ pc[Head(lock)] \in Queueing
    <2>1. InQueue(lock, c)
      BY <1>1 DEF IInv, LockInv, Queueing
    <2>2. lock \in Seq(Call) /\ lock # <<>>
      BY <1>1, <2>1 DEF IInv, TypeOK, InQueue
    <2>3. 1 \in DOMAIN lock /\ lock[1] = Head(lock) /\ Head(lock) \in Call
      BY <2>2
    <2>4. InQueue(lock, Head(lock))
      BY <2>3 DEF InQueue
    <2> QED  BY <1>1, <2>2, <2>3, <2>4 DEF IInv, LockInv
  <1>2. IInv => LockOwned
    BY <1>1 DEF LockOwned
  <1> QED  BY <1>2, Inductive, PTL

\* A write that is reported as never attempted has sent nothing, and nothing of
\* it will ever land (client.py:246-250 and 447-451).
RejectedUnsent ==
  \A w \in Write : result[w] \in {"not_connected", "bad_args"} => frames[w] = 0 /\ landed[w] = 0

\* A write has no outcome before it returns; it is not called again.
OutcomeInv == \A w \in Write : pc[w] # "done" => result[w] = "none"

\* How a step moves a write on: it is rejected before it queues, it moves
\* towards its return without one of those two outcomes, or it has returned.
WriteMove(w) ==
  \/ /\ pc[w] = "idle" /\ pc'[w] = "done" /\ frames'[w] = frames[w] /\ landed'[w] = landed[w]
  \/ /\ pc[w] # "done"
     /\ \/ pc'[w] # "done" /\ result'[w] \in {"none", result[w]}
        \/ pc'[w] = "done" /\ result'[w] \in {"ok", "failed", "cancelled"}
  \/ /\ pc[w] = "done" /\ pc'[w] = "done" /\ result'[w] = result[w] /\ frames'[w] = frames[w]
     /\ landed[w] < frames[w] \/ landed'[w] = landed[w]

LEMMA WriteMoves ==
  ASSUME IInv, NEW w \in Write, [Next]_vars PROVE WriteMove(w)
  <1>1. /\ pc \in [Call -> Pc] /\ result \in [Call -> Result] /\ w \in Call /\ w \notin Reader
        /\ frames \in [Write -> 0..MaxSend] /\ landed \in [Write -> 0..MaxSend]
    BY ClientAssumption DEF IInv, TypeOK, Call, Pc
  <1>2. pc[w] # "backoff"
    BY DEF IInv, WriteInv
  <1>3. ASSUME pc'[w] = pc[w], result'[w] = result[w], frames'[w] = frames[w] \/ pc[w] # "done",
               landed'[w] = landed[w] \/ landed[w] < frames[w]
        PROVE  WriteMove(w)
    BY <1>3 DEF WriteMove
  <1>4. CASE UNCHANGED vars \/ Connect \/ Close \/ LinkDrops \/ LinkReturns
    BY <1>3, <1>4 DEF vars, Connect, Close, LinkDrops, LinkReturns, device
  <1>5. ASSUME NEW v \in Write, Lands(v) PROVE WriteMove(w)
    BY <1>1, <1>3, <1>5 DEF Lands
  <1>6. ASSUME NEW c \in Call, c # w, Begin(c) \/ Proceed(c) \/ Resend(c) \/ Cancel(c)
        PROVE  WriteMove(w)
    <2>1. pc'[w] = pc[w] /\ result'[w] = result[w] /\ landed' = landed
      BY <1>1, <1>6 DEF Begin, Proceed, Attempt, Reconnected, ReconnectFails, Answered,
         Unanswered, BackoffEnds, Resend, Cancel, Return, AttemptFails, Transmit, device
    <2>2. frames'[w] = frames[w]
      BY <1>1, <1>6 DEF Begin, Proceed, Attempt, Reconnected, ReconnectFails, Answered,
         Unanswered, BackoffEnds, Resend, Cancel, Transmit, device
    <2> QED  BY <1>3, <2>1, <2>2
  <1>7. CASE Begin(w)
    BY <1>1, <1>7 DEF Begin, Return, WriteMove, device
  <1>8. CASE Proceed(w) \/ Resend(w) \/ Cancel(w)
    <2>1. pc[w] # "done"
      BY <1>8 DEF Proceed, Attempt, Reconnected, ReconnectFails, Answered, Unanswered,
         BackoffEnds, Resend, Cancel
    <2>2. \/ pc'[w] # "done" /\ result'[w] = result[w]
          \/ pc'[w] = "done" /\ result'[w] \in {"ok", "failed", "cancelled"}
      BY <1>1, <1>8, <2>1 DEF Proceed, Attempt, Reconnected, ReconnectFails, Answered,
         Unanswered, BackoffEnds, Resend, Cancel, Return, AttemptFails, Transmit
    <2> QED  BY <2>1, <2>2 DEF WriteMove
  <1> QED  BY <1>4, <1>5, <1>6, <1>7, <1>8 DEF Next

\* Whatever else happens, a write answered with "not_connected" or with an
\* argument error has put no frame on the wire.
THEOREM RejectedIsUnsent == Spec => []RejectedUnsent
  <1>1. Init => OutcomeInv /\ RejectedUnsent
    BY DEF Init, OutcomeInv, RejectedUnsent, Call
  <1>2. ASSUME IInv, IInv', OutcomeInv, RejectedUnsent, [Next]_vars, NEW w \in Write
        PROVE  /\ pc'[w] # "done" => result'[w] = "none"
               /\ result'[w] \in {"not_connected", "bad_args"} => frames'[w] = 0 /\ landed'[w] = 0
    <2>1. WriteMove(w)
      BY <1>2, WriteMoves
    <2>2. /\ pc[w] # "done" => result[w] = "none"
          /\ result[w] \in {"not_connected", "bad_args"} => frames[w] = 0 /\ landed[w] = 0
          /\ pc[w] = "idle" => frames[w] = 0
          /\ frames[w] \in Nat /\ landed[w] \in Nat /\ landed[w] <= frames[w]
      BY <1>2, ClientAssumption DEF OutcomeInv, RejectedUnsent, IInv, WriteInv, TypeOK
    <2> QED  BY <2>1, <2>2 DEF WriteMove
  <1>3. IInv /\ IInv' /\ OutcomeInv /\ RejectedUnsent /\ [Next]_vars
          => (OutcomeInv /\ RejectedUnsent)'
    BY <1>2 DEF OutcomeInv, RejectedUnsent
  <1> QED  BY <1>1, <1>3, Inductive, PTL DEF Spec

-----------------------------------------------------------------------------
(* The refinement of RemoteWrite.                                           *)

Told == [w \in Write |-> Outcome(w)]
Value(r) == IF r = "ok" THEN "ok" ELSE "failed"

\* A step that moves no write's outcome and lands nothing is a stutter.
LEMMA Stutters ==
  ASSUME \A w \in Write : Outcome(w)' = Outcome(w), landed' = landed
  PROVE  UNCHANGED <<Told, landed>>
  BY DEF Told

\* A return is an answer, of a write, or a stutter.
LEMMA ReturnRefines ==
  ASSUME IInv, NEW c \in Call, NEW r, Return(c, r), landed' = landed,
         c \in Write => pc[c] # "done",
         c \in Write /\ r = "ok" => pc[c] = "wire" /\ landed[c] > 0
  PROVE  [Remote!Next]_<<Told, landed>>
  <1>1. pc \in [Call -> Pc] /\ result \in [Call -> Result]  BY DEF IInv, TypeOK, Pc
  <1>2. \A d \in Call : /\ pc'[d] = IF d = c THEN "done" ELSE pc[d]
                        /\ result'[d] = IF d = c THEN r ELSE result[d]
    BY <1>1 DEF Return
  <1>3. \A w \in Write : w # c => Outcome(w)' = Outcome(w)
    BY <1>2 DEF Outcome, Call
  <1>4. CASE c \notin Write
    BY <1>3, <1>4, Stutters
  <1>5. CASE c \in Write
    <2>1. Outcome(c)' = Value(r)
      BY <1>2, <1>5 DEF Outcome, Value
    <2>2. Told' = [Told EXCEPT ![c] = Value(r)]
      BY <2>1, <1>3, <1>5 DEF Told
    <2>3. Told[c] \in {"unasked", "waiting"}
      BY <1>5 DEF Told, Outcome
    <2>4. Value(r) = "ok" => Told[c] = "waiting" /\ landed[c] > 0
      BY <1>5 DEF Told, Outcome, Value
    <2>5. Value(r) \in Remote!Outcome
      BY DEF Value, Remote!Outcome
    <2>6. Remote!Answer(c, Value(r))
      BY <2>2, <2>3, <2>4 DEF Remote!Answer, Told
    <2> QED  BY <2>5, <2>6, <1>5 DEF Remote!Next
  <1> QED  BY <1>4, <1>5

\* A call that moves on between the lock and the wire is waiting all the while.
Moves(c, s) ==
  /\ pc' = [pc EXCEPT ![c] = s] /\ (pc[c] \notin {"idle", "done"} \/ c \notin Write)
  /\ result' = result \/ (c \notin Write /\ result' = [result EXCEPT ![c] = "none"])
  /\ s \in Queueing \cup {"backoff"}

LEMMA MovesRefine ==
  ASSUME IInv, NEW c \in Call, NEW s, Moves(c, s), landed' = landed
  PROVE  [Remote!Next]_<<Told, landed>>
  <1>1. pc \in [Call -> Pc] /\ result \in [Call -> Result]  BY DEF IInv, TypeOK, Pc
  <1>2. \A w \in Write : Outcome(w)' = Outcome(w)
    BY <1>1 DEF Outcome, Call, Queueing, Moves
  <1> QED  BY <1>2, Stutters

LEMMA FailsRefine ==
  ASSUME IInv, IInv', NEW c \in Call, pc[c] \in Queueing, AttemptFails(c), landed' = landed
  PROVE  [Remote!Next]_<<Told, landed>>
  <1>1. CASE Return(c, "failed")
    BY <1>1, ReturnRefines DEF Queueing
  <1>2. CASE pc' = [pc EXCEPT ![c] = "backoff"] /\ result' = result
    <2>1. Moves(c, "backoff")  BY <1>2 DEF Queueing, Moves
    <2> QED  BY <2>1, MovesRefine
  <1> QED  BY <1>1, <1>2 DEF AttemptFails

LEMMA BeginRefines ==
  ASSUME IInv, IInv', NEW c \in Call, Begin(c) PROVE [Remote!Next]_<<Told, landed>>
  <1>1. /\ pc \in [Call -> Pc] /\ result \in [Call -> Result] /\ landed' = landed
        /\ (c \in Write => pc[c] = "idle")
    BY ClientAssumption DEF IInv, TypeOK, Pc, Begin, device
  <1>2. CASE Missing \/ c \in Invalid
    <2>1. Return(c, "not_connected") \/ Return(c, "bad_args")  BY <1>2 DEF Begin
    <2> QED  BY <2>1, <1>1, ReturnRefines
  <1>3. CASE ~(Missing \/ c \in Invalid)
    <2>1. pc' = [pc EXCEPT ![c] = "lock"] /\ result' = [result EXCEPT ![c] = "none"]
      BY <1>3 DEF Begin
    <2>2. CASE c \notin Write
      <3>1. Moves(c, "lock")  BY <2>1, <2>2 DEF Queueing, Moves
      <3> QED  BY <3>1, <1>1, MovesRefine
    <2>3. CASE c \in Write
      <3>1. Outcome(c) = "unasked" /\ Outcome(c)' = "waiting"
        BY <2>1, <2>3, <1>1 DEF Outcome
      <3>2. \A w \in Write : w # c => Outcome(w)' = Outcome(w)
        BY <2>1, <1>1 DEF Outcome, Call
      <3>3. Told[c] = "unasked" /\ Told' = [Told EXCEPT ![c] = "waiting"]
        BY <3>1, <3>2, <2>3 DEF Told
      <3>4. Remote!Ask(c)
        BY <3>3, <1>1 DEF Remote!Ask, Told
      <3> QED  BY <3>4, <2>3 DEF Remote!Next
    <2> QED  BY <2>2, <2>3
  <1> QED  BY <1>2, <1>3

LEMMA LandsRefines ==
  ASSUME IInv, NEW w \in Write, Lands(w) PROVE [Remote!Next]_<<Told, landed>>
  <1>1. /\ frames \in [Write -> 0..MaxSend] /\ landed \in [Write -> 0..MaxSend]
        /\ MaxSend \in Nat /\ landed[w] < frames[w]
    BY ClientAssumption DEF IInv, TypeOK, Lands
  <1>2. landed[w] < MaxSend /\ frames[w] # 0  BY <1>1
  <1>3. pc[w] # "idle"  BY <1>2 DEF IInv, WriteInv
  <1>4. Told[w] # "unasked"  BY <1>3 DEF Told, Outcome
  <1>5. Told' = Told  BY DEF Told, Outcome, Lands
  <1>6. Remote!Land(w)
    BY <1>2, <1>4, <1>5 DEF Remote!Land, Told, Lands
  <1> QED  BY <1>6 DEF Remote!Next

LEMMA NextRefines == IInv /\ IInv' /\ [Next]_vars => [Remote!Next]_<<Told, landed>>
  <1> SUFFICES ASSUME IInv, IInv', [Next]_vars PROVE [Remote!Next]_<<Told, landed>>
    OBVIOUS
  <1>1. CASE UNCHANGED <<pc, result, landed>>
    <2>1. UNCHANGED <<Told, landed>>  BY <1>1 DEF Told, Outcome
    <2> QED  BY <2>1
  <1>2. CASE Connect \/ Close \/ LinkDrops \/ LinkReturns \/ UNCHANGED vars
    BY <1>1, <1>2 DEF Connect, Close, LinkDrops, LinkReturns, device, vars
  <1>3. ASSUME NEW c \in Call, Begin(c) PROVE [Remote!Next]_<<Told, landed>>
    BY <1>3, BeginRefines
  <1>4. ASSUME NEW c \in Call, Attempt(c) PROVE [Remote!Next]_<<Told, landed>>
    <2>1. pc[c] = "lock" /\ landed' = landed  BY <1>4 DEF Attempt
    <2>2. CASE AttemptFails(c)
      BY <2>1, <2>2, FailsRefine DEF Queueing
    <2>3. CASE pc' = [pc EXCEPT ![c] = "connecting"] /\ result' = result
      <3>1. Moves(c, "connecting")  BY <2>1, <2>3 DEF Queueing, Moves
      <3> QED  BY <2>1, <3>1, MovesRefine
    <2>4. CASE Transmit(c) /\ result' = result
      <3>1. Moves(c, "wire")  BY <2>1, <2>4 DEF Queueing, Moves, Transmit
      <3> QED  BY <2>1, <3>1, MovesRefine
    <2> QED  BY <1>4, <2>2, <2>3, <2>4 DEF Attempt
  <1>5. ASSUME NEW c \in Call, Reconnected(c) PROVE [Remote!Next]_<<Told, landed>>
    <2>1. Moves(c, "wire") /\ landed' = landed
      BY <1>5 DEF Queueing, Moves, Reconnected, Transmit
    <2> QED  BY <2>1, MovesRefine
  <1>6. ASSUME NEW c \in Call, ReconnectFails(c) \/ Unanswered(c)
        PROVE  [Remote!Next]_<<Told, landed>>
    BY <1>6, FailsRefine DEF Queueing, ReconnectFails, Unanswered, device
  <1>7. ASSUME NEW c \in Call, Answered(c) \/ Cancel(c) PROVE [Remote!Next]_<<Told, landed>>
    BY <1>7, ReturnRefines DEF Answered, Cancel, device
  <1>8. ASSUME NEW c \in Call, BackoffEnds(c) PROVE [Remote!Next]_<<Told, landed>>
    <2>1. Moves(c, "lock") /\ landed' = landed
      BY <1>8 DEF Queueing, Moves, BackoffEnds, device
    <2> QED  BY <2>1, MovesRefine
  <1>9. ASSUME NEW c \in Call, Resend(c) PROVE [Remote!Next]_<<Told, landed>>
    BY <1>1, <1>9 DEF Resend
  <1>10. ASSUME NEW w \in Write, Lands(w) PROVE [Remote!Next]_<<Told, landed>>
    BY <1>10, LandsRefines
  <1> QED
    BY <1>2, <1>3, <1>4, <1>5, <1>6, <1>7, <1>8, <1>9, <1>10 DEF Next, Proceed

LEMMA InitRefines == Init => Remote!Init
  BY DEF Init, Remote!Init, Outcome, Call

\* For any number of calls, retries and resends, the client implements
\* RemoteWrite: "ok" is told only of a write that has landed, every write is
\* answered once, and it lands only after it was asked for.
THEOREM ClientRefinement == Spec => ImplementsRemoteWrite
  <1>1. IInv /\ IInv' /\ [Next]_vars => [Remote!Next]_<<[w \in Write |-> Outcome(w)], landed>>
    BY NextRefines DEF Told
  <1> QED
    BY <1>1, InitRefines, Inductive, PTL DEF Spec, ImplementsRemoteWrite, Remote!Spec
=============================================================================
