------------------------ MODULE SlackNotifierProofs ------------------------
(***************************************************************************)
(* Proofs about SlackNotifier for any queue length, any number of attempts, *)
(* any backoff table, windows, codes and configurations: types, the order   *)
(* of the alerts nobody has tried to send yet, and the honesty of the       *)
(* dedupe window.                                                           *)
(***************************************************************************)
EXTENDS SlackNotifier, TLAPS

\* Only a message that was tried waits for a retry; so a retry, which joins the
\* queue behind younger messages, is never fresh.
TriedInv == \A r \in retries : r.msg.attempt >= 1

IInv == TypeOK /\ TriedInv /\ FreshInOrder /\ DedupeHonest

\* What FreshInOrder says of one queue.
InOrder(q, n) ==
  \A i \in DOMAIN q : q[i].attempt = 0 =>
    \A id \in q[i].id + 1..n : \E j \in DOMAIN q : j > i /\ q[j].id = id

LEMMA OrderDef == (FreshInOrder <=> InOrder(queue, count))
               /\ (FreshInOrder' <=> InOrder(queue', count'))
  BY DEF FreshInOrder, InOrder

-----------------------------------------------------------------------------
(* The operations on the queue.                                             *)

\* Losing the head disturbs the order of nothing behind it.
LEMMA TailFacts ==
  ASSUME NEW q \in Seq(Message), q # <<>>, NEW n \in Nat, InOrder(q, n)
  PROVE  /\ Tail(q) \in Seq(Message) /\ Len(Tail(q)) = Len(q) - 1
         /\ Head(q) \in Message /\ InOrder(Tail(q), n)
  <1>1. /\ Len(q) \in Nat /\ Len(q) >= 1 /\ DOMAIN q = 1..Len(q)
        /\ Tail(q) \in Seq(Message) /\ Len(Tail(q)) = Len(q) - 1
        /\ DOMAIN Tail(q) = 1..(Len(q) - 1) /\ Head(q) \in Message
        /\ \A i \in 1..(Len(q) - 1) : Tail(q)[i] = q[i + 1]
    OBVIOUS
  <1> DEFINE t == Tail(q)
  <1> HIDE DEF t
  <1>2. ASSUME NEW i \in DOMAIN t, t[i].attempt = 0, NEW id \in t[i].id + 1..n
        PROVE  \E j \in DOMAIN t : j > i /\ t[j].id = id
    <2>1. i + 1 \in DOMAIN q /\ q[i + 1] = t[i]  BY <1>1 DEF t
    <2>2. PICK k \in DOMAIN q : k > i + 1 /\ q[k].id = id
      BY <1>2, <2>1 DEF InOrder
    <2>3. k - 1 \in DOMAIN t /\ k - 1 > i /\ t[k - 1].id = id
      BY <1>1, <2>1, <2>2 DEF t
    <2> QED  BY <2>3
  <1> QED  BY <1>1, <1>2 DEF InOrder, t

\* A message that joins is last.
LEMMA AppendedFacts ==
  ASSUME NEW q \in Seq(Message), NEW m \in Message
  PROVE  /\ Append(q, m) \in Seq(Message) /\ Len(Append(q, m)) = Len(q) + 1
         /\ DOMAIN q = 1..Len(q) /\ DOMAIN Append(q, m) = 1..(Len(q) + 1)
         /\ Append(q, m)[Len(q) + 1] = m /\ \A i \in DOMAIN q : Append(q, m)[i] = q[i]
  <1>1. Append(q, m) \in Seq(Message) /\ Len(Append(q, m)) = Len(q) + 1  OBVIOUS
  <1>2. Append(q, m)[Len(q) + 1] = m /\ \A i \in 1..Len(q) : Append(q, m)[i] = q[i]  OBVIOUS
  <1>3. DOMAIN q = 1..Len(q) /\ DOMAIN Append(q, m) = 1..Len(Append(q, m))
    BY <1>1
  <1> QED  BY <1>1, <1>2, <1>3

\* A new message follows all accepted ones.
LEMMA AppendFresh ==
  ASSUME NEW q \in Seq(Message), NEW n \in Nat, InOrder(q, n),
         NEW m \in Message, m.id = n + 1
  PROVE  InOrder(Append(q, m), n + 1)
  <1> DEFINE p == Append(q, m)
  <1>1. /\ Len(q) \in Nat /\ DOMAIN q = 1..Len(q) /\ DOMAIN p = 1..(Len(q) + 1)
        /\ p[Len(q) + 1] = m /\ \A i \in DOMAIN q : p[i] = q[i]
    BY AppendedFacts
  <1> HIDE DEF p
  <1>2. ASSUME NEW i \in DOMAIN p, p[i].attempt = 0, NEW id \in p[i].id + 1..(n + 1)
        PROVE  \E j \in DOMAIN p : j > i /\ p[j].id = id
    <2>1. CASE i = Len(q) + 1
      BY <2>1, <1>1
    <2>2. CASE i \in DOMAIN q /\ id = n + 1
      <3>1. Len(q) + 1 \in DOMAIN p /\ Len(q) + 1 > i /\ p[Len(q) + 1].id = id
        BY <1>1, <2>2
      <3> QED  BY <3>1
    <2>3. CASE i \in DOMAIN q /\ id # n + 1
      <3>0. q[i] \in Message /\ p[i] = q[i]  BY <1>1, <2>3
      <3>1. q[i].id \in Int  BY <3>0 DEF Message
      <3>2. id \in q[i].id + 1..n  BY <3>0, <3>1, <2>3, <1>2
      <3>3. PICK k \in DOMAIN q : k > i /\ q[k].id = id
        BY <3>0, <3>2, <2>3, <1>2 DEF InOrder
      <3> QED  BY <1>1, <3>3
    <2> QED  BY <1>1, <2>1, <2>2, <2>3
  <1> QED  BY <1>2 DEF InOrder, p

\* A message that was tried may stand anywhere behind.
LEMMA AppendTried ==
  ASSUME NEW q \in Seq(Message), NEW n \in Nat, InOrder(q, n),
         NEW m \in Message, m.attempt >= 1
  PROVE  InOrder(Append(q, m), n)
  <1> DEFINE p == Append(q, m)
  <1>1. /\ Len(q) \in Nat /\ DOMAIN q = 1..Len(q) /\ DOMAIN p = 1..(Len(q) + 1)
        /\ p[Len(q) + 1] = m /\ \A i \in DOMAIN q : p[i] = q[i]
    BY AppendedFacts
  <1> HIDE DEF p
  <1>2. ASSUME NEW i \in DOMAIN p, p[i].attempt = 0, NEW id \in p[i].id + 1..n
        PROVE  \E j \in DOMAIN p : j > i /\ p[j].id = id
    <2>1. i \in DOMAIN q  BY <1>1, <1>2
    <2>2. PICK k \in DOMAIN q : k > i /\ q[k].id = id
      BY <1>1, <1>2, <2>1 DEF InOrder
    <2> QED  BY <1>1, <2>2
  <1> QED  BY <1>2 DEF InOrder, p

-----------------------------------------------------------------------------
(* The actions.                                                             *)

LEMMA InitIInv == Init => IInv
  <1> SUFFICES ASSUME Init PROVE IInv  OBVIOUS
  <1>1. TypeOK  BY SlackAssumption DEF Init, TypeOK
  <1>2. TriedInv /\ FreshInOrder  BY DEF Init, TriedInv, FreshInOrder
  <1>3. DedupeHonest  BY SlackAssumption DEF Init, DedupeHonest
  <1> QED  BY <1>1, <1>2, <1>3 DEF IInv

LEMMA EnqueueKeeps ==
  ASSUME TypeOK, FreshInOrder, count < MaxMsg, Enqueue
  PROVE  /\ queue' \in Seq(Message) /\ Len(queue') <= MaxQueue /\ count' \in 0..MaxMsg
         /\ FreshInOrder'
  <1> DEFINE m == [id |-> count + 1, attempt |-> 0, age |-> 0]
             q == IF Len(queue) < MaxQueue THEN queue ELSE Tail(queue)
  <1>1. m \in Message /\ m.id = count + 1 /\ count \in Nat
    BY SlackAssumption DEF TypeOK, Message
  <1>2. /\ q \in Seq(Message) /\ Len(q) + 1 <= MaxQueue /\ InOrder(q, count)
    <2>1. queue \in Seq(Message) /\ InOrder(queue, count)  BY OrderDef DEF TypeOK
    <2>2. CASE Len(queue) < MaxQueue
      BY <2>1, <2>2, SlackAssumption
    <2>3. CASE ~(Len(queue) < MaxQueue)
      <3>1. queue # <<>>  BY <2>1, <2>3, SlackAssumption
      <3>2. Len(queue) = MaxQueue  BY <2>1, <2>3, SlackAssumption DEF TypeOK
      <3> QED  BY <2>1, <2>3, <3>1, <3>2, <1>1, TailFacts, SlackAssumption
    <2> QED  BY <2>2, <2>3
  <1>3. queue' = Append(q, m) /\ count' = count + 1  BY DEF Enqueue
  <1> HIDE DEF m, q
  <1>4. Append(q, m) \in Seq(Message) /\ Len(Append(q, m)) = Len(q) + 1
    BY <1>1, <1>2, AppendedFacts
  <1>5. InOrder(queue', count')
    BY <1>1, <1>2, <1>3, AppendFresh
  <1> QED  BY <1>1, <1>2, <1>3, <1>4, <1>5, OrderDef, SlackAssumption DEF TypeOK

LEMMA AlertAlarmIInv ==
  ASSUME IInv, NEW c \in Code, NEW kind \in Kind, AlertAlarm(c, kind) PROVE IInv'
  <1>1. CASE UNCHANGED <<recent, told, outbox>>
    <2>1. TypeOK'  BY <1>1 DEF IInv, TypeOK, AlertAlarm, outbox
    <2>2. TriedInv' /\ FreshInOrder' /\ DedupeHonest'
      BY <1>1 DEF IInv, TriedInv, FreshInOrder, DedupeHonest, outbox
    <2> QED  BY <2>1, <2>2 DEF IInv
  <1>2. CASE ~UNCHANGED <<recent, told, outbox>>
    <2>1. /\ Enqueue /\ recent' = [recent EXCEPT ![<<c, kind>>] = 0]
          /\ told' = [told EXCEPT ![<<c, kind>>] = 0]
      BY <1>2 DEF AlertAlarm, Forwarded, outbox
    <2>2. /\ queue' \in Seq(Message) /\ Len(queue') <= MaxQueue /\ count' \in 0..MaxMsg
          /\ FreshInOrder'
      BY <2>1, EnqueueKeeps DEF IInv, AlertAlarm
    <2>3. /\ recent \in [Code \X Kind -> 0..Window] /\ told \in [Code \X Kind -> 0..Window]
          /\ Window \in Nat \ {0} /\ <<c, kind>> \in Code \X Kind
      BY SlackAssumption DEF IInv, TypeOK
    <2>4. TypeOK'
      <3>1. recent' \in [Code \X Kind -> 0..Window] /\ told' \in [Code \X Kind -> 0..Window]
        BY <2>1, <2>3
      <3>2. active' \subseteq Code /\ cfg' = cfg /\ running' = running
        BY DEF IInv, TypeOK, AlertAlarm
      <3>3. worker' = worker /\ retries' = retries  BY <2>1 DEF Enqueue
      <3> QED  BY <2>2, <3>1, <3>2, <3>3 DEF IInv, TypeOK
    <2>5. TriedInv'  BY <2>1 DEF IInv, TriedInv, Enqueue
    <2>6. DedupeHonest'
      BY <2>1, <2>3 DEF IInv, DedupeHonest
    <2> QED  BY <2>2, <2>4, <2>5, <2>6 DEF IInv
  <1> QED  BY <1>1, <1>2

LEMMA AlertOtherIInv == ASSUME IInv, AlertOther PROVE IInv'
  <1>1. Enqueue /\ UNCHANGED <<cfg, running, active, recent, told>>  BY DEF AlertOther
  <1>2. /\ queue' \in Seq(Message) /\ Len(queue') <= MaxQueue /\ count' \in 0..MaxMsg
        /\ FreshInOrder'
    BY <1>1, EnqueueKeeps DEF IInv, AlertOther
  <1>3. TypeOK'  BY <1>1, <1>2 DEF IInv, TypeOK, Enqueue
  <1>4. TriedInv' /\ DedupeHonest'  BY <1>1 DEF IInv, TriedInv, DedupeHonest, Enqueue
  <1> QED  BY <1>2, <1>3, <1>4 DEF IInv

\* What a failed send leaves behind has the type of a retry and was tried.
LEMMA AfterFailureFacts ==
  ASSUME NEW m \in Message, NEW r \in AfterFailure(m)
  PROVE  r \in [msg : Message, left : Nat] /\ r.msg.attempt >= 1
  <1>1. /\ m.attempt \in 0..MaxAttempts /\ m.id \in 1..MaxMsg /\ m.age \in 0..(MaxAge + 1)
    BY DEF Message
  <1>2. m.attempt + 1 < MaxAttempts
    <2>1. ~(m.attempt + 1 >= MaxAttempts \/ m.age > MaxAge)
      <3>1. m.attempt + 1 >= MaxAttempts \/ m.age > MaxAge => AfterFailure(m) = {}
        BY DEF AfterFailure
      <3> QED  BY <3>1
    <2> QED  BY <2>1, <1>1, SlackAssumption
  <1> DEFINE n == [m EXCEPT !.attempt = @ + 1]
             l == Backoff[Lowest(m.attempt + 1, Len(Backoff))]
  <1>3. n \in Message /\ n.attempt >= 1
    <2>1. n.attempt = m.attempt + 1 /\ n.id = m.id /\ n.age = m.age
      BY DEF Message
    <2>2. m.attempt + 1 \in 0..MaxAttempts /\ m.attempt + 1 >= 1
      BY <1>1, <1>2, SlackAssumption
    <2>3. n = [id |-> m.id, attempt |-> m.attempt + 1, age |-> m.age]
      BY DEF Message
    <2>4. n \in Message
      BY <1>1, <2>2, <2>3 DEF Message
    <2> QED  BY <2>1, <2>2, <2>4
  <1>4. l \in Nat
    <2>1. Lowest(m.attempt + 1, Len(Backoff)) \in 1..Len(Backoff)
      BY <1>1, SlackAssumption DEF Lowest
    <2> QED  BY <2>1, SlackAssumption
  <1>5. r = [msg |-> n, left |-> l]
    BY <1>1, <1>2, SlackAssumption DEF AfterFailure
  <1> QED  BY <1>3, <1>4, <1>5

LEMMA TakeIInv == ASSUME IInv, Take PROVE IInv'
  <1>1. /\ queue \in Seq(Message) /\ queue # <<>> /\ count \in Nat /\ InOrder(queue, count)
        /\ Len(queue) <= MaxQueue
    BY OrderDef, SlackAssumption DEF IInv, TypeOK, Take
  <1>2. /\ Tail(queue) \in Seq(Message) /\ Len(Tail(queue)) = Len(queue) - 1
        /\ Head(queue) \in Message /\ InOrder(Tail(queue), count)
    BY <1>1, TailFacts
  <1>3. queue' = Tail(queue) /\ UNCHANGED <<cfg, running, active, recent, count, told>>
    BY DEF Take
  <1>4. FreshInOrder'  BY <1>2, <1>3, OrderDef
  <1>5. /\ worker' \subseteq Message /\ retries' \subseteq [msg : Message, left : Nat]
        /\ TriedInv'
    BY <1>2, AfterFailureFacts DEF IInv, TypeOK, TriedInv, Take
  <1>6. Len(queue') <= MaxQueue  BY <1>1, <1>2, <1>3, SlackAssumption
  <1>7. TypeOK'  BY <1>2, <1>3, <1>5, <1>6 DEF IInv, TypeOK
  <1>8. DedupeHonest'  BY <1>3 DEF IInv, DedupeHonest
  <1> QED  BY <1>4, <1>5, <1>7, <1>8 DEF IInv

LEMMA SendEndsIInv == ASSUME IInv, Answered \/ SendFails \/ Stop PROVE IInv'
  <1>1. UNCHANGED <<cfg, active, queue, recent, count, told>>
    BY DEF Answered, SendFails, Stop
  <1>2. /\ worker' = {} /\ running' \in BOOLEAN
        /\ retries' \subseteq [msg : Message, left : Nat] /\ TriedInv'
    <2>1. CASE Answered \/ Stop
      BY <2>1 DEF Answered, Stop, IInv, TypeOK, TriedInv
    <2>2. CASE SendFails
      <3>1. \A m \in worker : m \in Message  BY DEF IInv, TypeOK
      <3> QED  BY <2>2, <3>1, AfterFailureFacts DEF SendFails, IInv, TypeOK, TriedInv
    <2> QED  BY <2>1, <2>2
  <1>3. TypeOK'  BY <1>1, <1>2 DEF IInv, TypeOK
  <1>4. FreshInOrder' /\ DedupeHonest'  BY <1>1 DEF IInv, FreshInOrder, DedupeHonest
  <1> QED  BY <1>2, <1>3, <1>4 DEF IInv

LEMMA RequeueIInv == ASSUME IInv, NEW r \in retries, Requeue(r) PROVE IInv'
  <1>1. /\ retries' = retries \ {r}
        /\ UNCHANGED <<cfg, running, active, worker, recent, count, told>>
    BY DEF Requeue
  <1>2. /\ r.msg \in Message /\ r.msg.attempt >= 1 /\ queue \in Seq(Message)
        /\ count \in Nat /\ InOrder(queue, count)
    BY OrderDef, SlackAssumption DEF IInv, TypeOK, TriedInv
  <1>3. queue' \in Seq(Message) /\ Len(queue') <= MaxQueue /\ InOrder(queue', count)
    <2>1. CASE Len(queue) < MaxQueue
      <3>1. queue' = Append(queue, r.msg)  BY <2>1 DEF Requeue
      <3>2. queue' \in Seq(Message) /\ Len(queue') = Len(queue) + 1
        BY <3>1, <1>2, AppendedFacts
      <3>3. InOrder(queue', count)  BY <3>1, <1>2, AppendTried
      <3> QED  BY <3>2, <3>3, <2>1, <1>2, SlackAssumption
    <2>2. CASE ~(Len(queue) < MaxQueue)
      BY <2>2, <1>2 DEF Requeue, IInv, TypeOK
    <2> QED  BY <2>1, <2>2
  <1>4. FreshInOrder'  BY <1>1, <1>3, OrderDef
  <1>5. TypeOK'  BY <1>1, <1>3 DEF IInv, TypeOK
  <1>6. TriedInv' /\ DedupeHonest'  BY <1>1 DEF IInv, TriedInv, DedupeHonest
  <1> QED  BY <1>4, <1>5, <1>6 DEF IInv

\* Ageing a message changes nothing else of it.
LEMMA AgedFacts ==
  ASSUME NEW m \in Message
  PROVE  Aged(m) \in Message /\ Aged(m).id = m.id /\ Aged(m).attempt = m.attempt
  <1>1. /\ m.attempt \in 0..MaxAttempts /\ m.id \in 1..MaxMsg /\ m.age \in 0..(MaxAge + 1)
    BY DEF Message
  <1>2. Lowest(m.age + 1, MaxAge + 1) \in 0..(MaxAge + 1)
    BY <1>1, SlackAssumption DEF Lowest
  <1> QED  BY <1>1, <1>2 DEF Aged, Message

LEMMA TickIInv == ASSUME IInv, Tick PROVE IInv'
  <1>1. UNCHANGED <<cfg, running, active, count>>  BY DEF Tick
  <1>2. /\ queue \in Seq(Message) /\ DOMAIN queue = 1..Len(queue) /\ Len(queue) \in Nat
        /\ \A i \in DOMAIN queue : queue[i] \in Message
    BY DEF IInv, TypeOK
  <1>3. queue' = [i \in DOMAIN queue |-> Aged(queue[i])]  BY DEF Tick
  <1>4. /\ DOMAIN queue' = DOMAIN queue
        /\ \A i \in DOMAIN queue : /\ queue'[i] \in Message /\ queue'[i].id = queue[i].id
                                   /\ queue'[i].attempt = queue[i].attempt
    BY <1>2, <1>3, AgedFacts
  <1>5. queue' \in Seq(Message) /\ Len(queue') <= MaxQueue
    <2>1. queue' \in [1..Len(queue) -> Message]  BY <1>2, <1>3, AgedFacts
    <2>2. queue' \in Seq(Message) /\ Len(queue') = Len(queue)  BY <2>1, <1>2
    <2> QED  BY <2>2 DEF IInv, TypeOK
  <1>6. FreshInOrder'
    BY <1>1, <1>4 DEF IInv, FreshInOrder
  <1>7. worker' \subseteq Message  BY AgedFacts DEF IInv, TypeOK, Tick
  <1>8. retries' \subseteq [msg : Message, left : Nat] /\ TriedInv'
    <2>1. ASSUME NEW r \in retries'
          PROVE  r \in [msg : Message, left : Nat] /\ r.msg.attempt >= 1
      <3>1. PICK s \in retries :
              r = [msg |-> Aged(s.msg), left |-> IF s.left = 0 THEN 0 ELSE s.left - 1]
        BY <2>1 DEF Tick
      <3>2. s.msg \in Message /\ s.left \in Nat /\ s.msg.attempt >= 1
        BY DEF IInv, TypeOK, TriedInv
      <3>3. Aged(s.msg) \in Message /\ Aged(s.msg).attempt >= 1  BY <3>2, AgedFacts
      <3>4. (IF s.left = 0 THEN 0 ELSE s.left - 1) \in Nat  BY <3>2
      <3> QED  BY <3>1, <3>3, <3>4
    <2> QED  BY <2>1 DEF TriedInv
  <1>9. /\ recent \in [Code \X Kind -> 0..Window] /\ told \in [Code \X Kind -> 0..Window]
        /\ Window \in Nat
        /\ recent' = [k \in Code \X Kind |-> Lowest(recent[k] + 1, Window)]
        /\ told' = [k \in Code \X Kind |-> Lowest(told[k] + 1, Window)]
    BY SlackAssumption DEF IInv, TypeOK, Tick, Later
  <1>10. recent' \in [Code \X Kind -> 0..Window] /\ told' \in [Code \X Kind -> 0..Window]
    BY <1>9 DEF Lowest
  <1>11. DedupeHonest'
    <2>1. ASSUME NEW k \in Code \X Kind, recent'[k] < Window PROVE told'[k] <= recent'[k]
      <3>1. recent[k] \in 0..Window /\ told[k] \in 0..Window  BY <1>9
      <3>2. /\ recent'[k] = Lowest(recent[k] + 1, Window)
            /\ told'[k] = Lowest(told[k] + 1, Window)
        BY <1>9
      <3>3. recent[k] < Window  BY <2>1, <3>1, <3>2, <1>9 DEF Lowest
      <3>4. told[k] <= recent[k]  BY <3>3, <1>9 DEF IInv, DedupeHonest
      <3> QED  BY <3>1, <3>2, <3>4, <1>9 DEF Lowest
    <2> QED  BY <2>1, <1>9 DEF DedupeHonest
  <1>12. TypeOK'  BY <1>1, <1>5, <1>7, <1>8, <1>10 DEF IInv, TypeOK
  <1> QED  BY <1>6, <1>8, <1>11, <1>12 DEF IInv

LEMMA UpdateConfigIInv == ASSUME IInv, NEW c \in Configs, UpdateConfig(c) PROVE IInv'
  <1>1. cfg' = c /\ UNCHANGED <<running, active, queue, worker, retries, count, recent, told>>
    BY DEF UpdateConfig, outbox
  <1>2. TypeOK'  BY <1>1 DEF IInv, TypeOK
  <1>3. TriedInv' /\ FreshInOrder' /\ DedupeHonest'
    BY <1>1 DEF IInv, TriedInv, FreshInOrder, DedupeHonest
  <1> QED  BY <1>2, <1>3 DEF IInv

LEMMA NextIInv == IInv /\ [Next]_vars => IInv'
  <1> SUFFICES ASSUME IInv, [Next]_vars PROVE IInv'  OBVIOUS
  <1>1. CASE UNCHANGED vars
    <2>1. TypeOK'  BY <1>1 DEF IInv, TypeOK, vars
    <2>2. TriedInv' /\ FreshInOrder' /\ DedupeHonest'
      BY <1>1 DEF IInv, TriedInv, FreshInOrder, DedupeHonest, vars
    <2> QED  BY <2>1, <2>2 DEF IInv
  <1>2. ASSUME NEW c \in Code, NEW kind \in Kind, AlertAlarm(c, kind) PROVE IInv'
    BY <1>2, AlertAlarmIInv
  <1>3. CASE AlertOther  BY <1>3, AlertOtherIInv
  <1>4. CASE Take  BY <1>4, TakeIInv
  <1>5. CASE Answered \/ SendFails \/ Stop  BY <1>5, SendEndsIInv
  <1>6. ASSUME NEW r \in retries, Requeue(r) PROVE IInv'  BY <1>6, RequeueIInv
  <1>7. ASSUME NEW c \in Configs, UpdateConfig(c) PROVE IInv'  BY <1>7, UpdateConfigIInv
  <1>8. CASE Tick  BY <1>8, TickIInv
  <1> QED  BY <1>1, <1>2, <1>3, <1>4, <1>5, <1>6, <1>7, <1>8 DEF Next

LEMMA Inductive == Spec => []IInv
  BY InitIInv, NextIInv, PTL DEF Spec

-----------------------------------------------------------------------------

\* Every variable keeps its type; in particular the queue never exceeds
\* MAX_QUEUE and no message is tried more than MAX_ATTEMPTS times.
THEOREM TypeCorrect == Spec => []TypeOK
  <1>1. IInv => TypeOK  BY DEF IInv
  <1> QED  BY <1>1, Inductive, PTL

\* For any queue length and retry policy, an alert nobody has tried to send is
\* followed in the queue by every alert accepted after it (slack.py:301-307).
THEOREM FreshStayInOrder == Spec => []FreshInOrder
  <1>1. IInv => FreshInOrder  BY DEF IInv
  <1> QED  BY <1>1, Inductive, PTL

\* For any window and any sequence of reconfigurations, the dedupe window
\* suppresses only what was queued within it (slack.py:130-152).
THEOREM DedupeIsHonest == Spec => []DedupeHonest
  <1>1. IInv => DedupeHonest  BY DEF IInv
  <1> QED  BY <1>1, Inductive, PTL

-----------------------------------------------------------------------------
(* An alert is in one place.  A message moves from the queue to the thread  *)
(* that posts it, to the task that waits for its retry, and back; three     *)
(* owners, one of which may be cancelled at any moment.                     *)

InQueue(q, id) == \E i \in DOMAIN q : q[i].id = id
DistinctIds(q) == \A i, j \in DOMAIN q : q[i].id = q[j].id => i = j

\* Every accepted alert is at most once in the queue, or under way, or waiting
\* for its retry, and never in two of these (slack.py:319-375).
OneCopy ==
  /\ DistinctIds(queue)
  /\ \A m, n \in worker : m = n
  /\ \A r, s \in retries : r.msg.id = s.msg.id => r = s
  /\ \A m \in worker : ~InQueue(queue, m.id)
  /\ \A r \in retries : ~InQueue(queue, r.msg.id)
  /\ \A m \in worker, r \in retries : m.id # r.msg.id

\* What is in the outbox has failed fewer than MAX_ATTEMPTS times.
TriesLeft ==
  /\ \A i \in DOMAIN queue : queue[i].attempt < MaxAttempts
  /\ \A m \in worker : m.attempt < MaxAttempts
  /\ \A r \in retries : r.msg.attempt < MaxAttempts

\* Numbers are given once: nothing in the outbox has one that is still to come.
Numbered ==
  /\ \A i \in DOMAIN queue : queue[i].id <= count
  /\ \A m \in worker : m.id <= count
  /\ \A r \in retries : r.msg.id <= count

CopyInv == OneCopy /\ TriesLeft /\ Numbered

\* The queue without its head.
LEMMA TailIds ==
  ASSUME NEW q \in Seq(Message), q # <<>>, DistinctIds(q)
  PROVE  /\ DistinctIds(Tail(q)) /\ ~InQueue(Tail(q), Head(q).id)
         /\ \A id : InQueue(Tail(q), id) => InQueue(q, id)
         /\ \A i \in DOMAIN Tail(q) : \E j \in DOMAIN q : Tail(q)[i] = q[j]
         /\ \E j \in DOMAIN q : Head(q) = q[j]
  <1>1. /\ Len(q) \in Nat /\ Len(q) >= 1 /\ DOMAIN q = 1..Len(q)
        /\ DOMAIN Tail(q) = 1..(Len(q) - 1) /\ Head(q) = q[1]
        /\ \A i \in 1..(Len(q) - 1) : Tail(q)[i] = q[i + 1]
    OBVIOUS
  <1> DEFINE t == Tail(q)
  <1> HIDE DEF t
  <1>2. \A i \in DOMAIN t : i \in Nat /\ i >= 1 /\ i + 1 \in DOMAIN q /\ t[i] = q[i + 1]
    BY <1>1 DEF t
  <1>3. DistinctIds(t)
    <2> SUFFICES ASSUME NEW i \in DOMAIN t, NEW j \in DOMAIN t, t[i].id = t[j].id PROVE i = j
      BY DEF DistinctIds
    <2>1. i + 1 = j + 1
      BY <1>2 DEF DistinctIds
    <2> QED  BY <1>2, <2>1
  <1>4. ~InQueue(t, Head(q).id)
    <2> SUFFICES ASSUME NEW i \in DOMAIN t, t[i].id = Head(q).id PROVE FALSE
      BY DEF InQueue
    <2>1. i + 1 = 1
      BY <1>1, <1>2 DEF DistinctIds
    <2> QED  BY <1>2, <2>1
  <1>5. \A id : InQueue(t, id) => InQueue(q, id)
    BY <1>2 DEF InQueue
  <1> QED  BY <1>1, <1>2, <1>3, <1>4, <1>5 DEF t

\* The queue with a message it does not hold yet.
LEMMA AppendIds ==
  ASSUME NEW q \in Seq(Message), NEW m \in Message, DistinctIds(q), ~InQueue(q, m.id)
  PROVE  /\ DistinctIds(Append(q, m))
         /\ \A id : InQueue(Append(q, m), id) => id = m.id \/ InQueue(q, id)
         /\ \A i \in DOMAIN Append(q, m) :
              Append(q, m)[i] = m \/ \E j \in DOMAIN q : Append(q, m)[i] = q[j]
  <1> DEFINE p == Append(q, m)
  <1>1. /\ Len(q) \in Nat /\ DOMAIN q = 1..Len(q) /\ DOMAIN p = 1..(Len(q) + 1)
        /\ p[Len(q) + 1] = m /\ \A i \in DOMAIN q : p[i] = q[i]
    BY AppendedFacts
  <1> HIDE DEF p
  <1>2. \A i \in DOMAIN p : \/ i = Len(q) + 1 /\ p[i] = m
                            \/ i \in DOMAIN q /\ p[i] = q[i]
    BY <1>1
  <1>3. DistinctIds(p)
    BY <1>2 DEF DistinctIds, InQueue
  <1>4. \A id : InQueue(p, id) => id = m.id \/ InQueue(q, id)
    BY <1>2 DEF InQueue
  <1> QED  BY <1>2, <1>3, <1>4 DEF p

\* A failed send leaves the same alert behind, with a try to spare.
LEMMA AfterFailureIds ==
  ASSUME NEW m \in Message
  PROVE  /\ \A r \in AfterFailure(m) : r.msg.id = m.id /\ r.msg.attempt < MaxAttempts
         /\ \A r, s \in AfterFailure(m) : r = s
  <1>1. \A r, s \in AfterFailure(m) : r = s
    BY DEF AfterFailure
  <1>2. ASSUME NEW r \in AfterFailure(m) PROVE r.msg.id = m.id /\ r.msg.attempt < MaxAttempts
    <2>1. ~(m.attempt + 1 >= MaxAttempts) /\ r.msg = [m EXCEPT !.attempt = @ + 1]
      BY <1>2 DEF AfterFailure
    <2>2. m.attempt \in Int /\ r.msg.id = m.id /\ r.msg.attempt = m.attempt + 1
      BY <2>1 DEF Message
    <2> QED  BY <2>1, <2>2, SlackAssumption
  <1> QED  BY <1>1, <1>2

LEMMA EnqueueCopy ==
  ASSUME TypeOK, CopyInv, count < MaxMsg, Enqueue PROVE CopyInv'
  <1> DEFINE m == [id |-> count + 1, attempt |-> 0, age |-> 0]
             q == IF Len(queue) < MaxQueue THEN queue ELSE Tail(queue)
  <1>1. /\ m \in Message /\ m.id = count + 1 /\ m.attempt = 0 /\ count \in Nat
        /\ MaxAttempts \in Nat /\ 0 < MaxAttempts
    BY SlackAssumption DEF TypeOK, Message
  <1>2. /\ queue' = Append(q, m) /\ count' = count + 1 /\ worker' = worker /\ retries' = retries
    BY DEF Enqueue
  <1>3. /\ q \in Seq(Message) /\ DistinctIds(q) /\ \A id : InQueue(q, id) => InQueue(queue, id)
        /\ \A i \in DOMAIN q : \E j \in DOMAIN queue : q[i] = queue[j]
    <2>1. queue \in Seq(Message) /\ DistinctIds(queue)
      BY DEF TypeOK, CopyInv, OneCopy
    <2>2. CASE Len(queue) < MaxQueue
      BY <2>1, <2>2
    <2>3. CASE ~(Len(queue) < MaxQueue)
      <3>1. queue # <<>>  BY <2>1, <2>3, SlackAssumption
      <3> QED  BY <2>1, <2>3, <3>1, TailIds
    <2> QED  BY <2>2, <2>3
  <1> HIDE DEF m, q
  <1>4. \A i \in DOMAIN queue : queue[i].id \in Int /\ queue[i].id <= count
    <2>1. \A w \in Message : w.id \in Int
      BY DEF Message
    <2>2. \A i \in DOMAIN queue : queue[i] \in Message
      BY DEF TypeOK
    <2> QED  BY <2>1, <2>2 DEF CopyInv, Numbered
  <1>5. /\ \A r \in retries : r.msg.id \in Int /\ r.msg.id <= count
        /\ \A w \in worker : w.id \in Int /\ w.id <= count
    <2>1. \A w \in Message : w.id \in Int
      BY DEF Message
    <2>2. (\A r \in retries : r.msg \in Message) /\ (\A w \in worker : w \in Message)
      BY DEF TypeOK
    <2> QED  BY <2>1, <2>2 DEF CopyInv, Numbered
  <1>6. ~InQueue(q, m.id)
    BY <1>1, <1>3, <1>4 DEF InQueue
  <1>7. /\ DistinctIds(queue')
        /\ \A id : InQueue(queue', id) => id = m.id \/ InQueue(queue, id)
        /\ \A i \in DOMAIN queue' : queue'[i] = m \/ \E j \in DOMAIN queue : queue'[i] = queue[j]
    BY <1>1, <1>2, <1>3, <1>6, AppendIds
  <1>8. OneCopy'
    BY <1>1, <1>2, <1>5, <1>7 DEF CopyInv, OneCopy
  <1>9. TriesLeft'
    BY <1>1, <1>2, <1>7 DEF CopyInv, TriesLeft
  <1>10. Numbered'
    <2>1. \A i \in DOMAIN queue' : queue'[i].id <= count + 1
      BY <1>1, <1>4, <1>7
    <2> QED  BY <1>1, <1>2, <1>5, <2>1 DEF Numbered
  <1> QED  BY <1>8, <1>9, <1>10 DEF CopyInv

LEMMA TakeCopy == ASSUME TypeOK, CopyInv, Take PROVE CopyInv'
  <1> DEFINE h == Head(queue)
  <1>1. /\ queue \in Seq(Message) /\ queue # <<>> /\ DistinctIds(queue) /\ h \in Message
        /\ queue' = Tail(queue) /\ count' = count /\ worker = {}
    BY DEF TypeOK, CopyInv, OneCopy, Take
  <1>2. /\ DistinctIds(queue') /\ ~InQueue(queue', h.id)
        /\ \A id : InQueue(queue', id) => InQueue(queue, id)
        /\ \A i \in DOMAIN queue' : \E j \in DOMAIN queue : queue'[i] = queue[j]
        /\ \E j \in DOMAIN queue : h = queue[j]
    BY <1>1, TailIds
  <1>3. InQueue(queue, h.id) /\ h.attempt < MaxAttempts /\ h.id <= count
    BY <1>2 DEF InQueue, CopyInv, TriesLeft, Numbered
  <1>4. \A r \in retries : r.msg.id # h.id
    BY <1>3 DEF CopyInv, OneCopy
  <1> HIDE DEF h
  <1>5. CASE worker' = {h} /\ retries' = retries
    <2>1. OneCopy'  BY <1>2, <1>4, <1>5 DEF CopyInv, OneCopy
    <2>2. TriesLeft' /\ Numbered'
      BY <1>1, <1>2, <1>3, <1>5 DEF CopyInv, TriesLeft, Numbered
    <2> QED  BY <2>1, <2>2 DEF CopyInv
  <1>6. CASE worker' = worker /\ retries' = retries \cup AfterFailure(h)
    <2>1. /\ \A r \in AfterFailure(h) : r.msg.id = h.id /\ r.msg.attempt < MaxAttempts
          /\ \A r, s \in AfterFailure(h) : r = s
      BY <1>1, AfterFailureIds
    <2>2. OneCopy'  BY <1>1, <1>2, <1>4, <1>6, <2>1 DEF CopyInv, OneCopy
    <2>3. TriesLeft' /\ Numbered'
      BY <1>1, <1>2, <1>3, <1>6, <2>1 DEF CopyInv, TriesLeft, Numbered
    <2> QED  BY <2>2, <2>3 DEF CopyInv
  <1> QED  BY <1>5, <1>6 DEF Take, h

LEMMA SendEndsCopy == ASSUME TypeOK, CopyInv, Answered \/ SendFails \/ Stop PROVE CopyInv'
  <1>1. queue' = queue /\ count' = count /\ worker' = {}
    BY DEF Answered, SendFails, Stop
  <1>2. CASE retries' \subseteq retries
    BY <1>1, <1>2 DEF CopyInv, OneCopy, TriesLeft, Numbered
  <1>3. CASE SendFails
    <2>1. PICK m \in worker : worker = {m}
      BY <1>3 DEF SendFails, CopyInv, OneCopy
    <2>2. /\ m \in Message /\ ~InQueue(queue, m.id) /\ m.id <= count
          /\ \A r \in retries : r.msg.id # m.id
      BY DEF TypeOK, CopyInv, OneCopy, Numbered
    <2>3. retries' = retries \cup AfterFailure(m)
      BY <1>3, <2>1 DEF SendFails
    <2>4. /\ \A r \in AfterFailure(m) : r.msg.id = m.id /\ r.msg.attempt < MaxAttempts
          /\ \A r, s \in AfterFailure(m) : r = s
      BY <2>2, AfterFailureIds
    <2>5. OneCopy'  BY <1>1, <2>2, <2>3, <2>4 DEF CopyInv, OneCopy
    <2>6. TriesLeft' /\ Numbered'
      BY <1>1, <2>2, <2>3, <2>4 DEF CopyInv, TriesLeft, Numbered
    <2> QED  BY <2>5, <2>6 DEF CopyInv
  <1> QED  BY <1>2, <1>3 DEF Answered, Stop

LEMMA RequeueCopy == ASSUME TypeOK, CopyInv, NEW r \in retries, Requeue(r) PROVE CopyInv'
  <1>1. /\ retries' = retries \ {r} /\ worker' = worker /\ count' = count
        /\ queue' = IF Len(queue) < MaxQueue THEN Append(queue, r.msg) ELSE queue
    BY DEF Requeue
  <1>2. /\ queue \in Seq(Message) /\ r.msg \in Message /\ DistinctIds(queue)
        /\ ~InQueue(queue, r.msg.id) /\ r.msg.id <= count /\ r.msg.attempt < MaxAttempts
    BY DEF TypeOK, CopyInv, OneCopy, TriesLeft, Numbered
  <1>3. CASE queue' = queue
    BY <1>1, <1>3 DEF CopyInv, OneCopy, TriesLeft, Numbered
  <1>4. CASE queue' = Append(queue, r.msg)
    <2>1. /\ DistinctIds(queue')
          /\ \A id : InQueue(queue', id) => id = r.msg.id \/ InQueue(queue, id)
          /\ \A i \in DOMAIN queue' : queue'[i] = r.msg \/ \E j \in DOMAIN queue : queue'[i] = queue[j]
      BY <1>2, <1>4, AppendIds
    <2>2. OneCopy'  BY <1>1, <2>1 DEF CopyInv, OneCopy
    <2>3. TriesLeft' /\ Numbered'
      BY <1>1, <1>2, <2>1 DEF CopyInv, TriesLeft, Numbered
    <2> QED  BY <2>2, <2>3 DEF CopyInv
  <1> QED  BY <1>1, <1>3, <1>4

LEMMA TickCopy == ASSUME TypeOK, CopyInv, Tick PROVE CopyInv'
  <1>1. count' = count
    BY DEF Tick
  <1>2. /\ DOMAIN queue' = DOMAIN queue
        /\ \A i \in DOMAIN queue : /\ queue'[i].id = queue[i].id
                                   /\ queue'[i].attempt = queue[i].attempt
    BY AgedFacts DEF TypeOK, Tick
  <1>3. \A m \in worker' : \E n \in worker :
          m = Aged(n) /\ m.id = n.id /\ m.attempt = n.attempt
    BY AgedFacts DEF TypeOK, Tick
  <1> DEFINE f(r) == [msg |-> Aged(r.msg), left |-> IF r.left = 0 THEN 0 ELSE r.left - 1]
  <1>4. \A r \in retries' : \E s \in retries :
          r = f(s) /\ r.msg.id = s.msg.id /\ r.msg.attempt = s.msg.attempt
    <2> SUFFICES ASSUME NEW r \in retries'
                 PROVE  \E s \in retries :
                          r = f(s) /\ r.msg.id = s.msg.id /\ r.msg.attempt = s.msg.attempt
      OBVIOUS
    <2>1. PICK s \in retries : r = f(s)
      BY DEF Tick
    <2>2. s.msg \in Message /\ r.msg = Aged(s.msg)
      BY <2>1 DEF TypeOK
    <2> QED  BY <2>1, <2>2, AgedFacts
  <1> HIDE DEF f
  <1>5. DistinctIds(queue') /\ \A id : InQueue(queue', id) => InQueue(queue, id)
    BY <1>2 DEF CopyInv, OneCopy, DistinctIds, InQueue
  <1>6. \A m, n \in worker' : m = n
    BY <1>3 DEF CopyInv, OneCopy
  <1>7. \A r, s \in retries' : r.msg.id = s.msg.id => r = s
    BY <1>4 DEF CopyInv, OneCopy
  <1>8. OneCopy'
    BY <1>3, <1>4, <1>5, <1>6, <1>7 DEF CopyInv, OneCopy
  <1>9. TriesLeft' /\ Numbered'
    BY <1>1, <1>2, <1>3, <1>4 DEF CopyInv, TriesLeft, Numbered
  <1> QED  BY <1>8, <1>9 DEF CopyInv

LEMMA NextCopy == TypeOK /\ CopyInv /\ [Next]_vars => CopyInv'
  <1> SUFFICES ASSUME TypeOK, CopyInv, [Next]_vars PROVE CopyInv'  OBVIOUS
  <1>1. CASE UNCHANGED outbox
    BY <1>1 DEF outbox, CopyInv, OneCopy, TriesLeft, Numbered
  <1>2. ASSUME NEW c \in Code, NEW kind \in Kind, AlertAlarm(c, kind) PROVE CopyInv'
    <2>1. UNCHANGED outbox \/ (Enqueue /\ count < MaxMsg)
      BY <1>2 DEF AlertAlarm, outbox
    <2> QED  BY <1>1, <2>1, EnqueueCopy
  <1>3. CASE AlertOther  BY <1>3, EnqueueCopy DEF AlertOther
  <1>4. CASE Take  BY <1>4, TakeCopy
  <1>5. CASE Answered \/ SendFails \/ Stop  BY <1>5, SendEndsCopy
  <1>6. ASSUME NEW r \in retries, Requeue(r) PROVE CopyInv'  BY <1>6, RequeueCopy
  <1>7. ASSUME NEW c \in Configs, UpdateConfig(c) PROVE CopyInv'
    BY <1>1, <1>7 DEF UpdateConfig
  <1>8. CASE Tick  BY <1>8, TickCopy
  <1>9. CASE UNCHANGED vars
    BY <1>1, <1>9 DEF vars, outbox
  <1> QED  BY <1>2, <1>3, <1>4, <1>5, <1>6, <1>7, <1>8, <1>9 DEF Next

\* No interleaving of the worker, the retry tasks, an overflowing queue and a
\* changing configuration duplicates an alert: it is always in one place only
\* and is there with a try left, so no two posts of it are ever under way and it
\* is posted at most MAX_ATTEMPTS times.
THEOREM AlertsAreNotDuplicated == Spec => [](OneCopy /\ TriesLeft)
  <1>1. Init => CopyInv
    BY DEF Init, CopyInv, OneCopy, TriesLeft, Numbered, DistinctIds, InQueue
  <1>2. CopyInv => OneCopy /\ TriesLeft
    BY DEF CopyInv
  <1> QED  BY <1>1, <1>2, NextCopy, TypeCorrect, PTL DEF Spec
=============================================================================
