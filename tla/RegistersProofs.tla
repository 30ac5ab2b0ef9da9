-------------------------- MODULE RegistersProofs --------------------------
(***************************************************************************)
(* Theorems about the plan of block reads and about what a poll decodes,    *)
(* for every register map, word size, block limit and gap tolerance, and    *)
(* any failures of blocks and words.                                        *)
(***************************************************************************)
EXTENDS Registers, TLAPS

-----------------------------------------------------------------------------
(* Registers of a valid map.                                                *)

LEMMA Constants ==
  /\ Base \in Nat \ {0} /\ Top \in Nat /\ MaxWords \in Nat /\ Gap \in Nat
  /\ \A m \in Maps : m \subseteq Register
  /\ Memories \subseteq [0..Top -> 0..(Base - 1)]
  BY RegistersAssumption

LEMMA RegisterFacts ==
  ASSUME NEW r \in Register
  PROVE  /\ r.addr \in Nat /\ Words(r) \in {1, 2} /\ r.type \in Type
         /\ Span(r) = r.addr .. (r.addr + Words(r) - 1)
  BY DEF Register, Words, Span

\* Two registers that share no word lie one after the other.
LEMMA Apart ==
  ASSUME NEW r \in Register, NEW q \in Register, Span(r) \cap Span(q) = {}, r.addr <= q.addr
  PROVE  r.addr + Words(r) <= q.addr
  <1>1. q.addr \in Span(q)
    BY RegisterFacts
  <1>2. q.addr \notin Span(r)
    BY <1>1
  <1> QED BY <1>2, RegisterFacts

-----------------------------------------------------------------------------
(* The loop of batch_reads.                                                 *)

\* The registers from `a` up to `z` can be asked for in one request: it begins
\* and ends at a register and is too long only if that is one and the same.
Tight(a, z, behind) ==
  /\ a < z
  /\ \E r, q \in behind :
       a = r.addr /\ z = q.addr + Words(q) /\ (z - a <= MaxWords \/ r = q)

\* The registers the loop has passed.
Behind == regs \ todo

Planning == pc = "plan" /\ todo # regs
Planned == pc \in {"read", "done"}

\* The batches that were closed, and the open one behind them.
ClosedInv ==
  /\ \A i \in DOMAIN batches : Tight(batches[i][1], Last(batches[i]), Behind)
  /\ \A i, j \in DOMAIN batches : i < j => Last(batches[i]) <= batches[j][1]

OpenInv ==
  Planning =>
    /\ Tight(start, end, Behind)
    /\ \A i \in DOMAIN batches : Last(batches[i]) <= start
    /\ \A r \in todo : end <= r.addr
    /\ \A r \in regs \ todo :
         \/ start <= r.addr /\ r.addr + Words(r) <= end
         \/ \E i \in DOMAIN batches : Covers(batches[i], r)

LoopInv ==
  /\ pc \in {"plan", "read", "done"} => Valid(regs)
  /\ pc = "load" \/ (pc = "plan" /\ todo = regs) => batches = <<>>
  /\ Planned => todo = {} /\ \A r \in regs : \E i \in DOMAIN batches : Covers(batches[i], r)

PlanInv == ClosedInv /\ OpenInv /\ LoopInv

-----------------------------------------------------------------------------
(* The reads.                                                               *)

\* Block k is the answer to one of the requests made so far.
IsAnswer(k) ==
  \E j \in 1..(at - 1) :
    /\ j \in DOMAIN batches
    /\ results[k] = Block(batches[j][1], batches[j][2], results[k].failed)
    /\ results[k].failed \subseteq 0..(batches[j][2] - 1)
    /\ Unreadable(batches[j][1], batches[j][2]) \subseteq results[k].failed

ReadInv ==
  /\ ~Planned => results = <<>> /\ at = 1 /\ values = {}
  /\ \A k \in DOMAIN results : IsAnswer(k)
  /\ \A k, l \in DOMAIN results : k < l => results[k].start + results[k].count <= results[l].start

IInv == TypeOK /\ PlanInv /\ ReadInv

-----------------------------------------------------------------------------
(* The plan is inductive.                                                   *)

LEMMA RegsAreRegisters ==
  ASSUME TypeOK, NEW r \in regs
  PROVE  /\ r \in Register /\ r.addr \in Nat /\ Words(r) \in {1, 2}
  BY Constants, RegisterFacts DEF TypeOK

\* The register the loop takes next ends before every other one it has not
\* reached begins.
LEMMA NextIsFirst ==
  ASSUME TypeOK, Valid(regs), NEW r, IsNext(r), NEW q \in todo \ {r}
  PROVE  r.addr + Words(r) <= q.addr
  <1>1. r \in regs /\ q \in regs /\ r # q /\ r.addr <= q.addr
    BY DEF TypeOK, IsNext
  <1>2. Span(r) \cap Span(q) = {}
    BY <1>1 DEF Valid
  <1> QED BY <1>1, <1>2, RegsAreRegisters, Apart

\* More registers behind the loop keep a batch tight.
LEMMA TightStays ==
  ASSUME NEW a, NEW z, NEW B, NEW C, Tight(a, z, B), B \subseteq C
  PROVE  Tight(a, z, C)
  BY DEF Tight

LEMMA InitPlan == Init => PlanInv
  BY DEF Init, PlanInv, ClosedInv, OpenInv, LoopInv, Planning, Planned

LEMMA ValidatePlan ==
  ASSUME TypeOK, PlanInv, Validate PROVE PlanInv'
  <1>1. batches = <<>> /\ batches' = <<>> /\ todo' = regs' /\ regs' = regs
    BY DEF Validate, PlanInv, LoopInv, input
  <1>2. ClosedInv' /\ OpenInv'
    BY <1>1 DEF ClosedInv, OpenInv, Planning
  <1>3. LoopInv'
    BY <1>1 DEF LoopInv, Validate, Planned, Valid
  <1> QED BY <1>2, <1>3 DEF PlanInv

LEMMA BatchFirstPlan ==
  ASSUME TypeOK, PlanInv, NEW r, BatchFirst(r) PROVE PlanInv'
  <1>1. /\ pc = "plan" /\ pc' = "plan" /\ todo = regs /\ r \in regs /\ IsNext(r)
        /\ todo' = todo \ {r} /\ regs' = regs
        /\ start' = r.addr /\ end' = r.addr + Words(r)
        /\ batches = <<>> /\ batches' = <<>> /\ Valid(regs)
    BY DEF BatchFirst, OpenBatch, PlanInv, LoopInv, IsNext, input
  <1>2. r.addr \in Nat /\ Words(r) \in {1, 2}
    BY <1>1, RegsAreRegisters
  <1>3. ClosedInv'
    BY <1>1 DEF ClosedInv
  <1>4. Tight(start', end', Behind')
    BY <1>1, <1>2 DEF Tight, Behind
  <1>5. \A q \in todo' : end' <= q.addr
    BY <1>1, NextIsFirst
  <1>6. OpenInv'
    BY <1>1, <1>2, <1>4, <1>5 DEF OpenInv, Planning
  <1>7. LoopInv'
    BY <1>1 DEF LoopInv, Planned, Valid
  <1> QED BY <1>3, <1>6, <1>7 DEF PlanInv

LEMMA BatchExtendPlan ==
  ASSUME TypeOK, PlanInv, NEW r, BatchExtend(r) PROVE PlanInv'
  <1>1. /\ Planning /\ pc' = pc /\ r \in todo /\ r \in regs /\ IsNext(r) /\ Extends(r)
        /\ todo' = todo \ {r} /\ regs' = regs /\ start' = start /\ batches' = batches
        /\ Valid(regs)
    BY DEF BatchExtend, Planning, PlanInv, LoopInv, IsNext, input, TypeOK
  <1>2. r.addr \in Nat /\ Words(r) \in {1, 2} /\ start \in Nat /\ end \in Nat
    BY <1>1, RegsAreRegisters DEF TypeOK
  <1>3. start < end /\ end <= r.addr
    BY <1>1 DEF PlanInv, OpenInv, Tight, Behind
  <1>4. end' = r.addr + Words(r)
    BY <1>2, <1>3 DEF BatchExtend
  <1>5. ClosedInv'
    BY <1>1, TightStays DEF PlanInv, ClosedInv, Behind, Last
  <1>6. Tight(start', end', Behind')
    <2>1. PICK p \in regs \ todo : start = p.addr
      BY <1>1 DEF PlanInv, OpenInv, Tight, Behind
    <2>2. p \in regs' \ todo' /\ r \in regs' \ todo'
      BY <1>1, <2>1
    <2>3. end' - start' <= MaxWords
      BY <1>1, <1>2, <1>4, Constants DEF Extends
    <2> QED BY <1>1, <1>2, <1>3, <1>4, <2>1, <2>2, <2>3 DEF Tight, Behind
  <1>7. \A q \in todo' : end' <= q.addr
    BY <1>1, <1>4, NextIsFirst
  <1>8. ASSUME NEW q \in regs' \ todo'
        PROVE  \/ start' <= q.addr /\ q.addr + Words(q) <= end'
               \/ \E i \in DOMAIN batches' : Covers(batches'[i], q)
    <2>1. CASE q = r
      BY <1>1, <1>2, <1>3, <1>4, <2>1
    <2>2. CASE q # r
      <3>1. q \in regs \ todo /\ q.addr \in Nat /\ Words(q) \in {1, 2}
        BY <1>1, <1>8, <2>2, RegsAreRegisters
      <3> QED BY <1>1, <1>2, <1>3, <1>4, <3>1 DEF PlanInv, OpenInv
    <2> QED BY <2>1, <2>2
  <1>9. OpenInv'
    BY <1>1, <1>6, <1>7, <1>8 DEF OpenInv, PlanInv, Planning
  <1>10. LoopInv'
    BY <1>1 DEF LoopInv, PlanInv, Planned, Planning, Valid
  <1> QED BY <1>5, <1>9, <1>10 DEF PlanInv

\* Closing the open batch: the sequence stays ordered and every register
\* behind the loop is covered.
LEMMA CloseBatch ==
  ASSUME TypeOK, PlanInv, Planning, regs' = regs, todo' \subseteq todo,
         batches' = Append(batches, <<start, end - start>>)
  PROVE  /\ ClosedInv'
         /\ \A i \in DOMAIN batches' : Last(batches'[i]) <= end
         /\ \A q \in regs \ todo : \E i \in DOMAIN batches' : Covers(batches'[i], q)
  <1>1. start \in Nat /\ end \in Nat /\ batches \in Seq(Nat \X Nat) /\ start < end
    BY DEF TypeOK, PlanInv, OpenInv, Tight, Behind
  <1> DEFINE n == Len(batches) + 1
  <1>2. /\ n \in Nat /\ DOMAIN batches' = 1 .. n /\ DOMAIN batches = 1 .. (n - 1)
        /\ batches'[n] = <<start, end - start>>
        /\ \A i \in 1 .. (n - 1) : batches'[i] = batches[i] /\ batches[i] \in Nat \X Nat
    BY <1>1
  <1>3. Last(batches'[n]) = end /\ batches'[n][1] = start
    BY <1>1, <1>2 DEF Last
  <1>4. \A i \in 1 .. (n - 1) : Last(batches'[i]) = Last(batches[i]) /\ Last(batches[i]) \in Nat
    BY <1>2 DEF Last
  <1>5. \A i \in 1 .. (n - 1) : Last(batches[i]) <= start
    BY <1>2 DEF PlanInv, OpenInv
  <1> HIDE DEF n
  <1>6. \A i \in 1 .. n : Tight(batches'[i][1], Last(batches'[i]), Behind')
    <2> SUFFICES ASSUME NEW i \in 1 .. n PROVE Tight(batches'[i][1], Last(batches'[i]), Behind')
      OBVIOUS
    <2>1. CASE i = n
      <3>1. Tight(start, end, Behind)
        BY DEF PlanInv, OpenInv
      <3>2. Tight(start, end, Behind')
        BY <3>1, TightStays DEF Behind
      <3> QED BY <1>3, <2>1, <3>2
    <2>2. CASE i # n
      <3>1. i \in 1 .. (n - 1)
        BY <1>2, <2>2
      <3>2. Tight(batches[i][1], Last(batches[i]), Behind)
        BY <1>2, <3>1 DEF PlanInv, ClosedInv
      <3>3. Tight(batches[i][1], Last(batches[i]), Behind')
        BY <3>2, TightStays DEF Behind
      <3>4. batches'[i][1] = batches[i][1] /\ Last(batches'[i]) = Last(batches[i])
        BY <1>2, <1>4, <3>1
      <3> QED BY <3>3, <3>4
    <2> QED BY <2>1, <2>2
  <1>7. \A i, j \in 1 .. n : i < j => Last(batches'[i]) <= batches'[j][1]
    <2> SUFFICES ASSUME NEW i \in 1 .. n, NEW j \in 1 .. n, i < j
                 PROVE  Last(batches'[i]) <= batches'[j][1]
      OBVIOUS
    <2>1. i \in 1 .. (n - 1)
      BY <1>2
    <2>2. CASE j = n
      BY <1>3, <1>4, <1>5, <2>1, <2>2
    <2>3. CASE j # n
      <3>1. j \in 1 .. (n - 1)
        BY <1>2, <2>3
      <3> QED BY <1>2, <1>4, <2>1, <3>1 DEF PlanInv, ClosedInv
    <2> QED BY <2>2, <2>3
  <1>8. \A i \in 1 .. n : Last(batches'[i]) <= end
    <2> SUFFICES ASSUME NEW i \in 1 .. n PROVE Last(batches'[i]) <= end
      OBVIOUS
    <2>1. CASE i = n  BY ONLY <1>1, <1>3, <2>1
    <2>2. CASE i \in 1 .. (n - 1)  BY ONLY <1>1, <1>4, <1>5, <2>2
    <2> QED BY <1>2, <2>1, <2>2
  <1>9. ASSUME NEW q \in regs \ todo PROVE \E i \in 1 .. n : Covers(batches'[i], q)
    <2>1. CASE start <= q.addr /\ q.addr + Words(q) <= end
      <3>1. Covers(batches'[n], q)
        BY <1>3, <2>1 DEF Covers
      <3> QED BY <1>2, <3>1
    <2>2. CASE \E i \in DOMAIN batches : Covers(batches[i], q)
      <3>1. PICK i \in 1 .. (n - 1) : Covers(batches[i], q)
        BY <1>2, <2>2
      <3>2. i \in 1 .. n /\ batches'[i] = batches[i]
        BY <1>2
      <3> QED BY <3>1, <3>2
    <2> QED BY <2>1, <2>2 DEF PlanInv, OpenInv
  <1>10. ClosedInv'
    BY <1>2, <1>6, <1>7 DEF ClosedInv, Last
  <1> QED BY <1>2, <1>8, <1>9, <1>10

LEMMA BatchCutPlan ==
  ASSUME TypeOK, PlanInv, NEW r, BatchCut(r) PROVE PlanInv'
  <1>1. /\ Planning /\ pc' = pc /\ r \in todo /\ r \in regs /\ IsNext(r)
        /\ todo' = todo \ {r} /\ regs' = regs /\ Valid(regs)
        /\ start' = r.addr /\ end' = r.addr + Words(r)
        /\ batches' = Append(batches, <<start, end - start>>)
    BY DEF BatchCut, OpenBatch, Planning, PlanInv, LoopInv, IsNext, input, TypeOK
  <1>2. r.addr \in Nat /\ Words(r) \in {1, 2} /\ end \in Nat
    BY <1>1, RegsAreRegisters DEF TypeOK
  <1>3. end <= r.addr
    BY <1>1 DEF PlanInv, OpenInv
  <1>4. /\ ClosedInv'
        /\ \A i \in DOMAIN batches' : Last(batches'[i]) <= end
        /\ \A q \in regs \ todo : \E i \in DOMAIN batches' : Covers(batches'[i], q)
    BY <1>1, CloseBatch
  <1>5. Tight(start', end', Behind')
    BY <1>1, <1>2 DEF Tight, Behind
  <1>6. \A q \in todo' : end' <= q.addr
    BY <1>1, NextIsFirst
  <1>7. batches' \in Seq(Nat \X Nat)
    BY <1>1 DEF TypeOK, PlanInv, OpenInv, Tight, Behind
  <1>8. ASSUME NEW i \in DOMAIN batches' PROVE Last(batches'[i]) <= start'
    <2>1. batches'[i] \in Nat \X Nat
      BY ONLY <1>7, i \in DOMAIN batches'
    <2>2. Last(batches'[i]) \in Nat
      BY ONLY <2>1 DEF Last
    <2>3. Last(batches'[i]) <= end /\ start' = r.addr
      BY <1>1, <1>4
    <2> QED BY ONLY <1>2, <1>3, <2>2, <2>3
  <1>9. ASSUME NEW q \in regs' \ todo'
        PROVE  \/ start' <= q.addr /\ q.addr + Words(q) <= end'
               \/ \E i \in DOMAIN batches' : Covers(batches'[i], q)
    BY <1>1, <1>2, <1>4, <1>9
  <1>10. OpenInv'
    BY <1>1, <1>5, <1>6, <1>8, <1>9 DEF OpenInv, Planning, Covers, Last
  <1>11. LoopInv'
    BY <1>1 DEF LoopInv, PlanInv, Planned, Planning, Valid
  <1> QED BY <1>4, <1>10, <1>11 DEF PlanInv

LEMMA BatchEndPlan ==
  ASSUME TypeOK, PlanInv, BatchEnd PROVE PlanInv'
  <1>1. /\ Planning /\ pc' = "read" /\ todo = {} /\ todo' = {} /\ regs' = regs /\ Valid(regs)
        /\ batches' = Append(batches, <<start, end - start>>)
    BY DEF BatchEnd, Planning, PlanInv, LoopInv, input, Valid
  <1>2. ClosedInv' /\ \A q \in regs : \E i \in DOMAIN batches' : Covers(batches'[i], q)
    BY <1>1, CloseBatch
  <1>3. OpenInv'
    BY <1>1 DEF OpenInv, Planning
  <1>4. LoopInv'
    BY <1>1, <1>2 DEF LoopInv, Planned, Valid, Covers, Last
  <1> QED BY <1>2, <1>3, <1>4 DEF PlanInv

\* Reading and decoding leave the plan alone.
LEMMA PlanStays ==
  ASSUME PlanInv, UNCHANGED <<regs, plan>>, pc' = pc \/ (Planned /\ Planned') PROVE PlanInv'
  <1>1. /\ regs' = regs /\ todo' = todo /\ start' = start /\ end' = end /\ batches' = batches
    BY DEF plan
  <1>2. ClosedInv'
    BY <1>1 DEF PlanInv, ClosedInv, Behind, Last
  <1>3. OpenInv'
    BY <1>1 DEF PlanInv, OpenInv, Planning, Planned, Behind, Last, Covers
  <1>4. LoopInv'
    BY <1>1 DEF PlanInv, LoopInv, Planned, Valid, Covers, Last
  <1> QED BY <1>2, <1>3, <1>4 DEF PlanInv

LEMMA NextPlan == TypeOK /\ PlanInv /\ [Next]_vars => PlanInv'
  <1> SUFFICES ASSUME TypeOK, PlanInv, [Next]_vars PROVE PlanInv'
    OBVIOUS
  <1>1. CASE Validate  BY <1>1, ValidatePlan
  <1>2. ASSUME NEW r \in todo, BatchFirst(r) PROVE PlanInv'  BY <1>2, BatchFirstPlan
  <1>3. ASSUME NEW r \in todo, BatchExtend(r) PROVE PlanInv'  BY <1>3, BatchExtendPlan
  <1>4. ASSUME NEW r \in todo, BatchCut(r) PROVE PlanInv'  BY <1>4, BatchCutPlan
  <1>5. CASE BatchEnd  BY <1>5, BatchEndPlan
  <1>6. CASE ReadBatch
    <2>1. pc' = pc /\ UNCHANGED <<regs, plan>>  BY <1>6 DEF ReadBatch, input
    <2> QED BY <2>1, PlanStays
  <1>7. CASE DecodeTier  BY <1>7, PlanStays DEF DecodeTier, input, Planned
  <1>8. ASSUME NEW m \in Memories, PollAgain(m) PROVE PlanInv'
    BY <1>8, PlanStays DEF PollAgain, Planned
  <1>9. CASE UNCHANGED vars
    <2>1. pc' = pc /\ UNCHANGED <<regs, plan>>  BY <1>9 DEF vars, plan
    <2> QED BY <2>1, PlanStays
  <1> QED BY <1>1, <1>2, <1>3, <1>4, <1>5, <1>6, <1>7, <1>8, <1>9 DEF Next

-----------------------------------------------------------------------------
(* So are the reads, and the types.                                         *)

LEMMA BlockIsReadout ==
  ASSUME memory \in Memories, NEW a \in Nat, NEW n \in Nat, NEW failed \in SUBSET (0..(n - 1)),
         Unreadable(a, n) \subseteq failed
  PROVE  Block(a, n, failed) \in Readout
  <1> DEFINE words == [i \in 0..(n - 1) |-> IF i \in failed THEN 0 ELSE memory[a + i]]
  <1>1. ASSUME NEW i \in 0..(n - 1) PROVE words[i] \in 0..(Base - 1)
    <2>1. CASE i \in failed  BY <2>1, Constants
    <2>2. CASE i \notin failed
      <3>1. a + i \in 0..Top
        BY <2>2, Constants DEF Unreadable
      <3> QED BY <2>2, <3>1, Constants
    <2> QED BY <2>1, <2>2
  <1>2. words \in [0..(n - 1) -> 0..(Base - 1)]
    BY <1>1
  <1>3. Block(a, n, failed) = [start |-> a, count |-> n, failed |-> failed, words |-> words]
    BY DEF Block
  <1> HIDE DEF words
  <1>4. failed \in SUBSET Nat
    OBVIOUS
  <1> QED BY <1>2, <1>3, <1>4 DEF Readout

\* A step of the reads: nothing, or the answer to the request at hand.
LEMMA ReadBatchStep ==
  ASSUME TypeOK, ReadBatch
  PROVE  /\ pc = "read" /\ at \in DOMAIN batches /\ at' = at + 1
         /\ UNCHANGED <<pc, regs, memory, todo, start, end, batches, values>>
         /\ \/ results' = results
            \/ \E failed \in SUBSET (0..(batches[at][2] - 1)) :
                 /\ Unreadable(batches[at][1], batches[at][2]) \subseteq failed
                 /\ results' = Append(results, Block(batches[at][1], batches[at][2], failed))
  <1>1. /\ pc = "read" /\ at \in DOMAIN batches /\ at' = at + 1
        /\ UNCHANGED <<pc, regs, memory, todo, start, end, batches, values>>
    BY DEF TypeOK, ReadBatch, input, plan
  <1> DEFINE a == batches[at][1]
             n == batches[at][2]
  <1>2. CASE Unreadable(a, n) = {} /\ results' = Append(results, Block(a, n, {}))
    BY <1>1, <1>2
  <1>3. CASE \E failed \in SUBSET (0..(n - 1)) :
               /\ Unreadable(a, n) \subseteq failed
               /\ results' = IF failed = 0..(n - 1) THEN results
                             ELSE Append(results, Block(a, n, failed))
    <2>1. PICK failed \in SUBSET (0..(n - 1)) :
               /\ Unreadable(a, n) \subseteq failed
               /\ results' = IF failed = 0..(n - 1) THEN results
                             ELSE Append(results, Block(a, n, failed))
      BY <1>3
    <2>2. CASE failed = 0..(n - 1)  BY <1>1, <2>1, <2>2
    <2>3. CASE failed # 0..(n - 1)  BY <1>1, <2>1, <2>3
    <2> QED BY <2>2, <2>3
  <1> QED BY <1>2, <1>3 DEF ReadBatch

LEMMA DecodeIsInt ==
  ASSUME NEW r \in Register, NEW w, \A k \in 0..(Words(r) - 1) : w[k] \in Int
  PROVE  Decode(r, w) \in Int
  <1>1. Base \in Int /\ Base > 0 /\ Base * Base \in Int
    BY Constants
  <1>2. w[0] \in Int /\ w[0] % Base \in Int /\ (w[0] % Base) * Base \in Int
    BY <1>1, RegisterFacts
  <1>3. CASE r.type \in {"u16", "s16"}
    BY <1>1, <1>2, <1>3 DEF Decode
  <1>4. CASE r.type \in {"u32", "u32_lo", "s32"}
    <2>1. w[1] \in Int /\ w[1] % Base \in Int
      BY <1>1, <1>4 DEF Words
    <2> QED BY <1>1, <1>2, <1>4, <2>1 DEF Decode
  <1> QED BY <1>3, <1>4, RegisterFacts DEF Type

\* A block that holds a register has its words.
LEMMA AnswerWords ==
  ASSUME TypeOK, ReadInv, NEW i \in DOMAIN results
  PROVE  /\ results[i] \in Readout
         /\ DOMAIN results[i].words = 0..(results[i].count - 1)
         /\ \A j \in 0..(results[i].count - 1) : results[i].words[j] \in Int
         /\ \A j \in (0..(results[i].count - 1)) \ results[i].failed :
              /\ results[i].start + j \in 0..Top
              /\ results[i].words[j] = memory[results[i].start + j]
  <1>1. results[i] \in Readout
    BY DEF TypeOK
  <1>2. PICK j \in DOMAIN batches :
          /\ results[i] = Block(batches[j][1], batches[j][2], results[i].failed)
          /\ Unreadable(batches[j][1], batches[j][2]) \subseteq results[i].failed
    BY DEF ReadInv, IsAnswer
  <1>3. batches[j][1] \in Nat /\ batches[j][2] \in Nat
    BY DEF TypeOK
  <1> DEFINE a == batches[j][1]
             n == batches[j][2]
  <1>4. /\ results[i].start = a /\ results[i].count = n
        /\ results[i].words = [k \in 0..(n - 1) |-> IF k \in results[i].failed THEN 0 ELSE memory[a + k]]
    BY <1>2 DEF Block
  <1>5. PICK m \in Nat : results[i].words \in [0..(m - 1) -> 0..(Base - 1)]
    BY <1>1 DEF Readout
  <1>6. ASSUME NEW k \in (0..(n - 1)) \ results[i].failed PROVE a + k \in 0..Top
    BY <1>2, <1>3, <1>6, Constants DEF Unreadable
  <1> QED BY <1>1, <1>3, <1>4, <1>5, <1>6, Constants

LEMMA InitType == Init => TypeOK
  BY Constants DEF Init, TypeOK

LEMMA DecodeTierType ==
  ASSUME TypeOK, ReadInv, DecodeTier PROVE TypeOK'
  <1>1. ASSUME NEW r \in regs, NEW v \in Decoded(r) PROVE v \in Int
    <2>1. PICK i \in DOMAIN results : Decides(i, r) /\ v = Decode(r, Sliced(results[i], r))
      BY <1>1 DEF Decoded
    <2>2. r \in Register /\ r.addr \in Nat /\ Words(r) \in {1, 2}
      BY RegsAreRegisters
    <2>3. results[i].start \in Nat /\ results[i].count \in Nat
      BY AnswerWords DEF Readout
    <2>4. ASSUME NEW k \in 0..(Words(r) - 1) PROVE Sliced(results[i], r)[k] \in Int
      <3>1. r.addr - results[i].start + k \in 0..(results[i].count - 1)
        BY <2>1, <2>2, <2>3, <2>4 DEF Decides, Holds
      <3>2. Sliced(results[i], r)[k] = results[i].words[r.addr - results[i].start + k]
        BY <2>4 DEF Sliced
      <3> QED BY <3>1, <3>2, AnswerWords
    <2> QED BY <2>1, <2>2, <2>4, DecodeIsInt
  <1>2. values' \subseteq regs \X Int
    BY <1>1 DEF DecodeTier
  <1>3. pc' = "done" /\ UNCHANGED <<regs, memory, todo, start, end, batches, at, results>>
    BY DEF DecodeTier, input, plan
  <1> QED BY <1>2, <1>3 DEF TypeOK

LEMMA NextType == TypeOK /\ PlanInv /\ ReadInv /\ [Next]_vars => TypeOK'
  <1> SUFFICES ASSUME TypeOK, PlanInv, ReadInv, [Next]_vars PROVE TypeOK'
    OBVIOUS
  <1>1. CASE Validate
    BY <1>1 DEF TypeOK, Validate, input, poll
  <1>2. ASSUME NEW r \in todo, BatchFirst(r) \/ BatchExtend(r) \/ BatchCut(r) PROVE TypeOK'
    <2>1. r.addr \in Nat /\ Words(r) \in {1, 2}
      BY <1>2, RegsAreRegisters DEF TypeOK
    <2>2. BatchCut(r) => start < end
      BY DEF BatchCut, PlanInv, OpenInv, Planning, Tight
    <2>3. start' \in Nat /\ end' \in Nat /\ batches' \in Seq(Nat \X Nat)
      <3>1. start \in Nat /\ end \in Nat /\ batches \in Seq(Nat \X Nat)
        BY DEF TypeOK
      <3>2. CASE BatchFirst(r)  BY <2>1, <3>1, <3>2 DEF BatchFirst, OpenBatch
      <3>3. CASE BatchExtend(r)  BY <2>1, <3>1, <3>3 DEF BatchExtend
      <3>4. CASE BatchCut(r)
        <4>1. <<start, end - start>> \in Nat \X Nat
          BY <2>2, <3>1, <3>4
        <4> QED BY <2>1, <3>1, <3>4, <4>1 DEF BatchCut, OpenBatch
      <3> QED BY <1>2, <3>2, <3>3, <3>4
    <2>4. /\ pc' = pc /\ todo' \subseteq todo
          /\ UNCHANGED <<regs, memory, at, results, values>>
      BY <1>2 DEF BatchFirst, BatchExtend, BatchCut, input, poll
    <2> QED BY <2>3, <2>4 DEF TypeOK
  <1>3. CASE BatchEnd
    <2>1. start < end
      BY <1>3 DEF BatchEnd, PlanInv, OpenInv, LoopInv, Valid, Planning, Tight
    <2>2. batches' \in Seq(Nat \X Nat)
      BY <1>3, <2>1 DEF TypeOK, BatchEnd
    <2> QED BY <1>3, <2>2 DEF TypeOK, BatchEnd, input
  <1>4. CASE ReadBatch
    <2>1. batches[at][1] \in Nat /\ batches[at][2] \in Nat
      BY <1>4, ReadBatchStep DEF TypeOK
    <2>2. results' \in Seq(Readout)
      <3>1. CASE results' = results  BY <3>1 DEF TypeOK
      <3>2. ASSUME NEW failed \in SUBSET (0..(batches[at][2] - 1)),
                   Unreadable(batches[at][1], batches[at][2]) \subseteq failed,
                   results' = Append(results, Block(batches[at][1], batches[at][2], failed))
            PROVE  results' \in Seq(Readout)
        <4>1. Block(batches[at][1], batches[at][2], failed) \in Readout
          BY <2>1, <3>2, BlockIsReadout DEF TypeOK
        <4> QED BY <3>2, <4>1 DEF TypeOK
      <3> QED BY <1>4, <3>1, <3>2, ReadBatchStep
    <2>3. at' = at + 1 /\ UNCHANGED <<pc, regs, memory, todo, start, end, batches, values>>
      BY <1>4, ReadBatchStep
    <2> QED BY <2>2, <2>3 DEF TypeOK
  <1>5. CASE DecodeTier  BY <1>5, DecodeTierType
  <1>6. ASSUME NEW m \in Memories, PollAgain(m) PROVE TypeOK'
    BY <1>6 DEF TypeOK, PollAgain, plan
  <1>7. CASE UNCHANGED vars  BY <1>7 DEF TypeOK, vars, input, plan, poll
  <1> QED BY <1>1, <1>2, <1>3, <1>4, <1>5, <1>6, <1>7 DEF Next

\* The answers keep their places when the reads go on.
LEMMA AnswersStay ==
  ASSUME TypeOK, ReadInv, ReadBatch, NEW k \in DOMAIN results, results'[k] = results[k]
  PROVE  IsAnswer(k)'
  <1>1. at \in Nat /\ at' = at + 1 /\ batches' = batches /\ memory' = memory
    BY ReadBatchStep DEF TypeOK
  <1>2. PICK j \in 1..(at - 1) :
          /\ j \in DOMAIN batches
          /\ results[k] = Block(batches[j][1], batches[j][2], results[k].failed)
          /\ results[k].failed \subseteq 0..(batches[j][2] - 1)
          /\ Unreadable(batches[j][1], batches[j][2]) \subseteq results[k].failed
    BY DEF ReadInv, IsAnswer
  <1>3. j \in 1..(at' - 1)
    BY <1>1
  <1> QED BY <1>1, <1>2, <1>3 DEF IsAnswer, Block, Unreadable

LEMMA ReadBatchRead ==
  ASSUME TypeOK, PlanInv, ReadInv, ReadBatch PROVE ReadInv'
  <1>1. /\ Planned' /\ at \in DOMAIN batches /\ at \in Nat \ {0} /\ at' = at + 1
        /\ batches' = batches /\ memory' = memory
    BY ReadBatchStep DEF Planned, TypeOK
  <1>2. CASE results' = results
    <2>1. \A k \in DOMAIN results' : IsAnswer(k)'
      BY <1>2, AnswersStay
    <2> QED BY <1>1, <1>2, <2>1 DEF ReadInv
  <1>3. ASSUME NEW failed \in SUBSET (0..(batches[at][2] - 1)),
               Unreadable(batches[at][1], batches[at][2]) \subseteq failed,
               results' = Append(results, Block(batches[at][1], batches[at][2], failed))
        PROVE  ReadInv'
    <2> DEFINE b == Block(batches[at][1], batches[at][2], failed)
    <2>1. results \in Seq(Readout) /\ batches[at][1] \in Nat /\ batches[at][2] \in Nat
      BY <1>1 DEF TypeOK
    <2>0. PICK n \in Nat : n = Len(results) + 1
      BY <2>1
    <2>2. /\ DOMAIN results' = 1 .. n /\ DOMAIN results = 1 .. (n - 1)
          /\ results'[n] = b /\ \A k \in 1 .. (n - 1) : results'[k] = results[k]
      BY <1>3, <2>0, <2>1
    <2>3. b.start = batches[at][1] /\ b.count = batches[at][2] /\ b.failed = failed
      BY DEF Block
    <2>4. IsAnswer(n)'
      <3>1. PICK j \in Nat : j = at
        BY <1>1
      <3>2. j \in 1..(at' - 1) /\ j \in DOMAIN batches'
        BY <1>1, <3>1
      <3>3. results'[n] = Block(batches[j][1], batches[j][2], failed)' /\ results'[n].failed = failed
        BY <1>1, <2>2, <2>3, <3>1 DEF Block
      <3>4. (Unreadable(batches[j][1], batches[j][2]) \subseteq failed)'
        BY <1>1, <1>3, <3>1 DEF Unreadable
      <3>5. failed \subseteq 0..(batches'[j][2] - 1)
        BY <1>1, <3>1
      <3> HIDE DEF b
      <3> QED BY <3>2, <3>3, <3>4, <3>5 DEF IsAnswer
    <2> HIDE DEF b
    <2>5. \A k \in DOMAIN results' : IsAnswer(k)'
      <3> SUFFICES ASSUME NEW k \in 1 .. n PROVE IsAnswer(k)'
        BY <2>2
      <3>1. CASE k = n  BY <2>4, <3>1
      <3>2. CASE k \in 1 .. (n - 1)  BY <2>2, <3>2, AnswersStay
      <3> QED BY <3>1, <3>2
    <2>6. ASSUME NEW k \in 1 .. (n - 1) PROVE results[k].start + results[k].count <= b.start
      <3>1. PICK j \in 1..(at - 1) :
              /\ j \in DOMAIN batches
              /\ results[k] = Block(batches[j][1], batches[j][2], results[k].failed)
        BY <2>2 DEF ReadInv, IsAnswer
      <3>2. results[k].start = batches[j][1] /\ results[k].count = batches[j][2]
        BY <3>1 DEF Block
      <3>3. Last(batches[j]) <= batches[at][1]
        BY <1>1, <3>1 DEF PlanInv, ClosedInv
      <3> QED BY <2>3, <3>2, <3>3 DEF Last
    <2>7. ASSUME NEW k \in DOMAIN results', NEW l \in DOMAIN results', k < l
          PROVE  results'[k].start + results'[k].count <= results'[l].start
      <3>1. k \in 1 .. (n - 1)
        BY <2>2, <2>7
      <3>2. CASE l = n  BY <2>2, <2>6, <3>1, <3>2
      <3>3. CASE l # n
        <4>1. l \in 1 .. (n - 1)
          BY <2>2, <3>3
        <4> QED BY <2>2, <2>7, <3>1, <4>1 DEF ReadInv
      <3> QED BY <3>2, <3>3
    <2> QED BY <1>1, <2>5, <2>7 DEF ReadInv
  <1> QED BY <1>2, <1>3, ReadBatchStep

\* Steps that add no answer.
LEMMA ReadStays ==
  ASSUME ReadInv, UNCHANGED <<memory, batches, at, results, values>>, Planned' = Planned
  PROVE  ReadInv'
  <1>1. ASSUME NEW k \in DOMAIN results PROVE IsAnswer(k)'
    BY DEF ReadInv, IsAnswer, Block, Unreadable
  <1> QED BY <1>1 DEF ReadInv

LEMMA NextRead == TypeOK /\ PlanInv /\ ReadInv /\ [Next]_vars => ReadInv'
  <1> SUFFICES ASSUME TypeOK, PlanInv, ReadInv, [Next]_vars PROVE ReadInv'
    OBVIOUS
  <1>1. CASE Validate \/ \E r \in todo : BatchFirst(r) \/ BatchExtend(r) \/ BatchCut(r)
    <2>1. ~Planned /\ UNCHANGED <<at, results, values>>
      BY <1>1 DEF Validate, BatchFirst, BatchExtend, BatchCut, Planned, poll
    <2> QED BY <2>1 DEF ReadInv
  <1>2. CASE BatchEnd
    <2>1. ~Planned /\ results' = results
      BY <1>2 DEF BatchEnd, Planned
    <2>2. results' = <<>> /\ Planned'
      BY <1>2, <2>1 DEF BatchEnd, ReadInv, Planned
    <2> QED BY <2>2 DEF ReadInv
  <1>3. CASE ReadBatch  BY <1>3, ReadBatchRead
  <1>4. CASE DecodeTier
    <2>1. Planned' /\ UNCHANGED <<memory, batches, at, results>>
      BY <1>4 DEF DecodeTier, Planned, input, plan
    <2>2. ASSUME NEW k \in DOMAIN results PROVE IsAnswer(k)'
      BY <2>1 DEF ReadInv, IsAnswer, Block, Unreadable
    <2> QED BY <2>1, <2>2 DEF ReadInv
  <1>5. ASSUME NEW m \in Memories, PollAgain(m) PROVE ReadInv'
    <2>1. results' = <<>> /\ Planned'
      BY <1>5 DEF PollAgain, Planned
    <2> QED BY <2>1 DEF ReadInv
  <1>6. CASE UNCHANGED vars
    <2>1. UNCHANGED <<memory, batches, at, results, values>> /\ Planned' = Planned
      BY <1>6 DEF vars, Planned, input, plan, poll
    <2> QED BY <2>1, ReadStays
  <1> QED BY <1>1, <1>2, <1>3, <1>4, <1>5, <1>6 DEF Next

LEMMA Inductive == Spec => []IInv
  <1>1. Init => IInv
    BY InitType, InitPlan DEF IInv, Init, ReadInv, Planned
  <1>2. IInv /\ [Next]_vars => IInv'
    BY NextType, NextPlan, NextRead DEF IInv
  <1> QED BY <1>1, <1>2, PTL DEF Spec

\* Every variable of the plan and of the poll keeps its type, for any maps,
\* words and limits.
THEOREM TypeCorrect == Spec => []TypeOK
  <1>1. IInv => TypeOK
    BY DEF IInv
  <1> QED BY <1>1, Inductive, PTL

\* For every map that passes the validation, what batch_reads returns covers
\* each register whole, asks for no word twice, begins and ends every block at
\* a register, and is longer than max_words only for one register alone.
THEOREM PlanIsExact == Spec => []PlanExact
  <1>1. IInv => PlanExact
    <2> SUFFICES ASSUME IInv, Planned PROVE PlanExact
      BY DEF PlanExact, Planned
    <2>1. \A r \in regs : \E i \in DOMAIN batches : Covers(batches[i], r)
      BY DEF IInv, PlanInv, LoopInv
    <2>2. \A i, j \in DOMAIN batches : i < j => Last(batches[i]) <= batches[j][1]
      BY DEF IInv, PlanInv, ClosedInv
    <2>3. ASSUME NEW i \in DOMAIN batches
          PROVE  \E r, q \in regs :
                   /\ batches[i][1] = r.addr /\ Last(batches[i]) = q.addr + Words(q)
                   /\ batches[i][2] <= MaxWords \/ r = q
      <3>1. batches[i][1] \in Nat /\ batches[i][2] \in Nat
        BY DEF IInv, TypeOK
      <3>2. Last(batches[i]) - batches[i][1] = batches[i][2]
        BY <3>1 DEF Last
      <3>3. PICK r, q \in regs :
              /\ batches[i][1] = r.addr /\ Last(batches[i]) = q.addr + Words(q)
              /\ Last(batches[i]) - batches[i][1] <= MaxWords \/ r = q
        BY DEF IInv, PlanInv, ClosedInv, Tight, Behind
      <3> QED BY <3>2, <3>3
    <2> QED BY <2>1, <2>2, <2>3 DEF PlanExact
  <1> QED BY <1>1, Inductive, PTL

-----------------------------------------------------------------------------
(* What a poll decodes.                                                     *)

LEMMA ModPlain ==
  ASSUME NEW n \in Nat \ {0}, NEW x \in 0..(n - 1) PROVE x % n = x
  OBVIOUS

LEMMA ModNegative ==
  ASSUME NEW n \in Nat \ {0}, NEW x \in (-n)..(-1) PROVE x % n = x + n
  OBVIOUS

\* Subtracting the modulus from the upper half gives the one number of the
\* signed range with the same remainder.
LEMMA Signed ==
  ASSUME NEW n \in Nat \ {0}, NEW h \in Nat, n = 2 * h, NEW u \in 0..(n - 1)
  PROVE  (CHOOSE v \in -h..(h - 1) : v % n = u) = IF u >= h THEN u - n ELSE u
  <1> DEFINE s == IF u >= h THEN u - n ELSE u
  <1>1. s \in -h..(h - 1)
    OBVIOUS
  <1>2. s % n = u
    <2>1. CASE u >= h
      <3>1. u - n \in (-n)..(-1)
        BY <2>1
      <3> QED BY <2>1, <3>1, ModNegative
    <2>2. CASE ~(u >= h)  BY <2>2, ModPlain
    <2> QED BY <2>1, <2>2
  <1>3. ASSUME NEW v \in -h..(h - 1), v % n = u PROVE v = s
    <2>1. CASE v < 0
      <3>1. v \in (-n)..(-1)
        BY <2>1
      <3> QED BY <1>3, <2>1, <3>1, ModNegative
    <2>2. CASE v >= 0
      <3>1. v \in 0..(n - 1)
        BY <2>2
      <3> QED BY <1>3, <2>2, <3>1, ModPlain
    <2> QED BY <2>1, <2>2
  <1> HIDE DEF s
  <1>4. (CHOOSE v \in -h..(h - 1) : v % n = u) = s
    BY <1>1, <1>2, <1>3
  <1> QED BY <1>4 DEF s

LEMMA Halves ==
  /\ Base \div 2 \in Nat /\ Base = 2 * (Base \div 2)
  /\ Base * Base \in Nat \ {0} /\ (Base * Base) \div 2 \in Nat
  /\ Base * Base = 2 * ((Base * Base) \div 2)
  <1>1. Base \in Nat \ {0} /\ Base % 2 = 0
    BY RegistersAssumption
  <1>2. PICK h \in Nat : h = Base \div 2 /\ Base = 2 * h
    BY <1>1
  <1>3. PICK k \in Nat : k = h * Base
    BY <1>1, <1>2
  <1>4. Base * Base = 2 * k /\ Base * Base # 0
    BY <1>1, <1>2, <1>3
  <1>5. (2 * k) \div 2 = k
    OBVIOUS
  <1> QED BY <1>2, <1>4, <1>5

\* decode_value on the words the controller holds gives the number they
\* represent in the range of the register's type.
LEMMA DecodeIsMeaning ==
  ASSUME TypeOK, NEW r \in Register, NEW w,
         \A k \in 0..(Words(r) - 1) : r.addr + k \in 0..Top /\ w[k] = memory[r.addr + k]
  PROVE  Decode(r, w) = Meaning(r)
  <1>0. r.addr \in Nat /\ Base \in Nat \ {0}
    BY RegisterFacts, Constants
  <1>1. w[0] = memory[r.addr] /\ memory[r.addr] \in 0..(Base - 1)
    <2>1. 0 \in 0..(Words(r) - 1)
      BY RegisterFacts
    <2> QED BY <1>0, <2>1, Constants DEF TypeOK
  <1>2. w[0] % Base = memory[r.addr]
    BY <1>0, <1>1, ModPlain
  <1>3. CASE r.type = "u16"  BY <1>2, <1>3 DEF Decode, Meaning
  <1>4. CASE r.type = "s16"
    <2>1. Decode(r, w) = IF memory[r.addr] >= Base \div 2 THEN memory[r.addr] - Base ELSE memory[r.addr]
      BY <1>2, <1>4 DEF Decode
    <2>2. Meaning(r) = CHOOSE v \in -(Base \div 2)..((Base \div 2) - 1) : v % Base = memory[r.addr]
      BY <1>4 DEF Meaning
    <2> QED BY <1>0, <1>1, <2>1, <2>2, Signed, Halves
  <1>5. CASE r.type \in {"u32", "u32_lo", "s32"}
    <2>1. w[1] = memory[r.addr + 1] /\ memory[r.addr + 1] \in 0..(Base - 1)
      <3>1. 1 \in 0..(Words(r) - 1)
        BY <1>5 DEF Words
      <3> QED BY <1>0, <3>1, Constants DEF TypeOK
    <2>2. w[1] % Base = memory[r.addr + 1]
      BY <1>0, <2>1, ModPlain
    <2> DEFINE two == memory[r.addr] * Base + memory[r.addr + 1]
               half == (Base * Base) \div 2
    <2>3. CASE r.type = "u32"  BY <1>2, <2>2, <2>3 DEF Decode, Meaning
    <2>4. CASE r.type = "u32_lo"  BY <2>2, <2>4 DEF Decode, Meaning
    <2>5. CASE r.type = "s32"
      <3>1. Decode(r, w) = IF two < half THEN two ELSE two - Base * Base
        BY <1>2, <2>2, <2>5 DEF Decode
      <3>2. Meaning(r) = CHOOSE v \in -half..(half - 1) : v % (Base * Base) = two
        BY <2>5 DEF Meaning
      <3>3. two \in 0..(Base * Base - 1)
        <4>1. \A x, y, b \in Nat : b > 0 /\ x <= b - 1 /\ y <= b - 1 => x * b <= (b - 1) * b
          OBVIOUS
        <4>2. memory[r.addr] * Base <= (Base - 1) * Base
          BY <1>0, <1>1, <4>1
        <4>3. (Base - 1) * Base = Base * Base - Base
          BY <1>0
        <4>4. memory[r.addr] * Base \in Nat /\ Base * Base \in Nat
          BY <1>0, <1>1
        <4> QED BY <1>0, <2>1, <4>2, <4>3, <4>4
      <3>4. half \in Nat /\ Base * Base \in Nat \ {0} /\ Base * Base = 2 * half
        BY Halves
      <3> HIDE DEF two, half
      <3>5. (CHOOSE v \in -half..(half - 1) : v % (Base * Base) = two)
              = IF two >= half THEN two - Base * Base ELSE two
        BY <3>3, <3>4, Signed
      <3>6. (two < half) = ~(two >= half)
        BY <3>3, <3>4
      <3> QED BY <3>1, <3>2, <3>5, <3>6
    <2> QED BY <1>5, <2>3, <2>4, <2>5
  <1> QED BY <1>3, <1>4, <1>5, RegisterFacts DEF Type

\* The numbers in the lists.
LEMMA ListFacts ==
  ASSUME TypeOK
  PROVE  /\ \A k \in DOMAIN batches : k \in Nat \ {0} /\ batches[k][1] \in Nat /\ batches[k][2] \in Nat
         /\ \A k \in DOMAIN results :
              k \in Nat \ {0} /\ results[k].start \in Nat /\ results[k].count \in Nat
         /\ \A k \in DOMAIN results : \A j \in 1..(k - 1) : j \in DOMAIN results /\ j # k
  <1>1. ASSUME NEW k \in DOMAIN batches
        PROVE  k \in Nat \ {0} /\ batches[k][1] \in Nat /\ batches[k][2] \in Nat
    <2>1. batches \in Seq(Nat \X Nat)
      BY DEF TypeOK
    <2>2. DOMAIN batches = 1 .. Len(batches) /\ Len(batches) \in Nat /\ batches[k] \in Nat \X Nat
      BY <2>1
    <2> QED BY <2>2
  <1>2. ASSUME NEW k \in DOMAIN results
        PROVE  k \in Nat \ {0} /\ results[k].start \in Nat /\ results[k].count \in Nat
    <2>1. results \in Seq(Readout)
      BY DEF TypeOK
    <2>2. DOMAIN results = 1 .. Len(results) /\ Len(results) \in Nat /\ results[k] \in Readout
      BY <2>1
    <2> QED BY <2>2 DEF Readout
  <1>3. ASSUME NEW k \in DOMAIN results, NEW j \in 1..(k - 1) PROVE j \in DOMAIN results /\ j # k
    <2>1. results \in Seq(Readout)
      BY DEF TypeOK
    <2>2. DOMAIN results = 1 .. Len(results) /\ Len(results) \in Nat
      BY <2>1
    <2> QED BY <2>2
  <1> QED BY <1>1, <1>2, <1>3

\* A block that brought one word of a register holds the register whole: the
\* plan cuts no register in two.
LEMMA WordBringsRegister ==
  ASSUME IInv, Planned, NEW r \in regs, NEW i \in DOMAIN results, NEW a \in Span(r),
         a - results[i].start \in 0..(results[i].count - 1)
  PROVE  Holds(results[i], r)
  <1>1. r.addr \in Nat /\ Words(r) \in {1, 2} /\ a \in r.addr .. (r.addr + Words(r) - 1)
    BY RegsAreRegisters, RegisterFacts DEF IInv
  <1>2. PICK j \in DOMAIN batches : results[i].start = batches[j][1] /\ results[i].count = batches[j][2]
    BY DEF IInv, ReadInv, IsAnswer, Block
  <1>3. PICK c \in DOMAIN batches : Covers(batches[c], r)
    BY DEF IInv, PlanInv, LoopInv
  <1>4. \A k \in DOMAIN batches : k \in Nat /\ batches[k][1] \in Nat /\ batches[k][2] \in Nat
    BY ListFacts DEF IInv
  <1>5. batches[j][1] <= a /\ a < Last(batches[j]) /\ batches[c][1] <= a /\ a < Last(batches[c])
    BY <1>1, <1>2, <1>3, <1>4 DEF Covers, Last
  <1>6. ~(j < c) /\ ~(c < j)
    <2>1. j < c => Last(batches[j]) <= batches[c][1]
      BY DEF IInv, PlanInv, ClosedInv
    <2>2. c < j => Last(batches[c]) <= batches[j][1]
      BY DEF IInv, PlanInv, ClosedInv
    <2> QED BY <1>1, <1>4, <1>5, <2>1, <2>2 DEF Last
  <1>7. j = c
    BY <1>4, <1>6
  <1> QED BY <1>2, <1>3, <1>7 DEF Holds, Covers, Last

\* No two blocks hold the same register.
LEMMA OneBlock ==
  ASSUME IInv, NEW r \in regs, NEW i \in DOMAIN results, NEW j \in DOMAIN results,
         Holds(results[i], r), Holds(results[j], r)
  PROVE  i = j
  <1>1. r.addr \in Nat /\ Words(r) \in {1, 2}
    BY RegsAreRegisters DEF IInv
  <1>2. \A k \in DOMAIN results : k \in Nat /\ results[k].start \in Nat /\ results[k].count \in Nat
    BY ListFacts DEF IInv
  <1>3. /\ i < j => results[i].start + results[i].count <= results[j].start
        /\ j < i => results[j].start + results[j].count <= results[i].start
    BY DEF IInv, ReadInv
  <1>4. ~(i < j) /\ ~(j < i)
    BY <1>1, <1>2, <1>3 DEF Holds
  <1> QED BY <1>2, <1>4

\* A register is decoded when all its words arrived, from the one block that
\* holds it, and then to what the controller holds.
LEMMA DecodedExact ==
  ASSUME IInv, Planned, NEW r \in regs
  PROVE  Decoded(r) = IF \A a \in Span(r) : Arrived(a) THEN {Meaning(r)} ELSE {}
  <1>1. /\ r \in Register /\ r.addr \in Nat /\ Words(r) \in {1, 2}
        /\ Span(r) = r.addr .. (r.addr + Words(r) - 1)
    BY RegsAreRegisters, RegisterFacts DEF IInv
  <1>2. \A k \in DOMAIN results : k \in Nat /\ results[k].start \in Nat /\ results[k].count \in Nat
    BY ListFacts DEF IInv
  <1> DEFINE Good(i) == Decides(i, r) /\ ~Failed(results[i], r)
  <1>3. ASSUME NEW i \in DOMAIN results, Good(i)
        PROVE  (\A a \in Span(r) : Arrived(a)) /\ Decode(r, Sliced(results[i], r)) = Meaning(r)
    <2>1. ASSUME NEW k \in 0..(Words(r) - 1)
          PROVE  (r.addr + k) - results[i].start \in (0..(results[i].count - 1)) \ results[i].failed
      <3>0. Holds(results[i], r) /\ k \in 0..(Words(r) - 1)
        BY <1>3 DEF Decides
      <3>1. r.addr - results[i].start + k \in 0..(results[i].count - 1)
        BY <1>1, <1>2, <3>0 DEF Holds
      <3>2. r.addr - results[i].start + k \notin results[i].failed
        BY <1>3 DEF Failed
      <3>3. r.addr - results[i].start + k = (r.addr + k) - results[i].start
        BY <1>1, <1>2
      <3> QED BY <3>1, <3>2, <3>3
    <2>2. ASSUME NEW a \in Span(r) PROVE Arrived(a)
      <3>1. PICK k \in 0..(Words(r) - 1) : a = r.addr + k
        <4>1. a - r.addr \in 0..(Words(r) - 1) /\ a = r.addr + (a - r.addr)
          BY <1>1
        <4> QED BY <4>1
      <3>2. a - results[i].start \in (0..(results[i].count - 1)) \ results[i].failed
        BY <2>1, <3>1
      <3> QED BY <3>2 DEF Arrived
    <2>3. ASSUME NEW k \in 0..(Words(r) - 1)
          PROVE  r.addr + k \in 0..Top /\ Sliced(results[i], r)[k] = memory[r.addr + k]
      <3>1. PICK d \in (0..(results[i].count - 1)) \ results[i].failed :
              d = (r.addr + k) - results[i].start
        BY <2>1
      <3>2. results[i].start + d = r.addr + k /\ r.addr - results[i].start + k = d
        BY <1>1, <1>2, <3>1
      <3>3. results[i].start + d \in 0..Top /\ results[i].words[d] = memory[results[i].start + d]
        BY <3>1, AnswerWords DEF IInv
      <3>4. Sliced(results[i], r)[k] = results[i].words[r.addr - results[i].start + k]
        BY DEF Sliced
      <3> QED BY <3>2, <3>3, <3>4
    <2> QED BY <1>1, <2>2, <2>3, DecodeIsMeaning DEF IInv
  <1>4. CASE \A a \in Span(r) : Arrived(a)
    <2>1. r.addr \in Span(r)
      BY <1>1
    <2>2. PICK i \in DOMAIN results :
            r.addr - results[i].start \in (0..(results[i].count - 1)) \ results[i].failed
      BY <1>4, <2>1 DEF Arrived
    <2>3. Holds(results[i], r)
      BY <2>1, <2>2, WordBringsRegister
    <2>4. Decides(i, r)
      <3>1. \A j \in 1..(i - 1) : j \in DOMAIN results /\ j # i
        BY ListFacts DEF IInv
      <3> QED BY <2>3, <3>1, OneBlock DEF Decides
    <2>5. ~Failed(results[i], r)
      <3> SUFFICES ASSUME NEW k \in 0..(Words(r) - 1), r.addr - results[i].start + k \in results[i].failed
                   PROVE  FALSE
        BY DEF Failed
      <3>1. r.addr + k \in Span(r)
        BY <1>1
      <3>2. PICK j \in DOMAIN results :
              (r.addr + k) - results[j].start \in (0..(results[j].count - 1)) \ results[j].failed
        BY <1>4, <3>1 DEF Arrived
      <3>3. Holds(results[j], r)
        BY <3>1, <3>2, WordBringsRegister
      <3>6. j = i
        BY <2>3, <3>3, OneBlock
      <3>4. r.addr - results[i].start + k = (r.addr + k) - results[i].start
        BY <1>1, <1>2
      <3> QED BY <3>2, <3>4, <3>6
    <2>6. \A j \in DOMAIN results : Good(j) => j = i
      BY <2>3, OneBlock DEF Decides
    <2>7. Good(i) /\ {j \in DOMAIN results : Good(j)} = {i}
      BY <2>4, <2>5, <2>6
    <2>8. Decoded(r) = {Decode(r, Sliced(results[i], r))}
      BY <2>7 DEF Decoded
    <2> QED BY <1>3, <1>4, <2>7, <2>8
  <1>5. CASE ~ \A a \in Span(r) : Arrived(a)
    <2>1. {j \in DOMAIN results : Good(j)} = {}
      BY <1>3, <1>5
    <2> QED BY <1>5, <2>1 DEF Decoded
  <1> QED BY <1>4, <1>5

\* What the poll published is what the blocks it read decode to.
DoneInv == pc = "done" => values = UNION {{r} \X Decoded(r) : r \in regs}

LEMMA DoneInductive == Spec => []DoneInv
  <1>1. Init => DoneInv
    BY DEF Init, DoneInv
  <1>2. DoneInv /\ [Next]_vars => DoneInv'
    <2> SUFFICES ASSUME DoneInv, [Next]_vars, pc' = "done"
                 PROVE  values' = UNION {{r} \X Decoded(r)' : r \in regs'}
      BY DEF DoneInv
    <2>1. CASE DecodeTier
      <3>1. values' = UNION {{r} \X Decoded(r) : r \in regs} /\ regs' = regs /\ results' = results
        BY <2>1 DEF DecodeTier, input
      <3> QED BY <3>1 DEF Decoded, Decides, Failed
    <2>2. CASE UNCHANGED vars
      <3>1. pc = "done" /\ values' = values /\ regs' = regs /\ results' = results
        BY <2>2 DEF vars, input, poll
      <3> QED BY <3>1 DEF DoneInv, Decoded, Decides, Failed
    <2>3. CASE Next /\ ~DecodeTier
      BY <2>3 DEF Next, Validate, BatchFirst, BatchExtend, BatchCut, BatchEnd, ReadBatch, PollAgain
    <2> QED BY <2>1, <2>2, <2>3
  <1> QED BY <1>1, <1>2, PTL DEF Spec

\* Whatever the layout of the map, whichever blocks and words fail and however
\* often the tier is polled: a register has a value exactly when all its words
\* arrived, and the value is the number the controller holds there.
THEOREM PollIsExact == Spec => []PollExact
  <1>1. IInv /\ DoneInv => PollExact
    <2> SUFFICES ASSUME IInv, DoneInv, pc = "done", NEW r \in regs
                 PROVE  {x \in values : x[1] = r} =
                          IF \A a \in Span(r) : Arrived(a) THEN {<<r, Meaning(r)>>} ELSE {}
      BY DEF PollExact
    <2>1. values = UNION {{q} \X Decoded(q) : q \in regs}
      BY DEF DoneInv
    <2>2. {x \in values : x[1] = r} = {r} \X Decoded(r)
      BY <2>1
    <2>3. Decoded(r) = IF \A a \in Span(r) : Arrived(a) THEN {Meaning(r)} ELSE {}
      BY DecodedExact DEF Planned
    <2> HIDE DEF Decoded, Arrived, Meaning, Span
    <2>4. CASE \A a \in Span(r) : Arrived(a)
      <3>1. Decoded(r) = {Meaning(r)}
        BY <2>3, <2>4
      <3> QED BY <2>2, <2>4, <3>1
    <2>5. CASE ~ \A a \in Span(r) : Arrived(a)
      <3>1. Decoded(r) = {}
        BY <2>3, <2>5
      <3> QED BY <2>2, <2>5, <3>1
    <2> QED BY <2>4, <2>5
  <1> QED BY <1>1, Inductive, DoneInductive, PTL

=============================================================================
