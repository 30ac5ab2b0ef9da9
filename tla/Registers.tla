----------------------------- MODULE Registers -----------------------------
(***************************************************************************)
(* From a register map to values (modbus/registers.py and the decoding half *)
(* of Poller._poll_tier): a map is validated, batch_reads plans the block   *)
(* reads of a tier, each block is read (or, when that fails, word by word), *)
(* and every register whose words arrived is cut out of its block and       *)
(* decoded.                                                                 *)
(*                                                                          *)
(* The loop of batch_reads is the state machine it is in the code.  Words   *)
(* have Base values (2^16 in the code).  Scaling is left out: it multiplies *)
(* the decoded number by a constant of the map.                             *)
(***************************************************************************)
EXTENDS Integers, FiniteSets, Sequences

CONSTANTS
  Base,       \* number of values of a word
  Top,        \* largest address a map may name, and a request may touch (0xFFFF)
  MaxWords,   \* max_words of batch_reads
  Gap,        \* GAP_TOLERANCE
  Maps,       \* the register maps somebody may load
  Memories    \* the contents of the controller: functions from 0..Top to words

Type == {"u16", "s16", "u32", "u32_lo", "s32"}
Register == [name : STRING, addr : Nat, type : Type]

ASSUME RegistersAssumption ==
  /\ Base \in Nat \ {0} /\ Base % 2 = 0 /\ Top \in Nat /\ MaxWords \in Nat /\ Gap \in Nat
  /\ \A m \in Maps : m \subseteq Register /\ IsFiniteSet(m)
  /\ Memories \subseteq [0..Top -> 0..(Base - 1)]

VARIABLES
  pc,        \* where the service is: load, plan, read, decode, done, refused
  regs,      \* the registers of the tier
  memory,    \* what the controller holds while the tier is polled
  todo,      \* batch_reads: the registers the loop has not reached
  start, end,\* batch_reads: the open batch
  batches,   \* batch_reads: the list it returns, as <<start, count>>
  at,        \* _poll_tier: the batch it reads next
  results,   \* _poll_tier: the blocks that were read, with the offsets that failed
  values     \* the values decoded by this poll, as <<register, value>>

vars == <<pc, regs, memory, todo, start, end, batches, at, results, values>>
input == <<regs, memory>>
plan == <<todo, start, end, batches>>
poll == <<at, results, values>>

\* A block as it was read: the words that failed read as 0.
Readout == [start : Nat, count : Nat, failed : SUBSET Nat,
            words : UNION {[0..(n - 1) -> 0..(Base - 1)] : n \in Nat}]

TypeOK ==
  /\ pc \in {"load", "plan", "read", "done", "refused"}
  /\ regs \in Maps /\ memory \in Memories /\ todo \subseteq regs
  /\ start \in Nat /\ end \in Nat /\ batches \in Seq(Nat \X Nat)
  /\ at \in Nat \ {0} /\ results \in Seq(Readout) /\ values \subseteq regs \X Int

Words(r) == IF r.type \in {"u32", "u32_lo", "s32"} THEN 2 ELSE 1
Span(r) == r.addr..(r.addr + Words(r) - 1)

\* validate_register_map, as far as a tier's addresses go.
Valid(m) ==
  /\ m # {}
  /\ \A r, q \in m : r # q => r.name # q.name /\ Span(r) \cap Span(q) = {}
  /\ \A r \in m : r.addr <= Top

Validate ==
  /\ pc = "load" /\ pc' = IF Valid(regs) THEN "plan" ELSE "refused"
  /\ todo' = regs
  /\ UNCHANGED <<input, start, end, batches, poll>>

-----------------------------------------------------------------------------
(* batch_reads.                                                             *)

\* sorted(regs, key=addr): the loop takes the lowest address first.
IsNext(r) == r \in todo /\ \A q \in todo : r.addr <= q.addr

\* Mutant: the limit is compared with the batch as it is.
ExtendsFull(r) == r.addr - end <= Gap /\ end - start <= MaxWords

\* Within the gap tolerance, and the block stays within max_words.
Extends(r) == r.addr - end <= Gap /\ r.addr + Words(r) - start <= MaxWords

OpenBatch(r) == start' = r.addr /\ end' = r.addr + Words(r)

BatchFirst(r) ==
  /\ pc = "plan" /\ todo = regs /\ IsNext(r)
  /\ todo' = todo \ {r} /\ OpenBatch(r)
  /\ UNCHANGED <<pc, input, batches, poll>>

\* new_end is max(end, ...): in a valid map no register ends before an earlier one.
BatchExtend(r) ==
  /\ pc = "plan" /\ todo # regs /\ IsNext(r) /\ Extends(r)
  /\ todo' = todo \ {r}
  /\ end' = (IF r.addr + Words(r) > end THEN r.addr + Words(r) ELSE end)
  /\ UNCHANGED <<pc, input, start, batches, poll>>

BatchCut(r) ==
  /\ pc = "plan" /\ todo # regs /\ IsNext(r) /\ ~Extends(r)
  /\ todo' = todo \ {r} /\ OpenBatch(r)
  /\ batches' = Append(batches, <<start, end - start>>)
  /\ UNCHANGED <<pc, input, poll>>

BatchEnd ==
  /\ pc = "plan" /\ todo = {} /\ pc' = "read" /\ at' = 1
  /\ batches' = Append(batches, <<start, end - start>>)
  /\ UNCHANGED <<input, todo, start, end, results, values>>

-----------------------------------------------------------------------------
(* _poll_tier.                                                              *)

\* The answer to a request: words from a in order, nothing beyond Top.
Block(a, n, failed) ==
  [start |-> a, count |-> n, failed |-> failed,
   words |-> [i \in 0..(n - 1) |-> IF i \in failed THEN 0 ELSE memory[a + i]]]
Unreadable(a, n) == {i \in 0..(n - 1) : a + i > Top}

\* A block is read whole, or word by word with any set of further failures, and
\* is left out when every single word failed too.
ReadBatch ==
  /\ pc = "read" /\ at <= Len(batches) /\ at' = at + 1
  /\ LET a == batches[at][1]
         n == batches[at][2]
     IN  \/ Unreadable(a, n) = {} /\ results' = Append(results, Block(a, n, {}))
         \/ \E failed \in SUBSET (0..(n - 1)) :
              /\ Unreadable(a, n) \subseteq failed
              /\ results' = IF failed = 0..(n - 1) THEN results
                            ELSE Append(results, Block(a, n, failed))
  /\ UNCHANGED <<pc, input, plan, values>>

\* decode_value on the words of a register, high word first.
Decode(r, w) ==
  CASE r.type = "u16" -> w[0] % Base
    [] r.type = "s16" -> IF w[0] % Base >= Base \div 2 THEN (w[0] % Base) - Base ELSE w[0] % Base
    [] r.type = "u32" -> (w[0] % Base) * Base + (w[1] % Base)
    [] r.type = "u32_lo" -> w[1] % Base
    [] r.type = "s32" ->
         LET u == (w[0] % Base) * Base + (w[1] % Base)
         IN  IF u < (Base * Base) \div 2 THEN u ELSE u - Base * Base

\* The block that decides about a register: the first one that contains it.
Holds(b, r) == b.start <= r.addr /\ b.start + b.count >= r.addr + Words(r)
Decides(i, r) == Holds(results[i], r) /\ \A j \in 1..(i - 1) : ~Holds(results[j], r)
Sliced(b, r) == [k \in 0..(Words(r) - 1) |-> b.words[r.addr - b.start + k]]

\* Mutant: only the first word of a register is looked up in failed_offsets.
FailedFirst(b, r) == r.addr - b.start \in b.failed

\* A word of the register failed even when it was read alone.
Failed(b, r) == \E k \in 0..(Words(r) - 1) : r.addr - b.start + k \in b.failed

\* The value of a register, if the block that decides about it has its words.
Decoded(r) ==
  {Decode(r, Sliced(results[i], r)) :
     i \in {i \in DOMAIN results : Decides(i, r) /\ ~Failed(results[i], r)}}

DecodeTier ==
  /\ pc = "read" /\ at > Len(batches) /\ pc' = "done"
  /\ values' = UNION {{r} \X Decoded(r) : r \in regs}
  /\ UNCHANGED <<input, plan, at, results>>

\* The tier is polled again, by the same plan, and the controller has moved on.
PollAgain(m) ==
  /\ pc = "done" /\ pc' = "read" /\ memory' = m /\ at' = 1 /\ results' = <<>> /\ values' = {}
  /\ UNCHANGED <<regs, plan>>

-----------------------------------------------------------------------------
Init ==
  /\ pc = "load" /\ regs \in Maps /\ memory \in Memories
  /\ todo = {} /\ start = 0 /\ end = 0 /\ batches = <<>>
  /\ at = 1 /\ results = <<>> /\ values = {}

Next ==
  \/ Validate
  \/ \E r \in todo : BatchFirst(r) \/ BatchExtend(r) \/ BatchCut(r)
  \/ BatchEnd \/ ReadBatch \/ DecodeTier
  \/ \E m \in Memories : PollAgain(m)

Spec == Init /\ [][Next]_vars

-----------------------------------------------------------------------------
(* Properties.                                                              *)

Last(b) == b[1] + b[2]
Covers(b, r) == b[1] <= r.addr /\ r.addr + Words(r) <= Last(b)

\* What batch_reads returns covers every register of the tier whole, asks for no
\* word twice, starts and ends every block at a register, and exceeds max_words
\* only where one register alone is longer (registers.py:497-523).
PlanExact ==
  pc \in {"read", "done"} =>
    /\ \A r \in regs : \E i \in DOMAIN batches : Covers(batches[i], r)
    /\ \A i, j \in DOMAIN batches : i < j => Last(batches[i]) <= batches[j][1]
    /\ \A i \in DOMAIN batches :
         \E r, q \in regs :
           /\ batches[i][1] = r.addr /\ Last(batches[i]) = q.addr + Words(q)
           /\ batches[i][2] <= MaxWords \/ r = q

\* What a register says of the controller: the number in the range of its type
\* that the words at its address represent, high word first.
Meaning(r) ==
  LET two == memory[r.addr] * Base + memory[r.addr + 1]
  IN  CASE r.type = "u16" -> memory[r.addr]
        [] r.type = "u32" -> two
        [] r.type = "u32_lo" -> memory[r.addr + 1]
        [] r.type = "s16" ->
             CHOOSE v \in -(Base \div 2)..((Base \div 2) - 1) : v % Base = memory[r.addr]
        [] r.type = "s32" ->
             LET half == (Base * Base) \div 2
             IN  CHOOSE v \in -half..(half - 1) : v % (Base * Base) = two

Arrived(a) ==
  \E i \in DOMAIN results :
    LET b == results[i] IN a - b.start \in (0..(b.count - 1)) \ b.failed

\* A poll gives a register a value exactly when all its words arrived, in a block
\* or one by one, and the value is what the controller holds at its address:
\* neither a neighbour's failure nor the layout of the blocks shifts, drops or
\* invents one (poller.py:307-344 with registers.py:451-523).
PollExact ==
  pc = "done" => \A r \in regs :
    {x \in values : x[1] = r} =
      IF \A a \in Span(r) : Arrived(a) THEN {<<r, Meaning(r)>>} ELSE {}
=============================================================================
