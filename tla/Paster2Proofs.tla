---------------------------- MODULE Paster2Proofs ----------------------------
(***************************************************************************)
(* Theorems about Paster2: its safety for any number of producers,         *)
(* consumers, slots, strips and faults.                                    *)
(*                                                                         *)
(* The three accounts of slots, tickets and tokens are inductive together: *)
(* the slots bound the stack, the tickets bound the work, and the tokens   *)
(* count the stack for as long as work is left.  LockHeld adds mutual      *)
(* exclusion for that time; after it the second unlock of an exiting       *)
(* consumer may break it, and the accounts say that then nobody pushes or  *)
(* pops any more, nor copies or counts a strip.  Each action moves a       *)
(* process from one label to another, so each lemma of an action is the    *)
(* bookkeeping of that move.                                               *)
(*                                                                         *)
(* The last part shows that every step lowers a bound on the steps that    *)
(* can follow: a sum over the processes, whose terms change one by one.    *)
(***************************************************************************)
EXTENDS Paster2, FiniteSetTheorems, SequenceTheorems, TLAPS

(* What one process contributes to a count. *)
Bit(b) == IF b THEN 1 ELSE 0

(* There are finitely many processes, so counting them makes sense. *)
LEMMA ProcsFinite == IsFiniteSet(Procs)
  BY ConstantsAssumption, FS_Union DEF Procs

(* Counts are natural numbers. *)
LEMMA CountAtNat ==
  ASSUME NEW f, NEW L
  PROVE  CountAt(f, L) \in Nat
<1>1. IsFiniteSet({q \in Procs : f[q] \in L})
  BY ProcsFinite, FS_Subset
<1> QED
  BY <1>1, FS_CardinalityType DEF CountAt

(* Moving one process from a label to another changes the number of        *)
(* processes at the labels L by what that process contributes.             *)
LEMMA CountAtMove ==
  ASSUME NEW f \in [Procs -> Labels], NEW q \in Procs, NEW l, NEW L
  PROVE  CountAt([f EXCEPT ![q] = l], L)
           = CountAt(f, L) + Bit(l \in L) - Bit(f[q] \in L)
<1> DEFINE Before == {r \in Procs : f[r] \in L}
           After  == {r \in Procs : [f EXCEPT ![q] = l][r] \in L}
<1>1. /\ IsFiniteSet(Before)
      /\ Cardinality(Before) \in Nat
  BY ProcsFinite, FS_Subset, FS_CardinalityType
<1>2. /\ CountAt(f, L) = Cardinality(Before)
      /\ CountAt([f EXCEPT ![q] = l], L) = Cardinality(After)
  BY DEF CountAt
<1> HIDE DEF Before, After
<1>3. CASE l \in L /\ f[q] \notin L
  <2>1. After = Before \cup {q} /\ q \notin Before
    BY <1>3 DEF Before, After
  <2>2. Cardinality(After) = Cardinality(Before) + 1
    BY <1>1, <2>1, FS_AddElement
  <2> QED BY <1>1, <1>2, <1>3, <2>2 DEF Bit
<1>4. CASE l \notin L /\ f[q] \in L
  <2>1. After = Before \ {q} /\ q \in Before
    BY <1>4 DEF Before, After
  <2>2. Cardinality(After) = Cardinality(Before) - 1
    BY <1>1, <2>1, FS_RemoveElement
  <2> QED BY <1>1, <1>2, <1>4, <2>2 DEF Bit
<1>5. CASE l \in L <=> f[q] \in L
  <2>1. After = Before
    BY <1>5 DEF Before, After
  <2> QED BY <1>1, <1>2, <1>5, <2>1 DEF Bit
<1> QED BY <1>3, <1>4, <1>5

(* The effect of Goto on the count of any label set. *)
LEMMA GotoCounts ==
  ASSUME TypeOK, NEW q \in Procs, NEW from, NEW to, Goto(q, from, to), NEW L
  PROVE  /\ pc[q] = from
         /\ CountAt(pc, L)' = CountAt(pc, L) + Bit(to \in L) - Bit(from \in L)
         /\ CountAt(pc, L) \in Nat
<1>1. CountAt(pc, L)' = CountAt(pc', L)
  BY DEF CountAt
<1>2. pc[q] = from /\ pc' = [pc EXCEPT ![q] = to]
  BY DEF Goto
<1>3. pc \in [Procs -> Labels]
  BY DEF TypeOK
<1>4. CountAt(pc', L) = CountAt(pc, L) + Bit(to \in L) - Bit(pc[q] \in L)
  BY <1>2, <1>3, CountAtMove
<1> QED BY <1>1, <1>2, <1>4, CountAtNat

-----------------------------------------------------------------------------

(* Until everything is processed the lock is held by whoever is in the     *)
(* critical section.                                                       *)
LockHeld ==
  ~AllProcessed => \A q \in Procs : pc[q] \in Critical => ring_buffer_mutex = q

(* The inductive invariant. *)
IInv ==
  /\ TypeOK
  /\ SlotsAccounted
  /\ TicketsAccounted
  /\ TokensAccounted
  /\ PushPopNeverFail
  /\ LockHeld

(* Where a strip, a slot or a token is held, there is one to be counted. *)
LEMMA CountAtSome ==
  ASSUME NEW f, NEW L, NEW q \in Procs, f[q] \in L
  PROVE  CountAt(f, L) \in Nat \ {0}
<1>1. IsFiniteSet({r \in Procs : f[r] \in L})
  BY ProcsFinite, FS_Subset
<1>2. {r \in Procs : f[r] \in L} # {}
  OBVIOUS
<1> QED
  BY <1>1, <1>2, FS_CardinalityType, FS_EmptySet DEF CountAt

(* push on a stack that is not full succeeds. *)
LEMMA PushFits ==
  ASSUME NEW S, NEW ring \in Seq(S), NEW size, ~IsFull(ring, size), NEW item \in S
  PROVE  /\ Push(ring, size, item) \in Seq(S)
         /\ Len(Push(ring, size, item)) = Len(ring) + 1
         /\ PushRet(ring, size) = Ok
  BY DEF Push, PushRet

(* pop on a stack that is not empty succeeds. *)
LEMMA PopFinds ==
  ASSUME NEW S, NEW ring \in Seq(S), ~IsEmpty(ring)
  PROVE  /\ Pop(ring) \in Seq(S)
         /\ Len(Pop(ring)) = Len(ring) - 1
         /\ Top(ring) \in S
         /\ PopRet(ring) = Ok
<1>1. Len(ring) \in Nat /\ Len(ring) >= 1
  <2>1. Len(ring) \in Nat \ {0}
    BY EmptySeq DEF IsEmpty, EmptyRing
  <2> QED BY <2>1
<1>2. Pop(ring) = SubSeq(ring, 1, Len(ring) - 1)
  BY DEF Pop
<1>3. Pop(ring) \in Seq(S) /\ Len(Pop(ring)) = Len(ring) - 1
  <2>1. \A i \in 1 .. Len(ring) - 1 : ring[i] \in S
    BY <1>1, ElementOfSeq
  <2>2. 1 \in Int /\ Len(ring) - 1 \in Int
    BY <1>1
  <2>3. /\ SubSeq(ring, 1, Len(ring) - 1) \in Seq(S)
        /\ Len(SubSeq(ring, 1, Len(ring) - 1))
             = IF 1 <= Len(ring) - 1 THEN Len(ring) - 1 - 1 + 1 ELSE 0
    BY <2>1, <2>2, SubSeqProperties
  <2>4. /\ Pop(ring) \in Seq(S)
        /\ Len(Pop(ring)) = IF 1 <= Len(ring) - 1 THEN Len(ring) - 1 - 1 + 1 ELSE 0
    BY <1>2, <2>3, Zenon
  <2> QED BY <1>1, <2>4
<1>4. Top(ring) \in S
  BY <1>1, ElementOfSeq DEF Top
<1> QED BY <1>3, <1>4 DEF PopRet

(* The quantities of the accounts are numbers. *)
LEMMA Numbers ==
  ASSUME IInv
  PROVE  /\ Len(ring_buffer) \in Nat
         /\ buf_spaces_avail \in Nat /\ buf_spaces_occ \in Nat
         /\ next_strip_to_fetch \in Int /\ strips_processed_count \in Nat
         /\ failed["transfer"] \in Nat /\ failed["decode"] \in Nat
         /\ CountAt(pc, SlotHeld) \in Nat /\ CountAt(pc, StripHeld) \in Nat
         /\ CountAt(pc, TokenHeld) \in Nat /\ CountAt(pc, Bowed) \in Nat
         /\ BufSize \in Nat /\ BufSize >= 1 /\ NumStrips \in Nat /\ NumStrips >= 1
<1>1. TypeOK
  BY DEF IInv
<1>2. Len(ring_buffer) \in Nat
  BY <1>1, LenProperties DEF TypeOK
<1>3. failed["transfer"] \in Nat /\ failed["decode"] \in Nat
  BY <1>1 DEF TypeOK, FaultKinds
<1> QED BY <1>1, <1>2, <1>3, CountAtNat, ConstantsAssumption DEF TypeOK

(* Those that Work adds up. *)
LEMMA WorkNumbers ==
  ASSUME IInv
  PROVE  /\ CountAt(pc, StripHeld) \in Nat /\ Len(ring_buffer) \in Nat
         /\ strips_processed_count \in Nat /\ failed["decode"] \in Nat
  BY Numbers

(* Those of the slots. *)
LEMMA SlotNumbers ==
  ASSUME IInv
  PROVE  /\ buf_spaces_avail \in Nat /\ CountAt(pc, SlotHeld) \in Nat
         /\ Len(ring_buffer) \in Nat /\ failed["transfer"] \in Nat
  BY Numbers

(* Those of the tickets. *)
LEMMA TicketNumbers ==
  ASSUME IInv
  PROVE  /\ Work \in Nat /\ CountAt(pc, Bowed) \in Nat
         /\ next_strip_to_fetch \in Int /\ NumStrips \in Nat
  BY Numbers DEF Work

(* What the accounting says of a single process. *)
LEMMA Outstanding ==
  ASSUME IInv, NEW q \in Procs
  PROVE  /\ pc[q] \in StripHeld => ~AllProcessed
         /\ pc[q] = "p_push" => ~IsFull(ring_buffer, BufSize)
         /\ pc[q] = "c_pop" => ~IsEmpty(ring_buffer)
         /\ pc[q] = "c_check" /\ IsEmpty(ring_buffer) => AllProcessed
         /\ AllProcessed => IsEmpty(ring_buffer)
         /\ next_strip_to_fetch >= 0
<1> USE Numbers
<1>1. ASSUME pc[q] \in StripHeld PROVE ~AllProcessed
  <2>1. CountAt(pc, StripHeld) \in Nat \ {0}
    BY <1>1, CountAtSome
  <2> QED BY <2>1 DEF IInv, TicketsAccounted, Work, AllProcessed
<1>2. ASSUME pc[q] = "p_push" PROVE ~IsFull(ring_buffer, BufSize)
  <2>1. pc[q] \in SlotHeld
    BY <1>2 DEF SlotHeld
  <2>2. CountAt(pc, SlotHeld) \in Nat \ {0}
    BY <2>1, CountAtSome
  <2> QED BY <2>2 DEF IInv, SlotsAccounted, IsFull
<1>3. ASSUME pc[q] \in {"c_check", "c_pop"}, ~AllProcessed PROVE ~IsEmpty(ring_buffer)
  <2>1. pc[q] \in TokenHeld
    BY <1>3 DEF TokenHeld
  <2>2. CountAt(pc, TokenHeld) \in Nat \ {0}
    BY <2>1, CountAtSome
  <2>3. Len(ring_buffer) # 0
    BY <1>3, <2>2 DEF IInv, TokensAccounted
  <2> QED BY <2>3, EmptySeq DEF IsEmpty, EmptyRing
<1>4. pc[q] = "c_pop" => ~AllProcessed
  BY DEF IInv, TokensAccounted
<1>5. ASSUME AllProcessed PROVE IsEmpty(ring_buffer)
  <2>1. Len(ring_buffer) = 0
    BY <1>5 DEF IInv, TicketsAccounted, Work, AllProcessed
  <2> QED BY <2>1, EmptySeq DEF IInv, TypeOK, IsEmpty, EmptyRing
<1>6. next_strip_to_fetch >= 0
  BY DEF IInv, TicketsAccounted, Work
<1> QED BY <1>1, <1>2, <1>3, <1>4, <1>5, <1>6

-----------------------------------------------------------------------------
(* One lemma per action: it preserves the inductive invariant. *)

(* What a move from one label to another adds to the count of a label set. *)
Delta(L, from, to) == Bit(to \in L) - Bit(from \in L)

(* The effect of Goto on the four label sets of the accounts. *)
LEMMA MoveCounts ==
  ASSUME TypeOK, NEW q \in Procs, NEW from, NEW to, Goto(q, from, to)
  PROVE  /\ CountAt(pc, SlotHeld)' = CountAt(pc, SlotHeld) + Delta(SlotHeld, from, to)
         /\ CountAt(pc, StripHeld)' = CountAt(pc, StripHeld) + Delta(StripHeld, from, to)
         /\ CountAt(pc, TokenHeld)' = CountAt(pc, TokenHeld) + Delta(TokenHeld, from, to)
         /\ CountAt(pc, Bowed)' = CountAt(pc, Bowed) + Delta(Bowed, from, to)
<1> USE DEF Delta, Bit
<1>1. CountAt(pc, SlotHeld)' = CountAt(pc, SlotHeld) + Delta(SlotHeld, from, to)
  BY GotoCounts
<1>2. CountAt(pc, StripHeld)' = CountAt(pc, StripHeld) + Delta(StripHeld, from, to)
  BY GotoCounts
<1>3. CountAt(pc, TokenHeld)' = CountAt(pc, TokenHeld) + Delta(TokenHeld, from, to)
  BY GotoCounts
<1>4. CountAt(pc, Bowed)' = CountAt(pc, Bowed) + Delta(Bowed, from, to)
  BY GotoCounts
<1> QED BY <1>1, <1>2, <1>3, <1>4

(* Membership in the four label sets, spelt out for the provers. *)
LEMMA LabelSets ==
  \A l : /\ l \in SlotHeld <=> \/ l = "p_ticket" \/ l = "p_bow" \/ l = "p_fetch" \/ l = "p_lock"
                               \/ l = "p_push" \/ l = "c_unlock" \/ l = "c_slot"
         /\ l \in StripHeld <=> \/ l = "p_fetch" \/ l = "p_lock" \/ l = "p_push" \/ l = "c_unlock"
                                \/ l = "c_slot" \/ l = "c_place" \/ l = "c_count"
         /\ l \in TokenHeld <=> \/ l = "p_unlock" \/ l = "p_post" \/ l = "c_lock" \/ l = "c_check"
                                \/ l = "c_unlock_empty" \/ l = "c_repost" \/ l = "c_pop"
         /\ l \in Bowed <=> l = "p_bow" \/ l = "p_exited"
  BY DEF SlotHeld, StripHeld, TokenHeld, Bowed

(* A strip that is on its way to a pop that has a strip to find keeps the  *)
(* strip that a consumer is about to count from being the last one.        *)
LEMMA CountedLater ==
  ASSUME IInv, NEW c \in Procs, pc[c] = "c_count",
         NEW r \in Procs, pc[r] \in {"p_unlock", "p_post", "c_pop"}
  PROVE  strips_processed_count + 1 < NumStrips
<1>1. ~AllProcessed
  BY DEF IInv, TokensAccounted
<1>2. CountAt(pc, TokenHeld) \in Nat \ {0}
  <2>1. pc[r] \in TokenHeld
    BY DEF TokenHeld
  <2> QED BY <2>1, CountAtSome
<1>3. CountAt(pc, StripHeld) \in Nat \ {0}
  <2>1. pc[c] \in StripHeld
    BY DEF StripHeld
  <2> QED BY <2>1, CountAtSome
<1>4. Len(ring_buffer) >= 1
  BY <1>1, <1>2, Numbers DEF IInv, TokensAccounted
<1> QED BY <1>3, <1>4, Numbers DEF IInv, TicketsAccounted, Work

(* The end of an iteration keeps the types of the locals. *)
LEMMA EndIterationTyped ==
  ASSUME TypeOK, NEW q \in Procs, EndIteration(q)
  PROVE  /\ strip' \in [Procs -> Strips \cup {-1}]
         /\ \A r \in Procs \ {q} : strip'[r] = strip[r]
         /\ ret' \in [Procs -> {Ok, Failed}]
         /\ wakeups' \in [Procs -> Nat]
  BY DEF TypeOK, EndIteration, Ok, Failed

(* Goto keeps the type of pc. *)
LEMMA GotoTyped ==
  ASSUME TypeOK, NEW q \in Procs, NEW from, NEW to, Goto(q, from, to), to \in Labels
  PROVE  pc' \in [Procs -> Labels]
  BY DEF TypeOK, Goto

(* A slot moves from the semaphore to a producer. *)
LEMMA PWaitStep ==
  ASSUME IInv, NEW p \in Producers, PWait(p)
  PROVE  IInv'
<1>1. Goto(p, "p_wait", "p_ticket") /\ p \in Procs /\ TypeOK
  BY DEF PWait, Procs, IInv
<1>2. /\ Delta(SlotHeld, "p_wait", "p_ticket") = 1
      /\ Delta(StripHeld, "p_wait", "p_ticket") = 0
      /\ Delta(TokenHeld, "p_wait", "p_ticket") = 0
      /\ Delta(Bowed, "p_wait", "p_ticket") = 0
  BY LabelSets DEF Delta, Bit
<1>3. /\ CountAt(pc, SlotHeld)' = CountAt(pc, SlotHeld) + 1
      /\ CountAt(pc, StripHeld)' = CountAt(pc, StripHeld)
      /\ CountAt(pc, TokenHeld)' = CountAt(pc, TokenHeld)
      /\ CountAt(pc, Bowed)' = CountAt(pc, Bowed)
  BY <1>1, <1>2, MoveCounts, Numbers
<1>4. TypeOK'
  BY <1>1, GotoTyped
  DEF PWait, TypeOK, Goto, sems, counters, locals, parent, Labels, ProducerLabels,
      ConsumerLabels, StripHeld
<1>5. SlotsAccounted'
  BY <1>1, <1>3, Numbers
  DEF PWait, IInv, SlotsAccounted, sems, counters, locals, parent
<1>6. TicketsAccounted'
  BY <1>1, <1>3, Numbers
  DEF PWait, IInv, TicketsAccounted, Work, sems, counters, locals, parent
<1>7. TokensAccounted'
  BY <1>1, <1>3, Numbers
  DEF PWait, IInv, TokensAccounted, AllProcessed, Ending, Goto, TypeOK, sems,
      counters, locals, parent
<1>8. PushPopNeverFail' /\ LockHeld'
  BY <1>1, ConstantsAssumption
  DEF PWait, IInv, TypeOK, PushPopNeverFail, LockHeld, AllProcessed, Critical, Goto,
      sems, counters, locals, parent
<1> QED BY <1>4, <1>5, <1>6, <1>7, <1>8 DEF IInv

(* A ticket becomes work, or its producer bows out. *)
LEMMA PTicketStep ==
  ASSUME IInv, NEW p \in Producers, PTicket(p)
  PROVE  IInv'
<1>1. CASE NoTicketLeft(next_strip_to_fetch)
  <2>1. Goto(p, "p_ticket", "p_bow") /\ p \in Procs /\ TypeOK
    BY <1>1 DEF PTicket, Procs, IInv
  <2>2. /\ Delta(SlotHeld, "p_ticket", "p_bow") = 0
        /\ Delta(StripHeld, "p_ticket", "p_bow") = 0
        /\ Delta(TokenHeld, "p_ticket", "p_bow") = 0
        /\ Delta(Bowed, "p_ticket", "p_bow") = 1
    BY LabelSets DEF Delta, Bit
  <2>3. /\ CountAt(pc, SlotHeld)' = CountAt(pc, SlotHeld)
        /\ CountAt(pc, StripHeld)' = CountAt(pc, StripHeld)
        /\ CountAt(pc, TokenHeld)' = CountAt(pc, TokenHeld)
        /\ CountAt(pc, Bowed)' = CountAt(pc, Bowed) + 1
    BY <2>1, <2>2, MoveCounts, Numbers
  <2>4. TypeOK'
    BY <1>1, <2>1, GotoTyped
    DEF PTicket, TypeOK, Goto, sems, counters, locals, parent, Labels, ProducerLabels,
        ConsumerLabels, StripHeld
  <2>5. /\ buf_spaces_avail' = buf_spaces_avail /\ buf_spaces_occ' = buf_spaces_occ
        /\ next_strip_to_fetch' = next_strip_to_fetch + 1
        /\ strips_processed_count' = strips_processed_count
        /\ Len(ring_buffer)' = Len(ring_buffer)
        /\ failed["transfer"]' = failed["transfer"]
        /\ failed["decode"]' = failed["decode"]
    BY <1>1, <2>1
    DEF PTicket, sems, counters, locals, parent
  <2>6. SlotsAccounted'
    BY <2>5, <2>3, SlotNumbers DEF IInv, SlotsAccounted
  <2>7. Work' = Work
    BY <2>5, <2>3, WorkNumbers DEF Work
  <2>8. TicketsAccounted'
    BY <2>5, <2>3, <2>7, TicketNumbers
    DEF IInv, TicketsAccounted
  <2>9. ~AllProcessed' => buf_spaces_occ' + CountAt(pc, TokenHeld)' = Len(ring_buffer)'
    BY <2>5, <2>3, Numbers DEF IInv, TokensAccounted, AllProcessed
  <2>10. TokensAccounted'
    BY <1>1, <2>1, <2>5, <2>9, Numbers
    DEF IInv, TokensAccounted, AllProcessed, Ending, Goto, TypeOK
  <2>11. PushPopNeverFail' /\ LockHeld'
    BY <1>1, <2>1, ConstantsAssumption
    DEF PTicket, IInv, TypeOK, PushPopNeverFail, LockHeld, AllProcessed, Critical,
        Goto, sems, counters, locals, parent
  <2> QED BY <2>4, <2>6, <2>8, <2>10, <2>11 DEF IInv
<1>2. CASE ~NoTicketLeft(next_strip_to_fetch)
  <2>1. Goto(p, "p_ticket", "p_fetch") /\ p \in Procs /\ TypeOK
    BY <1>2 DEF PTicket, Procs, IInv
  <2>2. next_strip_to_fetch \in Strips
    BY <1>2, <2>1, Numbers, Outstanding DEF NoTicketLeft, Strips
  <2>3. Work < NumStrips
    BY <1>2, <2>1, <2>2, TicketNumbers DEF IInv, TicketsAccounted, Strips
  <2>4. /\ Delta(SlotHeld, "p_ticket", "p_fetch") = 0
        /\ Delta(StripHeld, "p_ticket", "p_fetch") = 1
        /\ Delta(TokenHeld, "p_ticket", "p_fetch") = 0
        /\ Delta(Bowed, "p_ticket", "p_fetch") = 0
    BY LabelSets DEF Delta, Bit
  <2>5. /\ CountAt(pc, SlotHeld)' = CountAt(pc, SlotHeld)
        /\ CountAt(pc, StripHeld)' = CountAt(pc, StripHeld) + 1
        /\ CountAt(pc, TokenHeld)' = CountAt(pc, TokenHeld)
        /\ CountAt(pc, Bowed)' = CountAt(pc, Bowed)
    BY <2>1, <2>4, MoveCounts, Numbers
  <2>6. TypeOK'
    BY <1>2, <2>1, <2>2, <2>3, GotoTyped
    DEF PTicket, TypeOK, Goto, sems, counters, locals, parent, Labels, ProducerLabels,
        ConsumerLabels, StripHeld
  <2>7. /\ buf_spaces_avail' = buf_spaces_avail /\ buf_spaces_occ' = buf_spaces_occ
        /\ next_strip_to_fetch' = next_strip_to_fetch + 1
        /\ strips_processed_count' = strips_processed_count
        /\ Len(ring_buffer)' = Len(ring_buffer)
        /\ failed["transfer"]' = failed["transfer"]
        /\ failed["decode"]' = failed["decode"]
    BY <1>2, <2>1, <2>2, <2>3
    DEF PTicket, sems, counters, locals, parent
  <2>8. SlotsAccounted'
    BY <2>7, <2>5, SlotNumbers DEF IInv, SlotsAccounted
  <2>9. Work' = Work + 1
    BY <2>7, <2>5, WorkNumbers DEF Work
  <2>10. TicketsAccounted'
    BY <2>3, <2>7, <2>5, <2>9, TicketNumbers
    DEF IInv, TicketsAccounted
  <2>11. ~AllProcessed' => buf_spaces_occ' + CountAt(pc, TokenHeld)' = Len(ring_buffer)'
    BY <2>7, <2>5, Numbers DEF IInv, TokensAccounted, AllProcessed
  <2>12. TokensAccounted'
    BY <1>2, <2>1, <2>2, <2>3, <2>7, <2>11, Numbers
    DEF IInv, TokensAccounted, AllProcessed, Ending, Goto, TypeOK
  <2>13. PushPopNeverFail' /\ LockHeld'
    BY <1>2, <2>1, <2>2, <2>3, ConstantsAssumption
    DEF PTicket, IInv, TypeOK, PushPopNeverFail, LockHeld, AllProcessed, Critical,
        Goto, sems, counters, locals, parent
  <2> QED BY <2>6, <2>8, <2>10, <2>12, <2>13 DEF IInv
<1> QED BY <1>1, <1>2

(* The slot goes back to the semaphore. *)
LEMMA PBowStep ==
  ASSUME IInv, NEW p \in Producers, PBow(p)
  PROVE  IInv'
<1>1. Goto(p, "p_bow", "p_exited") /\ p \in Procs /\ TypeOK
  BY DEF PBow, Procs, IInv
<1>2. /\ Delta(SlotHeld, "p_bow", "p_exited") = -1
      /\ Delta(StripHeld, "p_bow", "p_exited") = 0
      /\ Delta(TokenHeld, "p_bow", "p_exited") = 0
      /\ Delta(Bowed, "p_bow", "p_exited") = 0
  BY LabelSets DEF Delta, Bit
<1>3. /\ CountAt(pc, SlotHeld)' = CountAt(pc, SlotHeld) - 1
      /\ CountAt(pc, StripHeld)' = CountAt(pc, StripHeld)
      /\ CountAt(pc, TokenHeld)' = CountAt(pc, TokenHeld)
      /\ CountAt(pc, Bowed)' = CountAt(pc, Bowed)
  BY <1>1, <1>2, MoveCounts, Numbers
<1>4. TypeOK'
  BY <1>1, GotoTyped
  DEF PBow, TypeOK, Goto, sems, counters, locals, parent, Labels, ProducerLabels,
      ConsumerLabels, StripHeld
<1>5. SlotsAccounted'
  BY <1>1, <1>3, Numbers
  DEF PBow, IInv, SlotsAccounted, sems, counters, locals, parent
<1>6. TicketsAccounted'
  BY <1>1, <1>3, Numbers
  DEF PBow, IInv, TicketsAccounted, Work, sems, counters, locals, parent
<1>7. TokensAccounted'
  BY <1>1, <1>3, Numbers
  DEF PBow, IInv, TokensAccounted, AllProcessed, Ending, Goto, TypeOK, sems, counters,
      locals, parent
<1>8. PushPopNeverFail' /\ LockHeld'
  BY <1>1, ConstantsAssumption
  DEF PBow, IInv, TypeOK, PushPopNeverFail, LockHeld, AllProcessed, Critical, Goto,
      sems, counters, locals, parent
<1> QED BY <1>4, <1>5, <1>6, <1>7, <1>8 DEF IInv

(* The account is not touched. *)
LEMMA PFetchedStep ==
  ASSUME IInv, NEW p \in Producers, PFetched(p)
  PROVE  IInv'
<1>1. Goto(p, "p_fetch", "p_lock") /\ p \in Procs /\ TypeOK
  BY DEF PFetched, Procs, IInv
<1>2. /\ Delta(SlotHeld, "p_fetch", "p_lock") = 0
      /\ Delta(StripHeld, "p_fetch", "p_lock") = 0
      /\ Delta(TokenHeld, "p_fetch", "p_lock") = 0
      /\ Delta(Bowed, "p_fetch", "p_lock") = 0
  BY LabelSets DEF Delta, Bit
<1>3. /\ CountAt(pc, SlotHeld)' = CountAt(pc, SlotHeld)
      /\ CountAt(pc, StripHeld)' = CountAt(pc, StripHeld)
      /\ CountAt(pc, TokenHeld)' = CountAt(pc, TokenHeld)
      /\ CountAt(pc, Bowed)' = CountAt(pc, Bowed)
  BY <1>1, <1>2, MoveCounts, Numbers
<1>4. TypeOK'
  BY <1>1, GotoTyped
  DEF PFetched, TypeOK, Goto, sems, counters, locals, parent, Labels, ProducerLabels,
      ConsumerLabels, StripHeld
<1>5. SlotsAccounted'
  BY <1>1, <1>3, Numbers
  DEF PFetched, IInv, SlotsAccounted, sems, counters, locals, parent
<1>6. TicketsAccounted'
  BY <1>1, <1>3, Numbers
  DEF PFetched, IInv, TicketsAccounted, Work, sems, counters, locals, parent
<1>7. TokensAccounted'
  BY <1>1, <1>3, Numbers
  DEF PFetched, IInv, TokensAccounted, AllProcessed, Ending, Goto, TypeOK, sems,
      counters, locals, parent
<1>8. PushPopNeverFail' /\ LockHeld'
  BY <1>1, ConstantsAssumption
  DEF PFetched, IInv, TypeOK, PushPopNeverFail, LockHeld, AllProcessed, Critical,
      Goto, sems, counters, locals, parent
<1> QED BY <1>4, <1>5, <1>6, <1>7, <1>8 DEF IInv

(* The ticket goes back, the slot is leaked: a failure is counted for it. *)
LEMMA PFetchFailsStep ==
  ASSUME IInv, NEW p \in Producers, PFetchFails(p)
  PROVE  IInv'
<1>1. Goto(p, "p_fetch", "p_wait") /\ p \in Procs /\ TypeOK
  BY DEF PFetchFails, Procs, IInv
<1>2. /\ failed["transfer"]' = failed["transfer"] + 1
      /\ failed["decode"]' = failed["decode"]
      /\ failed' \in [FaultKinds -> Nat]
  BY <1>1 DEF PFetchFails, Inject, TypeOK, FaultKinds
<1>3. /\ Delta(SlotHeld, "p_fetch", "p_wait") = -1
      /\ Delta(StripHeld, "p_fetch", "p_wait") = -1
      /\ Delta(TokenHeld, "p_fetch", "p_wait") = 0
      /\ Delta(Bowed, "p_fetch", "p_wait") = 0
  BY LabelSets DEF Delta, Bit
<1>4. /\ CountAt(pc, SlotHeld)' = CountAt(pc, SlotHeld) - 1
      /\ CountAt(pc, StripHeld)' = CountAt(pc, StripHeld) - 1
      /\ CountAt(pc, TokenHeld)' = CountAt(pc, TokenHeld)
      /\ CountAt(pc, Bowed)' = CountAt(pc, Bowed)
  BY <1>1, <1>3, MoveCounts, Numbers
<1>5. TypeOK'
  BY <1>1, <1>2, GotoTyped, EndIterationTyped
  DEF PFetchFails, TypeOK, Goto, sems, counters, locals, parent, Labels,
      ProducerLabels, ConsumerLabels, StripHeld
<1>6. /\ buf_spaces_avail' = buf_spaces_avail /\ buf_spaces_occ' = buf_spaces_occ
      /\ next_strip_to_fetch' = next_strip_to_fetch - 1
      /\ strips_processed_count' = strips_processed_count
      /\ Len(ring_buffer)' = Len(ring_buffer)
      /\ failed["transfer"]' = failed["transfer"] + 1
      /\ failed["decode"]' = failed["decode"]
  BY <1>1, <1>2
  DEF PFetchFails, sems, counters, locals, parent
<1>7. SlotsAccounted'
  BY <1>6, <1>4, SlotNumbers DEF IInv, SlotsAccounted
<1>8. Work' = Work - 1
  BY <1>6, <1>4, WorkNumbers DEF Work
<1>9. TicketsAccounted'
  BY <1>6, <1>4, <1>8, TicketNumbers
  DEF IInv, TicketsAccounted
<1>10. ~AllProcessed' => buf_spaces_occ' + CountAt(pc, TokenHeld)' = Len(ring_buffer)'
  BY <1>6, <1>4, Numbers DEF IInv, TokensAccounted, AllProcessed
<1>11. TokensAccounted'
  BY <1>1, <1>2, <1>6, <1>10, Numbers
  DEF IInv, TokensAccounted, AllProcessed, Ending, Goto, TypeOK
<1>12. PushPopNeverFail' /\ LockHeld'
  BY <1>1, <1>2, ConstantsAssumption
  DEF PFetchFails, IInv, TypeOK, PushPopNeverFail, LockHeld, AllProcessed, Critical,
      Goto, sems, counters, locals, parent, EndIteration, Ok
<1> QED BY <1>5, <1>7, <1>9, <1>11, <1>12 DEF IInv

(* The lock was free, so nobody is in the critical section. *)
LEMMA PLockStep ==
  ASSUME IInv, NEW p \in Producers, PLock(p)
  PROVE  IInv'
<1>1. Goto(p, "p_lock", "p_push") /\ p \in Procs /\ TypeOK
  BY DEF PLock, Procs, IInv
<1>2. /\ Delta(SlotHeld, "p_lock", "p_push") = 0
      /\ Delta(StripHeld, "p_lock", "p_push") = 0
      /\ Delta(TokenHeld, "p_lock", "p_push") = 0
      /\ Delta(Bowed, "p_lock", "p_push") = 0
  BY LabelSets DEF Delta, Bit
<1>3. /\ CountAt(pc, SlotHeld)' = CountAt(pc, SlotHeld)
      /\ CountAt(pc, StripHeld)' = CountAt(pc, StripHeld)
      /\ CountAt(pc, TokenHeld)' = CountAt(pc, TokenHeld)
      /\ CountAt(pc, Bowed)' = CountAt(pc, Bowed)
  BY <1>1, <1>2, MoveCounts, Numbers
<1>4. TypeOK'
  BY <1>1, GotoTyped
  DEF PLock, TypeOK, Goto, sems, counters, locals, parent, Labels, ProducerLabels,
      ConsumerLabels, StripHeld, Lock
<1>5. SlotsAccounted'
  BY <1>1, <1>3, Numbers
  DEF PLock, IInv, SlotsAccounted, sems, counters, locals, parent
<1>6. TicketsAccounted'
  BY <1>1, <1>3, Numbers
  DEF PLock, IInv, TicketsAccounted, Work, sems, counters, locals, parent
<1>7. TokensAccounted'
  BY <1>1, <1>3, Numbers
  DEF PLock, IInv, TokensAccounted, AllProcessed, Ending, Goto, TypeOK, sems,
      counters, locals, parent
<1>8. PushPopNeverFail' /\ LockHeld'
  BY <1>1, ConstantsAssumption
  DEF PLock, IInv, TypeOK, PushPopNeverFail, LockHeld, AllProcessed, Critical, Goto,
      sems, counters, locals, parent, Lock
<1> QED BY <1>4, <1>5, <1>6, <1>7, <1>8 DEF IInv

(* The reserved slot guarantees that the push succeeds; the strip is owed a token. *)
LEMMA PPushStep ==
  ASSUME IInv, NEW p \in Producers, PPush(p)
  PROVE  IInv'
<1>1. Goto(p, "p_push", "p_unlock") /\ p \in Procs /\ TypeOK
  BY DEF PPush, Procs, IInv
<1>2. ~IsFull(ring_buffer, BufSize) /\ ~AllProcessed
  BY <1>1, Outstanding DEF Goto, StripHeld
<1>3. strip[p] \in Strips
  BY <1>1, <1>2 DEF Goto, StripHeld, TypeOK
<1>4. ring_buffer \in Seq(Strips) /\ Push(ring_buffer, BufSize, strip[p]) \in Seq(Strips)
      /\ Len(Push(ring_buffer, BufSize, strip[p])) = Len(ring_buffer) + 1
      /\ PushRet(ring_buffer, BufSize) = Ok
  BY <1>1, <1>2, <1>3, PushFits DEF TypeOK
<1>5. /\ ring_buffer' \in Seq(Strips)
      /\ Len(ring_buffer)' = Len(ring_buffer) + 1
      /\ ret' = [ret EXCEPT ![p] = Ok]
  BY <1>1, <1>2, <1>3, <1>4 DEF PPush
<1>6. /\ Delta(SlotHeld, "p_push", "p_unlock") = -1
      /\ Delta(StripHeld, "p_push", "p_unlock") = -1
      /\ Delta(TokenHeld, "p_push", "p_unlock") = 1
      /\ Delta(Bowed, "p_push", "p_unlock") = 0
  BY LabelSets DEF Delta, Bit
<1>7. /\ CountAt(pc, SlotHeld)' = CountAt(pc, SlotHeld) - 1
      /\ CountAt(pc, StripHeld)' = CountAt(pc, StripHeld) - 1
      /\ CountAt(pc, TokenHeld)' = CountAt(pc, TokenHeld) + 1
      /\ CountAt(pc, Bowed)' = CountAt(pc, Bowed)
  BY <1>1, <1>6, MoveCounts, Numbers
<1>8. TypeOK'
  BY <1>1, <1>2, <1>3, <1>4, <1>5, GotoTyped
  DEF PPush, TypeOK, Goto, sems, counters, locals, parent, Labels, ProducerLabels,
      ConsumerLabels, StripHeld, Ok, Failed
<1>9. /\ buf_spaces_avail' = buf_spaces_avail /\ buf_spaces_occ' = buf_spaces_occ
      /\ next_strip_to_fetch' = next_strip_to_fetch
      /\ strips_processed_count' = strips_processed_count
      /\ Len(ring_buffer)' = Len(ring_buffer) + 1
      /\ failed["transfer"]' = failed["transfer"]
      /\ failed["decode"]' = failed["decode"]
  BY <1>1, <1>2, <1>3, <1>4, <1>5
  DEF PPush, sems, counters, locals, parent
<1>10. SlotsAccounted'
  BY <1>9, <1>7, SlotNumbers DEF IInv, SlotsAccounted
<1>11. Work' = Work
  BY <1>9, <1>7, WorkNumbers DEF Work
<1>12. TicketsAccounted'
  BY <1>9, <1>7, <1>11, TicketNumbers
  DEF IInv, TicketsAccounted
<1>13. ~AllProcessed' => buf_spaces_occ' + CountAt(pc, TokenHeld)' = Len(ring_buffer)'
  BY <1>9, <1>7, Numbers DEF IInv, TokensAccounted, AllProcessed
<1>14. TokensAccounted'
  BY <1>1, <1>2, <1>3, <1>4, <1>5, <1>9, <1>13, Numbers
  DEF IInv, TokensAccounted, AllProcessed, Ending, Goto, TypeOK
<1>15. PushPopNeverFail' /\ LockHeld'
  BY <1>1, <1>2, <1>3, <1>4, <1>5, ConstantsAssumption
  DEF PPush, IInv, TypeOK, PushPopNeverFail, LockHeld, AllProcessed, Critical, Goto,
      sems, counters, locals, parent
<1> QED BY <1>8, <1>10, <1>12, <1>14, <1>15 DEF IInv

(* The lock is released; the token is still to be posted. *)
LEMMA PUnlockStep ==
  ASSUME IInv, NEW p \in Producers, PUnlock(p)
  PROVE  IInv'
<1>1. Goto(p, "p_unlock", "p_post") /\ p \in Procs /\ TypeOK
  BY DEF PUnlock, Procs, IInv
<1>2. /\ Delta(SlotHeld, "p_unlock", "p_post") = 0
      /\ Delta(StripHeld, "p_unlock", "p_post") = 0
      /\ Delta(TokenHeld, "p_unlock", "p_post") = 0
      /\ Delta(Bowed, "p_unlock", "p_post") = 0
  BY LabelSets DEF Delta, Bit
<1>3. /\ CountAt(pc, SlotHeld)' = CountAt(pc, SlotHeld)
      /\ CountAt(pc, StripHeld)' = CountAt(pc, StripHeld)
      /\ CountAt(pc, TokenHeld)' = CountAt(pc, TokenHeld)
      /\ CountAt(pc, Bowed)' = CountAt(pc, Bowed)
  BY <1>1, <1>2, MoveCounts, Numbers
<1>4. TypeOK'
  BY <1>1, GotoTyped
  DEF PUnlock, TypeOK, Goto, sems, counters, locals, parent, Labels, ProducerLabels,
      ConsumerLabels, StripHeld, Unlock
<1>5. SlotsAccounted'
  BY <1>1, <1>3, Numbers
  DEF PUnlock, IInv, SlotsAccounted, sems, counters, locals, parent
<1>6. TicketsAccounted'
  BY <1>1, <1>3, Numbers
  DEF PUnlock, IInv, TicketsAccounted, Work, sems, counters, locals, parent
<1>7. TokensAccounted'
  BY <1>1, <1>3, Numbers
  DEF PUnlock, IInv, TokensAccounted, AllProcessed, Ending, Goto, TypeOK, sems,
      counters, locals, parent
<1>8. PushPopNeverFail' /\ LockHeld'
  BY <1>1, ConstantsAssumption
  DEF PUnlock, IInv, TypeOK, PushPopNeverFail, LockHeld, AllProcessed, Critical, Goto,
      sems, counters, locals, parent, Unlock
<1> QED BY <1>4, <1>5, <1>6, <1>7, <1>8 DEF IInv

(* The push has succeeded, so the token owed is posted. *)
LEMMA PPostStep ==
  ASSUME IInv, NEW p \in Producers, PPost(p)
  PROVE  IInv'
<1>1. Goto(p, "p_post", "p_wait") /\ p \in Procs /\ TypeOK
  BY DEF PPost, Procs, IInv
<1>2. ret[p] = Ok
  BY <1>1 DEF IInv, PushPopNeverFail
<1>3. /\ Delta(SlotHeld, "p_post", "p_wait") = 0
      /\ Delta(StripHeld, "p_post", "p_wait") = 0
      /\ Delta(TokenHeld, "p_post", "p_wait") = -1
      /\ Delta(Bowed, "p_post", "p_wait") = 0
  BY LabelSets DEF Delta, Bit
<1>4. /\ CountAt(pc, SlotHeld)' = CountAt(pc, SlotHeld)
      /\ CountAt(pc, StripHeld)' = CountAt(pc, StripHeld)
      /\ CountAt(pc, TokenHeld)' = CountAt(pc, TokenHeld) - 1
      /\ CountAt(pc, Bowed)' = CountAt(pc, Bowed)
  BY <1>1, <1>3, MoveCounts, Numbers
<1>5. TypeOK'
  BY <1>1, <1>2, GotoTyped, EndIterationTyped
  DEF PPost, TypeOK, Goto, sems, counters, locals, parent, Labels, ProducerLabels,
      ConsumerLabels, StripHeld
<1>6. /\ buf_spaces_avail' = buf_spaces_avail /\ buf_spaces_occ' = buf_spaces_occ + 1
      /\ next_strip_to_fetch' = next_strip_to_fetch
      /\ strips_processed_count' = strips_processed_count
      /\ Len(ring_buffer)' = Len(ring_buffer)
      /\ failed["transfer"]' = failed["transfer"]
      /\ failed["decode"]' = failed["decode"]
  BY <1>1, <1>2
  DEF PPost, sems, counters, locals, parent
<1>7. SlotsAccounted'
  BY <1>6, <1>4, SlotNumbers DEF IInv, SlotsAccounted
<1>8. Work' = Work
  BY <1>6, <1>4, WorkNumbers DEF Work
<1>9. TicketsAccounted'
  BY <1>6, <1>4, <1>8, TicketNumbers
  DEF IInv, TicketsAccounted
<1>10. ~AllProcessed' => buf_spaces_occ' + CountAt(pc, TokenHeld)' = Len(ring_buffer)'
  BY <1>6, <1>4, Numbers DEF IInv, TokensAccounted, AllProcessed
<1>11. TokensAccounted'
  BY <1>1, <1>2, <1>6, <1>10, Numbers
  DEF IInv, TokensAccounted, AllProcessed, Ending, Goto, TypeOK
<1>12. PushPopNeverFail' /\ LockHeld'
  BY <1>1, <1>2, ConstantsAssumption
  DEF PPost, IInv, TypeOK, PushPopNeverFail, LockHeld, AllProcessed, Critical, Goto,
      sems, counters, locals, parent, EndIteration, Ok
<1> QED BY <1>5, <1>7, <1>9, <1>11, <1>12 DEF IInv

(* A token moves from the semaphore to a consumer. *)
LEMMA CWaitStep ==
  ASSUME IInv, NEW c \in Consumers, CWait(c)
  PROVE  IInv'
<1>1. Goto(c, "c_wait", "c_lock") /\ c \in Procs /\ TypeOK
  BY DEF CWait, Procs, IInv
<1>2. /\ Delta(SlotHeld, "c_wait", "c_lock") = 0
      /\ Delta(StripHeld, "c_wait", "c_lock") = 0
      /\ Delta(TokenHeld, "c_wait", "c_lock") = 1
      /\ Delta(Bowed, "c_wait", "c_lock") = 0
  BY LabelSets DEF Delta, Bit
<1>3. /\ CountAt(pc, SlotHeld)' = CountAt(pc, SlotHeld)
      /\ CountAt(pc, StripHeld)' = CountAt(pc, StripHeld)
      /\ CountAt(pc, TokenHeld)' = CountAt(pc, TokenHeld) + 1
      /\ CountAt(pc, Bowed)' = CountAt(pc, Bowed)
  BY <1>1, <1>2, MoveCounts, Numbers
<1>4. TypeOK'
  BY <1>1, GotoTyped
  DEF CWait, TypeOK, Goto, sems, counters, locals, parent, Labels, ProducerLabels,
      ConsumerLabels, StripHeld
<1>5. SlotsAccounted'
  BY <1>1, <1>3, Numbers
  DEF CWait, IInv, SlotsAccounted, sems, counters, locals, parent
<1>6. TicketsAccounted'
  BY <1>1, <1>3, Numbers
  DEF CWait, IInv, TicketsAccounted, Work, sems, counters, locals, parent
<1>7. TokensAccounted'
  BY <1>1, <1>3, Numbers
  DEF CWait, IInv, TokensAccounted, AllProcessed, Ending, Goto, TypeOK, sems,
      counters, locals, parent
<1>8. PushPopNeverFail' /\ LockHeld'
  BY <1>1, ConstantsAssumption
  DEF CWait, IInv, TypeOK, PushPopNeverFail, LockHeld, AllProcessed, Critical, Goto,
      sems, counters, locals, parent
<1> QED BY <1>4, <1>5, <1>6, <1>7, <1>8 DEF IInv

(* The lock was free, so nobody is in the critical section. *)
LEMMA CLockStep ==
  ASSUME IInv, NEW c \in Consumers, CLock(c)
  PROVE  IInv'
<1>1. Goto(c, "c_lock", "c_check") /\ c \in Procs /\ TypeOK
  BY DEF CLock, Procs, IInv
<1>2. /\ Delta(SlotHeld, "c_lock", "c_check") = 0
      /\ Delta(StripHeld, "c_lock", "c_check") = 0
      /\ Delta(TokenHeld, "c_lock", "c_check") = 0
      /\ Delta(Bowed, "c_lock", "c_check") = 0
  BY LabelSets DEF Delta, Bit
<1>3. /\ CountAt(pc, SlotHeld)' = CountAt(pc, SlotHeld)
      /\ CountAt(pc, StripHeld)' = CountAt(pc, StripHeld)
      /\ CountAt(pc, TokenHeld)' = CountAt(pc, TokenHeld)
      /\ CountAt(pc, Bowed)' = CountAt(pc, Bowed)
  BY <1>1, <1>2, MoveCounts, Numbers
<1>4. TypeOK'
  BY <1>1, GotoTyped
  DEF CLock, TypeOK, Goto, sems, counters, locals, parent, Labels, ProducerLabels,
      ConsumerLabels, StripHeld, Lock
<1>5. SlotsAccounted'
  BY <1>1, <1>3, Numbers
  DEF CLock, IInv, SlotsAccounted, sems, counters, locals, parent
<1>6. TicketsAccounted'
  BY <1>1, <1>3, Numbers
  DEF CLock, IInv, TicketsAccounted, Work, sems, counters, locals, parent
<1>7. TokensAccounted'
  BY <1>1, <1>3, Numbers
  DEF CLock, IInv, TokensAccounted, AllProcessed, Ending, Goto, TypeOK, sems,
      counters, locals, parent
<1>8. PushPopNeverFail' /\ LockHeld'
  BY <1>1, ConstantsAssumption
  DEF CLock, IInv, TypeOK, PushPopNeverFail, LockHeld, AllProcessed, Critical, Goto,
      sems, counters, locals, parent, Lock
<1> QED BY <1>4, <1>5, <1>6, <1>7, <1>8 DEF IInv

(* A token guarantees a strip, unless everything is processed. *)
LEMMA CCheckStep ==
  ASSUME IInv, NEW c \in Consumers, CCheck(c)
  PROVE  IInv'
<1>1. CASE IsEmpty(ring_buffer)
  <2>1. Goto(c, "c_check", "c_unlock_empty") /\ c \in Procs /\ TypeOK
    BY <1>1 DEF CCheck, Procs, IInv
  <2>2. AllProcessed
    BY <1>1, <2>1, Outstanding DEF Goto
  <2>3. /\ Delta(SlotHeld, "c_check", "c_unlock_empty") = 0
        /\ Delta(StripHeld, "c_check", "c_unlock_empty") = 0
        /\ Delta(TokenHeld, "c_check", "c_unlock_empty") = 0
        /\ Delta(Bowed, "c_check", "c_unlock_empty") = 0
    BY LabelSets DEF Delta, Bit
  <2>4. /\ CountAt(pc, SlotHeld)' = CountAt(pc, SlotHeld)
        /\ CountAt(pc, StripHeld)' = CountAt(pc, StripHeld)
        /\ CountAt(pc, TokenHeld)' = CountAt(pc, TokenHeld)
        /\ CountAt(pc, Bowed)' = CountAt(pc, Bowed)
    BY <2>1, <2>3, MoveCounts, Numbers
  <2>5. TypeOK'
    BY <1>1, <2>1, <2>2, GotoTyped
    DEF CCheck, TypeOK, Goto, sems, counters, locals, parent, Labels, ProducerLabels,
        ConsumerLabels, StripHeld
  <2>6. SlotsAccounted'
    BY <1>1, <2>1, <2>2, <2>4, Numbers
    DEF CCheck, IInv, SlotsAccounted, sems, counters, locals, parent
  <2>7. TicketsAccounted'
    BY <1>1, <2>1, <2>2, <2>4, Numbers
    DEF CCheck, IInv, TicketsAccounted, Work, sems, counters, locals, parent
  <2>8. TokensAccounted'
    BY <1>1, <2>1, <2>2, <2>4, Numbers
    DEF CCheck, IInv, TokensAccounted, AllProcessed, Ending, Goto, TypeOK, sems,
        counters, locals, parent
  <2>9. PushPopNeverFail' /\ LockHeld'
    BY <1>1, <2>1, <2>2, ConstantsAssumption
    DEF CCheck, IInv, TypeOK, PushPopNeverFail, LockHeld, AllProcessed, Critical,
        Goto, sems, counters, locals, parent
  <2> QED BY <2>5, <2>6, <2>7, <2>8, <2>9 DEF IInv
<1>2. CASE ~IsEmpty(ring_buffer)
  <2>1. Goto(c, "c_check", "c_pop") /\ c \in Procs /\ TypeOK
    BY <1>2 DEF CCheck, Procs, IInv
  <2>2. ~AllProcessed
    BY <1>2, <2>1, Outstanding
  <2>3. /\ Delta(SlotHeld, "c_check", "c_pop") = 0
        /\ Delta(StripHeld, "c_check", "c_pop") = 0
        /\ Delta(TokenHeld, "c_check", "c_pop") = 0
        /\ Delta(Bowed, "c_check", "c_pop") = 0
    BY LabelSets DEF Delta, Bit
  <2>4. /\ CountAt(pc, SlotHeld)' = CountAt(pc, SlotHeld)
        /\ CountAt(pc, StripHeld)' = CountAt(pc, StripHeld)
        /\ CountAt(pc, TokenHeld)' = CountAt(pc, TokenHeld)
        /\ CountAt(pc, Bowed)' = CountAt(pc, Bowed)
    BY <2>1, <2>3, MoveCounts, Numbers
  <2>5. TypeOK'
    BY <1>2, <2>1, <2>2, GotoTyped
    DEF CCheck, TypeOK, Goto, sems, counters, locals, parent, Labels, ProducerLabels,
        ConsumerLabels, StripHeld
  <2>6. SlotsAccounted'
    BY <1>2, <2>1, <2>2, <2>4, Numbers
    DEF CCheck, IInv, SlotsAccounted, sems, counters, locals, parent
  <2>7. TicketsAccounted'
    BY <1>2, <2>1, <2>2, <2>4, Numbers
    DEF CCheck, IInv, TicketsAccounted, Work, sems, counters, locals, parent
  <2>8. TokensAccounted'
    BY <1>2, <2>1, <2>2, <2>4, Numbers
    DEF CCheck, IInv, TokensAccounted, AllProcessed, Ending, Goto, TypeOK, sems,
        counters, locals, parent
  <2>9. PushPopNeverFail' /\ LockHeld'
    BY <1>2, <2>1, <2>2, ConstantsAssumption
    DEF CCheck, IInv, TypeOK, PushPopNeverFail, LockHeld, AllProcessed, Critical,
        Goto, sems, counters, locals, parent
  <2> QED BY <2>5, <2>6, <2>7, <2>8, <2>9 DEF IInv
<1> QED BY <1>1, <1>2

(* The stack was empty: everything is processed. *)
LEMMA CUnlockEmptyStep ==
  ASSUME IInv, NEW c \in Consumers, CUnlockEmpty(c)
  PROVE  IInv'
<1>1. Goto(c, "c_unlock_empty", "c_repost") /\ c \in Procs /\ TypeOK
  BY DEF CUnlockEmpty, Procs, IInv
<1>2. /\ Delta(SlotHeld, "c_unlock_empty", "c_repost") = 0
      /\ Delta(StripHeld, "c_unlock_empty", "c_repost") = 0
      /\ Delta(TokenHeld, "c_unlock_empty", "c_repost") = 0
      /\ Delta(Bowed, "c_unlock_empty", "c_repost") = 0
  BY LabelSets DEF Delta, Bit
<1>3. /\ CountAt(pc, SlotHeld)' = CountAt(pc, SlotHeld)
      /\ CountAt(pc, StripHeld)' = CountAt(pc, StripHeld)
      /\ CountAt(pc, TokenHeld)' = CountAt(pc, TokenHeld)
      /\ CountAt(pc, Bowed)' = CountAt(pc, Bowed)
  BY <1>1, <1>2, MoveCounts, Numbers
<1>4. TypeOK'
  BY <1>1, GotoTyped
  DEF CUnlockEmpty, TypeOK, Goto, sems, counters, locals, parent, Labels,
      ProducerLabels, ConsumerLabels, StripHeld, Unlock
<1>5. SlotsAccounted'
  BY <1>1, <1>3, Numbers
  DEF CUnlockEmpty, IInv, SlotsAccounted, sems, counters, locals, parent
<1>6. TicketsAccounted'
  BY <1>1, <1>3, Numbers
  DEF CUnlockEmpty, IInv, TicketsAccounted, Work, sems, counters, locals, parent
<1>7. TokensAccounted'
  BY <1>1, <1>3, Numbers
  DEF CUnlockEmpty, IInv, TokensAccounted, AllProcessed, Ending, Goto, TypeOK, sems,
      counters, locals, parent
<1>8. PushPopNeverFail' /\ LockHeld'
  BY <1>1, ConstantsAssumption
  DEF CUnlockEmpty, IInv, TypeOK, PushPopNeverFail, LockHeld, AllProcessed, Critical,
      Goto, sems, counters, locals, parent, Unlock
<1> QED BY <1>4, <1>5, <1>6, <1>7, <1>8 DEF IInv

(* A wake-up is passed on, when tokens are no longer counted. *)
LEMMA CRepostStep ==
  ASSUME IInv, NEW c \in Consumers, CRepost(c)
  PROVE  IInv'
<1>1. Goto(c, "c_repost", "c_over") /\ c \in Procs /\ TypeOK
  BY DEF CRepost, Procs, IInv
<1>2. /\ Delta(SlotHeld, "c_repost", "c_over") = 0
      /\ Delta(StripHeld, "c_repost", "c_over") = 0
      /\ Delta(TokenHeld, "c_repost", "c_over") = -1
      /\ Delta(Bowed, "c_repost", "c_over") = 0
  BY LabelSets DEF Delta, Bit
<1>3. /\ CountAt(pc, SlotHeld)' = CountAt(pc, SlotHeld)
      /\ CountAt(pc, StripHeld)' = CountAt(pc, StripHeld)
      /\ CountAt(pc, TokenHeld)' = CountAt(pc, TokenHeld) - 1
      /\ CountAt(pc, Bowed)' = CountAt(pc, Bowed)
  BY <1>1, <1>2, MoveCounts, Numbers
<1>4. TypeOK'
  BY <1>1, GotoTyped
  DEF CRepost, TypeOK, Goto, sems, counters, locals, parent, Labels, ProducerLabels,
      ConsumerLabels, StripHeld
<1>5. SlotsAccounted'
  BY <1>1, <1>3, Numbers
  DEF CRepost, IInv, SlotsAccounted, sems, counters, locals, parent
<1>6. TicketsAccounted'
  BY <1>1, <1>3, Numbers
  DEF CRepost, IInv, TicketsAccounted, Work, sems, counters, locals, parent
<1>7. TokensAccounted'
  BY <1>1, <1>3, Numbers
  DEF CRepost, IInv, TokensAccounted, AllProcessed, Ending, Goto, TypeOK, sems,
      counters, locals, parent
<1>8. PushPopNeverFail' /\ LockHeld'
  BY <1>1, ConstantsAssumption
  DEF CRepost, IInv, TypeOK, PushPopNeverFail, LockHeld, AllProcessed, Critical, Goto,
      sems, counters, locals, parent
<1> QED BY <1>4, <1>5, <1>6, <1>7, <1>8 DEF IInv

(* The stack was empty, so the consumer leaves. *)
LEMMA COverStep ==
  ASSUME IInv, NEW c \in Consumers, COver(c)
  PROVE  IInv'
<1>1. Goto(c, "c_over", "c_unlock_again") /\ c \in Procs /\ TypeOK
  BY DEF COver, Procs, IInv, TokensAccounted, Ending, Goto
<1>2. /\ Delta(SlotHeld, "c_over", "c_unlock_again") = 0
      /\ Delta(StripHeld, "c_over", "c_unlock_again") = 0
      /\ Delta(TokenHeld, "c_over", "c_unlock_again") = 0
      /\ Delta(Bowed, "c_over", "c_unlock_again") = 0
  BY LabelSets DEF Delta, Bit
<1>3. /\ CountAt(pc, SlotHeld)' = CountAt(pc, SlotHeld)
      /\ CountAt(pc, StripHeld)' = CountAt(pc, StripHeld)
      /\ CountAt(pc, TokenHeld)' = CountAt(pc, TokenHeld)
      /\ CountAt(pc, Bowed)' = CountAt(pc, Bowed)
  BY <1>1, <1>2, MoveCounts, Numbers
<1>4. TypeOK'
  BY <1>1, GotoTyped
  DEF COver, TypeOK, Goto, sems, counters, locals, parent, Labels, ProducerLabels,
      ConsumerLabels, StripHeld
<1>5. SlotsAccounted'
  BY <1>1, <1>3, Numbers
  DEF COver, IInv, SlotsAccounted, sems, counters, locals, parent
<1>6. TicketsAccounted'
  BY <1>1, <1>3, Numbers
  DEF COver, IInv, TicketsAccounted, Work, sems, counters, locals, parent
<1>7. TokensAccounted'
  BY <1>1, <1>3, Numbers
  DEF COver, IInv, TokensAccounted, AllProcessed, Ending, Goto, TypeOK, sems,
      counters, locals, parent
<1>8. PushPopNeverFail' /\ LockHeld'
  BY <1>1, ConstantsAssumption
  DEF COver, IInv, TypeOK, PushPopNeverFail, LockHeld, AllProcessed, Critical, Goto,
      sems, counters, locals, parent
<1> QED BY <1>4, <1>5, <1>6, <1>7, <1>8 DEF IInv

(* The lock is only claimed for its holders while work is left, and none is. *)
LEMMA CUnlockAgainStep ==
  ASSUME IInv, NEW c \in Consumers, CUnlockAgain(c)
  PROVE  IInv'
<1>1. Goto(c, "c_unlock_again", "c_exited") /\ c \in Procs /\ TypeOK
  BY DEF CUnlockAgain, Procs, IInv
<1>2. AllProcessed
  BY <1>1 DEF IInv, TokensAccounted, Ending, Goto
<1>3. /\ Delta(SlotHeld, "c_unlock_again", "c_exited") = 0
      /\ Delta(StripHeld, "c_unlock_again", "c_exited") = 0
      /\ Delta(TokenHeld, "c_unlock_again", "c_exited") = 0
      /\ Delta(Bowed, "c_unlock_again", "c_exited") = 0
  BY LabelSets DEF Delta, Bit
<1>4. /\ CountAt(pc, SlotHeld)' = CountAt(pc, SlotHeld)
      /\ CountAt(pc, StripHeld)' = CountAt(pc, StripHeld)
      /\ CountAt(pc, TokenHeld)' = CountAt(pc, TokenHeld)
      /\ CountAt(pc, Bowed)' = CountAt(pc, Bowed)
  BY <1>1, <1>3, MoveCounts, Numbers
<1>5. TypeOK'
  BY <1>1, <1>2, GotoTyped
  DEF CUnlockAgain, TypeOK, Goto, sems, counters, locals, parent, Labels,
      ProducerLabels, ConsumerLabels, StripHeld, Unlock
<1>6. SlotsAccounted'
  BY <1>1, <1>2, <1>4, Numbers
  DEF CUnlockAgain, IInv, SlotsAccounted, sems, counters, locals, parent
<1>7. TicketsAccounted'
  BY <1>1, <1>2, <1>4, Numbers
  DEF CUnlockAgain, IInv, TicketsAccounted, Work, sems, counters, locals, parent
<1>8. TokensAccounted'
  BY <1>1, <1>2, <1>4, Numbers
  DEF CUnlockAgain, IInv, TokensAccounted, AllProcessed, Ending, Goto, TypeOK, sems,
      counters, locals, parent
<1>9. PushPopNeverFail' /\ LockHeld'
  BY <1>1, <1>2, ConstantsAssumption
  DEF CUnlockAgain, IInv, TypeOK, PushPopNeverFail, LockHeld, AllProcessed, Critical,
      Goto, sems, counters, locals, parent, Unlock
<1> QED BY <1>5, <1>6, <1>7, <1>8, <1>9 DEF IInv

(* The token is used up with the strip; the slot is the consumer's for now. *)
LEMMA CPopStep ==
  ASSUME IInv, NEW c \in Consumers, CPop(c)
  PROVE  IInv'
<1>1. Goto(c, "c_pop", "c_unlock") /\ c \in Procs /\ TypeOK
  BY DEF CPop, Procs, IInv
<1>2. ~IsEmpty(ring_buffer) /\ ~AllProcessed
  BY <1>1, Outstanding DEF Goto, IInv, TokensAccounted
<1>3. /\ ring_buffer' \in Seq(Strips)
      /\ Len(ring_buffer)' = Len(ring_buffer) - 1
      /\ ret' = [ret EXCEPT ![c] = Ok]
      /\ Top(ring_buffer) \in Strips
  BY <1>1, <1>2, PopFinds DEF CPop, TypeOK
<1>4. /\ Delta(SlotHeld, "c_pop", "c_unlock") = 1
      /\ Delta(StripHeld, "c_pop", "c_unlock") = 1
      /\ Delta(TokenHeld, "c_pop", "c_unlock") = -1
      /\ Delta(Bowed, "c_pop", "c_unlock") = 0
  BY LabelSets DEF Delta, Bit
<1>5. /\ CountAt(pc, SlotHeld)' = CountAt(pc, SlotHeld) + 1
      /\ CountAt(pc, StripHeld)' = CountAt(pc, StripHeld) + 1
      /\ CountAt(pc, TokenHeld)' = CountAt(pc, TokenHeld) - 1
      /\ CountAt(pc, Bowed)' = CountAt(pc, Bowed)
  BY <1>1, <1>4, MoveCounts, Numbers
<1>6. TypeOK'
  BY <1>1, <1>2, <1>3, GotoTyped
  DEF CPop, TypeOK, Goto, sems, counters, locals, parent, Labels, ProducerLabels,
      ConsumerLabels, StripHeld, Ok, Failed
<1>7. /\ buf_spaces_avail' = buf_spaces_avail /\ buf_spaces_occ' = buf_spaces_occ
      /\ next_strip_to_fetch' = next_strip_to_fetch
      /\ strips_processed_count' = strips_processed_count
      /\ Len(ring_buffer)' = Len(ring_buffer) - 1
      /\ failed["transfer"]' = failed["transfer"]
      /\ failed["decode"]' = failed["decode"]
  BY <1>1, <1>2, <1>3
  DEF CPop, sems, counters, locals, parent
<1>8. SlotsAccounted'
  BY <1>7, <1>5, SlotNumbers DEF IInv, SlotsAccounted
<1>9. Work' = Work
  BY <1>7, <1>5, WorkNumbers DEF Work
<1>10. TicketsAccounted'
  BY <1>7, <1>5, <1>9, TicketNumbers
  DEF IInv, TicketsAccounted
<1>11. ~AllProcessed' => buf_spaces_occ' + CountAt(pc, TokenHeld)' = Len(ring_buffer)'
  BY <1>7, <1>5, Numbers DEF IInv, TokensAccounted, AllProcessed
<1>12. TokensAccounted'
  BY <1>1, <1>2, <1>3, <1>7, <1>11, Numbers
  DEF IInv, TokensAccounted, AllProcessed, Ending, Goto, TypeOK
<1>13. PushPopNeverFail' /\ LockHeld'
  BY <1>1, <1>2, <1>3, ConstantsAssumption
  DEF CPop, IInv, TypeOK, PushPopNeverFail, LockHeld, AllProcessed, Critical, Goto,
      sems, counters, locals, parent
<1> QED BY <1>6, <1>8, <1>10, <1>12, <1>13 DEF IInv

(* The lock is released. *)
LEMMA CUnlockStep ==
  ASSUME IInv, NEW c \in Consumers, CUnlock(c)
  PROVE  IInv'
<1>1. Goto(c, "c_unlock", "c_slot") /\ c \in Procs /\ TypeOK
  BY DEF CUnlock, Procs, IInv
<1>2. /\ Delta(SlotHeld, "c_unlock", "c_slot") = 0
      /\ Delta(StripHeld, "c_unlock", "c_slot") = 0
      /\ Delta(TokenHeld, "c_unlock", "c_slot") = 0
      /\ Delta(Bowed, "c_unlock", "c_slot") = 0
  BY LabelSets DEF Delta, Bit
<1>3. /\ CountAt(pc, SlotHeld)' = CountAt(pc, SlotHeld)
      /\ CountAt(pc, StripHeld)' = CountAt(pc, StripHeld)
      /\ CountAt(pc, TokenHeld)' = CountAt(pc, TokenHeld)
      /\ CountAt(pc, Bowed)' = CountAt(pc, Bowed)
  BY <1>1, <1>2, MoveCounts, Numbers
<1>4. TypeOK'
  BY <1>1, GotoTyped
  DEF CUnlock, TypeOK, Goto, sems, counters, locals, parent, Labels, ProducerLabels,
      ConsumerLabels, StripHeld, Unlock
<1>5. SlotsAccounted'
  BY <1>1, <1>3, Numbers
  DEF CUnlock, IInv, SlotsAccounted, sems, counters, locals, parent
<1>6. TicketsAccounted'
  BY <1>1, <1>3, Numbers
  DEF CUnlock, IInv, TicketsAccounted, Work, sems, counters, locals, parent
<1>7. TokensAccounted'
  BY <1>1, <1>3, Numbers
  DEF CUnlock, IInv, TokensAccounted, AllProcessed, Ending, Goto, TypeOK, sems,
      counters, locals, parent
<1>8. PushPopNeverFail' /\ LockHeld'
  BY <1>1, ConstantsAssumption
  DEF CUnlock, IInv, TypeOK, PushPopNeverFail, LockHeld, AllProcessed, Critical, Goto,
      sems, counters, locals, parent, Unlock
<1> QED BY <1>4, <1>5, <1>6, <1>7, <1>8 DEF IInv

(* The pop has succeeded, so the slot goes back to the semaphore. *)
LEMMA CSlotStep ==
  ASSUME IInv, NEW c \in Consumers, CSlot(c)
  PROVE  IInv'
<1>1. Goto(c, "c_slot", "c_place") /\ c \in Procs /\ TypeOK
  BY DEF CSlot, Procs, IInv, PushPopNeverFail
<1>2. ret[c] = Ok
  BY <1>1 DEF IInv, PushPopNeverFail
<1>3. /\ Delta(SlotHeld, "c_slot", "c_place") = -1
      /\ Delta(StripHeld, "c_slot", "c_place") = 0
      /\ Delta(TokenHeld, "c_slot", "c_place") = 0
      /\ Delta(Bowed, "c_slot", "c_place") = 0
  BY LabelSets DEF Delta, Bit
<1>4. /\ CountAt(pc, SlotHeld)' = CountAt(pc, SlotHeld) - 1
      /\ CountAt(pc, StripHeld)' = CountAt(pc, StripHeld)
      /\ CountAt(pc, TokenHeld)' = CountAt(pc, TokenHeld)
      /\ CountAt(pc, Bowed)' = CountAt(pc, Bowed)
  BY <1>1, <1>3, MoveCounts, Numbers
<1>5. TypeOK'
  BY <1>1, <1>2, GotoTyped
  DEF CSlot, TypeOK, Goto, sems, counters, locals, parent, Labels, ProducerLabels,
      ConsumerLabels, StripHeld
<1>6. SlotsAccounted'
  BY <1>1, <1>2, <1>4, Numbers
  DEF CSlot, IInv, SlotsAccounted, sems, counters, locals, parent
<1>7. TicketsAccounted'
  BY <1>1, <1>2, <1>4, Numbers
  DEF CSlot, IInv, TicketsAccounted, Work, sems, counters, locals, parent
<1>8. TokensAccounted'
  BY <1>1, <1>2, <1>4, Numbers
  DEF CSlot, IInv, TokensAccounted, AllProcessed, Ending, Goto, TypeOK, sems,
      counters, locals, parent
<1>9. PushPopNeverFail' /\ LockHeld'
  BY <1>1, <1>2, ConstantsAssumption
  DEF CSlot, IInv, TypeOK, PushPopNeverFail, LockHeld, AllProcessed, Critical, Goto,
      sems, counters, locals, parent
<1> QED BY <1>5, <1>6, <1>7, <1>8, <1>9 DEF IInv

(* The pixels are copied. *)
LEMMA CPlaceStep ==
  ASSUME IInv, NEW c \in Consumers, CPlace(c)
  PROVE  IInv'
<1>1. Goto(c, "c_place", "c_count") /\ c \in Procs /\ TypeOK
  BY DEF CPlace, Procs, IInv
<1>2. /\ Delta(SlotHeld, "c_place", "c_count") = 0
      /\ Delta(StripHeld, "c_place", "c_count") = 0
      /\ Delta(TokenHeld, "c_place", "c_count") = 0
      /\ Delta(Bowed, "c_place", "c_count") = 0
  BY LabelSets DEF Delta, Bit
<1>3. /\ CountAt(pc, SlotHeld)' = CountAt(pc, SlotHeld)
      /\ CountAt(pc, StripHeld)' = CountAt(pc, StripHeld)
      /\ CountAt(pc, TokenHeld)' = CountAt(pc, TokenHeld)
      /\ CountAt(pc, Bowed)' = CountAt(pc, Bowed)
  BY <1>1, <1>2, MoveCounts, Numbers
<1>4. TypeOK'
  BY <1>1, GotoTyped
  DEF CPlace, TypeOK, Goto, sems, counters, locals, parent, Labels, ProducerLabels,
      ConsumerLabels, StripHeld
<1>5. SlotsAccounted'
  BY <1>1, <1>3, Numbers
  DEF CPlace, IInv, SlotsAccounted, sems, counters, locals, parent
<1>6. TicketsAccounted'
  BY <1>1, <1>3, Numbers
  DEF CPlace, IInv, TicketsAccounted, Work, sems, counters, locals, parent
<1>7. TokensAccounted'
  BY <1>1, <1>3, Numbers
  DEF CPlace, IInv, TokensAccounted, AllProcessed, Ending, Goto, TypeOK, sems,
      counters, locals, parent
<1>8. PushPopNeverFail' /\ LockHeld'
  BY <1>1, ConstantsAssumption
  DEF CPlace, IInv, TypeOK, PushPopNeverFail, LockHeld, AllProcessed, Critical, Goto,
      sems, counters, locals, parent
<1> QED BY <1>4, <1>5, <1>6, <1>7, <1>8 DEF IInv

(* The wrong pixels are copied. *)
LEMMA CPlaceGarbledStep ==
  ASSUME IInv, NEW c \in Consumers, CPlaceGarbled(c)
  PROVE  IInv'
<1>1. Goto(c, "c_place", "c_count") /\ c \in Procs /\ TypeOK
  BY DEF CPlaceGarbled, Procs, IInv
<1>2. /\ failed["decode"]' = failed["decode"]
      /\ failed["transfer"]' = failed["transfer"]
      /\ failed' \in [FaultKinds -> Nat]
  BY <1>1 DEF CPlaceGarbled, Inject, TypeOK, FaultKinds
<1>3. /\ Delta(SlotHeld, "c_place", "c_count") = 0
      /\ Delta(StripHeld, "c_place", "c_count") = 0
      /\ Delta(TokenHeld, "c_place", "c_count") = 0
      /\ Delta(Bowed, "c_place", "c_count") = 0
  BY LabelSets DEF Delta, Bit
<1>4. /\ CountAt(pc, SlotHeld)' = CountAt(pc, SlotHeld)
      /\ CountAt(pc, StripHeld)' = CountAt(pc, StripHeld)
      /\ CountAt(pc, TokenHeld)' = CountAt(pc, TokenHeld)
      /\ CountAt(pc, Bowed)' = CountAt(pc, Bowed)
  BY <1>1, <1>3, MoveCounts, Numbers
<1>5. TypeOK'
  BY <1>1, <1>2, GotoTyped
  DEF CPlaceGarbled, TypeOK, Goto, sems, counters, locals, parent, Labels, ProducerLabels,
      ConsumerLabels, StripHeld
<1>6. SlotsAccounted'
  BY <1>1, <1>4, <1>2, Numbers
  DEF CPlaceGarbled, IInv, SlotsAccounted, sems, counters, locals, parent
<1>7. TicketsAccounted'
  BY <1>1, <1>4, <1>2, Numbers
  DEF CPlaceGarbled, IInv, TicketsAccounted, Work, sems, counters, locals, parent
<1>8. TokensAccounted'
  BY <1>1, <1>4, <1>2, Numbers
  DEF CPlaceGarbled, IInv, TokensAccounted, AllProcessed, Ending, Goto, TypeOK, sems,
      counters, locals, parent
<1>9. PushPopNeverFail' /\ LockHeld'
  BY <1>1, ConstantsAssumption
  DEF CPlaceGarbled, IInv, TypeOK, PushPopNeverFail, LockHeld, AllProcessed, Critical, Goto,
      sems, counters, locals, parent
<1> QED BY <1>5, <1>6, <1>7, <1>8, <1>9 DEF IInv

(* The strip is lost with its consumer: a failure is counted for it. *)
LEMMA CCrashStep ==
  ASSUME IInv, NEW c \in Consumers, CCrash(c)
  PROVE  IInv'
<1>1. Goto(c, "c_place", "c_crashed") /\ c \in Procs /\ TypeOK
  BY DEF CCrash, Procs, IInv
<1>2. /\ failed["decode"]' = failed["decode"] + 1
      /\ failed["transfer"]' = failed["transfer"]
      /\ failed' \in [FaultKinds -> Nat]
  BY <1>1 DEF CCrash, Inject, TypeOK, FaultKinds
<1>3. /\ Delta(SlotHeld, "c_place", "c_crashed") = 0
      /\ Delta(StripHeld, "c_place", "c_crashed") = -1
      /\ Delta(TokenHeld, "c_place", "c_crashed") = 0
      /\ Delta(Bowed, "c_place", "c_crashed") = 0
  BY LabelSets DEF Delta, Bit
<1>4. /\ CountAt(pc, SlotHeld)' = CountAt(pc, SlotHeld)
      /\ CountAt(pc, StripHeld)' = CountAt(pc, StripHeld) - 1
      /\ CountAt(pc, TokenHeld)' = CountAt(pc, TokenHeld)
      /\ CountAt(pc, Bowed)' = CountAt(pc, Bowed)
  BY <1>1, <1>3, MoveCounts, Numbers
<1>5. TypeOK'
  BY <1>1, <1>2, GotoTyped, EndIterationTyped
  DEF CCrash, TypeOK, Goto, sems, counters, locals, parent, Labels, ProducerLabels,
      ConsumerLabels, StripHeld
<1>6. /\ buf_spaces_avail' = buf_spaces_avail /\ buf_spaces_occ' = buf_spaces_occ
      /\ next_strip_to_fetch' = next_strip_to_fetch
      /\ strips_processed_count' = strips_processed_count
      /\ Len(ring_buffer)' = Len(ring_buffer)
      /\ failed["transfer"]' = failed["transfer"]
      /\ failed["decode"]' = failed["decode"] + 1
  BY <1>1, <1>2
  DEF CCrash, sems, counters, locals, parent
<1>7. SlotsAccounted'
  BY <1>6, <1>4, SlotNumbers DEF IInv, SlotsAccounted
<1>8. Work' = Work
  BY <1>6, <1>4, WorkNumbers DEF Work
<1>9. TicketsAccounted'
  BY <1>6, <1>4, <1>8, TicketNumbers
  DEF IInv, TicketsAccounted
<1>10. ~AllProcessed' => buf_spaces_occ' + CountAt(pc, TokenHeld)' = Len(ring_buffer)'
  BY <1>6, <1>4, Numbers DEF IInv, TokensAccounted, AllProcessed
<1>11. TokensAccounted'
  BY <1>1, <1>2, <1>6, <1>10, Numbers
  DEF IInv, TokensAccounted, AllProcessed, Ending, Goto, TypeOK
<1>12. PushPopNeverFail' /\ LockHeld'
  BY <1>1, <1>2, ConstantsAssumption
  DEF CCrash, IInv, TypeOK, PushPopNeverFail, LockHeld, AllProcessed, Critical, Goto,
      sems, counters, locals, parent, EndIteration, Ok
<1> QED BY <1>5, <1>7, <1>9, <1>11, <1>12 DEF IInv

(* The strip moves from the consumer to the processed ones. *)
LEMMA CCountStep ==
  ASSUME IInv, NEW c \in Consumers, CCount(c)
  PROVE  IInv'
<1>1. Goto(c, "c_count", "c_full") /\ c \in Procs /\ TypeOK
  BY DEF CCount, Procs, IInv
<1>2. ~AllProcessed
  BY <1>1, Outstanding DEF Goto, StripHeld
<1>3. \A r \in Procs : pc[r] \in {"p_unlock", "p_post", "c_pop"} => strips_processed_count + 1 < NumStrips
  BY <1>1, <1>2, CountedLater DEF Goto
<1>4. /\ Delta(SlotHeld, "c_count", "c_full") = 0
      /\ Delta(StripHeld, "c_count", "c_full") = -1
      /\ Delta(TokenHeld, "c_count", "c_full") = 0
      /\ Delta(Bowed, "c_count", "c_full") = 0
  BY LabelSets DEF Delta, Bit
<1>5. /\ CountAt(pc, SlotHeld)' = CountAt(pc, SlotHeld)
      /\ CountAt(pc, StripHeld)' = CountAt(pc, StripHeld) - 1
      /\ CountAt(pc, TokenHeld)' = CountAt(pc, TokenHeld)
      /\ CountAt(pc, Bowed)' = CountAt(pc, Bowed)
  BY <1>1, <1>4, MoveCounts, Numbers
<1>6. TypeOK'
  BY <1>1, <1>2, <1>3, GotoTyped
  DEF CCount, TypeOK, Goto, sems, counters, locals, parent, Labels, ProducerLabels,
      ConsumerLabels, StripHeld
<1>7. /\ buf_spaces_avail' = buf_spaces_avail /\ buf_spaces_occ' = buf_spaces_occ
      /\ next_strip_to_fetch' = next_strip_to_fetch
      /\ strips_processed_count' = strips_processed_count + 1
      /\ Len(ring_buffer)' = Len(ring_buffer)
      /\ failed["transfer"]' = failed["transfer"]
      /\ failed["decode"]' = failed["decode"]
  BY <1>1, <1>2, <1>3
  DEF CCount, sems, counters, locals, parent
<1>8. SlotsAccounted'
  BY <1>7, <1>5, SlotNumbers DEF IInv, SlotsAccounted
<1>9. Work' = Work
  BY <1>7, <1>5, WorkNumbers DEF Work
<1>10. TicketsAccounted'
  BY <1>7, <1>5, <1>9, TicketNumbers
  DEF IInv, TicketsAccounted
<1>11. ~AllProcessed' => buf_spaces_occ' + CountAt(pc, TokenHeld)' = Len(ring_buffer)'
  BY <1>7, <1>5, Numbers DEF IInv, TokensAccounted, AllProcessed
<1>12. TokensAccounted'
  BY <1>1, <1>2, <1>3, <1>7, <1>11, Numbers
  DEF IInv, TokensAccounted, AllProcessed, Ending, Goto, TypeOK
<1>13. PushPopNeverFail' /\ LockHeld'
  BY <1>1, <1>2, <1>3, ConstantsAssumption
  DEF CCount, IInv, TypeOK, PushPopNeverFail, LockHeld, AllProcessed, Critical, Goto,
      sems, counters, locals, parent
<1> QED BY <1>6, <1>8, <1>10, <1>12, <1>13 DEF IInv

(* The consumer goes on, or wakes the others. *)
LEMMA CFullStep ==
  ASSUME IInv, NEW c \in Consumers, CFull(c)
  PROVE  IInv'
<1>1. CASE AllProcessed
  <2>1. Goto(c, "c_full", "c_wake") /\ c \in Procs /\ TypeOK
    BY <1>1 DEF CFull, Procs, IInv
  <2>2. /\ Delta(SlotHeld, "c_full", "c_wake") = 0
        /\ Delta(StripHeld, "c_full", "c_wake") = 0
        /\ Delta(TokenHeld, "c_full", "c_wake") = 0
        /\ Delta(Bowed, "c_full", "c_wake") = 0
    BY LabelSets DEF Delta, Bit
  <2>3. /\ CountAt(pc, SlotHeld)' = CountAt(pc, SlotHeld)
        /\ CountAt(pc, StripHeld)' = CountAt(pc, StripHeld)
        /\ CountAt(pc, TokenHeld)' = CountAt(pc, TokenHeld)
        /\ CountAt(pc, Bowed)' = CountAt(pc, Bowed)
    BY <2>1, <2>2, MoveCounts, Numbers
  <2>4. TypeOK'
    BY <1>1, <2>1, GotoTyped
    DEF CFull, TypeOK, Goto, sems, counters, locals, parent, Labels, ProducerLabels,
        ConsumerLabels, StripHeld
  <2>5. SlotsAccounted'
    BY <1>1, <2>1, <2>3, Numbers
    DEF CFull, IInv, SlotsAccounted, sems, counters, locals, parent
  <2>6. TicketsAccounted'
    BY <1>1, <2>1, <2>3, Numbers
    DEF CFull, IInv, TicketsAccounted, Work, sems, counters, locals, parent
  <2>7. TokensAccounted'
    BY <1>1, <2>1, <2>3, Numbers
    DEF CFull, IInv, TokensAccounted, AllProcessed, Ending, Goto, TypeOK, sems,
        counters, locals, parent
  <2>8. PushPopNeverFail' /\ LockHeld'
    BY <1>1, <2>1, ConstantsAssumption
    DEF CFull, IInv, TypeOK, PushPopNeverFail, LockHeld, AllProcessed, Critical, Goto,
        sems, counters, locals, parent
  <2> QED BY <2>4, <2>5, <2>6, <2>7, <2>8 DEF IInv
<1>2. CASE ~AllProcessed
  <2>1. Goto(c, "c_full", "c_wait") /\ c \in Procs /\ TypeOK
    BY <1>2 DEF CFull, Procs, IInv
  <2>2. /\ Delta(SlotHeld, "c_full", "c_wait") = 0
        /\ Delta(StripHeld, "c_full", "c_wait") = 0
        /\ Delta(TokenHeld, "c_full", "c_wait") = 0
        /\ Delta(Bowed, "c_full", "c_wait") = 0
    BY LabelSets DEF Delta, Bit
  <2>3. /\ CountAt(pc, SlotHeld)' = CountAt(pc, SlotHeld)
        /\ CountAt(pc, StripHeld)' = CountAt(pc, StripHeld)
        /\ CountAt(pc, TokenHeld)' = CountAt(pc, TokenHeld)
        /\ CountAt(pc, Bowed)' = CountAt(pc, Bowed)
    BY <2>1, <2>2, MoveCounts, Numbers
  <2>4. TypeOK'
    BY <1>2, <2>1, GotoTyped, EndIterationTyped
    DEF CFull, TypeOK, Goto, sems, counters, locals, parent, Labels, ProducerLabels,
        ConsumerLabels, StripHeld
  <2>5. SlotsAccounted'
    BY <1>2, <2>1, <2>3, Numbers
    DEF CFull, IInv, SlotsAccounted, sems, counters, locals, parent
  <2>6. TicketsAccounted'
    BY <1>2, <2>1, <2>3, Numbers
    DEF CFull, IInv, TicketsAccounted, Work, sems, counters, locals, parent
  <2>7. TokensAccounted'
    BY <1>2, <2>1, <2>3, Numbers
    DEF CFull, IInv, TokensAccounted, AllProcessed, Ending, Goto, TypeOK, sems,
        counters, locals, parent
  <2>8. PushPopNeverFail' /\ LockHeld'
    BY <1>2, <2>1, ConstantsAssumption
    DEF CFull, IInv, TypeOK, PushPopNeverFail, LockHeld, AllProcessed, Critical, Goto,
        sems, counters, locals, parent, EndIteration, Ok
  <2> QED BY <2>4, <2>5, <2>6, <2>7, <2>8 DEF IInv
<1> QED BY <1>1, <1>2

(* Wake-ups are posted when tokens are no longer counted. *)
LEMMA CWakeStep ==
  ASSUME IInv, NEW c \in Consumers, CWake(c)
  PROVE  IInv'
<1>1. CASE wakeups[c] + 1 = Cardinality(Consumers)
  <2>1. Goto(c, "c_wake", "c_wait") /\ c \in Procs /\ TypeOK
    BY <1>1 DEF CWake, Procs, IInv
  <2>2. AllProcessed
    BY <1>1, <2>1 DEF IInv, TokensAccounted, Ending, CWake, Goto
  <2>3. /\ Delta(SlotHeld, "c_wake", "c_wait") = 0
        /\ Delta(StripHeld, "c_wake", "c_wait") = 0
        /\ Delta(TokenHeld, "c_wake", "c_wait") = 0
        /\ Delta(Bowed, "c_wake", "c_wait") = 0
    BY LabelSets DEF Delta, Bit
  <2>4. /\ CountAt(pc, SlotHeld)' = CountAt(pc, SlotHeld)
        /\ CountAt(pc, StripHeld)' = CountAt(pc, StripHeld)
        /\ CountAt(pc, TokenHeld)' = CountAt(pc, TokenHeld)
        /\ CountAt(pc, Bowed)' = CountAt(pc, Bowed)
    BY <2>1, <2>3, MoveCounts, Numbers
  <2>5. TypeOK'
    BY <1>1, <2>1, <2>2, GotoTyped, EndIterationTyped
    DEF CWake, TypeOK, Goto, sems, counters, locals, parent, Labels, ProducerLabels,
        ConsumerLabels, StripHeld
  <2>6. SlotsAccounted'
    BY <1>1, <2>1, <2>2, <2>4, Numbers
    DEF CWake, IInv, SlotsAccounted, sems, counters, locals, parent
  <2>7. TicketsAccounted'
    BY <1>1, <2>1, <2>2, <2>4, Numbers
    DEF CWake, IInv, TicketsAccounted, Work, sems, counters, locals, parent
  <2>8. TokensAccounted'
    BY <1>1, <2>1, <2>2, <2>4, Numbers
    DEF CWake, IInv, TokensAccounted, AllProcessed, Ending, Goto, TypeOK, sems,
        counters, locals, parent
  <2>9. PushPopNeverFail' /\ LockHeld'
    BY <1>1, <2>1, <2>2, ConstantsAssumption
    DEF CWake, IInv, TypeOK, PushPopNeverFail, LockHeld, AllProcessed, Critical, Goto,
        sems, counters, locals, parent, EndIteration, Ok
  <2> QED BY <2>5, <2>6, <2>7, <2>8, <2>9 DEF IInv
<1>2. CASE wakeups[c] + 1 # Cardinality(Consumers)
  <2>1. Goto(c, "c_wake", "c_wake") /\ c \in Procs /\ TypeOK
    BY <1>2 DEF CWake, Procs, IInv
  <2>2. AllProcessed
    BY <1>2, <2>1 DEF IInv, TokensAccounted, Ending, CWake, Goto
  <2>3. /\ Delta(SlotHeld, "c_wake", "c_wake") = 0
        /\ Delta(StripHeld, "c_wake", "c_wake") = 0
        /\ Delta(TokenHeld, "c_wake", "c_wake") = 0
        /\ Delta(Bowed, "c_wake", "c_wake") = 0
    BY LabelSets DEF Delta, Bit
  <2>4. /\ CountAt(pc, SlotHeld)' = CountAt(pc, SlotHeld)
        /\ CountAt(pc, StripHeld)' = CountAt(pc, StripHeld)
        /\ CountAt(pc, TokenHeld)' = CountAt(pc, TokenHeld)
        /\ CountAt(pc, Bowed)' = CountAt(pc, Bowed)
    BY <2>1, <2>3, MoveCounts, Numbers
  <2>5. TypeOK'
    BY <1>2, <2>1, <2>2, GotoTyped
    DEF CWake, TypeOK, Goto, sems, counters, locals, parent, Labels, ProducerLabels,
        ConsumerLabels, StripHeld
  <2>6. SlotsAccounted'
    BY <1>2, <2>1, <2>2, <2>4, Numbers
    DEF CWake, IInv, SlotsAccounted, sems, counters, locals, parent
  <2>7. TicketsAccounted'
    BY <1>2, <2>1, <2>2, <2>4, Numbers
    DEF CWake, IInv, TicketsAccounted, Work, sems, counters, locals, parent
  <2>8. TokensAccounted'
    BY <1>2, <2>1, <2>2, <2>4, Numbers
    DEF CWake, IInv, TokensAccounted, AllProcessed, Ending, Goto, TypeOK, sems,
        counters, locals, parent
  <2>9. PushPopNeverFail' /\ LockHeld'
    BY <1>2, <2>1, <2>2, ConstantsAssumption
    DEF CWake, IInv, TypeOK, PushPopNeverFail, LockHeld, AllProcessed, Critical, Goto,
        sems, counters, locals, parent
  <2> QED BY <2>5, <2>6, <2>7, <2>8, <2>9 DEF IInv
<1> QED BY <1>1, <1>2

-----------------------------------------------------------------------------
(* The parent's actions, and the initial states. *)

(* The counts only depend on the labels. *)
LEMMA SameCounts ==
  ASSUME pc' = pc, NEW L
  PROVE  CountAt(pc, L)' = CountAt(pc, L)
  BY DEF CountAt

(* A step that leaves the children and what they share alone. *)
LEMMA ParentOnly ==
  ASSUME IInv, TypeOK',
         UNCHANGED <<sems, ring_buffer_mutex, ring_buffer, counters, pc, ret>>,
         failed["transfer"]' = failed["transfer"], failed["decode"]' = failed["decode"]
  PROVE  IInv'
<1>1. /\ buf_spaces_avail' = buf_spaces_avail /\ buf_spaces_occ' = buf_spaces_occ
      /\ next_strip_to_fetch' = next_strip_to_fetch
      /\ strips_processed_count' = strips_processed_count
      /\ ring_buffer' = ring_buffer /\ pc' = pc
  BY DEF sems, counters
<1>2. /\ CountAt(pc, SlotHeld)' = CountAt(pc, SlotHeld)
      /\ CountAt(pc, StripHeld)' = CountAt(pc, StripHeld)
      /\ CountAt(pc, TokenHeld)' = CountAt(pc, TokenHeld)
      /\ CountAt(pc, Bowed)' = CountAt(pc, Bowed)
  BY <1>1, SameCounts
<1>3. SlotsAccounted'
  BY <1>1, <1>2 DEF IInv, SlotsAccounted
<1>4. TicketsAccounted'
  BY <1>1, <1>2 DEF IInv, TicketsAccounted, Work
<1>5. TokensAccounted'
  BY <1>1, <1>2 DEF IInv, TokensAccounted, AllProcessed
<1>6. PushPopNeverFail' /\ LockHeld'
  BY <1>1 DEF IInv, PushPopNeverFail, LockHeld, AllProcessed
<1> QED BY <1>3, <1>4, <1>5, <1>6 DEF IInv

(* A child is born outside all label sets of the accounts. *)
LEMMA ForkStep ==
  ASSUME IInv, NEW q \in Procs, NEW S \in SUBSET Procs,
         NEW first \in {"p_wait", "c_wait"}, NEW next \in MainLabels,
         Fork(q, S, first, next)
  PROVE  IInv'
<1>1. Goto(q, "unborn", first) /\ TypeOK
  BY DEF Fork, Unborn, Goto, IInv
<1>2. /\ Delta(SlotHeld, "unborn", first) = 0
      /\ Delta(StripHeld, "unborn", first) = 0
      /\ Delta(TokenHeld, "unborn", first) = 0
      /\ Delta(Bowed, "unborn", first) = 0
  BY LabelSets DEF Delta, Bit
<1>3. /\ CountAt(pc, SlotHeld)' = CountAt(pc, SlotHeld)
      /\ CountAt(pc, StripHeld)' = CountAt(pc, StripHeld)
      /\ CountAt(pc, TokenHeld)' = CountAt(pc, TokenHeld)
      /\ CountAt(pc, Bowed)' = CountAt(pc, Bowed)
  BY <1>1, <1>2, MoveCounts, Numbers
<1>4. TypeOK'
  BY <1>1, GotoTyped
  DEF Fork, TypeOK, Goto, sems, counters, locals, Labels, ProducerLabels,
      ConsumerLabels, StripHeld
<1>5. /\ buf_spaces_avail' = buf_spaces_avail /\ buf_spaces_occ' = buf_spaces_occ
      /\ next_strip_to_fetch' = next_strip_to_fetch
      /\ strips_processed_count' = strips_processed_count
      /\ ring_buffer' = ring_buffer /\ failed' = failed
  BY DEF Fork, sems, counters
<1>6. SlotsAccounted'
  BY <1>3, <1>5 DEF IInv, SlotsAccounted
<1>7. TicketsAccounted'
  BY <1>3, <1>5 DEF IInv, TicketsAccounted, Work
<1>8. TokensAccounted'
  BY <1>1, <1>3, <1>5
  DEF IInv, TokensAccounted, AllProcessed, Ending, Goto, TypeOK
<1>9. PushPopNeverFail' /\ LockHeld'
  BY <1>1
  DEF Fork, IInv, TypeOK, PushPopNeverFail, LockHeld, AllProcessed, Critical, Goto,
      counters, locals
<1> QED BY <1>4, <1>6, <1>7, <1>8, <1>9 DEF IInv

(* Initially all slots are free and all other accounts empty. *)
LEMMA InitInv == Init => IInv
<1> SUFFICES ASSUME Init PROVE IInv
  OBVIOUS
<1>1. ASSUME NEW L, "unborn" \notin L PROVE CountAt(pc, L) = 0
  <2>1. {q \in Procs : pc[q] \in L} = {}
    BY <1>1 DEF Init
  <2> QED BY <2>1, FS_EmptySet DEF CountAt
<1>2. "unborn" \notin SlotHeld \cup StripHeld \cup TokenHeld \cup Bowed
  BY LabelSets
<1>3. /\ CountAt(pc, SlotHeld) = 0 /\ CountAt(pc, StripHeld) = 0
      /\ CountAt(pc, TokenHeld) = 0 /\ CountAt(pc, Bowed) = 0
  BY <1>1, <1>2
<1>4. ring_buffer \in Seq(Strips) /\ Len(ring_buffer) = 0
  BY EmptySeq DEF Init, EmptyRing
<1>5. TypeOK
  BY <1>4, ConstantsAssumption
  DEF Init, TypeOK, Labels, MainLabels, StripHeld, Ok, Failed
<1>6. failed["transfer"] = 0 /\ failed["decode"] = 0
  BY DEF Init, FaultKinds
<1>7. SlotsAccounted /\ TicketsAccounted
  BY <1>3, <1>4, <1>6, ConstantsAssumption
  DEF Init, SlotsAccounted, TicketsAccounted, Work
<1>8. TokensAccounted
  BY <1>3, <1>4 DEF Init, TokensAccounted, Ending
<1>9. PushPopNeverFail /\ LockHeld
  BY DEF Init, PushPopNeverFail, LockHeld, Critical
<1> QED BY <1>5, <1>7, <1>8, <1>9 DEF IInv

(* Every step, and a stuttering one, keeps the invariant. *)
LEMMA NextInv == IInv /\ [Next]_vars => IInv'
<1> SUFFICES ASSUME IInv, [Next]_vars PROVE IInv'
  OBVIOUS
<1>1. ASSUME NEW p \in Producers, producer_work(p) PROVE IInv'
  BY <1>1, PWaitStep, PTicketStep, PBowStep, PFetchedStep, PFetchFailsStep,
     PLockStep, PPushStep, PUnlockStep, PPostStep
  DEF producer_work
<1>2. ASSUME NEW c \in Consumers, consumer_work(c) PROVE IInv'
  BY <1>2, CWaitStep, CLockStep, CCheckStep, CUnlockEmptyStep, CRepostStep,
     COverStep, CUnlockAgainStep, CPopStep, CUnlockStep, CSlotStep, CPlaceStep, CPlaceGarbledStep,
     CCrashStep, CCountStep, CFullStep, CWakeStep
  DEF consumer_work
<1>3. CASE main_work
  <2>1. ASSUME NEW p \in Producers, ForkProducer(p) PROVE IInv'
    BY <2>1, ForkStep DEF ForkProducer, Procs, MainLabels
  <2>2. ASSUME NEW c \in Consumers, ForkConsumer(c) PROVE IInv'
    BY <2>2, ForkStep DEF ForkConsumer, Procs, MainLabels
  <2>3. CASE ForkFails
    <3>1. /\ failed["transfer"]' = failed["transfer"]
          /\ failed["decode"]' = failed["decode"]
          /\ failed' \in [FaultKinds -> Nat]
      BY <2>3 DEF ForkFails, Inject, IInv, TypeOK, FaultKinds
    <3>2. TypeOK'
      BY <2>3, <3>1
      DEF ForkFails, IInv, TypeOK, MainLabels, sems, counters, locals
    <3> QED BY <2>3, <3>1, <3>2, ParentOnly DEF ForkFails, locals
  <2>4. CASE WaitChildren
    <3>1. TypeOK'
      BY <2>4 DEF WaitChildren, IInv, TypeOK, MainLabels, sems, counters, locals
    <3> QED BY <2>4, <3>1, ParentOnly DEF WaitChildren, locals
  <2>5. CASE BuildImage
    <3>1. TypeOK'
      BY <2>5 DEF BuildImage, IInv, TypeOK, MainLabels, sems, counters, locals
    <3> QED BY <2>5, <3>1, ParentOnly DEF BuildImage, locals
  <2> QED BY <1>3, <2>1, <2>2, <2>3, <2>4, <2>5 DEF main_work
<1>4. CASE UNCHANGED vars
  <2>1. TypeOK'
    BY <1>4 DEF vars, IInv, TypeOK, sems, counters, locals, parent
  <2> QED BY <1>4, <2>1, ParentOnly DEF vars, locals
<1> QED BY <1>1, <1>2, <1>3, <1>4 DEF Next, Returned

-----------------------------------------------------------------------------
(* The results. *)

(* The accounting of slots, tickets and tokens, and what it rests on, is   *)
(* an invariant of paster2.c for any number of producers and consumers,    *)
(* any buffer size and any number of strips and of injected faults.        *)
THEOREM Invariance == Spec => []IInv
  BY InitInv, NextInv, PTL DEF Spec

(* Every variable always has its type: no strip number outside the image   *)
(* enters the buffer or the final pixel buffer.                            *)
THEOREM TypeCorrect == Spec => []TypeOK
<1>1. IInv => TypeOK
  BY DEF IInv
<1> QED BY <1>1, Invariance, PTL

(* No slot of the bounded buffer is ever duplicated, and the only way to   *)
(* lose one is a failed transfer.                                          *)
THEOREM SlotsSafe == Spec => []SlotsAccounted
<1>1. IInv => SlotsAccounted
  BY DEF IInv
<1> QED BY <1>1, Invariance, PTL

(* However often the ticket counter is taken back, no more than NumStrips  *)
(* strips are under way or done.                                           *)
THEOREM TicketsSafe == Spec => []TicketsAccounted
<1>1. IInv => TicketsAccounted
  BY DEF IInv
<1> QED BY <1>1, Invariance, PTL

(* Until all strips are processed buf_spaces_occ counts the stack, so that *)
(* no consumer finds it empty and goes round its loop for nothing.         *)
THEOREM TokensSafe == Spec => []TokensAccounted
<1>1. IInv => TokensAccounted
  BY DEF IInv
<1> QED BY <1>1, Invariance, PTL

(* The error branches after push and pop are dead code. *)
THEOREM NoBufferErrors == Spec => []PushPopNeverFail
<1>1. IInv => PushPopNeverFail
  BY DEF IInv
<1> QED BY <1>1, Invariance, PTL

(* Whoever changes the stack is alone in the critical section, in spite of *)
(* the unlock without a lock at the end of consumer_work.                  *)
THEOREM StackChangesExclusive == Spec => []RingExclusive
<1>1. IInv => RingExclusive
  <2> SUFFICES ASSUME IInv, NEW q \in Procs,
                      pc[q] \in {"p_push", "p_unlock", "c_pop", "c_unlock"}
               PROVE  /\ ring_buffer_mutex = q
                      /\ \A r \in Procs \ {q} : pc[r] \notin Critical
    BY DEF RingExclusive
  <2>1. ~AllProcessed
    <3>1. CASE pc[q] \in {"p_push", "c_unlock"}
      BY <3>1, Outstanding DEF StripHeld
    <3>2. CASE pc[q] \in {"p_unlock", "c_pop"}
      BY <3>2 DEF IInv, TokensAccounted
    <3> QED BY <3>1, <3>2
  <2>2. pc[q] \in Critical
    BY DEF Critical
  <2> QED BY <2>1, <2>2 DEF IInv, LockHeld
<1> QED BY <1>1, Invariance, PTL

(* A consumer leaves its loop only when there is nothing left to do. *)
THEOREM QuittingIsSafe == Spec => []QuitMeansDone
<1>1. IInv => QuitMeansDone
  <2> SUFFICES ASSUME IInv, NEW c \in Consumers, pc[c] = "c_exited"
               PROVE  /\ AllProcessed
                      /\ IsEmpty(ring_buffer)
                      /\ \A q \in Procs : pc[q] \notin StripHeld
    BY DEF QuitMeansDone
  <2>1. c \in Procs
    BY DEF Procs
  <2>2. AllProcessed
    BY <2>1 DEF IInv, TokensAccounted, Ending
  <2> QED BY <2>1, <2>2, Outstanding
<1> QED BY <1>1, Invariance, PTL

(* The step that fills the counter of the consumers is the last that       *)
(* touches the stack, the final pixel buffer or the counter: a process     *)
(* that could do so has a strip, or finds one, that is still to be counted.*)
THEOREM NothingAfterLast == Spec => DoneIsFinal
<1>1. ASSUME IInv, [Next]_vars, strips_processed_count >= NumStrips
      PROVE  UNCHANGED <<ring_buffer, final_strips, strips_processed_count>>
  <2>1. AllProcessed
    BY <1>1 DEF AllProcessed
  <2>2. ASSUME NEW p \in Producers, producer_work(p)
        PROVE  UNCHANGED <<ring_buffer, final_strips, strips_processed_count>>
    <3>1. p \in Procs
      BY DEF Procs
    <3>2. ~PPush(p)
      BY <1>1, <2>1, <3>1, Outstanding DEF PPush, Goto, StripHeld
    <3> QED BY <2>2, <3>2
            DEF producer_work, PWait, PTicket, PBow, PFetched, PFetchFails, PLock, PUnlock, PPost,
                counters
  <2>3. ASSUME NEW c \in Consumers, consumer_work(c)
        PROVE  UNCHANGED <<ring_buffer, final_strips, strips_processed_count>>
    <3>1. c \in Procs
      BY DEF Procs
    <3>2. pc[c] \notin StripHeld /\ pc[c] # "c_pop"
      BY <1>1, <2>1, <3>1, Outstanding DEF IInv, TokensAccounted
    <3>3. ~CPop(c) /\ ~CPlace(c) /\ ~CCount(c)
      BY <3>2 DEF CPop, CPlace, CCount, Goto, StripHeld
    <3> QED BY <2>3, <3>3
            DEF consumer_work, CWait, CLock, CCheck, CUnlockEmpty, CRepost, COver, CUnlockAgain,
                CUnlock, CSlot, CPlaceGarbled, CCrash, CFull, CWake, counters
  <2>4. CASE main_work \/ Returned \/ UNCHANGED vars
    BY <2>4 DEF main_work, ForkProducer, ForkConsumer, Fork, ForkFails, WaitChildren,
                BuildImage, Returned, vars, counters
  <2> QED BY <1>1, <2>2, <2>3, <2>4 DEF Next
<1>2. IInv /\ [Next]_vars =>
        [strips_processed_count >= NumStrips =>
           UNCHANGED <<ring_buffer, final_strips, strips_processed_count>>]_vars
  BY <1>1
<1> QED BY <1>2, Invariance, PTL DEF Spec, DoneIsFinal

-----------------------------------------------------------------------------
(* The program runs down *)

(* Changing one value changes the sum by as much. *)
LEMMA SumMoves ==
  ASSUME NEW f \in [Procs -> Nat], NEW g \in [Procs -> Nat], NEW q \in Procs,
         \A r \in Procs \ {q} : g[r] = f[r]
  PROVE  /\ SumOver(f) \in Nat
         /\ SumOver(g) = SumOver(f) - f[q] + g[q]
<1> DEFINE Pairs(h) == UNION {{r} \X (1 .. h[r]) : r \in Procs}
           Others == UNION {{r} \X (1 .. f[r]) : r \in Procs \ {q}}
<1>1. ASSUME NEW r \in Procs, NEW n \in Nat
      PROVE  IsFiniteSet({r} \X (1 .. n)) /\ Cardinality({r} \X (1 .. n)) = n
  <2>1. IsFiniteSet({r}) /\ Cardinality({r}) = 1
    BY FS_Singleton
  <2>2. IsFiniteSet(1 .. n) /\ Cardinality(1 .. n) = n
    <3>1. 1 \in Int /\ n \in Int /\ (1 > n => n = 0)
      OBVIOUS
    <3>2. IsFiniteSet(1 .. n) /\ Cardinality(1 .. n) = IF 1 > n THEN 0 ELSE n - 1 + 1
      BY <3>1, FS_Interval, Zenon
    <3> QED BY <3>1, <3>2
  <2>3. IsFiniteSet({r} \X (1 .. n)) /\ Cardinality({r} \X (1 .. n)) = 1 * n
    BY <2>1, <2>2, FS_Product, Zenon
  <2> QED BY <2>3
<1>2. IsFiniteSet(Others)
  <2> DEFINE Parts == {{r} \X (1 .. f[r]) : r \in Procs \ {q}}
  <2>1. IsFiniteSet(Parts)
    <3>1. IsFiniteSet(Procs \ {q})
      BY ProcsFinite, FS_Subset
    <3> DEFINE part == [r \in Procs \ {q} |-> {r} \X (1 .. f[r])]
    <3>2. part \in Surjection(Procs \ {q}, Parts)
      BY DEF Surjection
    <3> QED BY <3>1, <3>2, FS_Surjection
  <2>2. ASSUME NEW T \in Parts
        PROVE  IsFiniteSet(T)
    <3>1. PICK r \in Procs \ {q} : T = {r} \X (1 .. f[r])
      OBVIOUS
    <3> QED BY <1>1, <3>1
  <2> QED BY <2>1, <2>2, FS_UNION
<1>3. ASSUME NEW h \in [Procs -> Nat], \A r \in Procs \ {q} : h[r] = f[r]
      PROVE  SumOver(h) = Cardinality(Others) + h[q]
  <2>1. Pairs(h) = Others \cup ({q} \X (1 .. h[q]))
    <3>1. ASSUME NEW x
          PROVE  x \in Pairs(h) <=> x \in Others \/ x \in {q} \X (1 .. h[q])
      <4>1. x \in Pairs(h) <=> \E r \in Procs : x \in {r} \X (1 .. h[r])
        BY Zenon
      <4>2. x \in Others <=> \E r \in Procs \ {q} : x \in {r} \X (1 .. f[r])
        BY Zenon
      <4>3. (\E r \in Procs \ {q} : x \in {r} \X (1 .. f[r]))
              <=> \E r \in Procs \ {q} : x \in {r} \X (1 .. h[r])
        BY <1>3
      <4> QED BY <4>1, <4>2, <4>3, Zenon
    <3> QED BY <3>1, Zenon
  <2>2. Others \cap ({q} \X (1 .. h[q])) = {}
    OBVIOUS
  <2>3. IsFiniteSet({q} \X (1 .. h[q])) /\ Cardinality({q} \X (1 .. h[q])) = h[q]
    BY <1>1
  <2>4. Cardinality(Pairs(h)) = Cardinality(Others) + h[q] - Cardinality({})
    BY <1>2, <2>1, <2>2, <2>3, FS_Union
  <2> QED BY <1>2, <2>4, FS_EmptySet, FS_CardinalityType DEF SumOver
<1>4. Cardinality(Others) \in Nat
  BY <1>2, FS_CardinalityType
<1> QED BY <1>3, <1>4

(* What the bound needs: no consumer makes more wake-ups than there are    *)
(* consumers, and none draws tickets.                                      *)
RunInv ==
  /\ \A q \in Procs : wakeups[q] < Cardinality(Consumers)
  /\ \A c \in Consumers : pc[c] \notin Bowed

(* There are some children of each kind. *)
LEMMA ChildrenCounted ==
  /\ Cardinality(Producers) \in Nat
  /\ Cardinality(Consumers) \in Nat /\ Cardinality(Consumers) >= 1
<1>1. Cardinality(Producers) \in Nat /\ Cardinality(Consumers) \in Nat
  BY ConstantsAssumption, FS_CardinalityType
<1>2. Cardinality(Consumers) # 0
  BY ConstantsAssumption, FS_EmptySet
<1> QED BY <1>1, <1>2

(* A child has a number of steps left. *)
LEMMA StepsLeftTyped ==
  ASSUME TypeOK, RunInv
  PROVE  StepsLeft \in [Procs -> Nat]
<1> SUFFICES ASSUME NEW q \in Procs
             PROVE  StepsFrom[pc[q]] - (IF pc[q] = "c_wake" THEN wakeups[q] ELSE 0) \in Nat
  BY DEF StepsLeft
<1>1. pc[q] \in Labels /\ wakeups[q] \in Nat /\ wakeups[q] < Cardinality(Consumers)
  BY DEF TypeOK, RunInv
<1>2. \A l \in Labels : StepsFrom[l] \in Nat
  BY ChildrenCounted DEF Labels, ProducerLabels, ConsumerLabels, StepsFrom
<1>3. StepsFrom["c_wake"] = 8 + Cardinality(Consumers)
  BY DEF StepsFrom
<1> QED BY <1>1, <1>2, <1>3, ChildrenCounted

(* How many steps the parent has left is a number. *)
LEMMA MainStepsTyped ==
  ASSUME NEW m \in MainLabels
  PROVE  MainSteps[m] \in Nat
BY DEF MainLabels, MainSteps

(* The bound is never negative: the accounts bound the counters. *)
LEMMA StepsNat ==
  ASSUME IInv, RunInv
  PROVE  StepsAtMost \in Nat
<1> DEFINE round == 9 + Cardinality(Consumers)
           left == NumStrips - strips_processed_count
<1>1. TypeOK
  BY DEF IInv
<1>2. SumOver(StepsLeft) \in Nat
  <2>1. PICK q \in Procs : TRUE
    BY ConstantsAssumption DEF Procs
  <2> QED BY <1>1, <2>1, StepsLeftTyped, SumMoves
<1>3. CountAt(pc, Bowed) <= Cardinality(Producers)
  <2>1. {q \in Procs : pc[q] \in Bowed} \subseteq Producers
    BY DEF RunInv, Procs
  <2> QED BY <2>1, ConstantsAssumption, FS_Subset DEF CountAt
<1>4. NumStrips + Cardinality(Producers) - next_strip_to_fetch \in Nat
  <2>1. next_strip_to_fetch <= NumStrips + CountAt(pc, Bowed)
    BY Numbers DEF IInv, TicketsAccounted, Work
  <2>2. /\ next_strip_to_fetch \in Int /\ NumStrips \in Nat
        /\ CountAt(pc, Bowed) \in Nat
    BY Numbers
  <2> QED BY <1>3, <2>1, <2>2, ChildrenCounted
<1>5. BufSize - failed["transfer"] \in Nat
  BY Numbers DEF IInv, SlotsAccounted
<1>6. left \in Nat
  BY Numbers DEF IInv, TicketsAccounted, Work
<1>7. round * left \in Nat
  <2>1. round \in Nat
    BY ChildrenCounted
  <2> HIDE DEF round, left
  <2> QED BY <1>6, <2>1
<1>8. MainSteps[main] \in Nat
  <2>1. main \in MainLabels
    BY <1>1 DEF TypeOK
  <2> QED BY <2>1, MainStepsTyped
<1> HIDE DEF round, left
<1>9. StepsAtMost = SumOver(StepsLeft)
                      + 7 * (NumStrips + Cardinality(Producers) - next_strip_to_fetch)
                      + 3 * (BufSize - failed["transfer"]) + round * left + MainSteps[main]
  BY DEF StepsAtMost, round, left
<1> QED BY <1>2, <1>4, <1>5, <1>7, <1>8, <1>9

(* A step of a child lowers the bound if what it adds to its own steps is  *)
(* less than what is taken from the tickets, failures and strips left.     *)
LEMMA StepLowers ==
  ASSUME IInv, RunInv, TypeOK', RunInv', NEW q \in Procs, NEW from, NEW to, Goto(q, from, to),
         \A r \in Procs \ {q} : wakeups'[r] = wakeups[r],
         NEW tickets \in Int, next_strip_to_fetch' = next_strip_to_fetch + tickets,
         NEW fails \in Int, failed'["transfer"] = failed["transfer"] + fails,
         NEW counted \in {0, 1}, strips_processed_count' = strips_processed_count + counted,
         main' = main,
         StepsLeft'[q] - StepsLeft[q]
           < 7 * tickets + 3 * fails + (IF counted = 1 THEN 9 + Cardinality(Consumers) ELSE 0)
  PROVE  StepsAtMost' < StepsAtMost
<1> DEFINE round == 9 + Cardinality(Consumers)
           left == NumStrips - strips_processed_count
<1>1. TypeOK
  BY DEF IInv
<1>2. StepsLeft \in [Procs -> Nat] /\ StepsLeft' \in [Procs -> Nat]
  <2>1. StepsLeft \in [Procs -> Nat]
    BY <1>1, StepsLeftTyped
  <2>2. (TypeOK /\ RunInv => StepsLeft \in [Procs -> Nat])'
    BY StepsLeftTyped, PTL
  <2> QED BY <2>1, <2>2
<1>3. \A r \in Procs \ {q} : StepsLeft'[r] = StepsLeft[r]
  BY <1>1 DEF StepsLeft, Goto, TypeOK
<1>4. SumOver(StepsLeft)' = SumOver(StepsLeft')
  BY DEF SumOver
<1>5. /\ SumOver(StepsLeft) \in Nat
      /\ SumOver(StepsLeft)' = SumOver(StepsLeft) - StepsLeft[q] + StepsLeft'[q]
  BY <1>2, <1>3, <1>4, SumMoves
<1>6. MainSteps[main] \in Nat
  <2>1. main \in MainLabels
    BY <1>1 DEF TypeOK
  <2> QED BY <2>1, MainStepsTyped
<1>7. round \in Int /\ left \in Int /\ left' = left - counted
  <2>1. NumStrips \in Nat /\ strips_processed_count \in Nat
    BY Numbers
  <2> QED BY <2>1, ChildrenCounted
<1>8. /\ round * left \in Int
      /\ round * (left - counted) = round * left - (IF counted = 1 THEN round ELSE 0)
  <2> HIDE DEF round, left
  <2>1. CASE counted = 0
    BY <1>7, <2>1
  <2>2. CASE counted = 1
    BY <1>7, <2>2
  <2> QED BY <2>1, <2>2
<1>9. /\ StepsAtMost = SumOver(StepsLeft)
                         + 7 * (NumStrips + Cardinality(Producers) - next_strip_to_fetch)
                         + 3 * (BufSize - failed["transfer"]) + round * left + MainSteps[main]
      /\ StepsAtMost' = SumOver(StepsLeft)'
                         + 7 * (NumStrips + Cardinality(Producers) - next_strip_to_fetch')
                         + 3 * (BufSize - failed'["transfer"]) + round * (left - counted)
                         + MainSteps[main]
  <2>1. NumStrips - strips_processed_count' = left - counted
    BY <1>7
  <2> QED BY <2>1, Zenon DEF StepsAtMost
<1>10. StepsLeft[q] \in Nat /\ StepsLeft'[q] \in Nat
  BY <1>2
<1>11. StepsLeft'[q] - StepsLeft[q]
         < 7 * tickets + 3 * fails + (IF counted = 1 THEN round ELSE 0)
  OBVIOUS
<1>12. /\ NumStrips \in Int /\ Cardinality(Producers) \in Int /\ BufSize \in Int
       /\ next_strip_to_fetch \in Int /\ failed["transfer"] \in Int
  <2>1. /\ NumStrips \in Nat /\ BufSize \in Nat /\ next_strip_to_fetch \in Int
        /\ failed["transfer"] \in Nat
    BY Numbers
  <2> QED BY <2>1, ChildrenCounted
<1> DEFINE product == round * left
           less == IF counted = 1 THEN round ELSE 0
<1>13. /\ StepsAtMost = SumOver(StepsLeft)
                         + 7 * (NumStrips + Cardinality(Producers) - next_strip_to_fetch)
                         + 3 * (BufSize - failed["transfer"]) + product + MainSteps[main]
       /\ StepsAtMost' = SumOver(StepsLeft)'
                         + 7 * (NumStrips + Cardinality(Producers) - next_strip_to_fetch')
                         + 3 * (BufSize - failed'["transfer"]) + (product - less)
                         + MainSteps[main]
       /\ product \in Int /\ less \in Int
       /\ StepsLeft'[q] - StepsLeft[q] < 7 * tickets + 3 * fails + less
  <2>1. product - less = round * (left - counted)
    BY <1>8
  <2>2. less \in Int
    BY <1>7
  <2> QED BY <1>8, <1>9, <1>11, <2>1, <2>2, Zenon
<1> HIDE DEF round, left, product, less
<1> QED BY <1>5, <1>6, <1>10, <1>12, <1>13

(* The steps left before and after a move from one label to another. *)
LEMMA StepsMoved ==
  ASSUME TypeOK, NEW q \in Procs, NEW from, NEW to, Goto(q, from, to)
  PROVE  /\ StepsLeft[q] = StepsFrom[from] - (IF from = "c_wake" THEN wakeups[q] ELSE 0)
         /\ StepsLeft'[q] = StepsFrom[to] - (IF to = "c_wake" THEN wakeups'[q] ELSE 0)
<1>1. pc[q] = from /\ pc'[q] = to
  BY DEF Goto, TypeOK
<1>2. /\ StepsLeft[q] = StepsFrom[pc[q]] - (IF pc[q] = "c_wake" THEN wakeups[q] ELSE 0)
      /\ StepsLeft'[q] = StepsFrom[pc'[q]] - (IF pc'[q] = "c_wake" THEN wakeups'[q] ELSE 0)
  BY DEF StepsLeft
<1> QED BY <1>1, <1>2

(* A step forward, which touches no counter. *)
LEMMA ForwardLowers ==
  ASSUME IInv, RunInv, TypeOK', RunInv', NEW q \in Procs, NEW from, NEW to, Goto(q, from, to),
         \A r \in Procs \ {q} : wakeups'[r] = wakeups[r],
         failed'["transfer"] = failed["transfer"], UNCHANGED <<counters, main>>,
         StepsLeft'[q] < StepsLeft[q]
  PROVE  StepsAtMost' < StepsAtMost
<1>1. next_strip_to_fetch \in Int /\ failed["transfer"] \in Nat /\ strips_processed_count \in Nat
  BY Numbers
<1>2. /\ next_strip_to_fetch' = next_strip_to_fetch + 0
      /\ failed'["transfer"] = failed["transfer"] + 0
      /\ strips_processed_count' = strips_processed_count + 0
      /\ main' = main
  BY <1>1 DEF counters
<1>3. StepsLeft \in [Procs -> Nat] /\ StepsLeft' \in [Procs -> Nat]
  <2>1. StepsLeft \in [Procs -> Nat]
    BY StepsLeftTyped DEF IInv
  <2>2. (TypeOK /\ RunInv => StepsLeft \in [Procs -> Nat])'
    BY StepsLeftTyped, PTL
  <2> QED BY <2>1, <2>2
<1>4. StepsLeft'[q] - StepsLeft[q]
        < 7 * 0 + 3 * 0 + (IF 0 = 1 THEN 9 + Cardinality(Consumers) ELSE 0)
  BY <1>3
<1> QED BY <1>2, <1>4, StepLowers

(* The steps of a producer. *)
LEMMA ProducerLowers ==
  ASSUME IInv, RunInv, IInv', RunInv', NEW p \in Producers, producer_work(p)
  PROVE  StepsAtMost' < StepsAtMost
<1>1. TypeOK /\ TypeOK' /\ p \in Procs
  BY DEF IInv, Procs
<1>2. CASE PWait(p) \/ PBow(p) \/ PFetched(p) \/ PLock(p) \/ PPush(p) \/ PUnlock(p)
  <2>1. PICK from, to :
          /\ Goto(p, from, to)
          /\ from # "c_wake" /\ to # "c_wake"
          /\ StepsFrom[to] = StepsFrom[from] - 1 /\ StepsFrom[from] \in Nat
    BY <1>2 DEF PWait, PBow, PFetched, PLock, PPush, PUnlock, StepsFrom
  <2>2. /\ wakeups' = wakeups /\ failed' = failed
        /\ UNCHANGED <<counters, main>>
    BY <1>2 DEF PWait, PBow, PFetched, PLock, PPush, PUnlock, locals, parent
  <2>3. StepsLeft[p] = StepsFrom[from] - 0 /\ StepsLeft'[p] = StepsFrom[to] - 0
    BY <1>1, <2>1, StepsMoved, Zenon
  <2>4. StepsLeft'[p] < StepsLeft[p]
    BY <2>1, <2>3
  <2> QED BY <1>1, <2>1, <2>2, <2>4, ForwardLowers
<1>3. CASE PTicket(p)
  <2>1. PICK to : Goto(p, "p_ticket", to) /\ to # "c_wake" /\ StepsFrom[to] \in {1, 7}
    BY <1>3 DEF PTicket, StepsFrom
  <2>2. /\ next_strip_to_fetch' = next_strip_to_fetch + 1
        /\ failed'["transfer"] = failed["transfer"] + 0
        /\ strips_processed_count' = strips_processed_count + 0
        /\ wakeups' = wakeups /\ main' = main
    BY <1>3, Numbers DEF PTicket, parent
  <2>3. StepsFrom["p_ticket"] = 1
    BY DEF StepsFrom
  <2>4. StepsLeft[p] = 1 - 0 /\ StepsLeft'[p] = StepsFrom[to] - 0
    BY <1>1, <2>1, <2>3, StepsMoved
  <2>5. StepsLeft'[p] - StepsLeft[p]
          < 7 * 1 + 3 * 0 + (IF 0 = 1 THEN 9 + Cardinality(Consumers) ELSE 0)
    BY <2>1, <2>4
  <2> QED BY <1>1, <2>1, <2>2, <2>5, StepLowers
<1>4. CASE PFetchFails(p)
  <2>1. Goto(p, "p_fetch", "p_wait")
    BY <1>4 DEF PFetchFails
  <2>2. /\ next_strip_to_fetch' = next_strip_to_fetch + (-1)
        /\ failed'["transfer"] = failed["transfer"] + 1
        /\ strips_processed_count' = strips_processed_count + 0
        /\ main' = main
    BY <1>1, <1>4, Numbers DEF PFetchFails, Inject, parent, TypeOK, FaultKinds
  <2>3. \A r \in Procs \ {p} : wakeups'[r] = wakeups[r]
    BY <1>1, <1>4 DEF PFetchFails, EndIteration, TypeOK
  <2>4. StepsFrom["p_fetch"] = 7 /\ StepsFrom["p_wait"] = 2
    BY DEF StepsFrom
  <2>5. StepsLeft[p] = 7 - 0 /\ StepsLeft'[p] = 2 - 0
    BY <1>1, <2>1, <2>4, StepsMoved
  <2>6. StepsLeft'[p] - StepsLeft[p]
          < 7 * (-1) + 3 * 1 + (IF 0 = 1 THEN 9 + Cardinality(Consumers) ELSE 0)
    BY <2>5
  <2> QED BY <1>1, <2>1, <2>2, <2>3, <2>6, StepLowers
<1>5. CASE PPost(p)
  <2>1. Goto(p, "p_post", "p_wait")
    BY <1>5 DEF PPost
  <2>2. ret[p] = Ok
    BY <1>1 DEF IInv, PushPopNeverFail
  <2>3. failed' = failed /\ UNCHANGED <<counters, main>>
    BY <1>5, <2>2 DEF PPost, counters, parent
  <2>4. \A r \in Procs \ {p} : wakeups'[r] = wakeups[r]
    BY <1>1, <1>5 DEF PPost, EndIteration, TypeOK
  <2>5. StepsFrom["p_post"] = 3 /\ StepsFrom["p_wait"] = 2
    BY DEF StepsFrom
  <2>6. StepsLeft[p] = 3 - 0 /\ StepsLeft'[p] = 2 - 0
    BY <1>1, <2>1, <2>5, StepsMoved
  <2>7. StepsLeft'[p] < StepsLeft[p]
    BY <2>6
  <2> QED BY <1>1, <2>1, <2>3, <2>4, <2>7, ForwardLowers
<1> QED BY <1>2, <1>3, <1>4, <1>5 DEF producer_work

(* The steps of a consumer: it is only woken for a strip, or for the end.  *)
LEMMA ConsumerLowers ==
  ASSUME IInv, RunInv, IInv', RunInv', NEW c \in Consumers, consumer_work(c)
  PROVE  StepsAtMost' < StepsAtMost
<1>1. TypeOK /\ TypeOK' /\ c \in Procs
  BY DEF IInv, Procs
<1>2. /\ wakeups[c] \in Nat /\ wakeups[c] < Cardinality(Consumers)
      /\ wakeups'[c] \in Nat /\ wakeups'[c] < Cardinality(Consumers)
  BY <1>1 DEF TypeOK, RunInv
<1>3. CASE CWait(c) \/ CLock(c) \/ CCheck(c) \/ CUnlockEmpty(c) \/ CRepost(c)
             \/ CUnlockAgain(c) \/ CPop(c) \/ CUnlock(c) \/ CPlace(c) \/ CPlaceGarbled(c)
  <2>1. PICK from, to :
          /\ Goto(c, from, to)
          /\ from # "c_wake" /\ to # "c_wake"
          /\ StepsFrom[to] < StepsFrom[from] /\ StepsFrom[from] \in Nat /\ StepsFrom[to] \in Nat
    <3>1. PICK from, to :
            /\ Goto(c, from, to)
            /\ <<from, to>> \in {<<"c_wait", "c_lock">>, <<"c_lock", "c_check">>,
                 <<"c_check", "c_unlock_empty">>, <<"c_check", "c_pop">>,
                 <<"c_unlock_empty", "c_repost">>, <<"c_repost", "c_over">>,
                 <<"c_unlock_again", "c_exited">>, <<"c_pop", "c_unlock">>,
                 <<"c_unlock", "c_slot">>, <<"c_place", "c_count">>}
      BY <1>3 DEF CWait, CLock, CCheck, CUnlockEmpty, CRepost, CUnlockAgain, CPop, CUnlock, CPlace,
           CPlaceGarbled
    <3> QED BY <3>1 DEF StepsFrom
  <2>2. wakeups' = wakeups /\ UNCHANGED <<counters, main>>
    BY <1>3 DEF CWait, CLock, CCheck, CUnlockEmpty, CRepost, CUnlockAgain, CPop, CUnlock, CPlace,
         CPlaceGarbled, locals, parent
  <2>3. failed'["transfer"] = failed["transfer"]
    BY <1>1, <1>3 DEF CWait, CLock, CCheck, CUnlockEmpty, CRepost, CUnlockAgain, CPop, CUnlock,
         CPlace, CPlaceGarbled, Inject, TypeOK, FaultKinds
  <2>4. StepsLeft[c] = StepsFrom[from] - 0 /\ StepsLeft'[c] = StepsFrom[to] - 0
    BY <1>1, <2>1, StepsMoved, Zenon
  <2>5. StepsLeft'[c] < StepsLeft[c]
    BY <2>1, <2>4
  <2> QED BY <1>1, <2>1, <2>2, <2>3, <2>5, ForwardLowers
<1>4. CASE COver(c)
  <2>1. AllProcessed
    BY <1>1, <1>4 DEF COver, Goto, IInv, TokensAccounted, Ending
  <2>2. Goto(c, "c_over", "c_unlock_again")
    BY <1>4, <2>1 DEF COver
  <2>3. wakeups' = wakeups /\ failed' = failed /\ UNCHANGED <<counters, main>>
    BY <1>4 DEF COver, locals, parent
  <2>4. StepsFrom["c_over"] = 2 /\ StepsFrom["c_unlock_again"] = 1
    BY DEF StepsFrom
  <2>5. StepsLeft[c] = 2 - 0 /\ StepsLeft'[c] = 1 - 0
    BY <1>1, <2>2, <2>4, StepsMoved
  <2>6. StepsLeft'[c] < StepsLeft[c]
    BY <2>5
  <2> QED BY <1>1, <2>2, <2>3, <2>6, ForwardLowers
<1>5. CASE CSlot(c)
  <2>1. ret[c] = Ok
    BY <1>1 DEF IInv, PushPopNeverFail
  <2>2. Goto(c, "c_slot", "c_place")
    BY <1>5, <2>1 DEF CSlot
  <2>3. wakeups' = wakeups /\ failed' = failed /\ UNCHANGED <<counters, main>>
    BY <1>5, <2>1 DEF CSlot, locals, parent
  <2>4. StepsFrom["c_slot"] = 3 /\ StepsFrom["c_place"] = 2
    BY DEF StepsFrom
  <2>5. StepsLeft[c] = 3 - 0 /\ StepsLeft'[c] = 2 - 0
    BY <1>1, <2>2, <2>4, StepsMoved
  <2>6. StepsLeft'[c] < StepsLeft[c]
    BY <2>5
  <2> QED BY <1>1, <2>2, <2>3, <2>6, ForwardLowers
<1>6. CASE CCrash(c)
  <2>1. Goto(c, "c_place", "c_crashed")
    BY <1>6 DEF CCrash
  <2>2. failed'["transfer"] = failed["transfer"] /\ UNCHANGED <<counters, main>>
    BY <1>1, <1>6 DEF CCrash, Inject, parent, TypeOK, FaultKinds
  <2>3. \A r \in Procs \ {c} : wakeups'[r] = wakeups[r]
    BY <1>1, <1>6 DEF CCrash, EndIteration, TypeOK
  <2>4. StepsFrom["c_place"] = 2 /\ StepsFrom["c_crashed"] = 0
    BY DEF StepsFrom
  <2>5. StepsLeft[c] = 2 - 0 /\ StepsLeft'[c] = 0 - 0
    BY <1>1, <2>1, <2>4, StepsMoved
  <2>6. StepsLeft'[c] < StepsLeft[c]
    BY <2>5
  <2> QED BY <1>1, <2>1, <2>2, <2>3, <2>6, ForwardLowers
<1>7. CASE CCount(c)
  <2>1. Goto(c, "c_count", "c_full")
    BY <1>7 DEF CCount
  <2>2. /\ next_strip_to_fetch' = next_strip_to_fetch + 0
        /\ failed'["transfer"] = failed["transfer"] + 0
        /\ strips_processed_count' = strips_processed_count + 1
        /\ wakeups' = wakeups /\ main' = main
    BY <1>7, Numbers DEF CCount, locals, parent
  <2>3. StepsFrom["c_count"] = 1 /\ StepsFrom["c_full"] = 9 + Cardinality(Consumers)
    BY DEF StepsFrom
  <2>4. StepsLeft[c] = 1 - 0 /\ StepsLeft'[c] = 9 + Cardinality(Consumers)
    <3>1. /\ StepsLeft[c] = StepsFrom["c_count"] - (IF "c_count" = "c_wake" THEN wakeups[c] ELSE 0)
          /\ StepsLeft'[c] = StepsFrom["c_full"] - (IF "c_full" = "c_wake" THEN wakeups'[c] ELSE 0)
      BY <1>1, <2>1, StepsMoved, Zenon
    <3> QED BY <2>3, <3>1, ChildrenCounted
  <2>5. StepsLeft'[c] - StepsLeft[c]
          < 7 * 0 + 3 * 0 + (IF 1 = 1 THEN 9 + Cardinality(Consumers) ELSE 0)
    BY <2>4, ChildrenCounted
  <2> QED BY <1>1, <2>1, <2>2, <2>5, StepLowers
<1>8. CASE CFull(c)
  <2>1. PICK to \in {"c_wake", "c_wait"} : Goto(c, "c_full", to)
    BY <1>8 DEF CFull
  <2>2. failed' = failed /\ UNCHANGED <<counters, main>>
    BY <1>8 DEF CFull, parent
  <2>3. \A r \in Procs \ {c} : wakeups'[r] = wakeups[r]
    BY <1>1, <1>8 DEF CFull, EndIteration, TypeOK, locals
  <2>4. /\ StepsFrom["c_full"] = 9 + Cardinality(Consumers)
        /\ StepsFrom["c_wake"] = 8 + Cardinality(Consumers) /\ StepsFrom["c_wait"] = 8
    BY DEF StepsFrom
  <2>5. /\ StepsLeft[c] = StepsFrom["c_full"] - (IF "c_full" = "c_wake" THEN wakeups[c] ELSE 0)
        /\ StepsLeft'[c] = StepsFrom[to] - (IF to = "c_wake" THEN wakeups'[c] ELSE 0)
    BY <1>1, <2>1, StepsMoved, Zenon
  <2>6. StepsLeft'[c] < StepsLeft[c]
    BY <1>2, <2>1, <2>4, <2>5, ChildrenCounted
  <2> QED BY <1>1, <2>1, <2>2, <2>3, <2>6, ForwardLowers
<1>9. CASE CWake(c)
  <2>1. PICK to \in {"c_wake", "c_wait"} :
          /\ Goto(c, "c_wake", to)
          /\ to = "c_wake" => wakeups'[c] = wakeups[c] + 1
    BY <1>1, <1>9 DEF CWake, TypeOK
  <2>2. failed' = failed /\ UNCHANGED <<counters, main>>
    BY <1>9 DEF CWake, parent
  <2>3. \A r \in Procs \ {c} : wakeups'[r] = wakeups[r]
    BY <1>1, <1>9 DEF CWake, EndIteration, TypeOK
  <2>4. StepsFrom["c_wake"] = 8 + Cardinality(Consumers) /\ StepsFrom["c_wait"] = 8
    BY DEF StepsFrom
  <2>5. /\ StepsLeft[c] = StepsFrom["c_wake"] - (IF "c_wake" = "c_wake" THEN wakeups[c] ELSE 0)
        /\ StepsLeft'[c] = StepsFrom[to] - (IF to = "c_wake" THEN wakeups'[c] ELSE 0)
    BY <1>1, <2>1, StepsMoved, Zenon
  <2>6. StepsLeft'[c] < StepsLeft[c]
    BY <1>2, <2>1, <2>4, <2>5, ChildrenCounted
  <2> QED BY <1>1, <2>1, <2>2, <2>3, <2>6, ForwardLowers
<1> QED BY <1>3, <1>4, <1>5, <1>6, <1>7, <1>8, <1>9 DEF consumer_work

(* The steps of the parent. *)
LEMMA MainLowers ==
  ASSUME IInv, RunInv, IInv', RunInv', main_work
  PROVE  StepsAtMost' < StepsAtMost
<1>1. TypeOK /\ TypeOK' /\ Producers \subseteq Procs /\ Consumers \subseteq Procs
  BY DEF IInv, Procs
<1>2. /\ next_strip_to_fetch' = next_strip_to_fetch /\ failed'["transfer"] = failed["transfer"]
      /\ strips_processed_count' = strips_processed_count /\ wakeups' = wakeups
  BY <1>1 DEF main_work, ForkProducer, ForkConsumer, Fork, ForkFails, WaitChildren, BuildImage,
       Inject, TypeOK, FaultKinds, counters, locals
<1>3. /\ StepsLeft \in [Procs -> Nat] /\ StepsLeft' \in [Procs -> Nat]
      /\ SumOver(StepsLeft)' = SumOver(StepsLeft')
      /\ SumOver(StepsLeft) \in Nat /\ SumOver(StepsLeft') \in Nat
  <2>1. StepsLeft \in [Procs -> Nat]
    BY <1>1, StepsLeftTyped
  <2>2. (TypeOK /\ RunInv => StepsLeft \in [Procs -> Nat])'
    BY StepsLeftTyped, PTL
  <2>3. SumOver(StepsLeft)' = SumOver(StepsLeft')
    BY DEF SumOver
  <2>4. PICK q \in Procs : TRUE
    BY ConstantsAssumption DEF Procs
  <2>5. ASSUME NEW f \in [Procs -> Nat]
        PROVE  SumOver(f) \in Nat
    BY <2>4, <2>5, SumMoves
  <2> QED BY <1>1, <2>1, <2>2, <2>3, <2>5
<1>4. MainSteps[main'] \in Nat /\ MainSteps[main] \in Nat
  <2>1. main \in MainLabels /\ main' \in MainLabels
    BY <1>1 DEF TypeOK, MainLabels
  <2> QED BY <2>1, MainStepsTyped
<1>5. SumOver(StepsLeft)' + MainSteps[main'] < SumOver(StepsLeft) + MainSteps[main]
  <2> DEFINE lower == SumOver(StepsLeft)' + MainSteps[main'] < SumOver(StepsLeft) + MainSteps[main]
  <2>2. ASSUME NEW q \in Procs, NEW to \in {"p_wait", "c_wait"}, Goto(q, "unborn", to),
               MainSteps[main'] <= MainSteps[main]
        PROVE  lower
    <3>1. StepsFrom["unborn"] = 9 /\ StepsFrom[to] \in {2, 8} /\ to # "c_wake"
      BY DEF StepsFrom
    <3>2. StepsLeft[q] = 9 - 0 /\ StepsLeft'[q] = StepsFrom[to] - 0
      BY <1>1, <2>2, <3>1, StepsMoved
    <3>3. \A r \in Procs \ {q} : StepsLeft'[r] = StepsLeft[r]
      BY <1>1, <1>2, <2>2 DEF StepsLeft, Goto, TypeOK
    <3>4. SumOver(StepsLeft)' = SumOver(StepsLeft) - StepsLeft[q] + StepsLeft'[q]
      BY <1>3, <3>3, SumMoves
    <3> QED BY <1>3, <1>4, <2>2, <3>1, <3>2, <3>4
  <2>3. ASSUME NEW p \in Producers, ForkProducer(p)
        PROVE  lower
    <3>1. p \in Procs /\ Goto(p, "unborn", "p_wait")
      BY <1>1, <2>3 DEF ForkProducer, Fork, Unborn, Goto
    <3>2. MainSteps[main'] <= MainSteps[main]
      BY <2>3 DEF ForkProducer, Fork, MainSteps
    <3> QED BY <2>2, <3>1, <3>2
  <2>4. ASSUME NEW c \in Consumers, ForkConsumer(c)
        PROVE  lower
    <3>1. c \in Procs /\ Goto(c, "unborn", "c_wait")
      BY <1>1, <2>4 DEF ForkConsumer, Fork, Unborn, Goto
    <3>2. MainSteps[main'] <= MainSteps[main]
      BY <2>4 DEF ForkConsumer, Fork, MainSteps
    <3> QED BY <2>2, <3>1, <3>2
  <2>5. CASE ForkFails \/ WaitChildren \/ BuildImage
    <3>1. MainSteps[main'] < MainSteps[main]
      BY <2>5 DEF ForkFails, WaitChildren, BuildImage, MainSteps
    <3>2. StepsLeft' = StepsLeft
      BY <1>2, <2>5 DEF ForkFails, WaitChildren, BuildImage, StepsLeft
    <3> QED BY <1>3, <1>4, <3>1, <3>2
  <2> QED BY <2>3, <2>4, <2>5 DEF main_work
<1> DEFINE draws == 7 * (NumStrips + Cardinality(Producers) - next_strip_to_fetch)
           fails == 3 * (BufSize - failed["transfer"])
           rounds == (9 + Cardinality(Consumers)) * (NumStrips - strips_processed_count)
<1>6. draws \in Int /\ fails \in Int /\ rounds \in Int
  <2>1. /\ NumStrips \in Nat /\ BufSize \in Nat /\ next_strip_to_fetch \in Int
        /\ failed["transfer"] \in Nat /\ strips_processed_count \in Nat
    BY Numbers
  <2> QED BY <2>1, ChildrenCounted
<1>7. /\ StepsAtMost = SumOver(StepsLeft) + draws + fails + rounds + MainSteps[main]
      /\ StepsAtMost' = SumOver(StepsLeft)' + draws + fails + rounds + MainSteps[main']
  BY <1>2, Zenon DEF StepsAtMost
<1> HIDE DEF draws, fails, rounds
<1> QED BY <1>3, <1>4, <1>5, <1>6, <1>7

(* What the bound needs is kept. *)
LEMMA RunKept ==
  ASSUME IInv, RunInv, [Next]_vars
  PROVE  RunInv'
<1>1. TypeOK /\ Procs = Producers \cup Consumers /\ Producers \cap Consumers = {}
  BY ConstantsAssumption DEF IInv, Procs
<1>2. ASSUME NEW q \in Procs
      PROVE  wakeups'[q] < Cardinality(Consumers)
  <2>1. wakeups[q] \in Nat /\ wakeups[q] < Cardinality(Consumers)
    BY <1>1 DEF TypeOK, RunInv
  <2>2. ASSUME NEW r \in Procs, EndIteration(r)
        PROVE  wakeups'[q] < Cardinality(Consumers)
    BY <1>1, <2>1, <2>2, ChildrenCounted DEF EndIteration, TypeOK
  <2>3. CASE wakeups' = wakeups
    BY <2>1, <2>3
  <2>4. ASSUME NEW p \in Producers, producer_work(p)
        PROVE  wakeups'[q] < Cardinality(Consumers)
    BY <1>1, <2>2, <2>3, <2>4
    DEF producer_work, PWait, PTicket, PBow, PFetched, PFetchFails, PLock, PPush, PUnlock, PPost,
        locals
  <2>5. ASSUME NEW c \in Consumers, consumer_work(c)
        PROVE  wakeups'[q] < Cardinality(Consumers)
    <3>1. CASE CWake(c)
      <4>1. CASE wakeups[c] + 1 = Cardinality(Consumers)
        BY <1>1, <2>2, <3>1, <4>1 DEF CWake
      <4>2. CASE wakeups[c] + 1 # Cardinality(Consumers)
        <5>1. wakeups[c] \in Nat /\ wakeups[c] < Cardinality(Consumers)
          BY <1>1 DEF TypeOK, RunInv
        <5>2. wakeups' = [wakeups EXCEPT ![c] = @ + 1]
          BY <3>1, <4>2 DEF CWake
        <5> QED BY <1>1, <2>1, <4>2, <5>1, <5>2, ChildrenCounted DEF TypeOK
      <4> QED BY <4>1, <4>2
    <3>2. CASE CCrash(c) \/ CFull(c) \/ CSlot(c)
      BY <1>1, <2>2, <2>3, <3>2 DEF CCrash, CFull, CSlot, locals
    <3>3. CASE CWait(c) \/ CLock(c) \/ CCheck(c) \/ CUnlockEmpty(c) \/ CRepost(c) \/ COver(c)
               \/ CUnlockAgain(c) \/ CPop(c) \/ CUnlock(c) \/ CPlace(c) \/ CPlaceGarbled(c)
               \/ CCount(c)
      BY <2>3, <3>3 DEF CWait, CLock, CCheck, CUnlockEmpty, CRepost, COver, CUnlockAgain, CPop,
           CUnlock, CPlace, CPlaceGarbled, CCount, locals
    <3> QED BY <2>5, <3>1, <3>2, <3>3 DEF consumer_work
  <2>6. CASE main_work \/ Returned \/ UNCHANGED vars
    BY <2>3, <2>6 DEF main_work, ForkProducer, ForkConsumer, Fork, ForkFails, WaitChildren,
         BuildImage, Returned, vars, locals
  <2> QED BY <2>4, <2>5, <2>6 DEF Next
<1>3. ASSUME NEW c \in Consumers
      PROVE  pc'[c] \notin Bowed
  <2>1. pc[c] \notin Bowed /\ c \in Procs /\ c \notin Producers
    BY <1>1 DEF RunInv
  <2>2. CASE pc'[c] = pc[c]
    BY <2>1, <2>2
  <2>3. ASSUME NEW p \in Producers, producer_work(p)
        PROVE  pc'[c] = pc[c]
    <3>1. PICK from, to : Goto(p, from, to)
      BY <2>3 DEF producer_work, PWait, PTicket, PBow, PFetched, PFetchFails, PLock, PPush, PUnlock,
           PPost
    <3> QED BY <1>1, <2>1, <3>1 DEF Goto, TypeOK
  <2>4. ASSUME NEW d \in Consumers, consumer_work(d)
        PROVE  pc'[c] \notin Bowed
    <3>1. PICK from, to : Goto(d, from, to) /\ to \notin Bowed
      BY <2>4 DEF consumer_work, CWait, CLock, CCheck, CUnlockEmpty, CRepost, COver, CUnlockAgain,
           CPop, CUnlock, CSlot, CPlace, CPlaceGarbled, CCrash, CCount, CFull, CWake, Bowed
    <3> QED BY <1>1, <2>1, <3>1 DEF Goto, TypeOK
  <2>5. ASSUME NEW q \in Procs, NEW to \in {"p_wait", "c_wait"}, pc' = [pc EXCEPT ![q] = to]
        PROVE  pc'[c] \notin Bowed
    BY <1>1, <2>1, <2>5 DEF TypeOK, Bowed
  <2>6. CASE main_work
    <3>1. ASSUME NEW p \in Producers, ForkProducer(p)
          PROVE  pc'[c] \notin Bowed
      BY <1>1, <2>5, <3>1 DEF ForkProducer, Fork
    <3>2. ASSUME NEW d \in Consumers, ForkConsumer(d)
          PROVE  pc'[c] \notin Bowed
      BY <1>1, <2>5, <3>2 DEF ForkConsumer, Fork
    <3>3. CASE ForkFails \/ WaitChildren \/ BuildImage
      BY <2>2, <3>3 DEF ForkFails, WaitChildren, BuildImage
    <3> QED BY <2>6, <3>1, <3>2, <3>3 DEF main_work
  <2>7. CASE Returned \/ UNCHANGED vars
    BY <2>2, <2>7 DEF Returned, vars
  <2> QED BY <2>2, <2>3, <2>4, <2>6, <2>7 DEF Next
<1> QED BY <1>2, <1>3 DEF RunInv

(* At first nobody has made wake-ups or drawn tickets. *)
LEMMA InitRun == Init => RunInv
  BY ChildrenCounted DEF Init, RunInv, Procs, Bowed

(* Every step, of a child or of the parent and whatever fails, lowers a    *)
(* bound that is never negative: no process goes round for ever.           *)
THEOREM EveryStepCounts == Spec => RunsDown
<1>1. Spec => []RunInv
  BY InitRun, RunKept, Invariance, PTL DEF Spec
<1>2. ASSUME IInv, IInv', RunInv, RunInv', [Next]_vars
      PROVE  [0 <= StepsAtMost' /\ StepsAtMost' < StepsAtMost]_vars
  <2>1. 0 <= StepsAtMost'
    <3>1. (IInv /\ RunInv => StepsAtMost \in Nat)'
      BY StepsNat, PTL
    <3> QED BY <1>2, <3>1
  <2>2. CASE UNCHANGED vars
    BY <2>2
  <2>3. CASE Next /\ ~UNCHANGED vars
    BY <1>2, <2>1, <2>3, ProducerLowers, ConsumerLowers, MainLowers DEF Next, Returned
  <2> QED BY <1>2, <2>1, <2>2, <2>3
<1> QED BY <1>1, <1>2, Invariance, PTL DEF Spec, RunsDown

=============================================================================
