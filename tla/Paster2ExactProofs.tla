-------------------------- MODULE Paster2ExactProofs --------------------------
(***************************************************************************)
(* Theorems about the strips of Paster2, one by one: as long as a failed   *)
(* transfer takes back the ticket it was made for, no strip is lost or     *)
(* made twice, the counter of the consumers is honest and all.png is       *)
(* complete.  With one producer that is always so.                         *)
(*                                                                         *)
(* The accounts of Paster2Proofs say how many strips there are at each     *)
(* stage; StripInv says which.  A strip is nowhere before its ticket is    *)
(* drawn and in one place after it; a step leaves it where it is, or moves *)
(* it to the next place.  What a fault of a consumer destroys is excepted, *)
(* strip by strip, from the moment it happens.                             *)
(*                                                                         *)
(* The last part shows that the children never all wait for each other:    *)
(* RoundInv says that the lock, the wake-ups and the tickets come round,   *)
(* and the accounts leave nobody waiting for a slot or a strip.            *)
(***************************************************************************)
EXTENDS Paster2Proofs

(* Labels at which a process is the place of its strip. *)
Holding == StripHeld \ {"c_count"}

Located(s) == Holders(s) # {} \/ Positions(s) # {} \/ s \in final_strips

OnePlace(s) ==
  /\ \A q, r \in Holders(s) : q = r
  /\ \A j, k \in Positions(s) : j = k
  /\ Holders(s) # {} => Positions(s) = {} /\ s \notin final_strips
  /\ Positions(s) # {} => s \notin final_strips

(* No consumer has died of a strip or copied a garbled one. *)
Lossless == failed["decode"] = 0 /\ failed["inflate"] = 0

Traced(s) ==
  /\ OnePlace(s)
  /\ Located(s) => s < next_strip_to_fetch
  /\ Lossless /\ s < next_strip_to_fetch => Located(s)

StripInv == \A s \in Strips : Traced(s)

(* Strips placed, and those counted as if they were. *)
PlacedInv ==
  strips_processed_count + CountAt(pc, {"c_count"})
    = Cardinality(final_strips) + failed["inflate"]

(* What the parent knows when it builds the image. *)
ParentInv ==
  /\ \A c \in Consumers : pc[c] \in ConsumerLabels \cup {"unborn", "c_exited", "c_crashed"}
  /\ \A q \in Procs : pc[q] = "c_crashed" => failed["decode"] > 0
  /\ main \in {"build", "done"} => \A c \in Consumers : pc[c] \in {"c_exited", "c_crashed"}
  /\ image = IF main = "done" THEN final_strips ELSE {}

XInv == IInv /\ StripInv /\ PlacedInv /\ ParentInv

-----------------------------------------------------------------------------
(* What a step does to the places of a strip. *)

(* A process that goes from one label to another stops or starts to hold   *)
(* its own strip, and no other.                                            *)
LEMMA HoldersAfter ==
  ASSUME TypeOK, NEW q \in Procs, NEW from, NEW to, Goto(q, from, to),
         \A r \in Procs \ {q} : strip'[r] = strip[r],
         NEW s
  PROVE  Holders(s)' = (Holders(s) \ {q})
                         \cup (IF to \in Holding /\ strip'[q] = s THEN {q} ELSE {})
<1>1. pc[q] = from /\ \A r \in Procs : pc'[r] = IF r = q THEN to ELSE pc[r]
  BY DEF TypeOK, Goto
<1>2. \A r \in Procs : r \in Holders(s)' <=> strip'[r] = s /\ pc'[r] \in Holding
  BY DEF Holders, Holding
<1>3. \A r \in Procs : r \in Holders(s) <=> strip[r] = s /\ pc[r] \in Holding
  BY DEF Holders, Holding
<1>4. Holders(s) \subseteq Procs /\ Holders(s)' \subseteq Procs
  BY DEF Holders
<1> QED BY <1>1, <1>2, <1>3, <1>4

(* It still holds what it held if both labels are such places, or none is. *)
LEMMA HoldersStay ==
  ASSUME TypeOK, NEW q \in Procs, NEW from, NEW to, Goto(q, from, to),
         \A r \in Procs \ {q} : strip'[r] = strip[r],
         from \in Holding <=> to \in Holding,
         from \in Holding => strip'[q] = strip[q],
         NEW s
  PROVE  Holders(s)' = Holders(s)
<1>1. Holders(s)' = (Holders(s) \ {q})
                      \cup (IF to \in Holding /\ strip'[q] = s THEN {q} ELSE {})
  BY HoldersAfter
<1>2. q \in Holders(s) <=> strip[q] = s /\ from \in Holding
  BY DEF Holders, Holding, Goto
<1> QED BY <1>1, <1>2

(* A strip that stays where it is, is traced as before. *)
LEMMA StripStays ==
  ASSUME NEW s, Traced(s),
         Holders(s)' = Holders(s), Positions(s)' = Positions(s),
         s \in final_strips' <=> s \in final_strips,
         next_strip_to_fetch' = next_strip_to_fetch,
         Lossless' => Lossless
  PROVE  Traced(s)'
BY DEF Traced, OnePlace, Located

(* Faults are not undone. *)
LEMMA LosslessBefore ==
  ASSUME TypeOK, [Next]_vars
  PROVE  Lossless' => Lossless
<1>1. failed["decode"] \in Nat /\ failed["inflate"] \in Nat
  BY DEF TypeOK, FaultKinds
<1>2. ASSUME NEW k, Inject(k), k \in FaultKinds
      PROVE  Lossless' => Lossless
  <2>1. /\ failed'["decode"] = failed["decode"] \/ failed'["decode"] = failed["decode"] + 1
        /\ failed'["inflate"] = failed["inflate"] \/ failed'["inflate"] = failed["inflate"] + 1
    BY <1>2 DEF Inject, TypeOK, FaultKinds
  <2> QED BY <2>1, <1>1 DEF Lossless
<1>3. failed' = failed => (Lossless' => Lossless)
  BY DEF Lossless
<1>4. failed' = failed \/ \E k \in FaultKinds : Inject(k)
  <2>1. ASSUME NEW p \in Producers, producer_work(p)
        PROVE  failed' = failed \/ \E k \in FaultKinds : Inject(k)
    BY <2>1 DEF producer_work, PWait, PTicket, PBow, PFetched, PFetchFails, PLock, PPush,
                PUnlock, PPost, FaultKinds
  <2>2. ASSUME NEW c \in Consumers, consumer_work(c)
        PROVE  failed' = failed \/ \E k \in FaultKinds : Inject(k)
    BY <2>2 DEF consumer_work, CWait, CLock, CCheck, CUnlockEmpty, CRepost, COver,
                CUnlockAgain, CPop, CUnlock, CSlot, CPlace, CPlaceGarbled, CCrash, CCount,
                CFull, CWake, FaultKinds
  <2>3. ASSUME main_work
        PROVE  failed' = failed \/ \E k \in FaultKinds : Inject(k)
    BY <2>3 DEF main_work, ForkProducer, ForkConsumer, Fork, ForkFails, WaitChildren,
                BuildImage, FaultKinds
  <2> QED BY <2>1, <2>2, <2>3 DEF Next, Returned, vars
<1> QED BY <1>2, <1>3, <1>4

-----------------------------------------------------------------------------
(* The steps of a producer *)

(* A step that touches neither the stack nor the image nor the tickets,    *)
(* and at which its process keeps or does not have a strip.                *)
LEMMA QuietStrips ==
  ASSUME XInv, [Next]_vars, NEW q \in Procs, NEW from, NEW to, Goto(q, from, to),
         \A r \in Procs \ {q} : strip'[r] = strip[r],
         from \in Holding <=> to \in Holding,
         from \in Holding => strip'[q] = strip[q],
         UNCHANGED <<ring_buffer, final_strips, next_strip_to_fetch>>
  PROVE  StripInv'
<1>1. TypeOK /\ (Lossless' => Lossless)
  BY LosslessBefore DEF XInv, IInv
<1> SUFFICES ASSUME NEW s \in Strips PROVE Traced(s)'
  BY DEF StripInv
<1>2. Holders(s)' = Holders(s)
  BY <1>1, HoldersStay
<1>3. Positions(s)' = Positions(s)
  BY DEF Positions
<1> QED BY <1>1, <1>2, <1>3, StripStays DEF XInv, StripInv

(* The ticket was not drawn before, so its strip was nowhere. *)
LEMMA PTicketStrips ==
  ASSUME XInv, NEW p \in Producers, PTicket(p), [Next]_vars
  PROVE  StripInv'
<1>1. TypeOK /\ p \in Procs /\ (Lossless' => Lossless) /\ pc[p] = "p_ticket"
  BY LosslessBefore DEF XInv, IInv, Procs, PTicket, Goto
<1>2. next_strip_to_fetch \in Int /\ next_strip_to_fetch' = next_strip_to_fetch + 1
      /\ next_strip_to_fetch >= 0 /\ NumStrips \in Nat
  BY <1>1, Numbers, Outstanding DEF PTicket, XInv
<1>3. \A s : p \notin Holders(s)
  BY <1>1 DEF Holders, StripHeld
<1>4. \A s : Positions(s)' = Positions(s)
  BY DEF PTicket, Positions
<1>5. final_strips' = final_strips
  BY DEF PTicket
<1>6. CASE NoTicketLeft(next_strip_to_fetch)
  <2>1. Goto(p, "p_ticket", "p_bow") /\ strip' = strip
    BY <1>6 DEF PTicket
  <2> SUFFICES ASSUME NEW s \in Strips PROVE Traced(s)'
    BY DEF StripInv
  <2>2. Holders(s)' = Holders(s)
    BY <1>1, <2>1, HoldersStay DEF Holding, StripHeld
  <2>3. s < next_strip_to_fetch /\ s < next_strip_to_fetch'
    BY <1>2, <1>6 DEF NoTicketLeft, Strips
  <2> QED
    BY <1>1, <1>4, <1>5, <2>2, <2>3 DEF XInv, StripInv, Traced, OnePlace, Located
<1>7. CASE ~NoTicketLeft(next_strip_to_fetch)
  <2>1. Goto(p, "p_ticket", "p_fetch") /\ strip' = [strip EXCEPT ![p] = next_strip_to_fetch]
    BY <1>7 DEF PTicket
  <2>2. /\ \A r \in Procs \ {p} : strip'[r] = strip[r]
        /\ strip'[p] = next_strip_to_fetch
    BY <1>1, <2>1 DEF TypeOK
  <2> SUFFICES ASSUME NEW s \in Strips PROVE Traced(s)'
    BY DEF StripInv
  <2>3. Holders(s)' = Holders(s) \cup (IF s = next_strip_to_fetch THEN {p} ELSE {})
    BY <1>1, <1>3, <2>1, <2>2, HoldersAfter DEF Holding, StripHeld
  <2>4. s < next_strip_to_fetch' <=> s < next_strip_to_fetch \/ s = next_strip_to_fetch
    BY <1>2 DEF Strips
  <2>5. Traced(s)
    BY DEF XInv, StripInv
  <2>6. CASE s = next_strip_to_fetch
    <3>1. ~(s < next_strip_to_fetch)
      BY <1>2, <2>6
    <3>2. Holders(s) = {} /\ Positions(s) = {} /\ s \notin final_strips
      BY <2>5, <3>1 DEF Traced, Located
    <3>3. Holders(s)' = {p} /\ Positions(s)' = {} /\ s \notin final_strips'
      BY <1>4, <1>5, <2>3, <2>6, <3>2
    <3>4. OnePlace(s)' /\ Located(s)'
      BY <3>3 DEF OnePlace, Located
    <3> QED BY <2>4, <2>6, <3>4 DEF Traced
  <2>7. CASE s # next_strip_to_fetch
    BY <1>1, <1>4, <1>5, <2>3, <2>4, <2>5, <2>7 DEF Traced, OnePlace, Located
  <2> QED BY <2>6, <2>7
<1> QED BY <1>6, <1>7

(* The strip of a process that holds it is nowhere else. *)
LEMMA OnlyHolder ==
  ASSUME XInv, NEW q \in Procs, pc[q] \in Holding
  PROVE  /\ strip[q] \in Strips
         /\ Holders(strip[q]) = {q}
         /\ Positions(strip[q]) = {}
         /\ strip[q] \notin final_strips
         /\ strip[q] < next_strip_to_fetch
         /\ \A s : s # strip[q] => q \notin Holders(s)
<1>1. strip[q] \in Strips
  BY DEF XInv, IInv, TypeOK, Holding
<1>2. q \in Holders(strip[q])
  BY DEF Holders, Holding
<1>3. Traced(strip[q])
  BY <1>1 DEF XInv, StripInv
<1>4. \A s : s # strip[q] => q \notin Holders(s)
  BY DEF Holders
<1> QED BY <1>1, <1>2, <1>3, <1>4 DEF Traced, OnePlace, Located

(* The ticket that is taken back is that of the strip that is given up. *)
LEMMA PFetchFailsStrips ==
  ASSUME XInv, NEW p \in Producers, PFetchFails(p), [Next]_vars,
         next_strip_to_fetch = strip[p] + 1
  PROVE  StripInv'
<1>1. /\ TypeOK /\ p \in Procs /\ (Lossless' => Lossless)
      /\ Goto(p, "p_fetch", "p_wait") /\ pc[p] = "p_fetch"
  BY LosslessBefore DEF XInv, IInv, Procs, PFetchFails, Goto
<1>2. \A r \in Procs \ {p} : strip'[r] = strip[r]
  BY <1>1, EndIterationTyped DEF PFetchFails
<1>3. /\ strip[p] \in Strips
      /\ Holders(strip[p]) = {p} /\ Positions(strip[p]) = {} /\ strip[p] \notin final_strips
      /\ strip[p] < next_strip_to_fetch
      /\ \A s : s # strip[p] => p \notin Holders(s)
  BY <1>1, OnlyHolder DEF Holding, StripHeld
<1>4. next_strip_to_fetch' = strip[p] /\ strip[p] \in Int
  BY <1>3 DEF PFetchFails, Strips
<1> SUFFICES ASSUME NEW s \in Strips PROVE Traced(s)'
  BY DEF StripInv
<1>5. Holders(s)' = Holders(s) \ {p}
  BY <1>1, <1>2, HoldersAfter DEF Holding, StripHeld
<1>6. Positions(s)' = Positions(s) /\ final_strips' = final_strips
  BY DEF PFetchFails, Positions
<1>7. Traced(s)
  BY DEF XInv, StripInv
<1>8. CASE s = strip[p]
  <2>1. Holders(s)' = {} /\ Positions(s)' = {} /\ s \notin final_strips'
    BY <1>3, <1>5, <1>6, <1>8
  <2>2. OnePlace(s)' /\ ~Located(s)' /\ ~(s < next_strip_to_fetch')
    BY <1>4, <1>8, <2>1 DEF OnePlace, Located
  <2> QED BY <2>2 DEF Traced
<1>9. CASE s # strip[p]
  <2>1. Holders(s)' = Holders(s)
    BY <1>3, <1>5, <1>9
  <2>2. s < next_strip_to_fetch' <=> s < next_strip_to_fetch
    BY <1>4, <1>9 DEF Strips
  <2> QED BY <1>1, <1>6, <1>7, <2>1, <2>2 DEF Traced, OnePlace, Located
<1> QED BY <1>8, <1>9

(* The strip of the producer is put on top of a stack that has room for it. *)
LEMMA PushPositions ==
  ASSUME XInv, NEW p \in Producers, PPush(p)
  PROVE  /\ Len(ring_buffer) < BufSize
         /\ \A s : Positions(s)' =
              Positions(s) \cup (IF s = strip[p] THEN {Len(ring_buffer) + 1} ELSE {})
<1>1. TypeOK /\ IInv /\ p \in Procs /\ pc[p] = "p_push"
  BY DEF XInv, IInv, Procs, PPush, Goto
<1>2. Len(ring_buffer) < BufSize
  <2>1. pc[p] \in SlotHeld
    BY <1>1 DEF SlotHeld
  <2>2. CountAt(pc, SlotHeld) \in Nat \ {0}
    BY <1>1, <2>1, CountAtSome
  <2> QED BY <1>1, <2>2, Numbers DEF IInv, SlotsAccounted
<1>3. ring_buffer' = Append(ring_buffer, strip[p])
  BY <1>1, <1>2, Numbers DEF PPush, Push, IsFull
<1>4. ring_buffer \in Seq(Strips) /\ strip[p] \in Strips
  BY <1>1 DEF TypeOK, StripHeld
<1>5. /\ DOMAIN ring_buffer = 1 .. Len(ring_buffer) /\ Len(ring_buffer) \in Nat
      /\ DOMAIN ring_buffer' = 1 .. Len(ring_buffer) + 1
      /\ \A j \in 1 .. Len(ring_buffer) : ring_buffer'[j] = ring_buffer[j]
      /\ ring_buffer'[Len(ring_buffer) + 1] = strip[p]
  BY <1>3, <1>4
<1> QED BY <1>2, <1>5 DEF Positions

(* The strip goes from the producer to the top of the stack. *)
LEMMA PPushStrips ==
  ASSUME XInv, NEW p \in Producers, PPush(p), [Next]_vars
  PROVE  StripInv'
<1>1. /\ TypeOK /\ IInv /\ p \in Procs /\ (Lossless' => Lossless)
      /\ Goto(p, "p_push", "p_unlock") /\ pc[p] = "p_push" /\ strip' = strip
  BY LosslessBefore DEF XInv, IInv, Procs, PPush, Goto
<1>2. /\ strip[p] \in Strips
      /\ Holders(strip[p]) = {p} /\ Positions(strip[p]) = {} /\ strip[p] \notin final_strips
      /\ strip[p] < next_strip_to_fetch
      /\ \A s : s # strip[p] => p \notin Holders(s)
  BY <1>1, OnlyHolder DEF Holding, StripHeld
<1>3. final_strips' = final_strips /\ next_strip_to_fetch' = next_strip_to_fetch
  BY DEF PPush, counters
<1> SUFFICES ASSUME NEW s \in Strips PROVE Traced(s)'
  BY DEF StripInv
<1>4. Holders(s)' = Holders(s) \ {p}
  BY <1>1, HoldersAfter DEF Holding, StripHeld
<1>5. Positions(s)' = Positions(s) \cup (IF s = strip[p] THEN {Len(ring_buffer) + 1} ELSE {})
  BY PushPositions
<1>6. Traced(s)
  BY DEF XInv, StripInv
<1>7. CASE s = strip[p]
  <2>1. Holders(s)' = {} /\ Positions(s)' = {Len(ring_buffer) + 1} /\ s \notin final_strips'
    BY <1>2, <1>3, <1>4, <1>5, <1>7
  <2>2. OnePlace(s)' /\ Located(s)' /\ s < next_strip_to_fetch'
    BY <1>2, <1>3, <1>7, <2>1 DEF OnePlace, Located
  <2> QED BY <2>2 DEF Traced
<1>8. CASE s # strip[p]
  <2>1. Holders(s)' = Holders(s) /\ Positions(s)' = Positions(s)
    BY <1>2, <1>4, <1>5, <1>8
  <2> QED BY <1>1, <1>3, <1>6, <2>1, StripStays
<1> QED BY <1>7, <1>8

(* Every step of a producer keeps track of the strips. *)
LEMMA ProducerStrips ==
  ASSUME XInv, NEW p \in Producers, producer_work(p), LastTicketRetried, [Next]_vars
  PROVE  StripInv'
<1>1. p \in Procs /\ IInv /\ TypeOK
  BY DEF Procs, XInv, IInv
<1>2. CASE PWait(p)
  BY <1>1, <1>2, QuietStrips DEF PWait, Holding, StripHeld, locals, counters
<1>3. CASE PTicket(p)
  BY <1>3, PTicketStrips
<1>4. CASE PBow(p)
  BY <1>1, <1>4, QuietStrips DEF PBow, Holding, StripHeld, locals, counters
<1>5. CASE PFetched(p)
  BY <1>1, <1>5, QuietStrips DEF PFetched, Holding, StripHeld, locals, counters
<1>6. CASE PFetchFails(p)
  <2>1. pc[p] = "p_fetch" /\ pc'[p] = "p_wait"
    BY <1>1, <1>6 DEF PFetchFails, Goto, TypeOK
  <2>2. next_strip_to_fetch = strip[p] + 1
    BY <2>1 DEF LastTicketRetried
  <2> QED BY <1>6, <2>2, PFetchFailsStrips
<1>7. CASE PLock(p)
  BY <1>1, <1>7, QuietStrips DEF PLock, Holding, StripHeld, locals, counters
<1>8. CASE PPush(p)
  BY <1>8, PPushStrips
<1>9. CASE PUnlock(p)
  BY <1>1, <1>9, QuietStrips DEF PUnlock, Holding, StripHeld, locals, counters
<1>10. CASE PPost(p)
  <2>1. ret[p] = Ok
    BY <1>1 DEF IInv, PushPopNeverFail
  <2>2. /\ Goto(p, "p_post", "p_wait")
        /\ \A r \in Procs \ {p} : strip'[r] = strip[r]
        /\ UNCHANGED <<ring_buffer, final_strips, next_strip_to_fetch>>
    BY <1>1, <1>10, <2>1, EndIterationTyped DEF PPost
  <2> QED BY <1>1, <2>2, QuietStrips DEF Holding, StripHeld
<1> QED
  BY <1>2, <1>3, <1>4, <1>5, <1>6, <1>7, <1>8, <1>9, <1>10 DEF producer_work

-----------------------------------------------------------------------------
(* The steps of a consumer *)

(* The consumer takes the strip on top of the stack. *)
LEMMA PopPositions ==
  ASSUME XInv, NEW c \in Consumers, CPop(c)
  PROVE  /\ strip' = [strip EXCEPT ![c] = Top(ring_buffer)]
         /\ Top(ring_buffer) \in Strips
         /\ \A s : Positions(s)' = Positions(s) \ {Len(ring_buffer)}
         /\ \A s : Len(ring_buffer) \in Positions(s) <=> s = Top(ring_buffer)
<1>1. TypeOK /\ IInv /\ c \in Procs /\ pc[c] = "c_pop"
  BY DEF XInv, IInv, Procs, CPop, Goto
<1>2. ~IsEmpty(ring_buffer)
  BY <1>1, Outstanding
<1> DEFINE n == Len(ring_buffer)
           top == ring_buffer[n]
<1>3. /\ strip' = [strip EXCEPT ![c] = top]
      /\ ring_buffer' = SubSeq(ring_buffer, 1, n - 1)
  BY <1>2 DEF CPop, Pop, Top
<1>4. ring_buffer \in Seq(Strips) /\ n \in Nat /\ n >= 1
  <2>1. ring_buffer \in Seq(Strips) /\ ring_buffer # <<>>
    BY <1>1, <1>2 DEF TypeOK, IsEmpty, EmptyRing
  <2>2. n \in Nat \ {0}
    BY <2>1, EmptySeq
  <2> QED BY <2>1, <2>2
<1>5. /\ DOMAIN ring_buffer = 1 .. n /\ DOMAIN ring_buffer' = 1 .. n - 1
      /\ \A j \in 1 .. n - 1 : ring_buffer'[j] = ring_buffer[j]
      /\ top \in Strips
  <2>1. DOMAIN ring_buffer = 1 .. n /\ top \in Strips
    BY <1>4, LenProperties, ElementOfSeq
  <2>2. \A j \in 1 .. n - 1 : ring_buffer[j] \in Strips
    BY <1>4, ElementOfSeq
  <2>3. 1 \in Int /\ n - 1 \in Int
    BY <1>4
  <2>4. /\ SubSeq(ring_buffer, 1, n - 1) \in Seq(Strips)
        /\ Len(SubSeq(ring_buffer, 1, n - 1)) = IF 1 <= n - 1 THEN n - 1 - 1 + 1 ELSE 0
        /\ \A j \in 1 .. n - 1 - 1 + 1 :
             SubSeq(ring_buffer, 1, n - 1)[j] = ring_buffer[1 + j - 1]
    BY <2>2, <2>3, SubSeqProperties
  <2>5. Len(ring_buffer') = n - 1 /\ DOMAIN ring_buffer' = 1 .. n - 1
    <3>1. \A m \in Nat : m >= 1 => m - 1 = IF 1 <= m - 1 THEN m - 1 - 1 + 1 ELSE 0
      OBVIOUS
    <3>2. ring_buffer' \in Seq(Strips) /\ Len(ring_buffer') = n - 1
      BY <1>3, <1>4, <2>4, <3>1, Zenon
    <3> QED BY <3>2, LenProperties
  <2>6. \A j \in 1 .. n - 1 : ring_buffer'[j] = ring_buffer[j]
    BY <1>3, <1>4, <2>4
  <2> QED BY <2>1, <2>5, <2>6
<1> QED BY <1>3, <1>4, <1>5 DEF Positions, Top

(* The strip goes from the top of the stack to the consumer. *)
LEMMA CPopStrips ==
  ASSUME XInv, NEW c \in Consumers, CPop(c), [Next]_vars
  PROVE  StripInv'
<1>1. /\ TypeOK /\ IInv /\ c \in Procs /\ (Lossless' => Lossless)
      /\ Goto(c, "c_pop", "c_unlock") /\ pc[c] = "c_pop"
  BY LosslessBefore DEF XInv, IInv, Procs, CPop, Goto
<1> DEFINE n == Len(ring_buffer)
           top == Top(ring_buffer)
<1>2. /\ strip' = [strip EXCEPT ![c] = top]
      /\ top \in Strips
      /\ \A s : Positions(s)' = Positions(s) \ {n}
      /\ \A s : n \in Positions(s) <=> s = top
  BY PopPositions
<1> HIDE DEF n, top
<1>3. /\ \A r \in Procs \ {c} : strip'[r] = strip[r]
      /\ strip'[c] = top
  BY <1>1, <1>2 DEF TypeOK
<1>4. final_strips' = final_strips /\ next_strip_to_fetch' = next_strip_to_fetch
  BY DEF CPop, counters
<1> SUFFICES ASSUME NEW s \in Strips PROVE Traced(s)'
  BY DEF StripInv
<1>5. c \notin Holders(s)
  BY <1>1 DEF Holders, StripHeld
<1>6. Holders(s)' = Holders(s) \cup (IF s = top THEN {c} ELSE {})
  BY <1>1, <1>3, <1>5, HoldersAfter DEF Holding, StripHeld
<1>7. Positions(s)' = Positions(s) \ {n}
  BY <1>2
<1>8. n \in Positions(s) <=> s = top
  BY <1>2
<1>9. Traced(s)
  BY DEF XInv, StripInv
<1>10. CASE s = top
  <2>1. /\ Positions(s) = {n} /\ Holders(s) = {} /\ s \notin final_strips
        /\ s < next_strip_to_fetch
    BY <1>8, <1>9, <1>10 DEF Traced, OnePlace, Located
  <2>2. Holders(s)' = {c} /\ Positions(s)' = {} /\ s \notin final_strips'
    BY <1>4, <1>6, <1>7, <1>10, <2>1
  <2>3. OnePlace(s)' /\ Located(s)' /\ s < next_strip_to_fetch'
    BY <1>4, <2>1, <2>2 DEF OnePlace, Located
  <2> QED BY <2>3 DEF Traced
<1>11. CASE s # top
  <2>1. Holders(s)' = Holders(s) /\ Positions(s)' = Positions(s)
    BY <1>6, <1>7, <1>8, <1>11
  <2> QED BY <1>1, <1>4, <1>9, <2>1, StripStays
<1> QED BY <1>10, <1>11

(* The consumer at c_place gives its strip away: to the image, or to       *)
(* nobody, and then a fault has been counted.                              *)
LEMMA CPlaceStrips ==
  ASSUME XInv, NEW c \in Consumers, [Next]_vars,
         CPlace(c) \/ CPlaceGarbled(c) \/ CCrash(c)
  PROVE  StripInv'
<1>1. /\ TypeOK /\ IInv /\ c \in Procs /\ (Lossless' => Lossless)
      /\ pc[c] = "c_place"
  BY LosslessBefore DEF XInv, IInv, Procs, CPlace, CPlaceGarbled, CCrash, Goto
<1>2. /\ strip[c] \in Strips
      /\ Holders(strip[c]) = {c} /\ Positions(strip[c]) = {} /\ strip[c] \notin final_strips
      /\ strip[c] < next_strip_to_fetch
      /\ \A s : s # strip[c] => c \notin Holders(s)
  BY <1>1, OnlyHolder DEF Holding, StripHeld
<1>3. /\ \A r \in Procs \ {c} : strip'[r] = strip[r]
      /\ UNCHANGED <<ring_buffer, next_strip_to_fetch>>
  BY <1>1, EndIterationTyped DEF CPlace, CPlaceGarbled, CCrash, locals, counters
<1>4. \E to \in {"c_count", "c_crashed"} : Goto(c, "c_place", to)
  BY DEF CPlace, CPlaceGarbled, CCrash
<1>5. \/ final_strips' = final_strips \cup {strip[c]}
      \/ final_strips' = final_strips /\ ~Lossless'
  <2>1. CASE CPlace(c)
    BY <2>1 DEF CPlace
  <2>2. CASE CPlaceGarbled(c)
    BY <1>1, <2>2 DEF CPlaceGarbled, Inject, Lossless, TypeOK, FaultKinds
  <2>3. CASE CCrash(c)
    BY <1>1, <2>3 DEF CCrash, Inject, Lossless, TypeOK, FaultKinds
  <2> QED BY <2>1, <2>2, <2>3
<1> SUFFICES ASSUME NEW s \in Strips PROVE Traced(s)'
  BY DEF StripInv
<1>6. Holders(s)' = Holders(s) \ {c}
  <2>1. "c_count" \notin Holding /\ "c_crashed" \notin Holding
    BY DEF Holding, StripHeld
  <2> QED BY <1>1, <1>3, <1>4, <2>1, HoldersAfter
<1>7. Positions(s)' = Positions(s)
  BY <1>3 DEF Positions
<1>8. Traced(s)
  BY DEF XInv, StripInv
<1>9. CASE s = strip[c]
  <2>1. Holders(s)' = {} /\ Positions(s)' = {} /\ s < next_strip_to_fetch'
    BY <1>2, <1>3, <1>6, <1>7, <1>9
  <2>2. s \in final_strips' \/ ~Lossless'
    BY <1>5, <1>9
  <2> QED BY <2>1, <2>2 DEF Traced, OnePlace, Located
<1>10. CASE s # strip[c]
  <2>1. Holders(s)' = Holders(s) /\ (s \in final_strips' <=> s \in final_strips)
    BY <1>2, <1>5, <1>6, <1>10
  <2> QED BY <1>1, <1>3, <1>7, <1>8, <2>1, StripStays
<1> QED BY <1>9, <1>10

(* Every step of a consumer keeps track of the strips. *)
LEMMA ConsumerStrips ==
  ASSUME XInv, NEW c \in Consumers, consumer_work(c), [Next]_vars
  PROVE  StripInv'
<1>1. c \in Procs /\ IInv /\ TypeOK
  BY DEF Procs, XInv, IInv
<1>2. CASE CWait(c)
  BY <1>1, <1>2, QuietStrips DEF CWait, Holding, StripHeld, locals, counters
<1>3. CASE CLock(c)
  BY <1>1, <1>3, QuietStrips DEF CLock, Holding, StripHeld, locals, counters
<1>4. CASE CCheck(c)
  BY <1>1, <1>4, QuietStrips DEF CCheck, Holding, StripHeld, locals, counters
<1>5. CASE CUnlockEmpty(c)
  BY <1>1, <1>5, QuietStrips DEF CUnlockEmpty, Holding, StripHeld, locals, counters
<1>6. CASE CRepost(c)
  BY <1>1, <1>6, QuietStrips DEF CRepost, Holding, StripHeld, locals, counters
<1>7. CASE COver(c)
  BY <1>1, <1>7, QuietStrips DEF COver, Holding, StripHeld, locals, counters
<1>8. CASE CUnlockAgain(c)
  BY <1>1, <1>8, QuietStrips DEF CUnlockAgain, Holding, StripHeld, locals, counters
<1>9. CASE CPop(c)
  BY <1>9, CPopStrips
<1>10. CASE CUnlock(c)
  BY <1>1, <1>10, QuietStrips DEF CUnlock, Holding, StripHeld, locals, counters
<1>11. CASE CSlot(c)
  <2>1. ret[c] = Ok
    BY <1>1 DEF IInv, PushPopNeverFail
  <2> QED BY <1>1, <1>11, <2>1, QuietStrips DEF CSlot, Holding, StripHeld, locals, counters
<1>12. CASE CPlace(c) \/ CPlaceGarbled(c) \/ CCrash(c)
  BY <1>12, CPlaceStrips
<1>13. CASE CCount(c)
  BY <1>1, <1>13, QuietStrips DEF CCount, Holding, StripHeld, locals, counters
<1>14. CASE CFull(c)
  <2>1. /\ \E to \in {"c_wake", "c_wait"} : Goto(c, "c_full", to)
        /\ \A r \in Procs \ {c} : strip'[r] = strip[r]
        /\ UNCHANGED <<ring_buffer, final_strips, next_strip_to_fetch>>
    BY <1>1, <1>14, EndIterationTyped DEF CFull, locals, counters
  <2> QED BY <1>1, <2>1, QuietStrips DEF Holding, StripHeld
<1>15. CASE CWake(c)
  <2>1. /\ \E to \in {"c_wake", "c_wait"} : Goto(c, "c_wake", to)
        /\ \A r \in Procs \ {c} : strip'[r] = strip[r]
        /\ UNCHANGED <<ring_buffer, final_strips, next_strip_to_fetch>>
    BY <1>1, <1>15, EndIterationTyped DEF CWake, counters
  <2> QED BY <1>1, <2>1, QuietStrips DEF Holding, StripHeld
<1> QED
  BY <1>2, <1>3, <1>4, <1>5, <1>6, <1>7, <1>8, <1>9, <1>10, <1>11, <1>12, <1>13,
     <1>14, <1>15 DEF consumer_work

-----------------------------------------------------------------------------
(* The counter of the consumers *)

(* It stays if nothing is placed or counted. *)
LEMMA CountStays ==
  ASSUME XInv, NEW q \in Procs, NEW from, NEW to, Goto(q, from, to),
         from # "c_count", to # "c_count",
         UNCHANGED <<strips_processed_count, final_strips>>,
         failed'["inflate"] = failed["inflate"]
  PROVE  PlacedInv'
<1>1. CountAt(pc, {"c_count"})' = CountAt(pc, {"c_count"})
  <2>1. /\ CountAt(pc, {"c_count"})'
             = CountAt(pc, {"c_count"}) + Bit(to \in {"c_count"}) - Bit(from \in {"c_count"})
        /\ CountAt(pc, {"c_count"}) \in Nat
    BY GotoCounts DEF XInv, IInv
  <2>2. Bit(to \in {"c_count"}) = 0 /\ Bit(from \in {"c_count"}) = 0
    BY DEF Bit
  <2> QED BY <2>1, <2>2
<1> QED BY <1>1 DEF XInv, PlacedInv

(* The steps of a producer do not concern it. *)
LEMMA ProducerCount ==
  ASSUME XInv, NEW p \in Producers, producer_work(p)
  PROVE  PlacedInv'
<1>1. p \in Procs /\ TypeOK
  BY DEF Procs, XInv, IInv
<1>2. /\ \E from, to \in ProducerLabels \cup {"p_exited"} : Goto(p, from, to)
      /\ UNCHANGED <<strips_processed_count, final_strips>>
      /\ failed'["inflate"] = failed["inflate"]
  BY <1>1 DEF producer_work, PWait, PTicket, PBow, PFetched, PFetchFails, PLock, PPush,
       PUnlock, PPost, ProducerLabels, counters, Inject, TypeOK, FaultKinds
<1> QED BY <1>1, <1>2, CountStays DEF ProducerLabels

(* A strip is counted one step after it is placed, also if it is garbled;  *)
(* it was not in the image before.                                         *)
LEMMA ConsumerCount ==
  ASSUME XInv, NEW c \in Consumers, consumer_work(c)
  PROVE  PlacedInv'
<1>1. c \in Procs /\ TypeOK /\ IInv
  BY DEF Procs, XInv, IInv
<1>2. /\ IsFiniteSet(final_strips) /\ Cardinality(final_strips) \in Nat
      /\ strips_processed_count \in Nat /\ failed["inflate"] \in Nat
      /\ CountAt(pc, {"c_count"}) \in Nat
  <2>1. IsFiniteSet(Strips)
    BY FS_Interval, ConstantsAssumption DEF Strips
  <2>2. IsFiniteSet(final_strips)
    BY <1>1, <2>1, FS_Subset DEF TypeOK
  <2> QED BY <1>1, <2>2, FS_CardinalityType, CountAtNat DEF TypeOK, FaultKinds
<1>3. ASSUME NEW from, NEW to, Goto(c, from, to)
      PROVE  CountAt(pc, {"c_count"})'
               = CountAt(pc, {"c_count"}) + Bit(to = "c_count") - Bit(from = "c_count")
  <2>1. CountAt(pc, {"c_count"})'
          = CountAt(pc, {"c_count"}) + Bit(to \in {"c_count"}) - Bit(from \in {"c_count"})
    BY <1>1, <1>3, GotoCounts
  <2> QED BY <2>1 DEF Bit
<1>4. CASE CPlace(c)
  <2>1. CountAt(pc, {"c_count"})' = CountAt(pc, {"c_count"}) + 1
    BY <1>2, <1>3, <1>4 DEF CPlace, Bit
  <2>2. strip[c] \notin final_strips
    BY <1>1, <1>4, OnlyHolder DEF CPlace, Goto, Holding, StripHeld
  <2>3. Cardinality(final_strips') = Cardinality(final_strips) + 1
    BY <1>2, <1>4, <2>2, FS_AddElement DEF CPlace
  <2> QED BY <1>2, <1>4, <2>1, <2>3 DEF CPlace, XInv, PlacedInv, counters
<1>5. CASE CPlaceGarbled(c)
  <2>1. CountAt(pc, {"c_count"})' = CountAt(pc, {"c_count"}) + 1
    BY <1>2, <1>3, <1>5 DEF CPlaceGarbled, Bit
  <2>2. failed'["inflate"] = failed["inflate"] + 1
    BY <1>1, <1>5 DEF CPlaceGarbled, Inject, TypeOK, FaultKinds
  <2> QED BY <1>2, <1>5, <2>1, <2>2 DEF CPlaceGarbled, XInv, PlacedInv, counters
<1>6. CASE CCount(c)
  <2>1. CountAt(pc, {"c_count"})' = CountAt(pc, {"c_count"}) - 1
    BY <1>2, <1>3, <1>6 DEF CCount, Bit
  <2> QED BY <1>2, <1>6, <2>1 DEF CCount, XInv, PlacedInv
<1>7. CASE ~(CPlace(c) \/ CPlaceGarbled(c) \/ CCount(c))
  <2>1. /\ \E from, to \in (ConsumerLabels \cup {"c_exited", "c_crashed"}) \ {"c_count"} :
             Goto(c, from, to)
        /\ UNCHANGED <<strips_processed_count, final_strips>>
        /\ failed'["inflate"] = failed["inflate"]
    BY <1>1, <1>7 DEF consumer_work, CWait, CLock, CCheck, CUnlockEmpty, CRepost, COver,
         CUnlockAgain, CPop, CUnlock, CSlot, CCrash, CFull, CWake, ConsumerLabels, counters,
         Inject, TypeOK, FaultKinds
  <2> QED BY <1>1, <2>1, CountStays
<1> QED BY <1>4, <1>5, <1>6, <1>7

-----------------------------------------------------------------------------
(* The parent *)

(* A producer changes nothing that the parent relies on. *)
LEMMA ProducerParent ==
  ASSUME XInv, NEW p \in Producers, producer_work(p)
  PROVE  ParentInv'
<1>1. p \in Procs /\ TypeOK /\ p \notin Consumers
  BY ConstantsAssumption DEF Procs, XInv, IInv
<1>2. /\ \E to \in ProducerLabels \cup {"p_exited"} : pc' = [pc EXCEPT ![p] = to]
      /\ UNCHANGED <<main, image, final_strips>>
      /\ failed'["decode"] = failed["decode"]
  BY <1>1 DEF producer_work, PWait, PTicket, PBow, PFetched, PFetchFails, PLock, PPush,
       PUnlock, PPost, ProducerLabels, counters, parent, Inject, TypeOK, FaultKinds, Goto
<1>3. \A q \in Procs : q # p => pc'[q] = pc[q]
  BY <1>2 DEF TypeOK
<1>4. pc'[p] # "c_crashed"
  BY <1>1, <1>2 DEF TypeOK, ProducerLabels
<1>5. Consumers \subseteq Procs
  BY DEF Procs
<1> QED BY <1>1, <1>2, <1>3, <1>4, <1>5 DEF XInv, ParentInv

(* A consumer that makes a step has not exited, so the parent still waits. *)
LEMMA ConsumerParent ==
  ASSUME XInv, NEW c \in Consumers, consumer_work(c)
  PROVE  ParentInv'
<1>1. c \in Procs /\ TypeOK /\ failed["decode"] \in Nat /\ Consumers \subseteq Procs
  BY DEF Procs, XInv, IInv, TypeOK, FaultKinds
<1>2. /\ \E from \in ConsumerLabels, to \in ConsumerLabels \cup {"c_exited", "c_crashed"} :
           Goto(c, from, to) /\ (to = "c_crashed" => failed'["decode"] > 0)
      /\ UNCHANGED <<main, image>>
      /\ failed'["decode"] >= failed["decode"]
  BY <1>1 DEF consumer_work, CWait, CLock, CCheck, CUnlockEmpty, CRepost, COver,
       CUnlockAgain, CPop, CUnlock, CSlot, CPlace, CPlaceGarbled, CCrash, CCount, CFull,
       CWake, ConsumerLabels, parent, Inject, TypeOK, FaultKinds
<1>3. pc[c] \in ConsumerLabels /\ pc'[c] \in ConsumerLabels \cup {"c_exited", "c_crashed"}
      /\ (pc'[c] = "c_crashed" => failed'["decode"] > 0)
      /\ \A q \in Procs : q # c => pc'[q] = pc[q]
  BY <1>1, <1>2 DEF Goto, TypeOK
<1>4. main \notin {"build", "done"}
  BY <1>3 DEF XInv, ParentInv, ConsumerLabels
<1>5. failed'["decode"] \in Nat
  BY <1>1 DEF consumer_work, CWait, CLock, CCheck, CUnlockEmpty, CRepost, COver,
       CUnlockAgain, CPop, CUnlock, CSlot, CPlace, CPlaceGarbled, CCrash, CCount, CFull,
       CWake, Inject, TypeOK, FaultKinds
<1>6. \A q \in Procs : pc'[q] = "c_crashed" => failed'["decode"] > 0
  BY <1>1, <1>2, <1>3, <1>5 DEF XInv, ParentInv
<1> QED BY <1>1, <1>2, <1>3, <1>4, <1>6 DEF XInv, ParentInv

(* A child is born without a strip, before the parent waits for anyone. *)
LEMMA ForkExact ==
  ASSUME XInv, [Next]_vars, NEW q \in Procs, NEW S \in SUBSET Procs,
         NEW first \in {"p_wait", "c_wait"}, NEW next \in MainLabels \ {"build", "done"},
         Fork(q, S, first, next), main \notin {"build", "done"},
         q \in Consumers => first = "c_wait"
  PROVE  StripInv' /\ PlacedInv' /\ ParentInv'
<1>1. TypeOK /\ Goto(q, "unborn", first)
  BY DEF XInv, IInv, Fork, Unborn, Goto
<1>2. /\ UNCHANGED <<strip, ring_buffer, final_strips, next_strip_to_fetch,
                     strips_processed_count, image, failed>>
      /\ main' \notin {"build", "done"}
  BY DEF Fork, locals, counters
<1>3. StripInv'
  BY <1>1, <1>2, QuietStrips DEF Holding, StripHeld
<1>4. PlacedInv'
  BY <1>1, <1>2, CountStays
<1>5. ParentInv'
  <2>1. \A r \in Procs : pc'[r] = IF r = q THEN first ELSE pc[r]
    BY <1>1 DEF Goto, TypeOK
  <2>2. Consumers \subseteq Procs /\ "c_wait" \in ConsumerLabels
    BY DEF Procs, ConsumerLabels
  <2> QED BY <1>2, <2>1, <2>2 DEF XInv, ParentInv
<1> QED BY <1>3, <1>4, <1>5

(* A step of the parent alone, or none, moves no strip. *)
LEMMA AloneExact ==
  ASSUME XInv, [Next]_vars,
         UNCHANGED <<pc, strip, ring_buffer, final_strips, next_strip_to_fetch,
                     strips_processed_count>>,
         failed'["inflate"] = failed["inflate"]
  PROVE  StripInv' /\ PlacedInv'
<1>1. Lossless' => Lossless
  BY LosslessBefore DEF XInv, IInv
<1>2. \A s : Holders(s)' = Holders(s) /\ Positions(s)' = Positions(s)
  BY DEF Holders, Positions
<1>3. StripInv'
  BY <1>1, <1>2, StripStays DEF XInv, StripInv
<1>4. PlacedInv'
  BY SameCounts DEF XInv, PlacedInv
<1> QED BY <1>3, <1>4

(* The parent forks, waits for every consumer, and writes what it finds. *)
LEMMA MainExact ==
  ASSUME XInv, [Next]_vars, main_work \/ UNCHANGED vars
  PROVE  StripInv' /\ PlacedInv' /\ ParentInv'
<1>1. TypeOK /\ Procs = Producers \cup Consumers
  BY DEF XInv, IInv, Procs
<1>2. ASSUME NEW p \in Producers, ForkProducer(p)
      PROVE  StripInv' /\ PlacedInv' /\ ParentInv'
  <2>1. p \in Procs /\ p \notin Consumers /\ Producers \in SUBSET Procs
        /\ "fork_consumers" \in MainLabels \ {"build", "done"}
    BY <1>1, ConstantsAssumption DEF MainLabels
  <2> QED BY <1>2, <2>1, ForkExact DEF ForkProducer
<1>3. ASSUME NEW c \in Consumers, ForkConsumer(c)
      PROVE  StripInv' /\ PlacedInv' /\ ParentInv'
  <2>1. c \in Procs /\ Consumers \in SUBSET Procs
        /\ "wait_producers" \in MainLabels \ {"build", "done"}
    BY <1>1 DEF MainLabels
  <2> QED BY <1>3, <2>1, ForkExact DEF ForkConsumer
<1>4. CASE ForkFails
  <2>1. failed'["inflate"] = failed["inflate"] /\ failed'["decode"] = failed["decode"]
    BY <1>1, <1>4 DEF ForkFails, Inject, TypeOK, FaultKinds
  <2>2. StripInv' /\ PlacedInv'
    BY <1>4, <2>1, AloneExact DEF ForkFails, locals, counters
  <2>3. ParentInv'
    BY <1>4, <2>1 DEF ForkFails, XInv, ParentInv
  <2> QED BY <2>2, <2>3
<1>5. CASE WaitChildren
  <2>1. StripInv' /\ PlacedInv'
    BY <1>5, AloneExact DEF WaitChildren, locals, counters
  <2>2. ParentInv'
    BY <1>5 DEF WaitChildren, AllExited, XInv, ParentInv, ConsumerLabels
  <2> QED BY <2>1, <2>2
<1>6. CASE BuildImage
  <2>1. StripInv' /\ PlacedInv'
    BY <1>6, AloneExact DEF BuildImage, locals, counters
  <2>2. ParentInv'
    BY <1>6 DEF BuildImage, XInv, ParentInv
  <2> QED BY <2>1, <2>2
<1>7. CASE UNCHANGED vars
  <2>1. StripInv' /\ PlacedInv'
    BY <1>7, AloneExact DEF vars, locals, counters
  <2>2. ParentInv'
    BY <1>7 DEF vars, parent, XInv, ParentInv
  <2> QED BY <2>1, <2>2
<1> QED BY <1>2, <1>3, <1>4, <1>5, <1>6, <1>7 DEF main_work

-----------------------------------------------------------------------------
(* The invariant *)

(* No ticket is drawn, so no strip is anywhere. *)
LEMMA InitX == Init => XInv
<1> SUFFICES ASSUME Init PROVE XInv
  OBVIOUS
<1>1. IInv
  BY InitInv
<1>2. StripInv
  <2> SUFFICES ASSUME NEW s \in Strips PROVE Traced(s)
    BY DEF StripInv
  <2>1. Holders(s) = {}
    BY DEF Init, Holders, StripHeld
  <2>2. Positions(s) = {}
    BY EmptySeq DEF Init, Positions, EmptyRing
  <2>3. s \notin final_strips /\ ~(s < next_strip_to_fetch)
    BY ConstantsAssumption DEF Init, Strips
  <2> QED BY <2>1, <2>2, <2>3 DEF Traced, OnePlace, Located
<1>3. PlacedInv
  <2>1. {q \in Procs : pc[q] \in {"c_count"}} = {}
    BY DEF Init
  <2> QED BY <2>1, FS_EmptySet DEF PlacedInv, CountAt, Init, FaultKinds
<1>4. ParentInv
  BY DEF Init, ParentInv, Procs
<1> QED BY <1>1, <1>2, <1>3, <1>4 DEF XInv

(* A step that takes back no other ticket than the last one keeps it. *)
LEMMA NextX == XInv /\ [Next /\ LastTicketRetried]_vars => XInv'
<1> SUFFICES ASSUME XInv, [Next /\ LastTicketRetried]_vars PROVE XInv'
  OBVIOUS
<1>1. [Next]_vars /\ IInv'
  BY NextInv DEF XInv
<1>2. ASSUME NEW p \in Producers, producer_work(p), LastTicketRetried PROVE XInv'
  BY <1>1, <1>2, ProducerStrips, ProducerCount, ProducerParent DEF XInv
<1>3. ASSUME NEW c \in Consumers, consumer_work(c) PROVE XInv'
  BY <1>1, <1>3, ConsumerStrips, ConsumerCount, ConsumerParent DEF XInv
<1>4. CASE main_work \/ UNCHANGED vars
  BY <1>1, <1>4, MainExact DEF XInv
<1> QED BY <1>2, <1>3, <1>4 DEF Next, Returned

-----------------------------------------------------------------------------
(* What the invariant says of the properties *)

(* Nothing destroyed: where there is one place for a strip there is one    *)
(* copy, and none where there is none.                                     *)
LEMMA ExactFromX == XInv => (Lossless => ExactlyOnce)
<1> SUFFICES ASSUME XInv, Lossless, NEW s \in Strips
             PROVE  Copies(s) = IF s < next_strip_to_fetch THEN 1 ELSE 0
  BY DEF ExactlyOnce
<1>1. Traced(s)
  BY DEF XInv, StripInv
<1>2. ASSUME NEW H, \A x, y \in H : x = y
      PROVE  Cardinality(H) = IF H = {} THEN 0 ELSE 1
  <2>1. CASE H = {}
    BY <2>1, FS_EmptySet
  <2>2. CASE H # {}
    <3>1. PICK x \in H : TRUE
      BY <2>2
    <3>2. H = {x}
      BY <1>2, <3>1
    <3> QED BY <2>2, <3>2, FS_Singleton
  <2> QED BY <2>1, <2>2
<1>3. Cardinality(Holders(s)) = IF Holders(s) = {} THEN 0 ELSE 1
  BY <1>1, <1>2 DEF Traced, OnePlace
<1>4. Cardinality(Positions(s)) = IF Positions(s) = {} THEN 0 ELSE 1
  BY <1>1, <1>2 DEF Traced, OnePlace
<1>5. s < next_strip_to_fetch <=> Located(s)
  BY <1>1 DEF Traced
<1> QED BY <1>1, <1>3, <1>4, <1>5 DEF Traced, OnePlace, Located, Copies

(* A consumer that has exited has read a full counter, and no garbled      *)
(* strip is counted: then final_strips is all there is.                    *)
LEMMA AllPlaced ==
  ASSUME XInv, Lossless, main \in {"build", "done"}
  PROVE  final_strips = Strips
<1>1. IInv /\ TypeOK
  BY DEF XInv, IInv, ParentInv
<1>2. PICK c \in Consumers : pc[c] = "c_exited"
  <2>1. PICK c \in Consumers : TRUE
    BY ConstantsAssumption
  <2>2. pc[c] # "c_crashed"
    <3>1. failed["decode"] = 0 /\ c \in Procs
      BY DEF Lossless, Procs
    <3> QED BY <3>1 DEF XInv, ParentInv
  <2> QED BY <2>1, <2>2 DEF XInv, ParentInv
<1>3. strips_processed_count >= NumStrips
  BY <1>1, <1>2 DEF IInv, TokensAccounted, Ending, AllProcessed, Procs
<1>4. /\ IsFiniteSet(Strips) /\ Cardinality(Strips) = NumStrips
      /\ final_strips \subseteq Strips
  BY <1>1, ConstantsAssumption, FS_Interval DEF Strips, TypeOK
<1>5. Cardinality(final_strips) >= NumStrips
  <2>1. CountAt(pc, {"c_count"}) \in Nat /\ strips_processed_count \in Nat
        /\ NumStrips \in Nat /\ Cardinality(final_strips) \in Nat
    BY <1>1, <1>4, CountAtNat, Numbers, FS_Subset, FS_CardinalityType
  <2>2. strips_processed_count + CountAt(pc, {"c_count"}) = Cardinality(final_strips)
    BY <2>1 DEF XInv, PlacedInv, Lossless
  <2> QED BY <1>3, <2>1, <2>2
<1>6. final_strips = Strips
  <2>1. Cardinality(final_strips) <= Cardinality(Strips)
    BY <1>4, FS_Subset
  <2>2. Cardinality(final_strips) = Cardinality(Strips)
    BY <1>4, <1>5, <2>1, FS_Subset, FS_CardinalityType
  <2> QED BY <1>4, <2>2, FS_Subset
<1> QED BY <1>6

(* The parent returns with an image of all strips. *)
LEMMA CompleteFromX == XInv => (Lossless => WrittenImageComplete)
  BY AllPlaced DEF XInv, ParentInv, WrittenImageComplete

(* The counter is off by the garbled strips, which are counted too. *)
LEMMA HonestFromX == XInv => (failed["inflate"] = 0 => CountHonest)
<1> SUFFICES ASSUME XInv, failed["inflate"] = 0 PROVE CountHonest
  OBVIOUS
<1>1. IsFiniteSet(final_strips)
  <2>1. IsFiniteSet(Strips)
    BY ConstantsAssumption, FS_Interval DEF Strips
  <2> QED BY <2>1, FS_Subset DEF XInv, IInv, TypeOK
<1> QED BY <1>1, FS_CardinalityType DEF XInv, PlacedInv, CountHonest

-----------------------------------------------------------------------------
(* No standstill: what has to come round is never lost *)

(* Only a process in the critical section has the lock. *)
HolderInside == ring_buffer_mutex # NoProc => pc[ring_buffer_mutex] \in Critical

(* Labels at which a consumer has a wake-up or will make some. *)
Waking == {"c_full", "c_wake", "c_lock", "c_check", "c_unlock_empty", "c_repost"}

(* Once all strips are processed there is always a wake-up for a consumer  *)
(* that waits, or one to come.                                             *)
WakeUpKept == AllProcessed => buf_spaces_occ > 0 \/ \E q \in Procs : pc[q] \in Waking

(* When a producer has bowed out, the tickets of all strips are drawn.     *)
TicketsGone ==
  CountAt(pc, Bowed) > 0 => next_strip_to_fetch >= NumStrips + CountAt(pc, Bowed)

(* Producers stay producers. *)
ProducerPlaces ==
  \A p \in Producers : pc[p] \in ProducerLabels \cup {"unborn", "p_exited"}

RoundInv == HolderInside /\ WakeUpKept /\ TicketsGone /\ ProducerPlaces

(* The lock is taken by a process that enters the critical section, kept   *)
(* inside, or freed.                                                       *)
LEMMA HolderStays ==
  ASSUME TypeOK, HolderInside, NEW q \in Procs, NEW from, NEW to, Goto(q, from, to),
         \/ ring_buffer_mutex' = q /\ to \in Critical
         \/ ring_buffer_mutex' = ring_buffer_mutex /\ (from \in Critical => to \in Critical)
         \/ ring_buffer_mutex' = NoProc
  PROVE  HolderInside'
  BY DEF HolderInside, Goto, TypeOK

(* A step keeps the wake-up if it makes one, passes it on, or leaves it.   *)
LEMMA WakeUpStays ==
  ASSUME TypeOK, WakeUpKept, NEW q \in Procs, NEW from, NEW to, Goto(q, from, to),
         \/ to \in Waking
         \/ buf_spaces_occ' > 0
         \/ /\ from \notin Waking
            /\ buf_spaces_occ' >= buf_spaces_occ
            /\ buf_spaces_occ' \in Nat
            /\ strips_processed_count' = strips_processed_count
         \/ ~AllProcessed'
  PROVE  WakeUpKept'
<1>1. pc'[q] = to /\ pc[q] = from /\ \A r \in Procs : r # q => pc'[r] = pc[r]
  BY DEF Goto, TypeOK
<1>2. CASE to \in Waking
  BY <1>1, <1>2 DEF WakeUpKept
<1>3. CASE buf_spaces_occ' > 0 \/ ~AllProcessed'
  BY <1>3 DEF WakeUpKept
<1>4. CASE /\ from \notin Waking
           /\ buf_spaces_occ' >= buf_spaces_occ
           /\ buf_spaces_occ' \in Nat
           /\ strips_processed_count' = strips_processed_count
  <2>1. buf_spaces_occ > 0 => buf_spaces_occ' > 0
    BY <1>4 DEF TypeOK
  <2>2. AllProcessed' => AllProcessed
    BY <1>4 DEF AllProcessed
  <2>3. ASSUME NEW r \in Procs, pc[r] \in Waking
        PROVE  pc'[r] \in Waking
    BY <1>1, <1>4, <2>3
  <2> QED BY <2>1, <2>2, <2>3 DEF WakeUpKept
<1> QED BY <1>2, <1>3, <1>4

(* A step that neither bows out nor takes a ticket back leaves them gone.  *)
LEMMA TicketsStay ==
  ASSUME TypeOK, TicketsGone, CountAt(pc, Bowed)' = CountAt(pc, Bowed),
         next_strip_to_fetch' \in Int, next_strip_to_fetch' >= next_strip_to_fetch
  PROVE  TicketsGone'
<1>1. CountAt(pc, Bowed) \in Nat /\ NumStrips \in Nat /\ next_strip_to_fetch \in Int
  BY CountAtNat, ConstantsAssumption DEF TypeOK
<1> QED BY <1>1 DEF TicketsGone

(* The tickets are gone when the first producer bows out, and a transfer   *)
(* whose ticket is the last one drawn cannot fail any more.                *)
LEMMA ProducerTickets ==
  ASSUME XInv, RoundInv, LastTicketRetried, NEW p \in Producers, producer_work(p)
  PROVE  TicketsGone'
<1>1. /\ p \in Procs /\ TypeOK /\ IInv /\ TicketsGone
      /\ NumStrips \in Nat /\ next_strip_to_fetch \in Int /\ CountAt(pc, Bowed) \in Nat
  BY Numbers DEF Procs, XInv, IInv, RoundInv
<1>2. CASE PTicket(p)
  <2>1. CASE NoTicketLeft(next_strip_to_fetch)
    <3>1. Goto(p, "p_ticket", "p_bow") /\ next_strip_to_fetch' = next_strip_to_fetch + 1
      BY <1>2, <2>1 DEF PTicket
    <3>2. Delta(Bowed, "p_ticket", "p_bow") = 1
      BY LabelSets DEF Delta, Bit
    <3>3. CountAt(pc, Bowed)' = CountAt(pc, Bowed) + 1
      BY <1>1, <3>1, <3>2, MoveCounts
    <3>4. next_strip_to_fetch >= NumStrips
      BY <2>1 DEF NoTicketLeft
    <3> QED BY <1>1, <3>1, <3>3, <3>4 DEF TicketsGone
  <2>2. CASE ~NoTicketLeft(next_strip_to_fetch)
    <3>1. Goto(p, "p_ticket", "p_fetch") /\ next_strip_to_fetch' = next_strip_to_fetch + 1
      BY <1>2, <2>2 DEF PTicket
    <3>2. Delta(Bowed, "p_ticket", "p_fetch") = 0
      BY LabelSets DEF Delta, Bit
    <3>3. CountAt(pc, Bowed)' = CountAt(pc, Bowed)
      BY <1>1, <3>1, <3>2, MoveCounts
    <3> QED BY <1>1, <3>1, <3>3, TicketsStay
  <2> QED BY <2>1, <2>2
<1>3. CASE PFetchFails(p)
  <2>1. Goto(p, "p_fetch", "p_wait") /\ next_strip_to_fetch' = next_strip_to_fetch - 1
    BY <1>3 DEF PFetchFails
  <2>2. pc[p] = "p_fetch" /\ pc'[p] = "p_wait"
    BY <1>1, <2>1 DEF Goto, TypeOK
  <2>3. strip[p] \in Strips
    BY <1>1, <2>2 DEF TypeOK, StripHeld
  <2>4. next_strip_to_fetch <= NumStrips
    BY <1>1, <2>2, <2>3 DEF LastTicketRetried, Strips
  <2>5. CountAt(pc, Bowed) = 0
    BY <1>1, <2>4 DEF TicketsGone
  <2>6. Delta(Bowed, "p_fetch", "p_wait") = 0
    BY LabelSets DEF Delta, Bit
  <2>7. CountAt(pc, Bowed)' = 0
    BY <1>1, <2>1, <2>5, <2>6, MoveCounts
  <2> QED BY <2>7 DEF TicketsGone
<1>4. CASE ~PTicket(p) /\ ~PFetchFails(p)
  <2>1. PICK from, to : Goto(p, from, to) /\ (from \in Bowed <=> to \in Bowed)
    BY <1>1, <1>4 DEF producer_work, PWait, PBow, PFetched, PLock, PPush, PUnlock, PPost, Bowed
  <2>2. Delta(Bowed, from, to) = 0
    BY <2>1 DEF Delta, Bit
  <2>3. CountAt(pc, Bowed)' = CountAt(pc, Bowed)
    BY <1>1, <2>1, <2>2, MoveCounts
  <2>4. next_strip_to_fetch' = next_strip_to_fetch
    BY <1>1, <1>4 DEF producer_work, PWait, PBow, PFetched, PLock, PPush, PUnlock, PPost,
         counters, IInv, PushPopNeverFail
  <2> QED BY <1>1, <2>3, <2>4, TicketsStay
<1> QED BY <1>2, <1>3, <1>4

(* A producer's step keeps what comes round. *)
LEMMA ProducerRounds ==
  ASSUME XInv, RoundInv, LastTicketRetried, NEW p \in Producers, producer_work(p)
  PROVE  RoundInv'
<1>1. p \in Procs /\ TypeOK /\ IInv /\ p # NoProc
  BY ConstantsAssumption DEF Procs, XInv, IInv
<1>2. PICK from, to :
        /\ Goto(p, from, to)
        /\ from \in ProducerLabels /\ to \in ProducerLabels \cup {"p_exited"}
        /\ \/ ring_buffer_mutex' = p /\ to \in Critical
           \/ ring_buffer_mutex' = ring_buffer_mutex /\ (from \in Critical => to \in Critical)
           \/ ring_buffer_mutex' = NoProc
  BY <1>1 DEF producer_work, PWait, PTicket, PBow, PFetched, PFetchFails, PLock, PPush,
       PUnlock, PPost, ProducerLabels, Critical, Lock, Unlock
<1>3. HolderInside'
  BY <1>1, <1>2, HolderStays DEF RoundInv
<1>4. from \notin Waking
  BY <1>2 DEF ProducerLabels, Waking
<1>5. /\ buf_spaces_occ' >= buf_spaces_occ /\ buf_spaces_occ' \in Nat
      /\ strips_processed_count' = strips_processed_count
  BY <1>1 DEF producer_work, PWait, PTicket, PBow, PFetched, PFetchFails, PLock, PPush,
       PUnlock, PPost, sems, counters, TypeOK
<1>6. WakeUpKept'
  BY <1>1, <1>2, <1>4, <1>5, WakeUpStays DEF RoundInv
<1>7. TicketsGone'
  BY ProducerTickets
<1>8. ProducerPlaces'
  BY <1>1, <1>2 DEF Goto, TypeOK, RoundInv, ProducerPlaces
<1> QED BY <1>3, <1>6, <1>7, <1>8 DEF RoundInv

(* So does a consumer's: what it takes from sem_wait at the end it passes  *)
(* on, and the buffer is empty then.                                       *)
LEMMA ConsumerRounds ==
  ASSUME XInv, RoundInv, NEW c \in Consumers, consumer_work(c)
  PROVE  RoundInv'
<1>1. c \in Procs /\ c \notin Producers /\ TypeOK /\ IInv /\ c # NoProc
  BY ConstantsAssumption DEF Procs, XInv, IInv
<1>2. PICK from, to :
        /\ Goto(c, from, to)
        /\ from \in ConsumerLabels /\ to \in ConsumerLabels \cup {"c_exited", "c_crashed"}
        /\ \/ ring_buffer_mutex' = c /\ to \in Critical
           \/ ring_buffer_mutex' = ring_buffer_mutex /\ (from \in Critical => to \in Critical)
           \/ ring_buffer_mutex' = NoProc
  BY <1>1 DEF consumer_work, CWait, CLock, CCheck, CUnlockEmpty, CRepost, COver,
       CUnlockAgain, CPop, CUnlock, CSlot, CPlace, CPlaceGarbled, CCrash, CCount, CFull,
       CWake, ConsumerLabels, Critical, Lock, Unlock
<1>3. HolderInside'
  BY <1>1, <1>2, HolderStays DEF RoundInv
<1>4. WakeUpKept'
  <2>1. AllProcessed => IsEmpty(ring_buffer)
    BY <1>1, Outstanding
  <2>2. CASE CCheck(c)
    <3>1. CASE AllProcessed
      <4>1. Goto(c, "c_check", "c_unlock_empty")
        BY <2>1, <2>2, <3>1 DEF CCheck
      <4> QED BY <1>1, <4>1, WakeUpStays DEF Waking, RoundInv
    <3>2. CASE ~AllProcessed
      BY <2>2, <3>2 DEF CCheck, counters, AllProcessed, WakeUpKept
    <3> QED BY <3>1, <3>2
  <2>3. CASE CFull(c)
    <3>1. CASE AllProcessed
      BY <1>1, <2>3, <3>1, WakeUpStays DEF CFull, Waking, RoundInv
    <3>2. CASE ~AllProcessed
      BY <2>3, <3>2 DEF CFull, counters, AllProcessed, WakeUpKept
    <3> QED BY <3>1, <3>2
  <2>4. CASE CWait(c) \/ CLock(c) \/ CUnlockEmpty(c) \/ CCount(c)
    <3>1. PICK f, t : Goto(c, f, t) /\ t \in Waking
      BY <2>4 DEF CWait, CLock, CUnlockEmpty, CCount, Waking
    <3> QED BY <1>1, <3>1, WakeUpStays DEF RoundInv
  <2>5. CASE CRepost(c) \/ CWake(c)
    <3>1. buf_spaces_occ' > 0
      BY <1>1, <2>5 DEF CRepost, CWake, TypeOK
    <3> QED BY <3>1 DEF WakeUpKept
  <2>6. CASE COver(c) \/ CUnlockAgain(c) \/ CPop(c) \/ CUnlock(c) \/ CSlot(c) \/ CPlace(c)
             \/ CPlaceGarbled(c) \/ CCrash(c)
    <3>1. PICK f, t : Goto(c, f, t) /\ f \notin Waking
      BY <2>6 DEF COver, CUnlockAgain, CPop, CUnlock, CSlot, CPlace, CPlaceGarbled, CCrash, Waking
    <3>2. /\ buf_spaces_occ' >= buf_spaces_occ /\ buf_spaces_occ' \in Nat
          /\ strips_processed_count' = strips_processed_count
      BY <1>1, <2>6 DEF COver, CUnlockAgain, CPop, CUnlock, CSlot, CPlace, CPlaceGarbled,
           CCrash, sems, counters, TypeOK
    <3> QED BY <1>1, <3>1, <3>2, WakeUpStays DEF RoundInv
  <2> QED BY <2>2, <2>3, <2>4, <2>5, <2>6 DEF consumer_work
<1>5. TicketsGone'
  <2>1. from \notin Bowed /\ to \notin Bowed
    BY <1>2 DEF ConsumerLabels, Bowed
  <2>2. Delta(Bowed, from, to) = 0
    BY <2>1 DEF Delta, Bit
  <2>3. CountAt(pc, Bowed)' = CountAt(pc, Bowed)
    BY <1>1, <1>2, <2>2, MoveCounts, CountAtNat
  <2>4. next_strip_to_fetch' = next_strip_to_fetch
    BY <1>1 DEF consumer_work, CWait, CLock, CCheck, CUnlockEmpty, CRepost, COver,
         CUnlockAgain, CPop, CUnlock, CSlot, CPlace, CPlaceGarbled, CCrash, CCount, CFull,
         CWake, counters
  <2> QED BY <1>1, <2>3, <2>4, TicketsStay DEF TypeOK, RoundInv
<1>6. ProducerPlaces'
  BY <1>1, <1>2 DEF Goto, TypeOK, RoundInv, ProducerPlaces, Procs
<1> QED BY <1>3, <1>4, <1>5, <1>6 DEF RoundInv

(* The parent only brings children to their first label. *)
LEMMA MainRounds ==
  ASSUME XInv, RoundInv, main_work \/ UNCHANGED vars
  PROVE  RoundInv'
<1>1. TypeOK /\ IInv /\ Procs = Producers \cup Consumers /\ Producers \cap Consumers = {}
  BY ConstantsAssumption DEF Procs, XInv, IInv
<1>2. /\ ring_buffer_mutex' = ring_buffer_mutex /\ buf_spaces_occ' = buf_spaces_occ
      /\ strips_processed_count' = strips_processed_count
      /\ next_strip_to_fetch' = next_strip_to_fetch
  BY DEF main_work, ForkProducer, ForkConsumer, Fork, ForkFails, WaitChildren, BuildImage,
       vars, sems, counters
<1>3. ASSUME NEW q \in Procs, NEW to \in {"p_wait", "c_wait"}, Goto(q, "unborn", to),
             q \in Producers => to = "p_wait"
      PROVE  RoundInv'
  <2>1. HolderInside'
    BY <1>1, <1>2, <1>3, HolderStays DEF Critical, RoundInv
  <2>2. "unborn" \notin Waking /\ buf_spaces_occ \in Nat
    BY <1>1 DEF Waking, TypeOK
  <2>3. WakeUpKept'
    BY <1>1, <1>2, <1>3, <2>2, WakeUpStays DEF RoundInv
  <2>4. Delta(Bowed, "unborn", to) = 0
    BY DEF Delta, Bit, Bowed
  <2>5. CountAt(pc, Bowed)' = CountAt(pc, Bowed)
    BY <1>1, <1>3, <2>4, MoveCounts, CountAtNat
  <2>6. TicketsGone'
    BY <1>1, <1>2, <2>5, TicketsStay DEF TypeOK, RoundInv
  <2>7. ProducerPlaces'
    BY <1>1, <1>3 DEF Goto, TypeOK, RoundInv, ProducerPlaces, ProducerLabels
  <2> QED BY <2>1, <2>3, <2>6, <2>7 DEF RoundInv
<1>4. ASSUME UNCHANGED pc
      PROVE  RoundInv'
  BY <1>2, <1>4, SameCounts
  DEF RoundInv, HolderInside, WakeUpKept, TicketsGone, ProducerPlaces, AllProcessed
<1>5. ASSUME NEW p \in Producers, ForkProducer(p)
      PROVE  RoundInv'
  <2>1. p \in Procs /\ Goto(p, "unborn", "p_wait")
    BY <1>1, <1>5 DEF ForkProducer, Fork, Unborn, Goto
  <2> QED BY <1>3, <2>1
<1>6. ASSUME NEW c \in Consumers, ForkConsumer(c)
      PROVE  RoundInv'
  <2>1. c \in Procs /\ c \notin Producers /\ Goto(c, "unborn", "c_wait")
    BY <1>1, <1>6 DEF ForkConsumer, Fork, Unborn, Goto
  <2> QED BY <1>3, <2>1
<1>7. CASE ForkFails \/ WaitChildren \/ BuildImage \/ UNCHANGED vars
  BY <1>4, <1>7 DEF ForkFails, WaitChildren, BuildImage, vars
<1> QED BY <1>5, <1>6, <1>7 DEF main_work

(* At first nothing is out. *)
LEMMA InitRounds == Init => RoundInv
<1> SUFFICES ASSUME Init PROVE RoundInv
  OBVIOUS
<1>1. {q \in Procs : pc[q] \in Bowed} = {}
  BY DEF Init, Bowed
<1>2. CountAt(pc, Bowed) = 0
  BY <1>1, FS_EmptySet DEF CountAt
<1> QED BY <1>2, ConstantsAssumption
        DEF Init, RoundInv, HolderInside, WakeUpKept, TicketsGone, ProducerPlaces,
            AllProcessed, Procs

(* Every step keeps what comes round. *)
LEMMA NextRounds == XInv /\ RoundInv /\ [Next /\ LastTicketRetried]_vars => RoundInv'
  BY ProducerRounds, ConsumerRounds, MainRounds DEF Next, Returned

(* Nobody can be inside if all who live wait: then the lock is free, and   *)
(* the accounts of the slots, the tokens and the tickets leave nobody      *)
(* waiting for them.                                                       *)
LEMMA SomeoneGoesOn == XInv /\ RoundInv => NoStandstill
<1> SUFFICES ASSUME XInv, RoundInv, Unborn(Procs) = {}, failed["transfer"] < BufSize,
                    failed["decode"] = 0,
                    NEW a \in Alive, \A q \in Alive : Blocked(q)
             PROVE  FALSE
  BY DEF NoStandstill
<1>1. TypeOK /\ IInv /\ Alive \subseteq Procs /\ Producers \subseteq Procs /\ Consumers \subseteq Procs
  BY DEF XInv, IInv, Alive, Procs
<1>2. /\ Len(ring_buffer) \in Nat
      /\ buf_spaces_avail \in Nat /\ buf_spaces_occ \in Nat
      /\ next_strip_to_fetch \in Int /\ strips_processed_count \in Nat
      /\ failed["transfer"] \in Nat /\ BufSize \in Nat /\ NumStrips \in Nat
      /\ CountAt(pc, Bowed) \in Nat
  BY <1>1, Numbers
<1>3. ring_buffer_mutex = NoProc
  <2> SUFFICES ASSUME ring_buffer_mutex # NoProc PROVE FALSE
    OBVIOUS
  <2>1. ring_buffer_mutex \in Procs /\ pc[ring_buffer_mutex] \in Critical
    BY <1>1 DEF TypeOK, RoundInv, HolderInside
  <2>2. ring_buffer_mutex \in Alive /\ ~Blocked(ring_buffer_mutex)
    BY <2>1 DEF Critical, Alive, Blocked
  <2> QED BY <2>2
<1>4. \A q \in Procs :
        \/ pc[q] = "p_wait" /\ buf_spaces_avail = 0
        \/ pc[q] = "c_wait" /\ buf_spaces_occ = 0
        \/ pc[q] \in {"p_exited", "c_exited", "c_crashed"}
  BY <1>3 DEF Alive, Blocked, Unborn
<1>5. /\ CountAt(pc, SlotHeld) = 0 /\ CountAt(pc, StripHeld) = 0 /\ CountAt(pc, TokenHeld) = 0
  <2>1. ASSUME NEW L, \A q \in Procs : pc[q] \notin L
        PROVE  CountAt(pc, L) = 0
    <3>1. {q \in Procs : pc[q] \in L} = {}
      BY <2>1
    <3> QED BY <3>1, FS_EmptySet DEF CountAt
  <2>2. \A q \in Procs : pc[q] \notin SlotHeld /\ pc[q] \notin StripHeld /\ pc[q] \notin TokenHeld
    BY <1>4 DEF SlotHeld, StripHeld, TokenHeld
  <2> QED BY <2>1, <2>2
<1>6. buf_spaces_avail + Len(ring_buffer) = BufSize - failed["transfer"]
  BY <1>1, <1>2, <1>5 DEF IInv, SlotsAccounted
<1>7. Len(ring_buffer) = 0 => \A q \in Procs : pc[q] # "p_wait"
  BY <1>2, <1>4, <1>6
<1>8. CASE AllProcessed
  <2>1. Len(ring_buffer) = 0
    BY <1>1, <1>2, <1>5, <1>8 DEF IInv, TicketsAccounted, Work, AllProcessed
  <2>2. pc[a] = "c_wait" /\ buf_spaces_occ = 0
    BY <1>1, <1>4, <1>7, <2>1 DEF Alive
  <2>3. \E q \in Procs : pc[q] \in Waking
    BY <1>8, <2>2 DEF RoundInv, WakeUpKept
  <2> QED BY <1>4, <2>3 DEF Waking
<1>9. CASE ~AllProcessed
  <2>1. buf_spaces_occ = Len(ring_buffer)
    BY <1>1, <1>2, <1>5, <1>9 DEF IInv, TokensAccounted
  <2>2. CASE Len(ring_buffer) = 0
    <3>1. PICK p \in Producers : TRUE
      BY ConstantsAssumption
    <3>2. pc[p] \in Bowed
      BY <1>1, <1>4, <1>7, <2>2 DEF RoundInv, ProducerPlaces, ProducerLabels, Bowed
    <3>3. CountAt(pc, Bowed) > 0
      BY <1>1, <3>2, CountAtSome
    <3>4. next_strip_to_fetch >= NumStrips + CountAt(pc, Bowed)
      BY <3>3 DEF RoundInv, TicketsGone
    <3>5. next_strip_to_fetch = strips_processed_count + CountAt(pc, Bowed)
      BY <1>1, <1>2, <1>5, <2>2 DEF IInv, TicketsAccounted, Work
    <3> QED BY <1>2, <1>9, <3>4, <3>5 DEF AllProcessed
  <2>3. CASE Len(ring_buffer) # 0
    <3>1. PICK c \in Consumers : TRUE
      BY ConstantsAssumption
    <3>2. pc[c] \notin {"c_wait", "p_wait", "p_exited", "c_crashed"}
      BY <1>1, <1>4, <2>1, <2>3 DEF XInv, ParentInv, ConsumerLabels
    <3>3. pc[c] = "c_exited"
      BY <1>1, <1>4, <3>2
    <3> QED BY <1>1, <1>9, <3>3 DEF IInv, TokensAccounted, Ending
  <2> QED BY <2>2, <2>3
<1> QED BY <1>8, <1>9

-----------------------------------------------------------------------------
(* The results *)

(* If a failed transfer only takes back the last ticket drawn, each strip  *)
(* is traced from the drawing of its ticket to final_strips.               *)
THEOREM ExactInvariance == RetrySpec => []XInv
  BY InitX, NextX, PTL DEF RetrySpec

(* Then as long as no consumer has died of a strip or copied a garbled     *)
(* one, a strip whose ticket is drawn is in exactly one place: none is     *)
(* lost, fetched twice or copied twice, however many processes there are.  *)
THEOREM NothingLostOrDoubled == RetrySpec => [](Lossless => ExactlyOnce)
  BY ExactFromX, ExactInvariance, PTL

(* The counter by which the consumers decide to stop counts the distinct   *)
(* strips copied, also if consumers die, as long as none copies a garbled  *)
(* strip.                                                                  *)
THEOREM CounterHonest == RetrySpec => [](failed["inflate"] = 0 => CountHonest)
  BY HonestFromX, ExactInvariance, PTL

(* all.png has every strip whenever the parent returns, if no consumer has *)
(* died of a strip or copied a garbled one.                                *)
THEOREM ImageComplete == RetrySpec => [](Lossless => WrittenImageComplete)
  BY CompleteFromX, ExactInvariance, PTL

(* The processes never all wait for each other as long as no consumer has  *)
(* died and fewer transfers have failed than the buffer has slots: slots,  *)
(* tokens, lock and wake-ups come round, however many processes there are. *)
THEOREM NeverAllWaiting == RetrySpec => []NoStandstill
<1>1. Init => XInv /\ RoundInv
  BY InitX, InitRounds
<1>2. XInv /\ RoundInv /\ [Next /\ LastTicketRetried]_vars => XInv' /\ RoundInv'
  BY NextX, NextRounds
<1> QED BY <1>1, <1>2, SomeoneGoesOn, PTL DEF RetrySpec

-----------------------------------------------------------------------------
(* A single producer *)

(* Between its ticket and its transfer nobody else draws one. *)
LastDrawn(p) == pc[p] = "p_fetch" => next_strip_to_fetch = strip[p] + 1

(* A lone producer takes back the ticket it has just drawn. *)
LEMMA NextLastDrawn ==
  ASSUME NEW only, Producers = {only}, IInv, LastDrawn(only), [Next]_vars
  PROVE  LastDrawn(only)' /\ [Next /\ LastTicketRetried]_vars
<1>1. TypeOK /\ only \in Producers /\ only \in Procs /\ only \notin Consumers
      /\ \A p \in Producers : p = only
  BY ConstantsAssumption DEF IInv, Procs
<1>2. [Next /\ LastTicketRetried]_vars
  BY <1>1 DEF LastTicketRetried, LastDrawn
<1>3. ASSUME producer_work(only)
      PROVE  LastDrawn(only)'
  <2>1. CASE PTicket(only)
    BY <1>1, <2>1 DEF PTicket, LastDrawn, Goto, TypeOK
  <2>2. CASE ~PTicket(only)
    <3>1. pc'[only] # "p_fetch"
      BY <1>1, <1>3, <2>2 DEF producer_work, PWait, PBow, PFetched, PFetchFails, PLock,
           PPush, PUnlock, PPost, Goto, TypeOK
    <3> QED BY <3>1 DEF LastDrawn
  <2> QED BY <2>1, <2>2
<1>4. ASSUME NEW c \in Consumers, consumer_work(c)
      PROVE  LastDrawn(only)'
  <2>1. c \in Procs /\ c # only
    BY <1>1 DEF Procs
  <2>2. /\ \E from, to : Goto(c, from, to)
        /\ next_strip_to_fetch' = next_strip_to_fetch
    BY <1>1, <1>4 DEF consumer_work, CWait, CLock, CCheck, CUnlockEmpty, CRepost, COver,
         CUnlockAgain, CPop, CUnlock, CSlot, CPlace, CPlaceGarbled, CCrash, CCount, CFull,
         CWake, counters
  <2>3. strip'[only] = strip[only]
    BY <1>1, <1>4, <2>1 DEF consumer_work, CWait, CLock, CCheck, CUnlockEmpty, CRepost,
         COver, CUnlockAgain, CPop, CUnlock, CSlot, CPlace, CPlaceGarbled, CCrash, CCount,
         CFull, CWake, locals, EndIteration, TypeOK
  <2>4. pc'[only] = pc[only]
    BY <1>1, <2>1, <2>2 DEF Goto, TypeOK
  <2> QED BY <2>2, <2>3, <2>4 DEF LastDrawn
<1>5. ASSUME main_work \/ UNCHANGED vars
      PROVE  LastDrawn(only)'
  <2>1. UNCHANGED <<strip, next_strip_to_fetch>>
    BY <1>5 DEF main_work, ForkProducer, ForkConsumer, Fork, ForkFails, WaitChildren,
         BuildImage, vars, locals, counters
  <2>2. pc'[only] = pc[only] \/ pc'[only] \in {"p_wait", "c_wait"}
    BY <1>1, <1>5 DEF main_work, ForkProducer, ForkConsumer, Fork, ForkFails,
         WaitChildren, BuildImage, vars, TypeOK
  <2> QED BY <2>1, <2>2 DEF LastDrawn
<1>6. LastDrawn(only)'
  BY <1>1, <1>3, <1>4, <1>5 DEF Next, Returned
<1> QED BY <1>2, <1>6

(* With one producer a failed transfer is always for the last ticket: what *)
(* RetrySpec assumes of paster2 is a fact.                                 *)
THEOREM LoneProducerRetries ==
  ASSUME NEW only, Producers = {only}
  PROVE  Spec => [][Next /\ LastTicketRetried]_vars
<1>1. Init => LastDrawn(only)
  BY DEF Init, LastDrawn, Procs
<1>2. IInv /\ LastDrawn(only) /\ [Next]_vars
        => LastDrawn(only)' /\ [Next /\ LastTicketRetried]_vars
  BY NextLastDrawn
<1> QED BY <1>1, <1>2, Invariance, PTL DEF Spec

(* So with one producer, any number of failed transfers and whatever else  *)
(* happens to the consumers, no strip is lost or made twice.               *)
THEOREM LoneProducerExact ==
  ASSUME NEW only, Producers = {only}
  PROVE  Spec => [](Lossless => ExactlyOnce)
<1>1. Spec => []XInv
  BY InitX, NextX, LoneProducerRetries, PTL DEF Spec
<1> QED BY <1>1, ExactFromX, PTL

(* And the image it leaves is complete. *)
THEOREM LoneProducerComplete ==
  ASSUME NEW only, Producers = {only}
  PROVE  Spec => [](Lossless => WrittenImageComplete)
<1>1. Spec => []XInv
  BY InitX, NextX, LoneProducerRetries, PTL DEF Spec
<1> QED BY <1>1, CompleteFromX, PTL

(* Nor do they all wait for each other.                                    *)
THEOREM LoneProducerGoesOn ==
  ASSUME NEW only, Producers = {only}
  PROVE  Spec => []NoStandstill
<1>1. Init => XInv /\ RoundInv
  BY InitX, InitRounds
<1>2. XInv /\ RoundInv /\ [Next /\ LastTicketRetried]_vars => XInv' /\ RoundInv'
  BY NextX, NextRounds
<1> QED BY <1>1, <1>2, SomeoneGoesOn, LoneProducerRetries, PTL DEF Spec

=============================================================================
