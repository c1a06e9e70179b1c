------------------------ MODULE Paster2AssemblyProofs ------------------------
(***************************************************************************)
(* The processes of Paster2 implement StripAssembly, step by step, as long *)
(* as no strip is destroyed: the draw of a ticket is the abstract Fetch,   *)
(* a push is Buffer, a pop is Take, the copy to final_strips is Place, a   *)
(* failed transfer is GiveBack, BuildImage is Write, and every other step  *)
(* of a process is a stuttering step.                                      *)
(***************************************************************************)
EXTENDS Paster2ExactProofs, Paster2Assembly

(* The stage of a traced strip tells where it is, and its place the stage. *)
LEMMA StageMeans ==
  ASSUME NEW s, OnePlace(s)
  PROVE  /\ StageOf(s) = "placed" <=> s \in final_strips
         /\ StageOf(s) = "buffered" <=> Positions(s) # {}
         /\ StageOf(s) = "todo" <=> ~Located(s)
         /\ \A p \in Producers : p \in Holders(s) => StageOf(s) = "fetching"
         /\ \A c \in Consumers : c \in Holders(s) => StageOf(s) = "decoding"
<1>1. Holders(s) \subseteq Producers \cup Consumers
  BY DEF Holders, Procs
<1>2. \A p \in Producers, c \in Consumers : p \in Holders(s) => c \notin Holders(s)
  BY ConstantsAssumption DEF OnePlace
<1> QED BY <1>1, <1>2 DEF StageOf, OnePlace, Located

(* The same after a step. *)
LEMMA StageMeansThen ==
  ASSUME NEW s, OnePlace(s)'
  PROVE  /\ StageOf(s)' = "placed" <=> s \in final_strips'
         /\ StageOf(s)' = "buffered" <=> Positions(s)' # {}
         /\ StageOf(s)' = "todo" <=> ~Located(s)'
         /\ \A p \in Producers : p \in Holders(s)' => StageOf(s)' = "fetching"
         /\ \A c \in Consumers : c \in Holders(s)' => StageOf(s)' = "decoding"
<1>1. Holders(s)' \subseteq Producers \cup Consumers
  BY DEF Holders, Procs
<1>2. \A p \in Producers, c \in Consumers : p \in Holders(s)' => c \notin Holders(s)'
  BY ConstantsAssumption DEF OnePlace
<1> QED BY <1>1, <1>2 DEF StageOf, OnePlace, Located

(* A strip that stays where it is keeps its stage. *)
LEMMA StageStays ==
  ASSUME NEW s, Holders(s)' = Holders(s), Positions(s)' = Positions(s),
         s \in final_strips' <=> s \in final_strips
  PROVE  StageOf(s)' = StageOf(s)
BY DEF StageOf

(* One strip advances, all others stay where they are. *)
LEMMA AdvanceStep ==
  ASSUME NEW s \in Strips, NEW from, NEW to,
         StageOf(s) = from, StageOf(s)' = to,
         \A r \in Strips \ {s} :
           /\ Holders(r)' = Holders(r)
           /\ Positions(r)' = Positions(r)
           /\ r \in final_strips' <=> r \in final_strips,
         image' = image
  PROVE  Assembly!Advance(s, from, to)
<1>1. \A r \in Strips \ {s} : StageOf(r)' = StageOf(r)
  BY StageStays
<1> QED BY <1>1 DEF Assembly!Advance

(* Nothing moves. *)
LEMMA StutterStep ==
  ASSUME \A s \in Strips : StageOf(s)' = StageOf(s), image' = image
  PROVE  UNCHANGED Assembly!vars
BY DEF Assembly!vars

(* A process that keeps its strip, or has none before and after.  *)
LEMMA QuietStep ==
  ASSUME XInv, NEW q \in Procs, NEW from, NEW to, Goto(q, from, to),
         \A r \in Procs \ {q} : strip'[r] = strip[r],
         from \in Holding <=> to \in Holding,
         from \in Holding => strip'[q] = strip[q],
         UNCHANGED <<ring_buffer, final_strips, image>>
  PROVE  UNCHANGED Assembly!vars
<1>1. TypeOK
  BY DEF XInv, IInv
<1>2. \A s \in Strips : StageOf(s)' = StageOf(s)
  <2> SUFFICES ASSUME NEW s \in Strips PROVE StageOf(s)' = StageOf(s)
    OBVIOUS
  <2>1. Holders(s)' = Holders(s)
    BY <1>1, HoldersStay
  <2>2. Positions(s)' = Positions(s)
    BY DEF Positions
  <2> QED BY <2>1, <2>2, StageStays
<1> QED BY <1>2, StutterStep

-----------------------------------------------------------------------------
(* The steps that move a strip *)

(* The place of a strip a process holds. *)
LEMMA HeldStage ==
  ASSUME XInv, NEW q \in Procs, pc[q] \in Holding, NEW s, s = strip[q]
  PROVE  /\ s \in Strips
         /\ q \in Producers => StageOf(s) = "fetching"
         /\ q \in Consumers => StageOf(s) = "decoding"
<1>1. s \in Strips /\ Holders(s) = {q}
  BY OnlyHolder
<1>2. OnePlace(s)
  BY <1>1 DEF XInv, StripInv, Traced
<1> QED BY <1>1, <1>2, StageMeans

(* A ticket is drawn: the strip it stands for was nowhere. *)
LEMMA FetchStep ==
  ASSUME XInv, XInv', NEW p \in Producers, PTicket(p)
  PROVE  Assembly!Next \/ UNCHANGED Assembly!vars
<1>1. /\ TypeOK /\ p \in Procs /\ pc[p] = "p_ticket" /\ next_strip_to_fetch \in Int
      /\ next_strip_to_fetch >= 0 /\ NumStrips \in Nat
      /\ UNCHANGED <<ring_buffer, final_strips, image>>
  BY Numbers, Outstanding DEF XInv, IInv, Procs, PTicket, Goto, TypeOK, parent
<1>2. CASE NoTicketLeft(next_strip_to_fetch)
  <2>1. Goto(p, "p_ticket", "p_bow") /\ strip' = strip
    BY <1>2 DEF PTicket
  <2> QED BY <1>1, <2>1, QuietStep DEF Holding, StripHeld
<1>3. CASE ~NoTicketLeft(next_strip_to_fetch)
  <2>1. PICK s \in Strips : s = next_strip_to_fetch
    BY <1>1, <1>3 DEF NoTicketLeft, Strips
  <2>2. Goto(p, "p_ticket", "p_fetch") /\ strip'[p] = s
        /\ \A r \in Procs \ {p} : strip'[r] = strip[r]
    BY <1>1, <1>3, <2>1 DEF PTicket, TypeOK
  <2>3. \A r : Holders(r)' = Holders(r) \cup (IF r = s THEN {p} ELSE {})
    <3>1. \A r : Holders(r)' = (Holders(r) \ {p}) \cup (IF r = s THEN {p} ELSE {})
      BY <1>1, <2>2, HoldersAfter DEF Holding, StripHeld
    <3>2. \A r : p \notin Holders(r)
      BY <1>1 DEF Holders, StripHeld
    <3> QED BY <3>1, <3>2
  <2>4. Traced(s) /\ Traced(s)' /\ ~(s < s)
    BY DEF XInv, StripInv, Strips
  <2>5. StageOf(s) = "todo"
    BY <2>1, <2>4, StageMeans DEF Traced
  <2>6. StageOf(s)' = "fetching"
    BY <2>3, <2>4, StageMeansThen DEF Traced
  <2>7. \A r : Positions(r)' = Positions(r)
    BY <1>1 DEF Positions
  <2>8. Assembly!Fetch(s)
    BY <1>1, <2>3, <2>5, <2>6, <2>7, AdvanceStep DEF Assembly!Fetch
  <2> QED BY <2>8 DEF Assembly!Next, Assembly!Strips, Strips
<1> QED BY <1>2, <1>3

(* The strip of a failed transfer is nowhere again. *)
LEMMA GiveBackStep ==
  ASSUME XInv, XInv', NEW p \in Producers, PFetchFails(p),
         next_strip_to_fetch = strip[p] + 1
  PROVE  Assembly!Next
<1>1. /\ TypeOK /\ p \in Procs /\ Goto(p, "p_fetch", "p_wait") /\ pc[p] = "p_fetch"
      /\ UNCHANGED <<ring_buffer, final_strips, image>>
      /\ \A r \in Procs \ {p} : strip'[r] = strip[r]
  BY EndIterationTyped DEF XInv, IInv, Procs, PFetchFails, Goto, parent
<1>2. PICK s : s = strip[p]
  OBVIOUS
<1>3. s \in Strips /\ StageOf(s) = "fetching"
  BY <1>1, <1>2, HeldStage DEF Holding, StripHeld
<1>4. \A r : r # s => p \notin Holders(r)
  BY <1>2 DEF Holders
<1>5. \A r : Holders(r)' = Holders(r) \ {p}
  BY <1>1, HoldersAfter DEF Holding, StripHeld
<1>6. \A r : Positions(r)' = Positions(r)
  BY <1>1 DEF Positions
<1>7. StageOf(s)' = "todo"
  <2>1. Traced(s)' /\ next_strip_to_fetch' = s
    BY <1>2, <1>3 DEF XInv, StripInv, PFetchFails, Strips
  <2>2. ~Located(s)'
    BY <1>3, <2>1 DEF Traced, Strips
  <2> QED BY <2>1, <2>2, StageMeansThen DEF Traced
<1>8. Assembly!GiveBack(s)
  BY <1>1, <1>3, <1>4, <1>5, <1>6, <1>7, AdvanceStep DEF Assembly!GiveBack
<1> QED BY <1>3, <1>8 DEF Assembly!Next, Assembly!Strips, Strips

(* The abstract buffer holds what the stack holds. *)
LEMMA BufferedBounded ==
  ASSUME XInv
  PROVE  Cardinality(Assembly!In("buffered")) <= Len(ring_buffer)
<1> DEFINE B == {s \in Strips : Positions(s) # {}}
<1>1. Assembly!In("buffered") = B
  <2>1. \A s \in Strips : StageOf(s) = "buffered" <=> Positions(s) # {}
    BY StageMeans DEF XInv, StripInv, Traced
  <2> QED BY <2>1 DEF Assembly!In, Assembly!Strips, Strips
<1>2. /\ ring_buffer \in Seq(Strips) /\ Len(ring_buffer) \in Nat
      /\ DOMAIN ring_buffer = 1 .. Len(ring_buffer)
  BY LenProperties DEF XInv, IInv, TypeOK
<1>3. ring_buffer \in Surjection(1 .. Len(ring_buffer), B)
  <2>1. \A j \in 1 .. Len(ring_buffer) : ring_buffer[j] \in B
    BY <1>2, ElementOfSeq DEF Positions
  <2>2. ring_buffer \in [1 .. Len(ring_buffer) -> B]
    <3>1. ring_buffer = [j \in 1 .. Len(ring_buffer) |-> ring_buffer[j]]
      BY <1>2
    <3> QED BY <2>1, <3>1
  <2>3. \A s \in B : \E j \in 1 .. Len(ring_buffer) : ring_buffer[j] = s
    BY <1>2 DEF Positions
  <2> QED BY <2>2, <2>3 DEF Surjection
<1> HIDE DEF B
<1>4. ExistsSurjection(1 .. Len(ring_buffer), B)
  BY <1>3 DEF ExistsSurjection
<1>5. Cardinality(B) <= Len(ring_buffer)
  BY <1>2, <1>4, FS_SurjCardinalityBound
<1> QED BY <1>1, <1>5

(* There is room in the stack for what is pushed. *)
LEMMA BufferStep ==
  ASSUME XInv, XInv', NEW p \in Producers, PPush(p)
  PROVE  Assembly!Next
<1>1. /\ TypeOK /\ p \in Procs /\ Goto(p, "p_push", "p_unlock") /\ pc[p] = "p_push"
      /\ strip' = strip /\ UNCHANGED <<final_strips, image>>
  BY DEF XInv, IInv, Procs, PPush, Goto, parent
<1>2. PICK s : s = strip[p]
  OBVIOUS
<1>3. s \in Strips /\ StageOf(s) = "fetching"
  BY <1>1, <1>2, HeldStage DEF Holding, StripHeld
<1>4. \A r : r # s => p \notin Holders(r)
  BY <1>2 DEF Holders
<1>5. \A r : Holders(r)' = Holders(r) \ {p}
  BY <1>1, HoldersAfter DEF Holding, StripHeld
<1>6. /\ Len(ring_buffer) < BufSize
      /\ \A r : Positions(r)' =
           Positions(r) \cup (IF r = s THEN {Len(ring_buffer) + 1} ELSE {})
  BY <1>2, PushPositions
<1>7. StageOf(s)' = "buffered"
  <2>1. OnePlace(s)'
    BY <1>3 DEF XInv, StripInv, Traced
  <2>2. Positions(s)' # {}
    BY <1>6
  <2> QED BY <2>1, <2>2, StageMeansThen
<1>8. Cardinality(Assembly!In("buffered")) < BufSize
  <2>1. Cardinality(Assembly!In("buffered")) \in Nat
    <3>1. Assembly!In("buffered") \in SUBSET Strips
      BY DEF Assembly!In, Assembly!Strips, Strips
    <3>2. IsFiniteSet(Strips)
      BY FS_Interval, ConstantsAssumption DEF Strips
    <3> QED BY <3>1, <3>2, FS_Subset, FS_CardinalityType
  <2>2. Len(ring_buffer) \in Nat /\ BufSize \in Nat
    BY Numbers DEF XInv
  <2> QED BY <1>6, <2>1, <2>2, BufferedBounded
<1>9. Assembly!Buffer(s)
  <2>1. Assembly!Advance(s, "fetching", "buffered")
    BY <1>1, <1>3, <1>4, <1>5, <1>6, <1>7, AdvanceStep
  <2>2. Assembly!Cardinality(Assembly!In("buffered")) = Cardinality(Assembly!In("buffered"))
    BY DEF Assembly!Cardinality, Cardinality
  <2> QED BY <1>8, <2>1, <2>2 DEF Assembly!Buffer
<1> QED BY <1>3, <1>9 DEF Assembly!Next, Assembly!Strips, Strips

(* The strip that is popped was in the stack. *)
LEMMA TakeStep ==
  ASSUME XInv, XInv', NEW c \in Consumers, CPop(c)
  PROVE  Assembly!Next
<1>1. /\ TypeOK /\ c \in Procs /\ Goto(c, "c_pop", "c_unlock") /\ pc[c] = "c_pop"
      /\ UNCHANGED <<final_strips, image>>
  BY DEF XInv, IInv, Procs, CPop, Goto, parent
<1>2. PICK s \in Strips : s = Top(ring_buffer)
  BY PopPositions
<1>3. strip'[c] = s /\ \A r \in Procs \ {c} : strip'[r] = strip[r]
  BY <1>1, <1>2, PopPositions DEF TypeOK
<1>4. \A r : /\ Positions(r)' = Positions(r) \ {Len(ring_buffer)}
  BY PopPositions
<1>5. \A r : Len(ring_buffer) \in Positions(r) <=> r = s
  BY <1>2, PopPositions
<1>6. \A r : Holders(r)' = Holders(r) \cup (IF r = s THEN {c} ELSE {})
  <2>1. \A r : Holders(r)' = (Holders(r) \ {c}) \cup (IF r = s THEN {c} ELSE {})
    BY <1>1, <1>3, HoldersAfter DEF Holding, StripHeld
  <2>2. \A r : c \notin Holders(r)
    BY <1>1 DEF Holders, StripHeld
  <2> QED BY <2>1, <2>2
<1>7. OnePlace(s) /\ OnePlace(s)'
  BY DEF XInv, StripInv, Traced
<1>8. StageOf(s) = "buffered"
  BY <1>5, <1>7, StageMeans
<1>9. StageOf(s)' = "decoding"
  BY <1>6, <1>7, StageMeansThen
<1>10. \A r \in Strips \ {s} :
         /\ Holders(r)' = Holders(r)
         /\ Positions(r)' = Positions(r)
  BY <1>4, <1>5, <1>6
<1>11. Assembly!Take(s)
  BY <1>1, <1>8, <1>9, <1>10, AdvanceStep DEF Assembly!Take
<1> QED BY <1>11 DEF Assembly!Next, Assembly!Strips, Strips

(* The strip that is copied was decoded by the consumer that copies it. *)
LEMMA PlaceStep ==
  ASSUME XInv, XInv', NEW c \in Consumers, CPlace(c)
  PROVE  Assembly!Next
<1>1. /\ TypeOK /\ c \in Procs /\ Goto(c, "c_place", "c_count") /\ pc[c] = "c_place"
      /\ final_strips' = final_strips \cup {strip[c]}
      /\ UNCHANGED <<strip, ring_buffer, image>>
  BY DEF XInv, IInv, Procs, CPlace, Goto, locals, parent
<1>2. PICK s : s = strip[c]
  OBVIOUS
<1>3. s \in Strips /\ StageOf(s) = "decoding"
  BY <1>1, <1>2, ConstantsAssumption, HeldStage DEF Holding, StripHeld
<1>4. \A r : r # s => c \notin Holders(r)
  BY <1>2 DEF Holders
<1>5. \A r : Holders(r)' = Holders(r) \ {c}
  BY <1>1, HoldersAfter DEF Holding, StripHeld
<1>6. \A r : Positions(r)' = Positions(r)
  BY <1>1 DEF Positions
<1>7. StageOf(s)' = "placed"
  <2>1. OnePlace(s)' /\ s \in final_strips'
    BY <1>1, <1>2, <1>3 DEF XInv, StripInv, Traced
  <2> QED BY <2>1, StageMeansThen
<1>8. Assembly!Place(s)
  BY <1>1, <1>2, <1>3, <1>4, <1>5, <1>6, <1>7, AdvanceStep DEF Assembly!Place
<1> QED BY <1>3, <1>8 DEF Assembly!Next, Assembly!Strips, Strips

-----------------------------------------------------------------------------
(* Every step is an abstract step or a stuttering one. *)

AbstractStep == Assembly!Next \/ UNCHANGED Assembly!vars

(* A producer draws a ticket, gives it back, or pushes; or it is quiet. *)
LEMMA ProducerImplements ==
  ASSUME XInv, XInv', NEW p \in Producers, producer_work(p), LastTicketRetried
  PROVE  AbstractStep
<1>1. p \in Procs /\ TypeOK
  BY DEF Procs, XInv, IInv
<1>2. CASE PTicket(p)
  BY <1>2, FetchStep DEF AbstractStep
<1>3. CASE PFetchFails(p)
  <2>1. pc[p] = "p_fetch" /\ pc'[p] = "p_wait"
    BY <1>1, <1>3 DEF PFetchFails, Goto, TypeOK
  <2>2. next_strip_to_fetch = strip[p] + 1
    BY <2>1 DEF LastTicketRetried
  <2> QED BY <1>3, <2>2, GiveBackStep DEF AbstractStep
<1>4. CASE PPush(p)
  BY <1>4, BufferStep DEF AbstractStep
<1>5. CASE PFetched(p) \/ PLock(p)
  <2>1. /\ \E from, to \in {"p_fetch", "p_lock", "p_push"} : Goto(p, from, to)
        /\ UNCHANGED <<strip, ring_buffer, final_strips, image>>
    BY <1>5 DEF PFetched, PLock, locals, parent
  <2> QED BY <1>1, <2>1, QuietStep DEF AbstractStep, Holding, StripHeld
<1>6. CASE PWait(p) \/ PBow(p) \/ PUnlock(p) \/ PPost(p)
  <2>1. /\ \E from, to \in {"p_wait", "p_ticket", "p_bow", "p_exited", "p_unlock", "p_post"} :
             Goto(p, from, to)
        /\ \A r \in Procs \ {p} : strip'[r] = strip[r]
        /\ UNCHANGED <<ring_buffer, final_strips, image>>
    BY <1>1, <1>6, EndIterationTyped DEF PWait, PBow, PUnlock, PPost, locals, parent
  <2> QED BY <1>1, <2>1, QuietStep DEF AbstractStep, Holding, StripHeld
<1> QED
  BY <1>2, <1>3, <1>4, <1>5, <1>6 DEF producer_work

(* A consumer pops or copies a strip; or it is quiet.  It does not destroy *)
(* one.                                                                    *)
LEMMA ConsumerImplements ==
  ASSUME XInv, XInv', Lossless', NEW c \in Consumers, consumer_work(c)
  PROVE  AbstractStep
<1>1. c \in Procs /\ TypeOK /\ IInv
  BY DEF Procs, XInv, IInv
<1>2. CASE CPop(c)
  BY <1>2, TakeStep DEF AbstractStep
<1>3. CASE CPlace(c)
  BY <1>3, PlaceStep DEF AbstractStep
<1>4. ~CPlaceGarbled(c) /\ ~CCrash(c)
  BY <1>1 DEF CPlaceGarbled, CCrash, Inject, Lossless, TypeOK, FaultKinds
<1>5. CASE CUnlock(c) \/ CSlot(c)
  <2>1. ret[c] = Ok
    BY <1>1 DEF IInv, PushPopNeverFail
  <2>2. /\ \E from, to \in {"c_unlock", "c_slot", "c_place"} : Goto(c, from, to)
        /\ UNCHANGED <<strip, ring_buffer, final_strips, image>>
    BY <1>5, <2>1 DEF CUnlock, CSlot, locals, parent
  <2> QED BY <1>1, <2>2, QuietStep DEF AbstractStep, Holding, StripHeld
<1>6. CASE \/ CWait(c) \/ CLock(c) \/ CCheck(c) \/ CUnlockEmpty(c) \/ CRepost(c)
           \/ COver(c) \/ CUnlockAgain(c) \/ CCount(c) \/ CFull(c) \/ CWake(c)
  <2>1. /\ \E from, to \in (ConsumerLabels \cup {"c_exited"}) \ Holding : Goto(c, from, to)
        /\ UNCHANGED <<ring_buffer, final_strips, image>>
    BY <1>6 DEF CWait, CLock, CCheck, CUnlockEmpty, CRepost, COver, CUnlockAgain, CCount,
         CFull, CWake, ConsumerLabels, Holding, StripHeld, parent
  <2>2. \A r \in Procs \ {c} : strip'[r] = strip[r]
    BY <1>1, <1>6, EndIterationTyped DEF CWait, CLock, CCheck, CUnlockEmpty, CRepost,
         COver, CUnlockAgain, CCount, CFull, CWake, locals
  <2> QED BY <1>1, <2>1, <2>2, QuietStep DEF AbstractStep
<1> QED
  BY <1>2, <1>3, <1>4, <1>5, <1>6 DEF consumer_work

(* The parent writes the image, of all strips; else it is quiet. *)
LEMMA MainImplements ==
  ASSUME XInv, XInv', Lossless, main_work \/ UNCHANGED vars
  PROVE  AbstractStep
<1>1. TypeOK /\ Procs = Producers \cup Consumers
  BY DEF XInv, IInv, Procs
<1>2. CASE BuildImage
  <2>1. main = "build" /\ image' = final_strips
        /\ UNCHANGED <<pc, strip, ring_buffer, final_strips>>
    BY <1>2 DEF BuildImage, locals
  <2>2. final_strips = Strips /\ image = {}
    BY <2>1, AllPlaced DEF XInv, ParentInv
  <2>3. Assembly!In("placed") = Strips
    BY <2>2 DEF Assembly!In, Assembly!Strips, Strips, StageOf
  <2>4. \A s : Holders(s)' = Holders(s) /\ Positions(s)' = Positions(s)
    BY <2>1 DEF Holders, Positions
  <2>5. \A s \in Strips : StageOf(s)' = StageOf(s)
    BY <2>1, <2>4, StageStays
  <2>6. Assembly!Write
    BY <2>1, <2>2, <2>3, <2>5 DEF Assembly!Write, Assembly!Strips, Strips
  <2> QED BY <2>6 DEF AbstractStep, Assembly!Next
<1>3. ASSUME NEW p \in Producers, ForkProducer(p) PROVE AbstractStep
  BY <1>1, <1>3, QuietStep
  DEF ForkProducer, Fork, Unborn, Goto, locals, AbstractStep, Holding, StripHeld
<1>4. ASSUME NEW c \in Consumers, ForkConsumer(c) PROVE AbstractStep
  BY <1>1, <1>4, QuietStep
  DEF ForkConsumer, Fork, Unborn, Goto, locals, AbstractStep, Holding, StripHeld
<1>5. CASE ForkFails \/ WaitChildren \/ UNCHANGED vars
  <2>1. UNCHANGED <<pc, strip, ring_buffer, final_strips, image>>
    BY <1>5 DEF ForkFails, WaitChildren, vars, locals, parent
  <2>2. \A s : Holders(s)' = Holders(s) /\ Positions(s)' = Positions(s)
    BY <2>1 DEF Holders, Positions
  <2>3. \A s \in Strips : StageOf(s)' = StageOf(s)
    BY <2>1, <2>2, StageStays
  <2> QED BY <2>1, <2>3, StutterStep DEF AbstractStep
<1> QED BY <1>2, <1>3, <1>4, <1>5 DEF main_work

(* The initial state of the processes is that of the assembly. *)
LEMMA InitImplements == Init => Assembly!Init
<1> SUFFICES ASSUME Init PROVE Assembly!Init
  OBVIOUS
<1>1. XInv
  BY InitX
<1>2. \A s \in Strips : StageOf(s) = "todo"
  <2> SUFFICES ASSUME NEW s \in Strips PROVE StageOf(s) = "todo"
    OBVIOUS
  <2>1. Traced(s) /\ ~(s < next_strip_to_fetch)
    BY <1>1, ConstantsAssumption DEF XInv, StripInv, Init, Strips
  <2> QED BY <2>1, StageMeans DEF Traced
<1>3. image = {}
  BY DEF Init
<1> QED BY <1>2, <1>3 DEF Assembly!Init, Assembly!Strips, Strips

(* And so is every step that destroys no strip. *)
LEMMA NextImplements ==
  XInv /\ XInv' /\ Lossless /\ Lossless' /\ [Next /\ LastTicketRetried]_vars
    => [Assembly!Next]_(Assembly!vars)
<1> SUFFICES ASSUME XInv, XInv', Lossless, Lossless', [Next /\ LastTicketRetried]_vars
             PROVE  AbstractStep
  BY DEF AbstractStep
<1>1. ASSUME NEW p \in Producers, producer_work(p), LastTicketRetried PROVE AbstractStep
  BY <1>1, ProducerImplements
<1>2. ASSUME NEW c \in Consumers, consumer_work(c) PROVE AbstractStep
  BY <1>2, ConsumerImplements
<1>3. CASE main_work \/ UNCHANGED vars
  BY <1>3, MainImplements
<1> QED BY <1>1, <1>2, <1>3 DEF Next, Returned

-----------------------------------------------------------------------------
(* The results *)

(* The safety part of ImplementsAssembly for any number of processes,      *)
(* slots and strips: if a failed transfer only takes back the last ticket  *)
(* and no strip is destroyed, each step of a process of paster2.c is a     *)
(* step of the assembly or none; in particular no strip is placed that did *)
(* not go through the buffer, and the image is written with all of them.   *)
THEOREM StepsImplementAssembly == RetrySpec => ([]Lossless => Assembly!Spec)
  BY InitImplements, NextImplements, ExactInvariance, PTL DEF RetrySpec, Assembly!Spec

(* With one producer nothing need be assumed of the transfers. *)
THEOREM LoneProducerImplements ==
  ASSUME NEW only, Producers = {only}
  PROVE  Spec => ([]Lossless => Assembly!Spec)
<1>1. Spec => []XInv
  BY InitX, NextX, LoneProducerRetries, PTL DEF Spec
<1> QED
  BY <1>1, InitImplements, NextImplements, LoneProducerRetries, PTL DEF Spec, Assembly!Spec

=============================================================================
