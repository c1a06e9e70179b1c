------------------------------- MODULE Paster2 -------------------------------
(***************************************************************************)
(* v3/paster2.c: a parent process forks producers, which download the      *)
(* strips of an image into a bounded shared-memory buffer, and consumers,  *)
(* which decode the strips into final_strips; when every child has exited  *)
(* the parent writes final_strips to all.png.                              *)
(*                                                                         *)
(* One action is one access to shared state (a semaphore or mutex call, a  *)
(* __sync builtin, a read of a counter, a push or a pop); code between two *)
(* accesses is local to a process and belongs to the next one.             *)
(***************************************************************************)
EXTENDS Integers, FiniteSets, StripStack

CONSTANTS
  Producers,  \* the p producer processes
  Consumers,  \* the c consumer processes
  BufSize,    \* b, the capacity of the ring buffer
  NumStrips,  \* the number of strips of an image (50 in the code)
  MaxFaults,  \* how many faults of each kind the environment may inject
  NoProc      \* the holder of a free mutex

(* "transfer": curl_easy_init returns NULL or curl_easy_perform fails.     *)
(* "decode": a strip cannot be decoded, which kills the consumer.          *)
(* "inflate": the data of a strip cannot be inflated.                      *)
(* "fork": fork returns -1.                                                *)
FaultKinds == {"transfer", "decode", "inflate", "fork"}

Procs == Producers \cup Consumers

Strips == 0 .. NumStrips - 1

ASSUME ConstantsAssumption ==
  /\ IsFiniteSet(Producers) /\ Producers # {}
  /\ IsFiniteSet(Consumers) /\ Consumers # {}
  /\ Producers \cap Consumers = {}
  /\ NoProc \notin Procs
  /\ BufSize \in Nat \ {0}
  /\ NumStrips \in Nat \ {0}
  /\ MaxFaults \in [FaultKinds -> Nat]

VARIABLES
  \* shared memory
  buf_spaces_avail,       \* semaphore: free slots
  buf_spaces_occ,         \* semaphore: strips ready to be popped
  ring_buffer_mutex,      \* the process the lock was last granted to, or NoProc
  ring_buffer,            \* the stack of strips
  next_strip_to_fetch,    \* ticket counter of the producers
  strips_processed_count, \* strips the consumers have finished
  final_strips,           \* the strips copied into the final pixel buffer
  \* processes
  pc,                     \* where each child is; "unborn" before its fork
  strip,                  \* the strip a child works on in this iteration, or -1
  ret,                    \* what its push or pop returned in this iteration
  wakeups,                \* i, the sem_posts made by a consumer's exit loop
  main,                   \* where the parent is
  image,                  \* the strips in all.png
  \* environment
  failed                  \* faults injected so far

sems     == <<buf_spaces_avail, buf_spaces_occ>>
counters == <<next_strip_to_fetch, strips_processed_count>>
locals   == <<strip, ret, wakeups>>
parent   == <<main, image>>
vars     == <<sems, ring_buffer_mutex, ring_buffer, counters, final_strips,
              pc, locals, parent, failed>>

ProducerLabels ==
  {"p_wait", "p_ticket", "p_bow", "p_fetch", "p_lock", "p_push", "p_unlock", "p_post"}

ConsumerLabels ==
  {"c_wait", "c_lock", "c_check", "c_unlock_empty", "c_repost", "c_over",
   "c_unlock_again", "c_pop", "c_unlock", "c_slot", "c_place", "c_count",
   "c_full", "c_wake"}

Labels == ProducerLabels \cup ConsumerLabels
            \cup {"unborn", "p_exited", "c_exited", "c_crashed"}

MainLabels ==
  {"fork_producers", "fork_consumers", "wait_producers", "wait_consumers",
   "build", "done", "aborted"}

-----------------------------------------------------------------------------
(* Initially the parent has created the shared segments and forked nobody. *)
Init ==
  /\ buf_spaces_avail = BufSize
  /\ buf_spaces_occ = 0
  /\ ring_buffer_mutex = NoProc
  /\ ring_buffer = EmptyRing
  /\ next_strip_to_fetch = 0
  /\ strips_processed_count = 0
  /\ final_strips = {}
  /\ pc = [q \in Procs |-> "unborn"]
  /\ strip = [q \in Procs |-> -1]
  /\ ret = [q \in Procs |-> Ok]
  /\ wakeups = [q \in Procs |-> 0]
  /\ main = "fork_producers"
  /\ image = {}
  /\ failed = [k \in FaultKinds |-> 0]

(* How many processes are at one of the labels L, when f gives the labels. *)
CountAt(f, L) == Cardinality({q \in Procs : f[q] \in L})

(* Labels at which a process has a slot of the buffer, the data of a strip,*)
(* a unit of buf_spaces_occ, or the lock; those of a producer that found   *)
(* no ticket left; and those of a consumer that has met the end of the     *)
(* work.                                                                   *)
SlotHeld  == {"p_ticket", "p_bow", "p_fetch", "p_lock", "p_push", "c_unlock", "c_slot"}
StripHeld == {"p_fetch", "p_lock", "p_push", "c_unlock", "c_slot", "c_place", "c_count"}
TokenHeld == {"p_unlock", "p_post", "c_lock", "c_check", "c_unlock_empty", "c_repost", "c_pop"}
Bowed     == {"p_bow", "p_exited"}
Critical  == {"p_push", "p_unlock", "c_check", "c_pop", "c_unlock_empty", "c_unlock"}
Ending    == {"c_unlock_empty", "c_repost", "c_over", "c_unlock_again", "c_exited", "c_wake"}

Goto(q, from, to) ==
  /\ pc[q] = from
  /\ pc' = [pc EXCEPT ![q] = to]

(* The environment injects one more fault of kind k. *)
Inject(k) ==
  /\ failed[k] < MaxFaults[k]
  /\ failed' = [failed EXCEPT ![k] = @ + 1]

(* The end of a loop body: the variables declared in it go out of scope. *)
EndIteration(q) ==
  /\ strip' = [strip EXCEPT ![q] = -1]
  /\ ret' = [ret EXCEPT ![q] = Ok]
  /\ wakeups' = [wakeups EXCEPT ![q] = 0]

(* The definitions marked "mutant" are wrong on purpose: each is a slip    *)
(* that one of the properties below must notice.                           *)

(* mutant: > for >= *)
NoTicketLeftOffByOne(ticket) == ticket > NumStrips

(* strip_to_get >= 50 *)
NoTicketLeft(ticket) == ticket >= NumStrips

(* mutants: one strip early, and > for >= *)
AllProcessedEarly == strips_processed_count >= NumStrips - 1
AllProcessedNever == strips_processed_count > NumStrips

(* *strips_processed_count >= 50 *)
AllProcessed == strips_processed_count >= NumStrips

(* mutant: does not wait *)
LockAtOnce(q) == ring_buffer_mutex' = q

(* pthread_mutex_lock returns once the mutex is free. *)
Lock(q) ==
  /\ ring_buffer_mutex = NoProc
  /\ ring_buffer_mutex' = q

(* pthread_mutex_unlock on a normal mutex frees it, whoever holds it. *)
Unlock == ring_buffer_mutex' = NoProc

-----------------------------------------------------------------------------
(* producer_work *)

(* sem_wait(buf_spaces_avail): reserve a slot. *)
PWait(p) ==
  /\ Goto(p, "p_wait", "p_ticket")
  /\ buf_spaces_avail > 0
  /\ buf_spaces_avail' = buf_spaces_avail - 1
  /\ UNCHANGED <<buf_spaces_occ, ring_buffer_mutex, ring_buffer, counters,
                 final_strips, locals, parent, failed>>

(* __sync_fetch_and_add(next_strip_to_fetch, 1): draw a ticket. *)
PTicket(p) ==
  /\ next_strip_to_fetch' = next_strip_to_fetch + 1
  /\ IF NoTicketLeft(next_strip_to_fetch)
     THEN /\ Goto(p, "p_ticket", "p_bow")
          /\ UNCHANGED strip
     ELSE /\ Goto(p, "p_ticket", "p_fetch")
          /\ strip' = [strip EXCEPT ![p] = next_strip_to_fetch]
  /\ UNCHANGED <<sems, ring_buffer_mutex, ring_buffer, strips_processed_count,
                 final_strips, ret, wakeups, parent, failed>>

(* mutant: exits without the sem_post *)
PBowKeepsSlot(p) ==
  /\ Goto(p, "p_bow", "p_exited")
  /\ UNCHANGED <<sems, ring_buffer_mutex, ring_buffer, counters, final_strips,
                 locals, parent, failed>>

(* No ticket left: hand the slot to the other producers and exit. *)
PBow(p) ==
  /\ Goto(p, "p_bow", "p_exited")
  /\ buf_spaces_avail' = buf_spaces_avail + 1
  /\ UNCHANGED <<buf_spaces_occ, ring_buffer_mutex, ring_buffer, counters,
                 final_strips, locals, parent, failed>>

(* The transfer succeeds: the server has sent the strip that was asked for. *)
PFetched(p) ==
  /\ Goto(p, "p_fetch", "p_lock")
  /\ UNCHANGED <<sems, ring_buffer_mutex, ring_buffer, counters, final_strips,
                 locals, parent, failed>>

(* mutant: retries with the next ticket *)
PFetchFailsNoRollback(p) ==
  /\ Inject("transfer")
  /\ Goto(p, "p_fetch", "p_wait")
  /\ EndIteration(p)
  /\ UNCHANGED <<sems, ring_buffer_mutex, ring_buffer, counters, final_strips, parent>>

(* curl_easy_init or curl_easy_perform fails: the ticket counter is taken  *)
(* back by one and the loop restarts.  The slot is not posted back.        *)
PFetchFails(p) ==
  /\ Inject("transfer")
  /\ Goto(p, "p_fetch", "p_wait")
  /\ next_strip_to_fetch' = next_strip_to_fetch - 1
  /\ EndIteration(p)
  /\ UNCHANGED <<sems, ring_buffer_mutex, ring_buffer, strips_processed_count,
                 final_strips, parent>>

PLock(p) ==
  /\ Goto(p, "p_lock", "p_push")
  /\ Lock(p)
  /\ UNCHANGED <<sems, ring_buffer, counters, final_strips, locals, parent, failed>>

PPush(p) ==
  /\ Goto(p, "p_push", "p_unlock")
  /\ ret' = [ret EXCEPT ![p] = PushRet(ring_buffer, BufSize)]
  /\ ring_buffer' = Push(ring_buffer, BufSize, strip[p])
  /\ UNCHANGED <<sems, ring_buffer_mutex, counters, final_strips, strip,
                 wakeups, parent, failed>>

PUnlock(p) ==
  /\ Goto(p, "p_unlock", "p_post")
  /\ Unlock
  /\ UNCHANGED <<sems, ring_buffer, counters, final_strips, locals, parent, failed>>

(* Announce the strip, or give ticket and slot back if the push failed. *)
PPost(p) ==
  /\ Goto(p, "p_post", "p_wait")
  /\ IF ret[p] # Ok
     THEN /\ next_strip_to_fetch' = next_strip_to_fetch - 1
          /\ buf_spaces_avail' = buf_spaces_avail + 1
          /\ UNCHANGED buf_spaces_occ
     ELSE /\ buf_spaces_occ' = buf_spaces_occ + 1
          /\ UNCHANGED <<next_strip_to_fetch, buf_spaces_avail>>
  /\ EndIteration(p)
  /\ UNCHANGED <<ring_buffer_mutex, ring_buffer, strips_processed_count,
                 final_strips, parent, failed>>

producer_work(p) ==
  \/ PWait(p) \/ PTicket(p) \/ PBow(p) \/ PFetched(p) \/ PFetchFails(p)
  \/ PLock(p) \/ PPush(p) \/ PUnlock(p) \/ PPost(p)

-----------------------------------------------------------------------------
(* consumer_work *)

(* sem_wait(buf_spaces_occ): reserve a strip, or a wake-up to exit. *)
CWait(c) ==
  /\ Goto(c, "c_wait", "c_lock")
  /\ buf_spaces_occ > 0
  /\ buf_spaces_occ' = buf_spaces_occ - 1
  /\ UNCHANGED <<buf_spaces_avail, ring_buffer_mutex, ring_buffer, counters,
                 final_strips, locals, parent, failed>>

CLock(c) ==
  /\ Goto(c, "c_lock", "c_check")
  /\ Lock(c)
  /\ UNCHANGED <<sems, ring_buffer, counters, final_strips, locals, parent, failed>>

(* is_empty, before the pop. *)
CCheck(c) ==
  /\ Goto(c, "c_check", IF IsEmpty(ring_buffer) THEN "c_unlock_empty" ELSE "c_pop")
  /\ UNCHANGED <<sems, ring_buffer_mutex, ring_buffer, counters, final_strips,
                 locals, parent, failed>>

CUnlockEmpty(c) ==
  /\ Goto(c, "c_unlock_empty", "c_repost")
  /\ Unlock
  /\ UNCHANGED <<sems, ring_buffer, counters, final_strips, locals, parent, failed>>

(* Pass the wake-up on to the next consumer. *)
CRepost(c) ==
  /\ Goto(c, "c_repost", "c_over")
  /\ buf_spaces_occ' = buf_spaces_occ + 1
  /\ UNCHANGED <<buf_spaces_avail, ring_buffer_mutex, ring_buffer, counters,
                 final_strips, locals, parent, failed>>

(* Empty buffer: leave the loop if every strip is processed, else retry. *)
COver(c) ==
  /\ Goto(c, "c_over", IF AllProcessed THEN "c_unlock_again" ELSE "c_wait")
  /\ UNCHANGED <<sems, ring_buffer_mutex, ring_buffer, counters, final_strips,
                 locals, parent, failed>>

(* The code unlocks a second time on its way out, without holding the lock. *)
CUnlockAgain(c) ==
  /\ Goto(c, "c_unlock_again", "c_exited")
  /\ Unlock
  /\ UNCHANGED <<sems, ring_buffer, counters, final_strips, locals, parent, failed>>

CPop(c) ==
  /\ Goto(c, "c_pop", "c_unlock")
  /\ ret' = [ret EXCEPT ![c] = PopRet(ring_buffer)]
  /\ strip' = [strip EXCEPT ![c] = IF IsEmpty(ring_buffer) THEN -1 ELSE Top(ring_buffer)]
  /\ ring_buffer' = Pop(ring_buffer)
  /\ UNCHANGED <<sems, ring_buffer_mutex, counters, final_strips, wakeups,
                 parent, failed>>

CUnlock(c) ==
  /\ Goto(c, "c_unlock", "c_slot")
  /\ Unlock
  /\ UNCHANGED <<sems, ring_buffer, counters, final_strips, locals, parent, failed>>

(* Free the slot, or give the token back if the pop failed.  The sleep of  *)
(* x milliseconds that follows is any delay before the next step.          *)
CSlot(c) ==
  /\ IF ret[c] # Ok
     THEN /\ Goto(c, "c_slot", "c_wait")
          /\ buf_spaces_occ' = buf_spaces_occ + 1
          /\ EndIteration(c)
          /\ UNCHANGED buf_spaces_avail
     ELSE /\ Goto(c, "c_slot", "c_place")
          /\ buf_spaces_avail' = buf_spaces_avail + 1
          /\ UNCHANGED <<buf_spaces_occ, locals>>
  /\ UNCHANGED <<ring_buffer_mutex, ring_buffer, counters, final_strips,
                 parent, failed>>

(* Inflate the strip and copy it to its place in the final pixel buffer. *)
CPlace(c) ==
  /\ Goto(c, "c_place", "c_count")
  /\ final_strips' = final_strips \cup {strip[c]}
  /\ UNCHANGED <<sems, ring_buffer_mutex, ring_buffer, counters, locals,
                 parent, failed>>

(* mem_inf fails and nobody notices: its result is ignored, what is copied *)
(* is not the strip (inflated_size may never have been assigned; one that  *)
(* is out of bounds kills the consumer, as below), and it is counted.      *)
CPlaceGarbled(c) ==
  /\ Inject("inflate")
  /\ Goto(c, "c_place", "c_count")
  /\ UNCHANGED <<sems, ring_buffer_mutex, ring_buffer, counters, final_strips,
                 locals, parent>>

(* get_chunk cannot allocate, or the body is no PNG: free_png dereferences *)
(* the missing chunk, or memcpy runs off the strip, and the process dies.  *)
(* The strip is lost and not counted.                                      *)
CCrash(c) ==
  /\ Inject("decode")
  /\ Goto(c, "c_place", "c_crashed")
  /\ EndIteration(c)
  /\ UNCHANGED <<sems, ring_buffer_mutex, ring_buffer, counters, final_strips, parent>>

(* __sync_fetch_and_add(strips_processed_count, 1) *)
CCount(c) ==
  /\ Goto(c, "c_count", "c_full")
  /\ strips_processed_count' = strips_processed_count + 1
  /\ UNCHANGED <<sems, ring_buffer_mutex, ring_buffer, next_strip_to_fetch,
                 final_strips, locals, parent, failed>>

(* The counter is read again: was that the last strip? *)
CFull(c) ==
  /\ IF AllProcessed
     THEN /\ Goto(c, "c_full", "c_wake")
          /\ UNCHANGED locals
     ELSE /\ Goto(c, "c_full", "c_wait")
          /\ EndIteration(c)
  /\ UNCHANGED <<sems, ring_buffer_mutex, ring_buffer, counters, final_strips,
                 parent, failed>>

(* One sem_post(buf_spaces_occ) of the loop that wakes all c consumers. *)
CWake(c) ==
  /\ buf_spaces_occ' = buf_spaces_occ + 1
  /\ IF wakeups[c] + 1 = Cardinality(Consumers)
     THEN /\ Goto(c, "c_wake", "c_wait")
          /\ EndIteration(c)
     ELSE /\ Goto(c, "c_wake", "c_wake")
          /\ wakeups' = [wakeups EXCEPT ![c] = @ + 1]
          /\ UNCHANGED <<strip, ret>>
  /\ UNCHANGED <<buf_spaces_avail, ring_buffer_mutex, ring_buffer, counters,
                 final_strips, parent, failed>>

consumer_work(c) ==
  \/ CWait(c) \/ CLock(c) \/ CCheck(c) \/ CUnlockEmpty(c) \/ CRepost(c)
  \/ COver(c) \/ CUnlockAgain(c) \/ CPop(c) \/ CUnlock(c) \/ CSlot(c)
  \/ CPlace(c) \/ CPlaceGarbled(c) \/ CCrash(c) \/ CCount(c) \/ CFull(c) \/ CWake(c)

-----------------------------------------------------------------------------
(* main *)

Unborn(S) == {q \in S : pc[q] = "unborn"}

(* One fork of a loop that forks the children in S and then goes to next. *)
Fork(q, S, first, next) ==
  /\ q \in Unborn(S)
  /\ pc' = [pc EXCEPT ![q] = first]
  /\ main' = IF Unborn(S) = {q} THEN next ELSE main
  /\ UNCHANGED <<sems, ring_buffer_mutex, ring_buffer, counters, final_strips,
                 locals, image, failed>>

ForkProducer(p) ==
  /\ main = "fork_producers"
  /\ Fork(p, Producers, "p_wait", "fork_consumers")

ForkConsumer(c) ==
  /\ main = "fork_consumers"
  /\ Fork(c, Consumers, "c_wait", "wait_producers")

(* fork returns -1: the parent aborts, the children it has live on. *)
ForkFails ==
  /\ main \in {"fork_producers", "fork_consumers"}
  /\ Inject("fork")
  /\ main' = "aborted"
  /\ UNCHANGED <<sems, ring_buffer_mutex, ring_buffer, counters, final_strips,
                 pc, locals, image>>

AllExited(S) == \A q \in S : pc[q] \in {"p_exited", "c_exited", "c_crashed"}

(* The waitpid loops: first over the producers, then over the consumers.   *)
(* The status of a child is not looked at.                                 *)
WaitChildren ==
  /\ \/ main = "wait_producers" /\ AllExited(Producers) /\ main' = "wait_consumers"
     \/ main = "wait_consumers" /\ AllExited(Consumers) /\ main' = "build"
  /\ UNCHANGED <<sems, ring_buffer_mutex, ring_buffer, counters, final_strips,
                 pc, locals, image, failed>>

(* Deflate final_strips into one IDAT chunk, write all.png, remove the     *)
(* shared memory and return.                                               *)
BuildImage ==
  /\ main = "build"
  /\ main' = "done"
  /\ image' = final_strips
  /\ UNCHANGED <<sems, ring_buffer_mutex, ring_buffer, counters, final_strips,
                 pc, locals, failed>>

main_work ==
  \/ \E p \in Producers : ForkProducer(p)
  \/ \E c \in Consumers : ForkConsumer(c)
  \/ ForkFails
  \/ WaitChildren
  \/ BuildImage

(* The parent has returned; nothing more happens. *)
Returned ==
  /\ main = "done"
  /\ UNCHANGED vars

-----------------------------------------------------------------------------
Next ==
  \/ \E p \in Producers : producer_work(p)
  \/ \E c \in Consumers : consumer_work(c)
  \/ main_work
  \/ Returned

Spec == Init /\ [][Next]_vars

(* Every process that can take a step is scheduled eventually. *)
Fairness ==
  /\ \A p \in Producers : WF_vars(producer_work(p))
  /\ \A c \in Consumers : WF_vars(consumer_work(c))
  /\ WF_vars(main_work)

FairSpec == Spec /\ Fairness

(* A transfer only fails while the ticket it was made for is the last one  *)
(* drawn: the counter, taken back by one, is at that ticket again.  With a *)
(* single producer that is always so.                                      *)
LastTicketRetried ==
  \A p \in Producers :
    pc[p] = "p_fetch" /\ pc'[p] = "p_wait" => next_strip_to_fetch = strip[p] + 1

RetrySpec == Init /\ [][Next /\ LastTicketRetried]_vars /\ Fairness

-----------------------------------------------------------------------------
(* Properties *)

(* Every variable has its type. *)
TypeOK ==
  /\ buf_spaces_avail \in Nat
  /\ buf_spaces_occ \in Nat
  /\ ring_buffer_mutex \in Procs \cup {NoProc}
  /\ ring_buffer \in Seq(Strips)
  /\ next_strip_to_fetch \in Int
  /\ strips_processed_count \in Nat
  /\ final_strips \subseteq Strips
  /\ pc \in [Procs -> Labels]
  /\ strip \in [Procs -> Strips \cup {-1}]
  /\ \A q \in Procs : pc[q] \in StripHeld => strip[q] \in Strips
  /\ ret \in [Procs -> {Ok, Failed}]
  /\ wakeups \in [Procs -> Nat]
  /\ main \in MainLabels
  /\ image \subseteq Strips
  /\ failed \in [FaultKinds -> Nat]

(* Every slot of the buffer is free, reserved by a producer that has not   *)
(* pushed yet, occupied, being freed by a consumer, or leaked by one of    *)
(* the failed transfers, whose `continue' skips the sem_post.              *)
SlotsAccounted ==
  buf_spaces_avail + CountAt(pc, SlotHeld) + Len(ring_buffer)
    + failed["transfer"] = BufSize

(* Strips being worked on, stacked, processed, or lost with a consumer. *)
Work ==
  CountAt(pc, StripHeld) + Len(ring_buffer) + strips_processed_count
    + failed["decode"]

(* The ticket counter counts the strips under way and done and the         *)
(* producers that drew a ticket too many: however often it is taken back,  *)
(* at most NumStrips strips are ever under way or done, so the threshold   *)
(* of the consumers is reached only when nothing is left.                  *)
TicketsAccounted ==
  /\ next_strip_to_fetch = Work + CountAt(pc, Bowed)
  /\ Work <= NumStrips

(* Until all strips are processed the semaphore buf_spaces_occ, with the   *)
(* tokens on their way to and from it, counts the stack exactly: a         *)
(* consumer that got through sem_wait finds a strip, and only the wake-ups *)
(* of the end meet an empty buffer.  No strip is announced or popped after *)
(* that.                                                                   *)
TokensAccounted ==
  /\ ~AllProcessed => buf_spaces_occ + CountAt(pc, TokenHeld) = Len(ring_buffer)
  /\ \A q \in Procs : pc[q] \in Ending => AllProcessed
  /\ \A q \in Procs : pc[q] \in {"p_unlock", "p_post", "c_pop"} => ~AllProcessed

(* The error branches after push (276-280) and pop (315-318) are never     *)
(* taken.                                                                  *)
PushPopNeverFail == \A q \in Procs : ret[q] = Ok

(* A process that changes the stack, or has changed it and not released    *)
(* the lock, holds the lock and is alone in the critical section, although *)
(* consumers on their way out unlock a mutex they do not hold (306).  It   *)
(* is what makes PPush and CPop atomic.                                    *)
RingExclusive ==
  \A q \in Procs :
    pc[q] \in {"p_push", "p_unlock", "c_pop", "c_unlock"} =>
      /\ ring_buffer_mutex = q
      /\ \A r \in Procs \ {q} : pc[r] \notin Critical

(* A consumer gives up only when nothing is left to do for anyone: no      *)
(* strip in the stack, none with a producer or with another consumer.      *)
QuitMeansDone ==
  (\E c \in Consumers : pc[c] = "c_exited") =>
    /\ AllProcessed
    /\ IsEmpty(ring_buffer)
    /\ \A q \in Procs : pc[q] \notin StripHeld

(* The last strip counted is the last of everything: no strip is pushed,   *)
(* popped, copied or counted after the step that fills the counter, so     *)
(* what the consumers stop for and the parent deflates is final.           *)
DoneIsFinal ==
  [][strips_processed_count >= NumStrips =>
       UNCHANGED <<ring_buffer, final_strips, strips_processed_count>>]_vars

Alive == {q \in Procs : pc[q] \notin {"unborn", "p_exited", "c_exited", "c_crashed"}}

(* A child that waits for a semaphore or for the mutex. *)
Blocked(q) ==
  \/ pc[q] = "p_wait" /\ buf_spaces_avail = 0
  \/ pc[q] = "c_wait" /\ buf_spaces_occ = 0
  \/ pc[q] \in {"p_lock", "c_lock"} /\ ring_buffer_mutex # NoProc

(* The children never all wait for each other, as long as a slot is left   *)
(* that no failed transfer has leaked and no consumer has died: slots,     *)
(* tokens, lock and wake-ups come round until every child has exited.      *)
NoStandstill ==
  /\ Unborn(Procs) = {} /\ Alive # {}
  /\ failed["transfer"] < BufSize
  /\ failed["decode"] = 0
  => \E q \in Alive : ~Blocked(q)

(* How many steps a child may take before it has counted a strip, drawn    *)
(* another ticket or left.                                                 *)
StepsFrom ==
  [unborn |-> 9,
   p_wait |-> 2, p_ticket |-> 1, p_bow |-> 1, p_exited |-> 0,
   p_fetch |-> 7, p_lock |-> 6, p_push |-> 5, p_unlock |-> 4, p_post |-> 3,
   c_wait |-> 8, c_lock |-> 7, c_check |-> 6, c_pop |-> 5, c_unlock |-> 4,
   c_slot |-> 3, c_place |-> 2, c_count |-> 1, c_crashed |-> 0,
   c_full |-> 9 + Cardinality(Consumers), c_wake |-> 8 + Cardinality(Consumers),
   c_unlock_empty |-> 4, c_repost |-> 3, c_over |-> 2, c_unlock_again |-> 1, c_exited |-> 0]

StepsLeft ==
  [q \in Procs |-> StepsFrom[pc[q]] - IF pc[q] = "c_wake" THEN wakeups[q] ELSE 0]

MainSteps ==
  [fork_producers |-> 5, fork_consumers |-> 4, wait_producers |-> 3,
   wait_consumers |-> 2, build |-> 1, done |-> 0, aborted |-> 0]

(* The sum of f over all children, as the size of a set of pairs. *)
SumOver(f) == Cardinality(UNION {{q} \X (1 .. f[q]) : q \in Procs})

(* No behaviour has more steps than this from here on: those of the        *)
(* children, and 7 more for each ticket left, 3 for each transfer that may *)
(* still fail, and a round of a consumer, with its wake-ups, for each      *)
(* strip not counted.                                                      *)
StepsAtMost ==
  SumOver(StepsLeft)
    + 7 * (NumStrips + Cardinality(Producers) - next_strip_to_fetch)
    + 3 * (BufSize - failed["transfer"])
    + (9 + Cardinality(Consumers)) * (NumStrips - strips_processed_count)
    + MainSteps[main]

(* Whatever fails, no process goes round for ever: retries draw on slots   *)
(* that are never returned, a consumer that is woken finds a strip or the  *)
(* end of the work, and a wake-up is passed on once by each.               *)
RunsDown == [][0 <= StepsAtMost' /\ StepsAtMost' < StepsAtMost]_vars

Holders(s) == {q \in Procs : strip[q] = s /\ pc[q] \in StripHeld \ {"c_count"}}
Positions(s) == {i \in DOMAIN ring_buffer : ring_buffer[i] = s}

Copies(s) ==
  Cardinality(Holders(s)) + Cardinality(Positions(s))
    + (IF s \in final_strips THEN 1 ELSE 0)

(* A strip whose ticket is drawn is in exactly one place: with one process,*)
(* at one position of the stack, or in the final image; any other strip is *)
(* nowhere.  No strip is lost, fetched twice or copied twice.              *)
ExactlyOnce ==
  \A s \in Strips : Copies(s) = IF s < next_strip_to_fetch THEN 1 ELSE 0

(* The counter by which the consumers decide to stop counts the distinct   *)
(* strips of the final image, but for those placed and not yet counted.    *)
CountHonest ==
  strips_processed_count + CountAt(pc, {"c_count"}) = Cardinality(final_strips)

(* all.png has every strip: the "complete image" of v3/README.md. *)
WrittenImageComplete == main = "done" => image = Strips

(* The program ends: all.png is written and the parent returns. *)
Finishes == <>(main = "done")

=============================================================================
