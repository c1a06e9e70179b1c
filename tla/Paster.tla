------------------------------- MODULE Paster -------------------------------
(***************************************************************************)
(* v2/paster.c: threads ask a server for fragments of an image, which it   *)
(* sends at random, and keep those they have not seen in the array         *)
(* fragments, under a mutex, until the array is full.  Then main joins the *)
(* threads, concatenates the fragments to all.png and cleans up.           *)
(*                                                                         *)
(* One action is one access to shared state; the scan of is_full, which    *)
(* runs under the mutex that every writer takes, is a single one.          *)
(***************************************************************************)
EXTENDS Integers, FiniteSets

CONSTANTS
  Threads,   \* the t threads
  NumParts,  \* the number of fragments of an image (50 in the code)
  MaxFaults, \* how many faults of each kind the environment may inject
  NoThread   \* the holder of a free mutex

(* "init": curl_easy_init returns NULL.                                    *)
(* "cut": the transfer fails after the fragment header; part of the body   *)
(* has come.                                                               *)
(* "no_header": the transfer fails before the fragment header, or the      *)
(* response has none.                                                      *)
FaultKinds == {"init", "cut", "no_header"}

Parts == 0 .. NumParts - 1

ASSUME ConstantsAssumption ==
  /\ IsFiniteSet(Threads) /\ Threads # {}
  /\ NoThread \notin Threads
  /\ NumParts \in Nat \ {0}
  /\ MaxFaults \in [FaultKinds -> Nat]

VARIABLES
  \* shared between the threads
  fragments,            \* what each slot of the array points to
  fragments_protection, \* the thread that holds the mutex, or NoThread
  word_below,           \* the word at fragments[-1], which is not of the array
  \* threads
  pc,                   \* where each thread is
  recv_buf,             \* what a thread has received in this iteration
  full,                 \* the result of its last is_full
  p_out,                \* the RECV_BUF it will return
  \* main
  main,                 \* where main is
  image,                \* the fragments in all.png
  \* environment
  failed                \* faults injected so far

array == <<fragments, word_below>>
parent == <<main, image>>
vars == <<array, fragments_protection, pc, recv_buf, full, p_out, parent, failed>>

ThreadLabels ==
  {"head_lock", "head_scan", "head_unlock", "request", "save_lock", "save_test",
   "save_copy", "save_unlock", "tail_lock", "tail_scan", "tail_unlock"}

Labels == ThreadLabels \cup {"uncreated", "returned", "returned_null"}

MainLabels == {"create", "join", "check", "catpng", "cleanup", "done", "crashed"}

(* A slot is NULL, points to a RECV_BUF not filled yet, or to a copy of a  *)
(* whole body or of a part of one.                                         *)
Slots == {"null", "allocated", "whole", "cut"}

(* recv_buf_init *)
NothingReceived == [seq |-> -1, body |-> "none"]

Bodies == [seq : Parts \cup {-1}, body : {"none", "whole", "cut"}]

(* The recv_buf of a freshly malloc'ed struct thread_ret. *)
Unset == [seq |-> -1, body |-> "unset"]

-----------------------------------------------------------------------------
(* What lies below the array on the stack of main is up to the build. *)
Init ==
  /\ fragments = [s \in Parts |-> "null"]
  /\ fragments_protection = NoThread
  /\ word_below \in {"null", "other"}
  /\ pc = [t \in Threads |-> "uncreated"]
  /\ recv_buf = [t \in Threads |-> NothingReceived]
  /\ full = [t \in Threads |-> FALSE]
  /\ p_out = [t \in Threads |-> Unset]
  /\ main = "create"
  /\ image = {}
  /\ failed = [k \in FaultKinds |-> 0]

Goto(t, from, to) ==
  /\ pc[t] = from
  /\ pc' = [pc EXCEPT ![t] = to]

Inject(k) ==
  /\ failed[k] < MaxFaults[k]
  /\ failed' = [failed EXCEPT ![k] = @ + 1]

(* The definitions marked "mutant" are wrong on purpose: each is a slip    *)
(* that one of the properties below must notice.                           *)

(* mutant: does not wait *)
LockAtOnce(t) == fragments_protection' = t

(* pthread_mutex_lock *)
Lock(t) ==
  /\ fragments_protection = NoThread
  /\ fragments_protection' = t

Unlock == fragments_protection' = NoThread

(* mutants: i < 49, and i <= 50 with something but NULL never behind the array *)
FullButLast == \A s \in Parts \ {NumParts - 1} : fragments[s] # "null"
FullNever == FALSE

(* The loop of is_full. *)
Full == \A s \in Parts : fragments[s] # "null"

-----------------------------------------------------------------------------
(* do_work *)

(* while (is_full(p_in->fragments) == -1) *)
HeadLock(t) ==
  /\ Goto(t, "head_lock", "head_scan")
  /\ Lock(t)
  /\ UNCHANGED <<array, recv_buf, full, p_out, parent, failed>>

HeadScan(t) ==
  /\ Goto(t, "head_scan", "head_unlock")
  /\ full' = [full EXCEPT ![t] = Full]
  /\ UNCHANGED <<array, fragments_protection, recv_buf, p_out, parent, failed>>

(* The loop ends: p_out is returned, whether it was filled or not. *)
HeadUnlock(t) ==
  /\ Goto(t, "head_unlock", IF full[t] THEN "returned" ELSE "request")
  /\ Unlock
  /\ UNCHANGED <<array, recv_buf, full, p_out, parent, failed>>

(* curl_easy_init fails: the thread gives up. *)
InitFails(t) ==
  /\ Inject("init")
  /\ Goto(t, "request", "returned_null")
  /\ UNCHANGED <<array, fragments_protection, recv_buf, full, p_out, parent>>

(* What the two callbacks leave in recv_buf.  The result of                *)
(* curl_easy_perform is only printed: a failed transfer goes on like a     *)
(* successful one.                                                         *)
Receive(t, s, b) ==
  /\ Goto(t, "request", "save_lock")
  /\ recv_buf' = [recv_buf EXCEPT ![t] = [seq |-> s, body |-> b]]
  /\ UNCHANGED <<array, fragments_protection, full, p_out, parent>>

(* mutant: fragments numbered from 1 *)
ReceiveWholeFromOne(t, s) ==
  /\ Receive(t, s + 1, "whole")
  /\ UNCHANGED failed

(* The server has sent fragment s. *)
ReceiveWhole(t, s) ==
  /\ Receive(t, s, "whole")
  /\ UNCHANGED failed

ReceiveCut(t, s) ==
  /\ Inject("cut")
  /\ Receive(t, s, "cut")

ReceiveNoHeader(t) ==
  /\ Inject("no_header")
  /\ \E b \in {"none", "whole", "cut"} : Receive(t, -1, b)

SaveLock(t) ==
  /\ Goto(t, "save_lock", "save_test")
  /\ Lock(t)
  /\ UNCHANGED <<array, recv_buf, full, p_out, parent, failed>>

(* mutant: no test for NULL *)
SaveAlways(t) ==
  /\ Goto(t, "save_test", "save_copy")
  /\ recv_buf[t].seq \in Parts
  /\ fragments' = [fragments EXCEPT ![recv_buf[t].seq] = "allocated"]
  /\ UNCHANGED <<word_below, fragments_protection, recv_buf, full, p_out, parent, failed>>

(* A slot that is NULL gets a new RECV_BUF.  The sequence number is not    *)
(* checked: -1 selects the word below the array.                           *)
SaveTest(t) ==
  LET s == recv_buf[t].seq
  IN  /\ \/ /\ s \in Parts /\ fragments[s] = "null"
            /\ Goto(t, "save_test", "save_copy")
            /\ fragments' = [fragments EXCEPT ![s] = "allocated"]
            /\ UNCHANGED word_below
         \/ /\ s = -1 /\ word_below = "null"
            /\ Goto(t, "save_test", "save_copy")
            /\ word_below' = "written"
            /\ UNCHANGED fragments
         \/ /\ IF s = -1 THEN word_below # "null" ELSE fragments[s] # "null"
            /\ Goto(t, "save_test", "save_unlock")
            /\ UNCHANGED array
      /\ UNCHANGED <<fragments_protection, recv_buf, full, p_out, parent, failed>>

(* The data received is copied to the new RECV_BUF. *)
SaveCopy(t) ==
  /\ Goto(t, "save_copy", "save_unlock")
  /\ fragments' =
       [s \in Parts |-> IF s = recv_buf[t].seq THEN recv_buf[t].body ELSE fragments[s]]
  /\ UNCHANGED <<word_below, fragments_protection, recv_buf, full, p_out, parent, failed>>

SaveUnlock(t) ==
  /\ Goto(t, "save_unlock", "tail_lock")
  /\ Unlock
  /\ UNCHANGED <<array, recv_buf, full, p_out, parent, failed>>

(* if (is_full(p_in->fragments) == 0) *)
TailLock(t) ==
  /\ Goto(t, "tail_lock", "tail_scan")
  /\ Lock(t)
  /\ UNCHANGED <<array, recv_buf, full, p_out, parent, failed>>

TailScan(t) ==
  /\ Goto(t, "tail_scan", "tail_unlock")
  /\ full' = [full EXCEPT ![t] = Full]
  /\ UNCHANGED <<array, fragments_protection, recv_buf, p_out, parent, failed>>

(* The return value is filled if the array is full; recv_buf is freed. *)
TailUnlock(t) ==
  /\ Goto(t, "tail_unlock", "head_lock")
  /\ Unlock
  /\ p_out' = IF full[t] THEN [p_out EXCEPT ![t] = recv_buf[t]] ELSE p_out
  /\ recv_buf' = [recv_buf EXCEPT ![t] = NothingReceived]
  /\ UNCHANGED <<array, full, parent, failed>>

do_work(t) ==
  \/ HeadLock(t) \/ HeadScan(t) \/ HeadUnlock(t) \/ InitFails(t)
  \/ \E s \in Parts : ReceiveWhole(t, s) \/ ReceiveCut(t, s)
  \/ ReceiveNoHeader(t)
  \/ SaveLock(t) \/ SaveTest(t) \/ SaveCopy(t) \/ SaveUnlock(t)
  \/ TailLock(t) \/ TailScan(t) \/ TailUnlock(t)

-----------------------------------------------------------------------------
(* main *)

Uncreated == {t \in Threads : pc[t] = "uncreated"}

CreateThread(t) ==
  /\ main = "create"
  /\ Goto(t, "uncreated", "head_lock")
  /\ main' = IF Uncreated = {t} THEN "join" ELSE main
  /\ UNCHANGED <<array, fragments_protection, recv_buf, full, p_out, image, failed>>

JoinThreads ==
  /\ main = "join"
  /\ \A t \in Threads : pc[t] \in {"returned", "returned_null"}
  /\ main' = "check"
  /\ UNCHANGED <<array, fragments_protection, pc, recv_buf, full, p_out, image, failed>>

(* received_all = is_full(fragments); no other thread is left. *)
CheckAll ==
  /\ main = "check"
  /\ fragments_protection = NoThread
  /\ main' = IF Full THEN "catpng" ELSE "cleanup"
  /\ UNCHANGED <<array, fragments_protection, pc, recv_buf, full, p_out, image, failed>>

(* catpng writes all.png.  A fragment cut behind its IDAT chunk is         *)
(* inflated like a whole one.  One cut before that is read from beyond its *)
(* buffer: the program dies, or catpng cannot inflate it and writes        *)
(* nothing.                                                                *)
Catpng ==
  /\ main = "catpng"
  /\ \/ image' = Parts /\ main' = "cleanup"
     \/ /\ \E s \in Parts : fragments[s] = "cut"
        /\ image' = image
        /\ main' \in {"cleanup", "crashed"}
  /\ UNCHANGED <<array, fragments_protection, pc, recv_buf, full, p_out, failed>>

(* The RECV_BUF of every thread_ret is freed.  A pointer nobody set may be *)
(* NULL, which is harmless, or not.                                        *)
Cleanup ==
  /\ main = "cleanup"
  /\ \/ main' = "done"
     \/ /\ \E t \in Threads : pc[t] = "returned" /\ p_out[t] = Unset
        /\ main' = "crashed"
  /\ UNCHANGED <<array, fragments_protection, pc, recv_buf, full, p_out, image, failed>>

main_work ==
  \/ \E t \in Threads : CreateThread(t)
  \/ JoinThreads
  \/ CheckAll
  \/ Catpng
  \/ Cleanup

(* main has returned or died, and the threads with it. *)
Over ==
  /\ main \in {"done", "crashed"}
  /\ UNCHANGED vars

-----------------------------------------------------------------------------
Next ==
  \/ \E t \in Threads : do_work(t)
  \/ main_work
  \/ Over

Spec == Init /\ [][Next]_vars

(* Every thread that can take a step is scheduled eventually; a server     *)
(* that is asked again and again sends every fragment again and again.     *)
(* The mutex need not be fair.                                             *)
Fairness ==
  /\ \A t \in Threads : WF_vars(do_work(t))
  /\ \A s \in Parts : SF_vars(\E t \in Threads : ReceiveWhole(t, s))
  /\ WF_vars(main_work)

FairSpec == Spec /\ Fairness

-----------------------------------------------------------------------------
(* Properties *)

(* Every variable has its type. *)
TypeOK ==
  /\ fragments \in [Parts -> Slots]
  /\ fragments_protection \in Threads \cup {NoThread}
  /\ word_below \in {"null", "other", "written"}
  /\ pc \in [Threads -> Labels]
  /\ recv_buf \in [Threads -> Bodies]
  /\ full \in [Threads -> BOOLEAN]
  /\ p_out \in [Threads -> Bodies \cup {Unset}]
  /\ main \in MainLabels
  /\ image \in {{}, Parts}
  /\ failed \in [FaultKinds -> Nat]

(* A slot that points to a RECV_BUF without data is the business of one    *)
(* thread only, which holds the mutex: nobody takes the fragment for       *)
(* received before its data is there.                                      *)
HalfSavedIsLocked ==
  \A s \in Parts :
    fragments[s] = "allocated" =>
      \E t \in Threads :
        /\ fragments_protection = t
        /\ pc[t] = "save_copy"
        /\ recv_buf[t].seq = s

(* What is saved is kept: a duplicate from the server never replaces a     *)
(* fragment, and the RECV_BUF a thread returns, which the loop allocates   *)
(* (238-243), is allocated in its last iteration only.  Nothing is leaked  *)
(* by writing over the pointer to it.                                      *)
SavedOnce ==
  [][/\ \A s \in Parts :
          fragments[s] \in {"whole", "cut"} => fragments'[s] = fragments[s]
     /\ \A t \in Threads : p_out[t] # Unset => p_out'[t] = p_out[t]]_vars

AllSaved == \A s \in Parts : fragments[s] \in {"whole", "cut"}

(* A thread leaves its loop only when every fragment has been saved, but   *)
(* for one that could not get a curl handle.                               *)
ReturnsWhenFull == \A t \in Threads : pc[t] = "returned" => AllSaved

(* catpng dereferences every slot (v2/catpng2.c:24): it is only called     *)
(* when there is a saved fragment behind each of them, whichever threads   *)
(* gave up.                                                                *)
CatpngHasAll == main = "catpng" => AllSaved

(* Nobody goes on with a hole in the array, neither a thread nor main.     *)
NoHoles == ReturnsWhenFull /\ CatpngHasAll

(* main returns in the end, or dies cleaning up. *)
Finishes == <>(main \in {"done", "crashed"})

(* Every thread fills its return value before it returns: "only populate   *)
(* return on last loop iteration" (238), and main frees what it returned.  *)
ReturnsAreFilled == \A t \in Threads : pc[t] = "returned" => p_out[t] # Unset

(* "Valid seq should be non-negative" (119): what is saved is saved in the *)
(* array.                                                                  *)
SavedInBounds == word_below # "written"

(* A run that has every fragment writes "a complete image" (v2/README.md:5). *)
ImageComplete == main = "done" /\ AllSaved => image = Parts

=============================================================================
