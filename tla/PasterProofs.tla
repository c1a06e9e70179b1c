---------------------------- MODULE PasterProofs ----------------------------
(***************************************************************************)
(* Theorems about Paster: its safety for any number of threads, fragments  *)
(* and faults.                                                             *)
(***************************************************************************)
EXTENDS Paster, TLAPS

(* Where a thread holds the mutex. *)
Locked ==
  {"head_scan", "head_unlock", "save_test", "save_copy", "save_unlock",
   "tail_scan", "tail_unlock"}

(* Mutual exclusion: a thread between lock and unlock is the holder. *)
LockHeld == \A t \in Threads : pc[t] \in Locked => fragments_protection = t

(* What a thread is about to save has a body if it has a sequence number,  *)
(* and once it has its slot, nothing is saved there yet.                   *)
Saving ==
  \A t \in Threads :
    recv_buf[t].seq \in Parts =>
      /\ pc[t] \in {"save_lock", "save_test", "save_copy"} =>
           recv_buf[t].body \in {"whole", "cut"}
      /\ pc[t] = "save_copy" => fragments[recv_buf[t].seq] = "allocated"

(* is_full tells the truth, and goes on doing so after the unlock. *)
FullIsTrue ==
  \A t \in Threads :
    /\ full[t] => AllSaved
    /\ pc[t] = "returned" => full[t]

(* A thread that has filled its return value is on its way out. *)
Leaving ==
  \A t \in Threads :
    p_out[t] # Unset =>
      /\ AllSaved
      /\ pc[t] \in {"head_lock", "head_scan", "head_unlock", "returned"}
      /\ pc[t] = "head_unlock" => full[t]

IInv ==
  /\ TypeOK
  /\ LockHeld
  /\ HalfSavedIsLocked
  /\ Saving
  /\ FullIsTrue
  /\ Leaving
  /\ CatpngHasAll

(* The initial states satisfy the invariant. *)
LEMMA InitInv == Init => IInv
<1> SUFFICES ASSUME Init PROVE IInv
  OBVIOUS
<1>1. TypeOK
  BY ConstantsAssumption
  DEF Init, TypeOK, Slots, Labels, ThreadLabels, Bodies, NothingReceived, MainLabels
<1> QED
  BY <1>1 DEF Init, IInv, LockHeld, Locked, HalfSavedIsLocked, Saving, FullIsTrue,
              Leaving, CatpngHasAll, NothingReceived, Parts

(* When all slots point somewhere and the mutex is free, or held by a      *)
(* thread that is not copying, every fragment has been saved.              *)
LEMMA FullMeansSaved ==
  ASSUME IInv, Full,
         \A t \in Threads : fragments_protection = t => pc[t] # "save_copy"
  PROVE  AllSaved
  BY DEF IInv, TypeOK, Full, HalfSavedIsLocked, AllSaved, Slots


(* Goto moves one thread from one label to another. *)
LEMMA GotoTyped ==
  ASSUME TypeOK, NEW t \in Threads, NEW from, NEW to \in Labels, Goto(t, from, to)
  PROVE  /\ pc[t] = from
         /\ pc' \in [Threads -> Labels]
         /\ pc'[t] = to
         /\ \A u \in Threads \ {t} : pc'[u] = pc[u]
  BY DEF TypeOK, Goto

(* The labels, spelt out. *)
LEMMA LabelsAre ==
  /\ {"head_lock", "head_scan", "head_unlock", "request", "save_lock", "save_test",
      "save_copy", "save_unlock", "tail_lock", "tail_scan", "tail_unlock",
      "uncreated", "returned", "returned_null"} = Labels
  /\ Locked \subseteq Labels
  BY DEF Labels, ThreadLabels, Locked

-----------------------------------------------------------------------------
(* The steps of a thread *)

(* Taking the mutex: no other thread was between lock and unlock. *)
LEMMA LockStep ==
  ASSUME IInv, NEW t \in Threads, HeadLock(t) \/ SaveLock(t) \/ TailLock(t)
  PROVE  IInv'
<1> USE DEF HeadLock, SaveLock, TailLock, Lock, Goto, array, parent
<1>1. TypeOK'
  BY ConstantsAssumption, LabelsAre DEF IInv, TypeOK, Slots, Bodies, NothingReceived, MainLabels, Parts
<1>2. LockHeld'
  BY ConstantsAssumption DEF IInv, TypeOK, LockHeld, Locked
<1>3. HalfSavedIsLocked'
  BY ConstantsAssumption DEF IInv, TypeOK, HalfSavedIsLocked, LockHeld, Locked
<1>4. AllSaved => AllSaved'
  BY DEF IInv, TypeOK, Saving, AllSaved
<1>5. Saving'
  BY ConstantsAssumption DEF IInv, TypeOK, Saving, Bodies, NothingReceived, LockHeld, Locked, Parts
<1>6. FullIsTrue'
  BY <1>4 DEF IInv, TypeOK, FullIsTrue
<1>7. Leaving'
  BY <1>4 DEF IInv, TypeOK, Leaving, FullIsTrue
<1>8. CatpngHasAll'
  BY <1>4 DEF IInv, TypeOK, CatpngHasAll
<1> QED
  BY <1>1, <1>2, <1>3, <1>5, <1>6, <1>7, <1>8 DEF IInv

(* The scan of is_full: no fragment is half saved meanwhile. *)
LEMMA ScanStep ==
  ASSUME IInv, NEW t \in Threads, HeadScan(t) \/ TailScan(t)
  PROVE  IInv'
<1> USE DEF HeadScan, TailScan, Goto, array, parent
<1>1. TypeOK'
  <2>1. pc' \in [Threads -> Labels]
    BY LabelsAre DEF IInv, TypeOK
  <2>2. full' \in [Threads -> BOOLEAN]
    BY DEF IInv, TypeOK, Full
  <2> QED
    BY <2>1, <2>2 DEF IInv, TypeOK
<1>2. LockHeld'
  BY ConstantsAssumption DEF IInv, TypeOK, LockHeld, Locked
<1>3. HalfSavedIsLocked'
  BY ConstantsAssumption DEF IInv, TypeOK, HalfSavedIsLocked, LockHeld, Locked
<1>4. AllSaved => AllSaved'
  BY DEF IInv, TypeOK, Saving, AllSaved
<1>5. Saving'
  BY ConstantsAssumption DEF IInv, TypeOK, Saving, Bodies, NothingReceived, LockHeld, Locked, Parts
<1>6. FullIsTrue'
  BY <1>4, FullMeansSaved DEF IInv, TypeOK, FullIsTrue, LockHeld, Locked
<1>7. Leaving'
  BY <1>4 DEF IInv, TypeOK, Leaving, FullIsTrue, Full, AllSaved
<1>8. CatpngHasAll'
  BY <1>4 DEF IInv, TypeOK, CatpngHasAll
<1> QED
  BY <1>1, <1>2, <1>3, <1>5, <1>6, <1>7, <1>8 DEF IInv

(* The loop ends or goes on. *)
LEMMA HeadUnlockStep ==
  ASSUME IInv, NEW t \in Threads, HeadUnlock(t)
  PROVE  IInv'
<1> USE DEF HeadUnlock, Unlock, Goto, array, parent
<1>1. TypeOK'
  BY ConstantsAssumption, LabelsAre DEF IInv, TypeOK, Slots, Bodies, NothingReceived, MainLabels, Parts
<1>2. LockHeld'
  BY ConstantsAssumption DEF IInv, TypeOK, LockHeld, Locked
<1>3. HalfSavedIsLocked'
  BY ConstantsAssumption DEF IInv, TypeOK, HalfSavedIsLocked, LockHeld, Locked
<1>4. AllSaved => AllSaved'
  BY DEF IInv, TypeOK, Saving, AllSaved
<1>5. Saving'
  BY ConstantsAssumption DEF IInv, TypeOK, Saving, Bodies, NothingReceived, LockHeld, Locked, Parts
<1>6. FullIsTrue'
  BY <1>4 DEF IInv, TypeOK, FullIsTrue
<1>7. Leaving'
  BY <1>4 DEF IInv, TypeOK, Leaving, FullIsTrue
<1>8. CatpngHasAll'
  BY <1>4 DEF IInv, TypeOK, CatpngHasAll
<1> QED
  BY <1>1, <1>2, <1>3, <1>5, <1>6, <1>7, <1>8 DEF IInv

(* No curl handle. *)
LEMMA InitFailsStep ==
  ASSUME IInv, NEW t \in Threads, InitFails(t)
  PROVE  IInv'
<1> USE DEF InitFails, Inject, Goto, array, parent
<1>1. TypeOK'
  <2>1. pc' \in [Threads -> Labels]
    BY LabelsAre DEF IInv, TypeOK
  <2>2. failed' \in [FaultKinds -> Nat]
    BY DEF IInv, TypeOK, FaultKinds
  <2> QED
    BY <2>1, <2>2 DEF IInv, TypeOK
<1>2. LockHeld'
  BY ConstantsAssumption DEF IInv, TypeOK, LockHeld, Locked
<1>3. HalfSavedIsLocked'
  BY ConstantsAssumption DEF IInv, TypeOK, HalfSavedIsLocked, LockHeld, Locked
<1>4. AllSaved => AllSaved'
  BY DEF IInv, TypeOK, Saving, AllSaved
<1>5. Saving'
  BY ConstantsAssumption DEF IInv, TypeOK, Saving, Bodies, NothingReceived, LockHeld, Locked, Parts
<1>6. FullIsTrue'
  BY <1>4 DEF IInv, TypeOK, FullIsTrue
<1>7. Leaving'
  BY <1>4 DEF IInv, TypeOK, Leaving, FullIsTrue
<1>8. CatpngHasAll'
  BY <1>4 DEF IInv, TypeOK, CatpngHasAll
<1> QED
  BY <1>1, <1>2, <1>3, <1>5, <1>6, <1>7, <1>8 DEF IInv

(* A response, whole or not, with or without a fragment number. *)
LEMMA ReceiveStep ==
  ASSUME IInv, NEW t \in Threads,
         ReceiveNoHeader(t) \/ \E s \in Parts : ReceiveWhole(t, s) \/ ReceiveCut(t, s)
  PROVE  IInv'
<1> DEFINE Received(m) ==
      /\ m.seq \in Parts => m.body \in {"whole", "cut"}
      /\ Goto(t, "request", "save_lock")
      /\ recv_buf' = [recv_buf EXCEPT ![t] = m]
      /\ failed' \in [FaultKinds -> Nat]
      /\ UNCHANGED <<array, fragments_protection, full, p_out, parent>>
<1>0. PICK m \in Bodies : Received(m)
  <2>1. ASSUME NEW k \in FaultKinds, Inject(k)
        PROVE  failed' \in [FaultKinds -> Nat]
    BY <2>1 DEF IInv, TypeOK, Inject
  <2>2. ASSUME ReceiveNoHeader(t)
        PROVE  \E m \in Bodies : Received(m)
    <3>1. PICK b \in {"none", "whole", "cut"} : Receive(t, -1, b)
      BY <2>2 DEF ReceiveNoHeader
    <3> DEFINE m == [seq |-> -1, body |-> b]
    <3>2. m \in Bodies /\ m.seq \notin Parts
      BY DEF Bodies, Parts
    <3>3. failed' \in [FaultKinds -> Nat]
      BY <2>1, <2>2 DEF ReceiveNoHeader, FaultKinds
    <3>4. Received(m)
      BY <3>1, <3>2, <3>3 DEF Receive
    <3> QED
      BY <3>2, <3>4
  <2>3. ASSUME NEW s \in Parts, ReceiveWhole(t, s) \/ ReceiveCut(t, s)
        PROVE  \E m \in Bodies : Received(m)
    BY <2>1, <2>3 DEF ReceiveWhole, ReceiveCut, Receive, Bodies, FaultKinds, IInv, TypeOK
  <2> QED
    BY <2>2, <2>3
<1> USE <1>0 DEF Goto, array, parent
<1>1. TypeOK'
  BY LabelsAre DEF IInv, TypeOK
<1>2. LockHeld'
  BY DEF IInv, TypeOK, LockHeld, Locked
<1>3. HalfSavedIsLocked'
  BY ConstantsAssumption DEF IInv, TypeOK, HalfSavedIsLocked, LockHeld, Locked
<1>4. AllSaved => AllSaved'
  BY DEF IInv, TypeOK, Saving, AllSaved
<1>5. Saving'
  BY ConstantsAssumption DEF IInv, TypeOK, Saving, Bodies, NothingReceived, LockHeld, Locked, Parts
<1>6. FullIsTrue'
  BY <1>4 DEF IInv, TypeOK, FullIsTrue
<1>7. Leaving'
  BY <1>4 DEF IInv, TypeOK, Leaving, FullIsTrue
<1>8. CatpngHasAll'
  BY <1>4 DEF IInv, TypeOK, CatpngHasAll
<1> QED
  BY <1>1, <1>2, <1>3, <1>5, <1>6, <1>7, <1>8 DEF IInv

(* A new fragment gets its slot. *)
LEMMA SaveTestStep ==
  ASSUME IInv, NEW t \in Threads, SaveTest(t)
  PROVE  IInv'
<1> USE DEF SaveTest, Goto, array, parent
<1>1. TypeOK'
  BY ConstantsAssumption, LabelsAre DEF IInv, TypeOK, Slots, Bodies, NothingReceived, MainLabels, Parts
<1>2. LockHeld'
  BY ConstantsAssumption DEF IInv, TypeOK, LockHeld, Locked
<1>3. HalfSavedIsLocked'
  BY ConstantsAssumption DEF IInv, TypeOK, HalfSavedIsLocked, LockHeld, Locked
<1>4. AllSaved => AllSaved'
  BY DEF IInv, TypeOK, Saving, AllSaved
<1>5. Saving'
  BY ConstantsAssumption DEF IInv, TypeOK, Saving, Bodies, NothingReceived, LockHeld, Locked, Parts
<1>6. FullIsTrue'
  BY <1>4 DEF IInv, TypeOK, FullIsTrue
<1>7. Leaving'
  BY <1>4 DEF IInv, TypeOK, Leaving, FullIsTrue
<1>8. CatpngHasAll'
  BY <1>4 DEF IInv, TypeOK, CatpngHasAll
<1> QED
  BY <1>1, <1>2, <1>3, <1>5, <1>6, <1>7, <1>8 DEF IInv

(* The slot gets its data. *)
LEMMA SaveCopyStep ==
  ASSUME IInv, NEW t \in Threads, SaveCopy(t)
  PROVE  IInv'
<1> USE DEF SaveCopy, Goto, array, parent
<1>1. TypeOK'
  <2>1. pc' \in [Threads -> Labels]
    BY LabelsAre DEF IInv, TypeOK
  <2>2. fragments' \in [Parts -> Slots]
    BY DEF IInv, TypeOK, Saving, Slots
  <2> QED
    BY <2>1, <2>2 DEF IInv, TypeOK
<1>2. LockHeld'
  BY ConstantsAssumption DEF IInv, TypeOK, LockHeld, Locked
<1>3. HalfSavedIsLocked'
  BY DEF IInv, TypeOK, HalfSavedIsLocked, Saving, LockHeld, Locked
<1>4. AllSaved => AllSaved'
  BY DEF IInv, TypeOK, Saving, AllSaved
<1>5. Saving'
  BY ConstantsAssumption DEF IInv, TypeOK, Saving, Bodies, NothingReceived, LockHeld, Locked, Parts
<1>6. FullIsTrue'
  BY <1>4 DEF IInv, TypeOK, FullIsTrue
<1>7. Leaving'
  BY <1>4 DEF IInv, TypeOK, Leaving, FullIsTrue
<1>8. CatpngHasAll'
  BY <1>4 DEF IInv, TypeOK, CatpngHasAll
<1> QED
  BY <1>1, <1>2, <1>3, <1>5, <1>6, <1>7, <1>8 DEF IInv

(* The mutex is given back after saving. *)
LEMMA SaveUnlockStep ==
  ASSUME IInv, NEW t \in Threads, SaveUnlock(t)
  PROVE  IInv'
<1> USE DEF SaveUnlock, Unlock, Goto, array, parent
<1>1. TypeOK'
  BY ConstantsAssumption, LabelsAre DEF IInv, TypeOK, Slots, Bodies, NothingReceived, MainLabels, Parts
<1>2. LockHeld'
  BY ConstantsAssumption DEF IInv, TypeOK, LockHeld, Locked
<1>3. HalfSavedIsLocked'
  BY ConstantsAssumption DEF IInv, TypeOK, HalfSavedIsLocked, LockHeld, Locked
<1>4. AllSaved => AllSaved'
  BY DEF IInv, TypeOK, Saving, AllSaved
<1>5. Saving'
  BY ConstantsAssumption DEF IInv, TypeOK, Saving, Bodies, NothingReceived, LockHeld, Locked, Parts
<1>6. FullIsTrue'
  BY <1>4 DEF IInv, TypeOK, FullIsTrue
<1>7. Leaving'
  BY <1>4 DEF IInv, TypeOK, Leaving, FullIsTrue
<1>8. CatpngHasAll'
  BY <1>4 DEF IInv, TypeOK, CatpngHasAll
<1> QED
  BY <1>1, <1>2, <1>3, <1>5, <1>6, <1>7, <1>8 DEF IInv

(* The end of an iteration. *)
LEMMA TailUnlockStep ==
  ASSUME IInv, NEW t \in Threads, TailUnlock(t)
  PROVE  IInv'
<1> USE DEF TailUnlock, Unlock, Goto, array, parent
<1>1. TypeOK'
  BY ConstantsAssumption, LabelsAre DEF IInv, TypeOK, Slots, Bodies, NothingReceived, MainLabels, Parts
<1>2. LockHeld'
  BY ConstantsAssumption DEF IInv, TypeOK, LockHeld, Locked
<1>3. HalfSavedIsLocked'
  BY ConstantsAssumption DEF IInv, TypeOK, HalfSavedIsLocked, LockHeld, Locked
<1>4. AllSaved => AllSaved'
  BY DEF IInv, TypeOK, Saving, AllSaved
<1>5. Saving'
  BY ConstantsAssumption DEF IInv, TypeOK, Saving, Bodies, NothingReceived, LockHeld, Locked, Parts
<1>6. FullIsTrue'
  BY <1>4 DEF IInv, TypeOK, FullIsTrue
<1>7. Leaving'
  BY <1>4 DEF IInv, TypeOK, Leaving, FullIsTrue
<1>8. CatpngHasAll'
  BY <1>4 DEF IInv, TypeOK, CatpngHasAll
<1> QED
  BY <1>1, <1>2, <1>3, <1>5, <1>6, <1>7, <1>8 DEF IInv

(* main creates a thread. *)
LEMMA CreateThreadStep ==
  ASSUME IInv, NEW t \in Threads, CreateThread(t)
  PROVE  IInv'
<1> USE DEF CreateThread, Goto, array, parent
<1>1. TypeOK'
  BY ConstantsAssumption, LabelsAre DEF IInv, TypeOK, Slots, Bodies, NothingReceived, MainLabels, Parts
<1>2. LockHeld'
  BY ConstantsAssumption DEF IInv, TypeOK, LockHeld, Locked
<1>3. HalfSavedIsLocked'
  BY ConstantsAssumption DEF IInv, TypeOK, HalfSavedIsLocked, LockHeld, Locked
<1>4. AllSaved => AllSaved'
  BY DEF IInv, TypeOK, Saving, AllSaved
<1>5. Saving'
  BY ConstantsAssumption DEF IInv, TypeOK, Saving, Bodies, NothingReceived, LockHeld, Locked, Parts
<1>6. FullIsTrue'
  BY <1>4 DEF IInv, TypeOK, FullIsTrue
<1>7. Leaving'
  BY <1>4 DEF IInv, TypeOK, Leaving, FullIsTrue
<1>8. CatpngHasAll'
  BY <1>4 DEF IInv, TypeOK, CatpngHasAll
<1> QED
  BY <1>1, <1>2, <1>3, <1>5, <1>6, <1>7, <1>8 DEF IInv

-----------------------------------------------------------------------------
(* The steps of main, and of the whole program *)

(* A thread keeps the invariant. *)
LEMMA ThreadStep ==
  ASSUME IInv, NEW t \in Threads, do_work(t)
  PROVE  IInv'
  BY LockStep, ScanStep, HeadUnlockStep, InitFailsStep, ReceiveStep, SaveTestStep,
     SaveCopyStep, SaveUnlockStep, TailUnlockStep DEF do_work

(* So does main: catpng is called when the array is full and the mutex     *)
(* free, so that nothing is half saved.                                    *)
LEMMA MainStep ==
  ASSUME IInv, main_work
  PROVE  IInv'
<1>1. CASE \E t \in Threads : CreateThread(t)
  BY <1>1, CreateThreadStep
<1>2. CASE JoinThreads \/ CheckAll \/ Catpng \/ Cleanup
  <2> USE <1>2 DEF JoinThreads, CheckAll, Catpng, Cleanup, array
  <2>1. UNCHANGED <<fragments, fragments_protection, word_below, pc, recv_buf, full,
                    p_out, failed>>
    OBVIOUS
  <2>2. TypeOK'
    BY DEF IInv, TypeOK, MainLabels
  <2>3. LockHeld' /\ HalfSavedIsLocked' /\ Saving' /\ FullIsTrue' /\ Leaving'
    BY <2>1 DEF IInv, LockHeld, HalfSavedIsLocked, Saving, FullIsTrue, Leaving, AllSaved
  <2>4. CatpngHasAll'
    BY <2>1, FullMeansSaved, ConstantsAssumption DEF CatpngHasAll, AllSaved
  <2> QED
    BY <2>2, <2>3, <2>4 DEF IInv
<1> QED
  BY <1>1, <1>2 DEF main_work

(* Every step, and a stuttering one, keeps the invariant. *)
LEMMA NextInv ==
  ASSUME IInv, [Next]_vars
  PROVE  IInv'
<1>1. CASE UNCHANGED vars
  BY <1>1
  DEF vars, array, parent, IInv, TypeOK, LockHeld, HalfSavedIsLocked, Saving, FullIsTrue,
      Leaving, CatpngHasAll, AllSaved
<1>2. CASE Next
  BY <1>1, <1>2, ThreadStep, MainStep DEF Next, Over
<1> QED
  BY <1>1, <1>2

(* The invariant holds in every state the program reaches. *)
THEOREM Invariance == Spec => []IInv
  BY InitInv, NextInv, PTL DEF Spec

(* Type correctness. *)
THEOREM TypeCorrect == Spec => []TypeOK
  BY Invariance, PTL DEF IInv

(* A slot without its data is behind the mutex of the thread that fills it. *)
THEOREM NothingHalfSaved == Spec => []HalfSavedIsLocked
  BY Invariance, PTL DEF IInv

(* catpng never meets a slot without a fragment, whatever threads gave up, *)
(* and only a full array makes a thread return.                            *)
THEOREM HolesFilled == Spec => []NoHoles
<1>1. IInv => NoHoles
  BY DEF IInv, FullIsTrue, NoHoles, ReturnsWhenFull
<1> QED
  BY <1>1, Invariance, PTL

(* No step replaces a fragment that is saved: copying it is over, and the  *)
(* scan of SaveTest finds its slot taken.                                  *)
LEMMA FragmentKept ==
  ASSUME IInv, [Next]_vars, NEW s \in Parts, fragments[s] \in {"whole", "cut"}
  PROVE  fragments'[s] = fragments[s]
<1> USE DEF IInv, TypeOK, Saving
<1>1. CASE UNCHANGED fragments
  BY <1>1
<1>2. ASSUME NEW t \in Threads, SaveTest(t)
      PROVE  fragments'[s] = fragments[s]
  BY <1>2 DEF SaveTest, array
<1>3. ASSUME NEW t \in Threads, SaveCopy(t)
      PROVE  fragments'[s] = fragments[s]
  BY <1>3 DEF SaveCopy, Goto
<1>4. ASSUME NEW t \in Threads, do_work(t)
      PROVE  fragments'[s] = fragments[s]
  BY <1>1, <1>2, <1>3, <1>4
  DEF do_work, array, HeadLock, HeadScan, HeadUnlock, InitFails, ReceiveWhole,
      ReceiveCut, ReceiveNoHeader, Receive, SaveLock, SaveUnlock, TailLock, TailScan,
      TailUnlock
<1>5. CASE main_work
  BY <1>1, <1>5 DEF main_work, array, CreateThread, JoinThreads, CheckAll, Catpng, Cleanup
<1> QED
  BY <1>1, <1>4, <1>5 DEF Next, Over, vars, array

(* No thread fills its return value twice: Leaving says that a thread that *)
(* has filled it does not come to the end of an iteration again.           *)
LEMMA ReturnValueKept ==
  ASSUME IInv, [Next]_vars, NEW t \in Threads, p_out[t] # Unset
  PROVE  p_out'[t] = p_out[t]
<1> USE DEF IInv, TypeOK, Leaving
<1>1. CASE UNCHANGED p_out
  BY <1>1
<1>2. ASSUME NEW u \in Threads, TailUnlock(u)
      PROVE  p_out'[t] = p_out[t]
  BY <1>2 DEF TailUnlock, Goto
<1>3. ASSUME NEW u \in Threads, do_work(u)
      PROVE  p_out'[t] = p_out[t]
  BY <1>1, <1>2, <1>3
  DEF do_work, HeadLock, HeadScan, HeadUnlock, InitFails, ReceiveWhole, ReceiveCut,
      ReceiveNoHeader, Receive, SaveLock, SaveTest, SaveCopy, SaveUnlock, TailLock,
      TailScan
<1>4. CASE main_work
  BY <1>1, <1>4 DEF main_work, CreateThread, JoinThreads, CheckAll, Catpng, Cleanup
<1> QED
  BY <1>1, <1>3, <1>4 DEF Next, Over, vars

(* No step replaces a saved fragment or fills a return value again. *)
THEOREM NoOverwriting == Spec => SavedOnce
<1>1. IInv /\ [Next]_vars =>
        [/\ \A s \in Parts :
              fragments[s] \in {"whole", "cut"} => fragments'[s] = fragments[s]
         /\ \A t \in Threads : p_out[t] # Unset => p_out'[t] = p_out[t]]_vars
  BY FragmentKept, ReturnValueKept
<1> QED
  BY <1>1, Invariance, PTL DEF Spec, SavedOnce

=============================================================================
