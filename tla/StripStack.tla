----------------------------- MODULE StripStack -----------------------------
(***************************************************************************)
(* The shared-memory buffer of paster2.  The code calls it RING_BUFFER,    *)
(* but push and pop work at the same end: it is a stack of at most `size'  *)
(* strips in one shared-memory segment.  The sequence ring stands for      *)
(* items[0..pos], so Len(ring) = pos + 1; items above pos are never read.  *)
(***************************************************************************)
EXTENDS Integers, Sequences

(* Return codes of push and pop: zero on success. *)
Ok == 0
Failed == 1

(* init_shm_stack: pos = -1. *)
EmptyRing == <<>>

(* The definitions marked "mutant" are wrong on purpose: each is a slip    *)
(* that a property of Paster2 must notice.                                 *)

(* mutants: pos off by one *)
IsFullEarly(ring, size) == Len(ring) = size - 1
IsEmptyLate(ring) == Len(ring) <= 1

IsFull(ring, size) == Len(ring) = size

IsEmpty(ring) == ring = EmptyRing

(* push returns the error code; the stack only changes when it is not full. *)
PushRet(ring, size) == IF IsFull(ring, size) THEN Failed ELSE Ok

Push(ring, size, item) ==
  IF IsFull(ring, size) THEN ring ELSE Append(ring, item)

(* pop takes the most recently pushed item. *)
PopRet(ring) == IF IsEmpty(ring) THEN Failed ELSE Ok

(* mutants: a queue's end, and a pop that forgets pos-- *)
Bottom(ring) == ring[1]
PopForgetsPos(ring) == ring

Top(ring) == ring[Len(ring)]

Pop(ring) == IF IsEmpty(ring) THEN ring ELSE SubSeq(ring, 1, Len(ring) - 1)

=============================================================================
