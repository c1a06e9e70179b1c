---------------------------- MODULE StripAssembly ----------------------------
(***************************************************************************)
(* What paster2 promises, with no word on processes, semaphores and        *)
(* counters: every strip of an image is fetched, waits in a buffer that    *)
(* holds at most BufSize strips, is decoded and placed, once; a fetch may  *)
(* have to be repeated; the image is written when every strip is placed,   *)
(* and it is written eventually.                                           *)
(***************************************************************************)
EXTENDS Integers, FiniteSets

CONSTANTS BufSize, NumStrips

Strips == 0 .. NumStrips - 1

Stages == {"todo", "fetching", "buffered", "decoding", "placed"}

VARIABLES
  stage,  \* how far each strip has come
  image   \* the strips of the image that has been written; {} before

vars == <<stage, image>>

In(g) == {s \in Strips : stage[s] = g}

Init ==
  /\ stage = [s \in Strips |-> "todo"]
  /\ image = {}

Advance(s, from, to) ==
  /\ stage[s] = from
  /\ stage' = [stage EXCEPT ![s] = to]
  /\ UNCHANGED image

Fetch(s) == Advance(s, "todo", "fetching")

(* The transfer failed. *)
GiveBack(s) == Advance(s, "fetching", "todo")

Buffer(s) ==
  /\ Cardinality(In("buffered")) < BufSize
  /\ Advance(s, "fetching", "buffered")

Take(s) == Advance(s, "buffered", "decoding")

Place(s) == Advance(s, "decoding", "placed")

Write ==
  /\ In("placed") = Strips
  /\ image = {}
  /\ image' = Strips
  /\ UNCHANGED stage

Next ==
  \/ \E s \in Strips :
       Fetch(s) \/ GiveBack(s) \/ Buffer(s) \/ Take(s) \/ Place(s)
  \/ Write

Spec == Init /\ [][Next]_vars

(* Fetches do not fail for ever, and nothing is left lying. *)
Progress ==
  /\ \A s \in Strips :
       /\ WF_vars(Fetch(s))
       /\ SF_vars(Buffer(s))
       /\ WF_vars(Take(s))
       /\ WF_vars(Place(s))
  /\ WF_vars(Write)

FairSpec == Spec /\ Progress

=============================================================================
