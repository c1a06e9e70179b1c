-------------------------- MODULE Paster2Assembly ---------------------------
(* The refinement of StripAssembly by Paster2. *)
EXTENDS Paster2

(* A strip is placed when its pixels are in final_strips; before that, its *)
(* stage is told by the process or the buffer that has it.                 *)
StageOf(s) ==
  IF s \in final_strips THEN "placed"
  ELSE IF Positions(s) # {} THEN "buffered"
  ELSE IF \E p \in Producers : p \in Holders(s) THEN "fetching"
  ELSE IF \E c \in Consumers : c \in Holders(s) THEN "decoding"
  ELSE "todo"

Assembly == INSTANCE StripAssembly WITH stage <- [s \in Strips |-> StageOf(s)]

(* The processes of paster2.c together do what StripAssembly promises:     *)
(* each of their steps is one of its steps or concerns none of the strips, *)
(* and the image is written in the end.                                    *)
ImplementsAssembly == Assembly!FairSpec

=============================================================================
