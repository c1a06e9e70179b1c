------------------------------ MODULE MCTransfer ------------------------------
(* A small instance of Transfer for TLC. *)
EXTENDS Transfer

(* paster2's array is larger than any strip; the others' bodies need not   *)
(* fit.                                                                    *)
Capacities ==
  [p \in Programs |-> CASE p = "paster2" -> 4 [] p \in Shared -> 3 [] OTHER -> 2]

Bodies == [p \in Programs |-> IF p = "paster2" THEN 3 ELSE 5]

OneOfEach == [k \in FaultKinds |-> 1]

=============================================================================
