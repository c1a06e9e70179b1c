------------------------------ MODULE MCPaster2 ------------------------------
(* Small instances of Paster2 for TLC. *)
EXTENDS Paster2Assembly, TLC

CONSTANTS p1, p2, c1, c2, c3

Faults(transfer, decode, inflate, fork) ==
  [k \in FaultKinds |->
     CASE k = "transfer" -> transfer
       [] k = "decode"   -> decode
       [] k = "inflate"  -> inflate
       [] k = "fork"     -> fork]

NoFaults    == Faults(0, 0, 0, 0)
OneTransfer == Faults(1, 0, 0, 0)
OneDecode   == Faults(0, 1, 0, 0)
ManyFaults  == Faults(2, 2, 1, 1)

OneProducer   == {p1}
TwoProducers  == {p1, p2}
OneConsumer   == {c1}
TwoConsumers  == {c1, c2}
ThreeConsumers == {c1, c2, c3}

(* Processes of one kind are interchangeable; used in runs without liveness. *)
Symmetry == Permutations(Producers) \cup Permutations(Consumers)

=============================================================================
