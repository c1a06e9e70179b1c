------------------------------ MODULE MCPaster ------------------------------
(* Small instances of Paster for TLC. *)
EXTENDS Paster

CONSTANTS t1, t2, t3

Faults(init, cut, no_header) ==
  [k \in FaultKinds |->
     CASE k = "init" -> init [] k = "cut" -> cut [] k = "no_header" -> no_header]

NoFaults    == Faults(0, 0, 0)
OneOfEach   == Faults(1, 1, 1)
OneCut      == Faults(0, 1, 0)
OneNoHeader == Faults(0, 0, 1)

OneThread    == {t1}
TwoThreads   == {t1, t2}
ThreeThreads == {t1, t2, t3}

=============================================================================
