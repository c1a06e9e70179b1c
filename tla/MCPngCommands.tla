----------------------------- MODULE MCPngCommands -----------------------------
(* Small instances of PngCommands for TLC. *)
EXTENDS PngCommands

CONSTANTS r, d, f1, f2, f3

(* r has f1 and d, d has f2 and f3. *)
Tree == [x \in {d, f1, f2, f3} |-> IF x \in {d, f1} THEN r ELSE d]

FragmentOrder == <<f1, f2, f3>>

Rgba(w, h) == [signature |-> "png", ihdr |-> TRUE, whole |-> TRUE, third |-> TRUE,
               width |-> w, height |-> h, pixel |-> 4]
Low     == Rgba(1, 1)
(* cut off behind its IDAT chunk *)
High    == [Rgba(1, 2) EXCEPT !.third = FALSE]
Wide    == Rgba(2, 1)
Deep    == [Low EXCEPT !.pixel = 8]
Damaged == [Low EXCEPT !.whole = FALSE]
Other   == [Damaged EXCEPT !.signature = "other"]
Short   == [Damaged EXCEPT !.signature = "short", !.ihdr = FALSE, !.third = FALSE]

AllContents == {Low, High, Wide, Deep, Damaged, Other, Short}

OneFindFault == [k \in {"opendir", "closedir", "fopen"} |-> 1]
OneCatFault  == [k \in CatFaults |-> 1]

=============================================================================
