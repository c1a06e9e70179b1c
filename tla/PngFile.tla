-------------------------------- MODULE PngFile --------------------------------
(***************************************************************************)
(* What the commands see of a file (version 1) or of a fragment in memory  *)
(* (version 2), as far as lab_png.c and zutil.c tell them apart:           *)
(*                                                                         *)
(*   signature      "png", "other", or "short": there are no 8 bytes       *)
(*   ihdr           the 13 bytes of the IHDR chunk are there               *)
(*   width, height  what is where IHDR has them                            *)
(*   pixel          bytes per pixel: 4 for 8-bit RGBA, 8 for 16-bit RGBA   *)
(*   whole          the second chunk holds a complete zlib stream: false   *)
(*                  if the file is cut in it, damaged, has several IDAT    *)
(*                  chunks, or another chunk before IDAT                   *)
(*   third          a third chunk is there: false if the file is cut       *)
(*                  before its end                                         *)
(*                                                                         *)
(* PngCodec looks inside: chunks, checksums and streams.                   *)
(***************************************************************************)
EXTENDS Naturals

Signatures == {"png", "other", "short"}

IsContents(c) ==
  /\ c.signature \in Signatures
  /\ c.ihdr \in BOOLEAN
  /\ c.whole \in BOOLEAN
  /\ c.third \in BOOLEAN
  /\ c.width \in Nat
  /\ c.height \in Nat
  /\ c.pixel \in Nat
  /\ c.whole => c.ihdr
  /\ c.ihdr => c.signature # "short"
  /\ c.third => c.ihdr

(* is_png on a buffer into which 8 bytes were read: of a short file the    *)
(* last of them are what malloc returned.                                  *)
is_png(c) == IF c.signature = "short" THEN BOOLEAN ELSE {c.signature = "png"}

(* The length of the scan lines: one filter byte, then the pixels. *)
Inflated(c) == c.height * (c.pixel * c.width + 1)

=============================================================================
