------------------------------- MODULE MCPngCodec -------------------------------
(* A small instance of PngCodec for TLC: bytes of 2 bits, words of 2 bytes *)
(* and the CRC of x^4 + x + 1; streams are a length, the data and a        *)
(* checksum.                                                               *)
EXTENDS PngCodec

Poly4 == {2, 3}

b0 == {}
b1 == {0}
b2 == {1}
b3 == {0, 1}

ByteOf(n) == {b \in 0 .. ByteBits - 1 : (n \div 2^b) % 2 = 1}

ToySum(s) == FoldLeft(Xor, b2, s)
ToyStream(s) == <<ByteOf(Len(s))>> \o s \o <<ToySum(s)>>
ToyLength(s) == Number[s[1]]
ToyPlain(s) ==
  IF s = <<>> THEN <<>>
  ELSE SubSeq(s, 2, IF ToyLength(s) + 1 < Len(s) THEN ToyLength(s) + 1 ELSE Len(s))
ToyVerdict(s) ==
  IF s = <<>> \/ Len(s) < ToyLength(s) + 2 THEN "Z_BUF_ERROR"
  ELSE IF s[ToyLength(s) + 2] = ToySum(ToyPlain(s)) THEN "Z_STREAM_END"
  ELSE "Z_DATA_ERROR"

ToySig == <<b2, b1>>
ToyTypes == [t \in Chunks |-> CASE t = "IHDR" -> <<b1>> [] t = "IDAT" -> <<b2>> [] t = "IEND" -> <<b3>>]
ToyFormat == <<b2>>
Fill == {b0, b3}

(* With the constants of crc.c the division that its table implements is   *)
(* CRC-32, whose published value for "123456789" is cbf43926.              *)
C32 == INSTANCE Crc WITH
         WordBits <- 32, ByteBits <- 8,
         Poly <- {5, 8, 9, 15, 19, 20, 21, 23, 24, 26, 27, 29, 30, 31}

Digits == [k \in 1 .. 9 |-> {b \in 0 .. 7 : ((48 + k) \div 2^b) % 2 = 1}]

KnownCrc == {1, 2, 5, 8, 11, 12, 13, 18, 20, 21, 22, 23, 24, 25, 27, 30, 31}

ASSUME CheckValue == C32!Division(Digits) = KnownCrc

Scans == {<<>>, <<b1>>, <<b2>>, <<b0, b0>>, <<b3, b0>>, <<b1, b2>>, <<b2, b1, b3>>, <<b0, b0, b0>>}

=============================================================================
