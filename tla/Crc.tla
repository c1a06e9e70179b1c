----------------------------------- MODULE Crc -----------------------------------
(***************************************************************************)
(* crc.c: the checksum of a chunk, by table.  A word or a byte is the set  *)
(* of its one bits.  The bits above the 32nd of an unsigned long stay 0,   *)
(* since they are 0 in 0xffffffff and in the table.                        *)
(***************************************************************************)
EXTENDS Naturals, SequencesExt

CONSTANTS
  WordBits, \* 32
  ByteBits, \* 8
  Poly      \* 0xedb88320

ASSUME CrcAssumption ==
  /\ ByteBits \in Nat \ {0}
  /\ WordBits \in Nat
  /\ WordBits % ByteBits = 0
  /\ Poly \subseteq 0 .. WordBits - 1
  /\ WordBits - 1 \in Poly

Byte == SUBSET (0 .. ByteBits - 1)

AllOnes == 0 .. WordBits - 1

Words == SUBSET AllOnes

Xor(v, w) == (v \ w) \cup (w \ v)

Shr(w, n) == {b - n : b \in {x \in w : x >= n}}

LowByte(w) == {b \in w : b < ByteBits}

(* One round of the inner loop of make_crc_table. *)
DivideBit(c) == IF 0 \in c THEN Xor(Poly, Shr(c, 1)) ELSE Shr(c, 1)

(* c after each round of the inner loop *)
Rounds(n) ==
  LET c[k \in 0 .. ByteBits] == IF k = 0 THEN n ELSE DivideBit(c[k - 1]) IN c

crc_table == [n \in Byte |-> Rounds(n)[ByteBits]]

(* mutant: the table is looked up with the byte alone *)
ByteAlone == [p \in Words \X Byte |-> Xor(crc_table[p[2]], Shr(p[1], ByteBits))]

(* c and the next byte of buf *)
TableStep ==
  [p \in Words \X Byte |-> Xor(crc_table[LowByte(Xor(p[1], p[2]))], Shr(p[1], ByteBits))]

(* c after each byte of buf *)
States(crc_0, buf) ==
  LET c[n \in 0 .. Len(buf)] == IF n = 0 THEN crc_0 ELSE TableStep[<<c[n - 1], buf[n]>>] IN c

update_crc(crc_0, buf) == States(crc_0, buf)[Len(buf)]

crc(buf) == Xor(update_crc(AllOnes, buf), AllOnes)

-----------------------------------------------------------------------------
(* The definition it implements: the remainder of a polynomial division.   *)
(* A polynomial over the integers mod 2 is the set of its exponents; the   *)
(* first bit of a message is the lowest of its first byte, and has the     *)
(* highest exponent.                                                       *)

Divisor == {WordBits} \cup {WordBits - 1 - b : b \in Poly}

(* The step of the long division that takes away exponent e. *)
TakeAway(p, e) == IF e \in p THEN Xor(p, {x + (e - WordBits) : x \in Divisor}) ELSE p

(* What is left after each step, from the highest exponent on. *)
Rests(dividend, degree) ==
  LET p[k \in 0 .. degree - WordBits + 1] ==
        IF k = 0 THEN dividend ELSE TakeAway(p[k - 1], degree + 1 - k)
  IN  p

Remainder(dividend, degree) == Rests(dividend, degree)[degree - WordBits + 1]

(* The message, followed by WordBits zeros *)
Message(buf) ==
  LET n == Len(buf) * ByteBits
  IN  {n + WordBits - 1 - j :
         j \in {k \in 0 .. n - 1 : k % ByteBits \in buf[k \div ByteBits + 1]}}

Division(buf) ==
  LET n == Len(buf) * ByteBits
      ones == {n + b : b \in AllOnes}
      rest == Remainder(Xor(Message(buf), ones), n + WordBits - 1)
  IN  Xor({WordBits - 1 - e : e \in rest}, AllOnes)

=============================================================================
