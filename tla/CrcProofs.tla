------------------------------- MODULE CrcProofs -------------------------------
(***************************************************************************)
(* Theorems about the CRC of crc.c, for any widths and any polynomial with *)
(* a constant term: the checksum by table is the remainder of the division *)
(* of the message, and two messages that differ in one byte differ in      *)
(* their checksums.                                                        *)
(*                                                                         *)
(* After each byte, what is left to divide is the word of update_crc       *)
(* followed by the bytes to come; a round of make_crc_table takes away the *)
(* divisor once.                                                           *)
(*                                                                         *)
(* A round of make_crc_table can be undone, because the constant term (the *)
(* highest bit of Poly) tells whether the polynomial was subtracted.  The  *)
(* table computes ByteBits rounds at once, because rounds are linear, and  *)
(* so a step of update_crc can be undone too, if its byte is known.        *)
(***************************************************************************)
EXTENDS Crc, SequenceTheorems, WellFoundedInduction, TLAPS

-----------------------------------------------------------------------------
(* Recursion *)

(* Induction: a set of numbers that is not empty has a least one. *)
LEMMA LeastNumber ==
  ASSUME NEW T, T \subseteq Nat, T # {}
  PROVE  \E x \in T : \A y \in T : x <= y
<1> DEFINE R == OpToRel(<, Nat)
<1>1. IsWellFoundedOn(R, Nat)
  BY NatLessThanWellFounded, Zenon
<1> HIDE DEF R
<1>2. PICK x \in T : \A y \in T : ~ (<<y, x>> \in R)
  BY <1>1, WFMin
<1>3. ASSUME NEW y \in T
      PROVE  x <= y
  <2>1. x \in Nat /\ y \in Nat
    OBVIOUS
  <2>2. <<y, x>> \in Nat \X Nat
    BY <2>1
  <2>3. <<y, x>> \in R <=> y < x
    BY <2>2, Zenon DEF R, OpToRel
  <2> QED BY <1>2, <2>1, <2>3
<1> QED BY <1>3

(* t starts with a and goes on with F. *)
Solves(t, F, N, S, a) ==
  /\ t \in [0 .. N -> S]
  /\ t[0] = a
  /\ \A n \in 1 .. N : t[n] = F[<<n, t[n - 1]>>]

(* A recursion over the numbers up to N has a solution. *)
LEMMA RecursionSolved ==
  ASSUME NEW S, NEW N \in Nat, NEW a \in S, NEW F \in [(1 .. N) \X S -> S]
  PROVE  \E t : Solves(t, F, N, S, a)
<1> DEFINE T == {m \in 0 .. N : ~ \E t : Solves(t, F, m, S, a)}
<1>1. SUFFICES T = {}
  <2>1. N \in 0 .. N
    OBVIOUS
  <2> QED BY <2>1, Zenon
<1>2. SUFFICES ASSUME T # {} PROVE FALSE
  OBVIOUS
<1>3. T \subseteq Nat
  OBVIOUS
<1>4. PICK m \in T : \A k \in T : m <= k
  BY <1>2, <1>3, LeastNumber
<1>5. m \in 0 .. N /\ m \in Nat
  OBVIOUS
<1>6. CASE m = 0
  <2>1. [k \in 0 .. 0 |-> a] \in [0 .. m -> S]
    BY <1>6
  <2>2. [k \in 0 .. 0 |-> a][0] = a
    OBVIOUS
  <2>3. \A n \in 1 .. m : FALSE
    BY <1>6
  <2>4. Solves([k \in 0 .. 0 |-> a], F, m, S, a)
    BY <2>1, <2>2, <2>3 DEF Solves
  <2> QED BY <1>4, <2>4, Zenon
<1>7. CASE m # 0
  <2>1. m - 1 \in 0 .. N /\ m - 1 \in Nat /\ ~(m <= m - 1) /\ m \in 1 .. N
    BY <1>5, <1>7
  <2>2. m - 1 \notin T
    BY <1>4, <2>1
  <2>9. PICK t : Solves(t, F, m - 1, S, a)
    BY <2>1, <2>2, Zenon
  <2>3. /\ t \in [0 .. m - 1 -> S] /\ t[0] = a
        /\ \A n \in 1 .. m - 1 : t[n] = F[<<n, t[n - 1]>>]
    BY <2>9 DEF Solves
  <2>4. m - 1 \in 0 .. m - 1
    BY <2>1
  <2>5. F[<<m, t[m - 1]>>] \in S
    BY <2>1, <2>3, <2>4
  <2> DEFINE u == [k \in 0 .. m |-> IF k = m THEN F[<<m, t[m - 1]>>] ELSE t[k]]
  <2>6. u \in [0 .. m -> S]
    <3> SUFFICES ASSUME NEW k \in 0 .. m
                 PROVE  u[k] \in S
      OBVIOUS
    <3>1. k # m => k \in 0 .. m - 1
      BY <1>5, <1>7
    <3> QED BY <2>3, <2>5, <3>1
  <2>7. u[0] = a
    BY <1>5, <1>7, <2>3
  <2>8. \A n \in 1 .. m : u[n] = F[<<n, u[n - 1]>>]
    <3> SUFFICES ASSUME NEW n \in 1 .. m
                 PROVE  u[n] = F[<<n, u[n - 1]>>]
      OBVIOUS
    <3>1. n \in 0 .. m /\ n - 1 \in 0 .. m /\ n - 1 # m
      BY <1>5
    <3>2. u[n - 1] = t[n - 1]
      BY <3>1
    <3>3. CASE n = m
      BY <3>1, <3>2, <3>3
    <3>4. CASE n # m
      <4>1. n \in 1 .. m - 1
        BY <1>5, <3>4
      <4> QED BY <2>3, <3>1, <3>2, <3>4, <4>1
    <3> QED BY <3>3, <3>4
  <2> HIDE DEF u
  <2>10. Solves(u, F, m, S, a)
    BY <2>6, <2>7, <2>8 DEF Solves
  <2> QED BY <1>4, <2>10, Zenon
<1> QED BY <1>6, <1>7

-----------------------------------------------------------------------------
(* Bits *)

(* The widths, and the words a byte is one of. *)
LEMMA BitWidths ==
  /\ WordBits \in Nat /\ ByteBits \in Nat /\ ByteBits >= 1 /\ WordBits >= 1
  /\ ByteBits <= WordBits
  /\ Poly \in Words /\ WordBits - 1 \in Poly
  /\ Byte \subseteq Words /\ AllOnes \in Words
<1>1. WordBits \in Nat /\ ByteBits \in Nat /\ ByteBits >= 1 /\ WordBits >= 1
  BY CrcAssumption
<1>2. ByteBits <= WordBits
  BY <1>1, CrcAssumption
<1> QED BY <1>1, <1>2, CrcAssumption DEF Words, AllOnes, Byte

(* The operators of C on the bits of words. *)
LEMMA XorBits ==
  ASSUME NEW v \in Words, NEW w \in Words
  PROVE  /\ Xor(v, w) \in Words
         /\ \A x : x \in Xor(v, w) <=> (x \in v <=> x \notin w)
BY DEF Xor, Words

(* The same for >> *)
LEMMA ShrBits ==
  ASSUME NEW w \in Words, NEW n \in Nat
  PROVE  /\ Shr(w, n) \in Words
         /\ \A x : x \in Shr(w, n) <=> x \in Nat /\ x + n \in w
<1>1. \A x \in w : x \in Nat /\ x <= WordBits - 1
  BY BitWidths DEF Words, AllOnes
<1>2. \A x : x \in Shr(w, n) <=> \E y \in w : y >= n /\ x = y - n
  BY DEF Shr
<1>3. ASSUME NEW x
      PROVE  x \in Shr(w, n) <=> x \in Nat /\ x + n \in w
  <2>1. ASSUME x \in Shr(w, n)
        PROVE  x \in Nat /\ x + n \in w
    <3>1. PICK y \in w : y >= n /\ x = y - n
      BY <1>2, <2>1
    <3>2. y \in Nat
      BY <1>1
    <3>3. x \in Nat /\ x + n = y
      BY <3>1, <3>2
    <3> QED BY <3>3
  <2>2. ASSUME x \in Nat, x + n \in w
        PROVE  x \in Shr(w, n)
    <3>1. x + n >= n /\ x = (x + n) - n
      BY <2>2
    <3> QED BY <1>2, <2>2, <3>1
  <2> QED BY <2>1, <2>2
<1>4. ASSUME NEW x \in Shr(w, n)
      PROVE  x \in AllOnes
  <2>1. x \in Nat /\ x + n \in Nat /\ x + n <= WordBits - 1
    BY <1>1, <1>3
  <2> QED BY <2>1, BitWidths DEF AllOnes
<1> QED BY <1>3, <1>4 DEF Words

(* A bit after a round. *)
LEMMA DivideBits ==
  ASSUME NEW w \in Words
  PROVE  /\ DivideBit(w) \in Words
         /\ \A x \in Nat : x \in DivideBit(w) <=>
              (x + 1 \in w <=> ~(0 \in w /\ x \in Poly))
<1>1. /\ Shr(w, 1) \in Words
      /\ \A x : x \in Shr(w, 1) <=> x \in Nat /\ x + 1 \in w
  BY ShrBits
<1>2. /\ Xor(Poly, Shr(w, 1)) \in Words
      /\ \A x : x \in Xor(Poly, Shr(w, 1)) <=> (x \in Poly <=> x \notin Shr(w, 1))
  BY <1>1, BitWidths, XorBits
<1> QED BY <1>1, <1>2 DEF DivideBit

(* Words are equal if their bits are. *)
LEMMA SameBits ==
  ASSUME NEW v \in Words, NEW w \in Words, \A x \in Nat : x \in v <=> x \in w
  PROVE  v = w
<1>1. \A x \in v \cup w : x \in Nat
  BY BitWidths DEF Words, AllOnes
<1> QED BY <1>1

-----------------------------------------------------------------------------
(* The table *)

(* The inner loop of make_crc_table. *)
LEMMA RoundsStep ==
  ASSUME NEW w \in Words
  PROVE  /\ Rounds(w)[0] = w
         /\ \A k \in 1 .. ByteBits : Rounds(w)[k] = DivideBit(Rounds(w)[k - 1])
         /\ \A k \in 0 .. ByteBits : Rounds(w)[k] \in Words
<1> DEFINE F == [p \in (1 .. ByteBits) \X Words |-> DivideBit(p[2])]
<1>1. F \in [(1 .. ByteBits) \X Words -> Words]
  BY DivideBits
<1>2. \A k \in 1 .. ByteBits, v \in Words : F[<<k, v>>] = DivideBit(v)
  OBVIOUS
<1> HIDE DEF F
<1>3. PICK t : Solves(t, F, ByteBits, Words, w)
  <2>1. ByteBits \in Nat
    BY BitWidths
  <2> QED BY <1>1, <2>1, RecursionSolved, Zenon
<1>4. \A k \in 1 .. ByteBits : k - 1 \in 0 .. ByteBits
  BY BitWidths
<1>5. /\ t \in [0 .. ByteBits -> Words] /\ t[0] = w
      /\ \A k \in 1 .. ByteBits : t[k] = DivideBit(t[k - 1])
  BY <1>2, <1>3, <1>4 DEF Solves
<1>6. t = [k \in 0 .. ByteBits |-> IF k = 0 THEN w ELSE DivideBit(t[k - 1])]
  <2>1. \A k \in 0 .. ByteBits : k = 0 \/ k \in 1 .. ByteBits
    BY BitWidths
  <2>2. \A k \in 0 .. ByteBits : t[k] = IF k = 0 THEN w ELSE DivideBit(t[k - 1])
    BY <1>5, <2>1
  <2> QED BY <1>5, <2>2
<1>7. Rounds(w) = CHOOSE c : c = [k \in 0 .. ByteBits |->
                                    IF k = 0 THEN w ELSE DivideBit(c[k - 1])]
  BY DEF Rounds
<1>8. Rounds(w) = [k \in 0 .. ByteBits |->
                     IF k = 0 THEN w ELSE DivideBit(Rounds(w)[k - 1])]
  BY <1>6, <1>7, Zenon
<1>9. PICK r : r = Rounds(w)
  OBVIOUS
<1>10. r = [k \in 0 .. ByteBits |-> IF k = 0 THEN w ELSE DivideBit(r[k - 1])]
  BY <1>8, <1>9
<1>11. r[0] = w /\ \A k \in 1 .. ByteBits : r[k] = DivideBit(r[k - 1])
  <2>1. 0 \in 0 .. ByteBits /\ \A k \in 1 .. ByteBits : k \in 0 .. ByteBits /\ k # 0
    BY BitWidths
  <2>2. \A k \in 0 .. ByteBits : r[k] = IF k = 0 THEN w ELSE DivideBit(r[k - 1])
    BY <1>10
  <2> QED BY <2>1, <2>2
<1>12. \A k \in 0 .. ByteBits : r[k] \in Words
  <2> DEFINE T == {k \in 0 .. ByteBits : r[k] \notin Words}
  <2> SUFFICES ASSUME T # {} PROVE FALSE
    OBVIOUS
  <2>1. T \subseteq Nat
    OBVIOUS
  <2>2. PICK k \in T : \A x \in T : k <= x
    BY <2>1, LeastNumber
  <2>3. k \in 0 .. ByteBits /\ k \in Nat /\ r[k] \notin Words
    OBVIOUS
  <2>4. k # 0
    BY <1>11, <2>3
  <2>5. k \in 1 .. ByteBits /\ k - 1 \in 0 .. ByteBits /\ ~(k <= k - 1)
    BY BitWidths, <2>3, <2>4
  <2>6. k - 1 \notin T
    BY <2>2, <2>5
  <2>7. r[k - 1] \in Words
    BY <2>5, <2>6
  <2> QED BY <1>11, <2>3, <2>5, <2>7, DivideBits
<1> QED BY <1>9, <1>11, <1>12

(* Rounds are linear. *)
LEMMA DivideLinear ==
  ASSUME NEW v \in Words, NEW w \in Words
  PROVE  DivideBit(Xor(v, w)) = Xor(DivideBit(v), DivideBit(w))
<1> DEFINE x == Xor(v, w)
<1>1. x \in Words /\ \A b : b \in x <=> (b \in v <=> b \notin w)
  BY XorBits
<1> HIDE DEF x
<1>2. /\ DivideBit(x) \in Words
      /\ \A b \in Nat : b \in DivideBit(x) <=> (b + 1 \in x <=> ~(0 \in x /\ b \in Poly))
  BY <1>1, DivideBits
<1>3. /\ DivideBit(v) \in Words
      /\ \A b \in Nat : b \in DivideBit(v) <=> (b + 1 \in v <=> ~(0 \in v /\ b \in Poly))
  BY DivideBits
<1>4. /\ DivideBit(w) \in Words
      /\ \A b \in Nat : b \in DivideBit(w) <=> (b + 1 \in w <=> ~(0 \in w /\ b \in Poly))
  BY DivideBits
<1>5. /\ Xor(DivideBit(v), DivideBit(w)) \in Words
      /\ \A b : b \in Xor(DivideBit(v), DivideBit(w)) <=>
                  (b \in DivideBit(v) <=> b \notin DivideBit(w))
  BY <1>3, <1>4, XorBits
<1>6. ASSUME NEW b \in Nat
      PROVE  b \in DivideBit(x) <=> b \in Xor(DivideBit(v), DivideBit(w))
  BY <1>1, <1>2, <1>3, <1>4, <1>5
<1>7. DivideBit(x) = Xor(DivideBit(v), DivideBit(w))
  BY <1>2, <1>5, <1>6, SameBits
<1> QED BY <1>7 DEF x

(* And so are several. *)
LEMMA RoundsLinear ==
  ASSUME NEW v \in Words, NEW w \in Words, NEW k \in 0 .. ByteBits
  PROVE  Rounds(Xor(v, w))[k] = Xor(Rounds(v)[k], Rounds(w)[k])
<1>1. Xor(v, w) \in Words
  BY XorBits
<1> DEFINE T == {n \in 0 .. ByteBits : Rounds(Xor(v, w))[n] # Xor(Rounds(v)[n], Rounds(w)[n])}
<1> SUFFICES ASSUME T # {} PROVE FALSE
  OBVIOUS
<1>2. T \subseteq Nat
  OBVIOUS
<1>3. PICK n \in T : \A x \in T : n <= x
  BY <1>2, LeastNumber
<1>4. n \in 0 .. ByteBits /\ n \in Nat /\ Rounds(Xor(v, w))[n] # Xor(Rounds(v)[n], Rounds(w)[n])
  OBVIOUS
<1>5. n # 0
  BY <1>1, <1>4, RoundsStep
<1>6. n \in 1 .. ByteBits /\ n - 1 \in 0 .. ByteBits /\ ~(n <= n - 1)
  BY BitWidths, <1>4, <1>5
<1>7. n - 1 \notin T
  BY <1>3, <1>6
<1>8. Rounds(Xor(v, w))[n - 1] = Xor(Rounds(v)[n - 1], Rounds(w)[n - 1])
  BY <1>6, <1>7
<1>9. Rounds(v)[n - 1] \in Words /\ Rounds(w)[n - 1] \in Words
  BY <1>6, RoundsStep
<1>10. DivideBit(Rounds(Xor(v, w))[n - 1])
         = Xor(DivideBit(Rounds(v)[n - 1]), DivideBit(Rounds(w)[n - 1]))
  BY <1>8, <1>9, DivideLinear
<1>11. Rounds(Xor(v, w))[n] = DivideBit(Rounds(Xor(v, w))[n - 1])
  BY <1>1, <1>6, RoundsStep
<1>12. Rounds(v)[n] = DivideBit(Rounds(v)[n - 1]) /\ Rounds(w)[n] = DivideBit(Rounds(w)[n - 1])
  BY <1>6, RoundsStep
<1> QED BY <1>4, <1>10, <1>11, <1>12

(* Without low bits nothing is subtracted. *)
LEMMA RoundsShift ==
  ASSUME NEW w \in Words, \A b \in w : b >= ByteBits, NEW k \in 0 .. ByteBits
  PROVE  Rounds(w)[k] = Shr(w, k)
<1> DEFINE T == {n \in 0 .. ByteBits : Rounds(w)[n] # Shr(w, n)}
<1> SUFFICES ASSUME T # {} PROVE FALSE
  OBVIOUS
<1>1. T \subseteq Nat
  OBVIOUS
<1>2. PICK n \in T : \A x \in T : n <= x
  BY <1>1, LeastNumber
<1>3. n \in 0 .. ByteBits /\ n \in Nat /\ Rounds(w)[n] # Shr(w, n)
  OBVIOUS
<1>4. n # 0
  <2>1. \A x : x \in Shr(w, 0) <=> x \in Nat /\ x + 0 \in w
    BY ShrBits
  <2>2. Shr(w, 0) \in Words
    BY ShrBits
  <2>3. Shr(w, 0) = w
    BY <2>1, <2>2, SameBits
  <2> QED BY <1>3, <2>3, RoundsStep
<1>5. n \in 1 .. ByteBits /\ n - 1 \in 0 .. ByteBits /\ n - 1 \in Nat /\ ~(n <= n - 1)
  BY BitWidths, <1>3, <1>4
<1>6. n - 1 \notin T
  BY <1>2, <1>5
<1>7. Rounds(w)[n - 1] = Shr(w, n - 1)
  BY <1>5, <1>6
<1>8. /\ Shr(w, n - 1) \in Words
      /\ \A x : x \in Shr(w, n - 1) <=> x \in Nat /\ x + (n - 1) \in w
  BY <1>5, ShrBits
<1>9. /\ Shr(w, n) \in Words
      /\ \A x : x \in Shr(w, n) <=> x \in Nat /\ x + n \in w
  BY <1>3, ShrBits
<1>10. 0 \notin Shr(w, n - 1)
  <2>1. n - 1 < ByteBits
    BY BitWidths, <1>5
  <2>2. n - 1 \notin w
    BY BitWidths, <1>5, <2>1
  <2> QED BY <1>5, <1>8, <2>2
<1>11. /\ DivideBit(Shr(w, n - 1)) \in Words
       /\ \A x \in Nat : x \in DivideBit(Shr(w, n - 1)) <=> x + 1 \in Shr(w, n - 1)
  BY <1>8, <1>10, DivideBits
<1>12. ASSUME NEW x \in Nat
       PROVE  x \in DivideBit(Shr(w, n - 1)) <=> x \in Shr(w, n)
  <2>1. x + 1 \in Nat /\ (x + 1) + (n - 1) = x + n
    BY <1>5
  <2> QED BY <1>8, <1>9, <1>11, <2>1
<1>13. DivideBit(Shr(w, n - 1)) = Shr(w, n)
  BY <1>9, <1>11, <1>12, SameBits
<1> QED BY <1>3, <1>5, <1>7, <1>13, RoundsStep

(* A round can be undone. *)
LEMMA DivideInjective ==
  ASSUME NEW v \in Words, NEW w \in Words, DivideBit(v) = DivideBit(w)
  PROVE  v = w
<1>1. \A b \in Nat : b \in DivideBit(v) <=> (b + 1 \in v <=> ~(0 \in v /\ b \in Poly))
  BY DivideBits
<1>2. \A b \in Nat : b \in DivideBit(w) <=> (b + 1 \in w <=> ~(0 \in w /\ b \in Poly))
  BY DivideBits
<1>3. 0 \in v <=> 0 \in w
  <2>1. WordBits - 1 \in Nat /\ (WordBits - 1) + 1 = WordBits /\ WordBits - 1 \in Poly
    BY BitWidths
  <2>2. WordBits \notin v /\ WordBits \notin w
    BY BitWidths DEF Words, AllOnes
  <2> QED BY <1>1, <1>2, <2>1, <2>2
<1>4. ASSUME NEW b \in Nat
      PROVE  b \in v <=> b \in w
  <2>1. CASE b = 0
    BY <1>3, <2>1
  <2>2. CASE b # 0
    <3>1. PICK a \in Nat : b = a + 1
      BY <2>2
    <3> QED BY <1>1, <1>2, <1>3, <3>1
  <2> QED BY <2>1, <2>2
<1> QED BY <1>4, SameBits

(* And so can several. *)
LEMMA RoundsInjective ==
  ASSUME NEW v \in Words, NEW w \in Words, Rounds(v)[ByteBits] = Rounds(w)[ByteBits]
  PROVE  v = w
<1> DEFINE T == {n \in 0 .. ByteBits : Rounds(v)[n] = Rounds(w)[n]}
<1>1. T \subseteq Nat /\ ByteBits \in T
  BY BitWidths
<1>2. PICK n \in T : \A x \in T : n <= x
  BY <1>1, LeastNumber
<1>3. n \in 0 .. ByteBits /\ n \in Nat /\ Rounds(v)[n] = Rounds(w)[n]
  OBVIOUS
<1>4. CASE n = 0
  BY <1>3, <1>4, RoundsStep
<1>5. CASE n # 0
  <2>1. n \in 1 .. ByteBits /\ n - 1 \in 0 .. ByteBits /\ ~(n <= n - 1)
    BY BitWidths, <1>3, <1>5
  <2>2. DivideBit(Rounds(v)[n - 1]) = DivideBit(Rounds(w)[n - 1])
    BY <1>3, <2>1, RoundsStep
  <2>3. Rounds(v)[n - 1] \in Words /\ Rounds(w)[n - 1] \in Words
    BY <2>1, RoundsStep
  <2>4. Rounds(v)[n - 1] = Rounds(w)[n - 1]
    BY <2>2, <2>3, DivideInjective
  <2>5. n - 1 \in T
    BY <2>1, <2>4
  <2> QED BY <1>2, <2>1, <2>5
<1> QED BY <1>4, <1>5

-----------------------------------------------------------------------------
(* The loop *)

(* The table does all rounds of a byte at once. *)
LEMMA StepIsRounds ==
  ASSUME NEW c \in Words, NEW b \in Byte
  PROVE  /\ Xor(c, b) \in Words
         /\ TableStep[<<c, b>>] = Rounds(Xor(c, b))[ByteBits]
         /\ TableStep[<<c, b>>] \in Words
<1> DEFINE x == Xor(c, b)
           low == LowByte(x)
           high == x \ low
<1>1. b \in Words /\ ByteBits \in Nat /\ ByteBits \in 0 .. ByteBits
  BY BitWidths
<1>2. x \in Words /\ \A y : y \in x <=> (y \in c <=> y \notin b)
  BY <1>1, XorBits
<1> HIDE DEF x
<1>3. \A y \in x \cup c : y \in Nat
  BY <1>2, BitWidths DEF Words, AllOnes
<1>4. low \in Words /\ high \in Words /\ low \in Byte
  <2>1. low \subseteq x /\ high \subseteq x
    BY DEF LowByte
  <2>2. \A y \in low : y \in 0 .. ByteBits - 1
    BY <1>1, <1>3 DEF LowByte
  <2> QED BY <1>2, <2>1, <2>2 DEF Words, Byte
<1>5. \A y \in high : y >= ByteBits
  BY <1>1, <1>3 DEF LowByte
<1>6. x = Xor(low, high)
  BY DEF Xor, LowByte
<1>7. Shr(high, ByteBits) = Shr(c, ByteBits)
  <2>1. /\ Shr(high, ByteBits) \in Words
        /\ \A y : y \in Shr(high, ByteBits) <=> y \in Nat /\ y + ByteBits \in high
    BY <1>1, <1>4, ShrBits
  <2>2. /\ Shr(c, ByteBits) \in Words
        /\ \A y : y \in Shr(c, ByteBits) <=> y \in Nat /\ y + ByteBits \in c
    BY <1>1, ShrBits
  <2>3. ASSUME NEW y \in Nat
        PROVE  y + ByteBits \in high <=> y + ByteBits \in c
    <3>1. ~(y + ByteBits < ByteBits) /\ y + ByteBits \notin b
      BY <1>1 DEF Byte
    <3> QED BY <1>2, <3>1 DEF LowByte
  <2> QED BY <2>1, <2>2, <2>3, SameBits
<1> HIDE DEF low, high
<1>8. Rounds(x)[ByteBits] = Xor(Rounds(low)[ByteBits], Rounds(high)[ByteBits])
  BY <1>1, <1>4, <1>6, RoundsLinear
<1>9. Rounds(high)[ByteBits] = Shr(c, ByteBits)
  BY <1>1, <1>4, <1>5, <1>7, RoundsShift
<1>10. crc_table[low] = Rounds(low)[ByteBits]
  BY <1>4 DEF crc_table
<1>11. TableStep[<<c, b>>] = Xor(crc_table[low], Shr(c, ByteBits))
  <2>1. <<c, b>> \in Words \X Byte
    OBVIOUS
  <2> QED BY <2>1 DEF TableStep, low, x
<1>12. TableStep[<<c, b>>] = Rounds(x)[ByteBits]
  BY <1>8, <1>9, <1>10, <1>11
<1>13. Rounds(x)[ByteBits] \in Words
  BY <1>1, <1>2, RoundsStep
<1> QED BY <1>2, <1>12, <1>13 DEF x

(* A step with a known byte, or from a known word, can be undone. *)
LEMMA StepInjective ==
  ASSUME NEW c \in Words, NEW d \in Words, NEW a \in Byte, NEW b \in Byte,
         TableStep[<<c, a>>] = TableStep[<<d, b>>]
  PROVE  (c = d => a = b) /\ (a = b => c = d)
<1>1. Xor(c, a) = Xor(d, b)
  BY StepIsRounds, RoundsInjective
<1>2. \A x : x \in Xor(c, a) <=> (x \in c <=> x \notin a)
  BY DEF Xor
<1>3. \A x : x \in Xor(d, b) <=> (x \in d <=> x \notin b)
  BY DEF Xor
<1>4. c = d => a = b
  BY <1>1, <1>2, <1>3
<1>5. a = b => c = d
  BY <1>1, <1>2, <1>3
<1> QED BY <1>4, <1>5

(* The loop of update_crc. *)
LEMMA StatesStep ==
  ASSUME NEW buf \in Seq(Byte), NEW w \in Words
  PROVE  /\ States(w, buf)[0] = w
         /\ \A n \in 1 .. Len(buf) : States(w, buf)[n] = TableStep[<<States(w, buf)[n - 1], buf[n]>>]
         /\ \A n \in 0 .. Len(buf) : States(w, buf)[n] \in Words
<1>1. Len(buf) \in Nat /\ \A n \in 1 .. Len(buf) : buf[n] \in Byte
  BY LenProperties, ElementOfSeq
<1> DEFINE N == Len(buf)
           F == [p \in (1 .. N) \X Words |-> TableStep[<<p[2], buf[p[1]]>>]]
<1>2. F \in [(1 .. N) \X Words -> Words]
  BY <1>1, StepIsRounds
<1>3. \A n \in 1 .. N, v \in Words : F[<<n, v>>] = TableStep[<<v, buf[n]>>]
  OBVIOUS
<1> HIDE DEF F
<1>4. PICK t : Solves(t, F, N, Words, w)
  <2>1. N \in Nat
    BY <1>1
  <2> HIDE DEF N
  <2> QED BY <1>2, <2>1, RecursionSolved, Zenon
<1>5. /\ t \in [0 .. N -> Words] /\ t[0] = w
      /\ \A n \in 1 .. N : n - 1 \in 0 .. N
      /\ \A n \in 1 .. N : t[n] = F[<<n, t[n - 1]>>]
  BY <1>1, <1>4 DEF Solves
<1>6. \A n \in 1 .. N : t[n] = TableStep[<<t[n - 1], buf[n]>>]
  BY <1>3, <1>5
<1>7. t = [n \in 0 .. N |-> IF n = 0 THEN w ELSE TableStep[<<t[n - 1], buf[n]>>]]
  <2>1. \A n \in 0 .. N : n = 0 \/ n \in 1 .. N
    BY <1>1
  <2>2. \A n \in 0 .. N : t[n] = IF n = 0 THEN w ELSE TableStep[<<t[n - 1], buf[n]>>]
    BY <1>5, <1>6, <2>1
  <2> QED BY <1>5, <2>2
<1>8. States(w, buf) = CHOOSE c : c = [n \in 0 .. N |->
                         IF n = 0 THEN w ELSE TableStep[<<c[n - 1], buf[n]>>]]
  BY DEF States
<1>9. States(w, buf) = [n \in 0 .. N |->
                         IF n = 0 THEN w ELSE TableStep[<<States(w, buf)[n - 1], buf[n]>>]]
  BY <1>7, <1>8, Zenon
<1>10. PICK r : r = States(w, buf)
  OBVIOUS
<1>11. r = [n \in 0 .. N |-> IF n = 0 THEN w ELSE TableStep[<<r[n - 1], buf[n]>>]]
  BY <1>9, <1>10
<1>12. r[0] = w /\ \A n \in 1 .. N : r[n] = TableStep[<<r[n - 1], buf[n]>>]
  <2>1. 0 \in 0 .. N /\ \A n \in 1 .. N : n \in 0 .. N /\ n # 0
    BY <1>1
  <2>2. \A n \in 0 .. N : r[n] = IF n = 0 THEN w ELSE TableStep[<<r[n - 1], buf[n]>>]
    BY <1>11
  <2> QED BY <2>1, <2>2
<1>13. \A n \in 0 .. N : r[n] \in Words
  <2> DEFINE T == {n \in 0 .. N : r[n] \notin Words}
  <2> SUFFICES ASSUME T # {} PROVE FALSE
    OBVIOUS
  <2>1. T \subseteq Nat
    OBVIOUS
  <2>2. PICK n \in T : \A x \in T : n <= x
    BY <2>1, LeastNumber
  <2>3. n \in 0 .. N /\ n \in Nat /\ r[n] \notin Words
    OBVIOUS
  <2>4. n # 0
    BY <1>12, <2>3
  <2>5. n \in 1 .. N /\ n - 1 \in 0 .. N /\ ~(n <= n - 1)
    BY <1>1, <2>3, <2>4
  <2>6. n - 1 \notin T
    BY <2>2, <2>5
  <2>7. r[n - 1] \in Words /\ buf[n] \in Byte
    BY <1>1, <2>5, <2>6
  <2> QED BY <1>12, <2>3, <2>5, <2>7, StepIsRounds
<1> QED BY <1>10, <1>12, <1>13

(* Messages that are the same up to some byte lead to the same word. *)
LEMMA SameStates ==
  ASSUME NEW f \in Seq(Byte), NEW g \in Seq(Byte), NEW w \in Words,
         NEW p \in 0 .. Len(f), p <= Len(g), \A q \in 1 .. p : f[q] = g[q]
  PROVE  States(w, f)[p] = States(w, g)[p]
<1>1. Len(f) \in Nat /\ Len(g) \in Nat
  BY LenProperties
<1> DEFINE T == {n \in 0 .. p : States(w, f)[n] # States(w, g)[n]}
<1> SUFFICES ASSUME T # {} PROVE FALSE
  BY <1>1
<1>2. T \subseteq Nat
  OBVIOUS
<1>3. PICK n \in T : \A x \in T : n <= x
  BY <1>2, LeastNumber
<1>4. n \in 0 .. p /\ n \in Nat /\ States(w, f)[n] # States(w, g)[n]
  OBVIOUS
<1>5. n # 0
  BY <1>4, StatesStep
<1>6. n \in 1 .. p /\ n - 1 \in 0 .. p /\ ~(n <= n - 1) /\ n \in 1 .. Len(f) /\ n \in 1 .. Len(g)
  BY <1>1, <1>4, <1>5
<1>7. n - 1 \notin T
  BY <1>3, <1>6
<1>8. States(w, f)[n - 1] = States(w, g)[n - 1]
  BY <1>6, <1>7
<1>9. f[n] = g[n]
  BY <1>6
<1>10. States(w, f)[n] = TableStep[<<States(w, f)[n - 1], f[n]>>]
  BY <1>6, StatesStep
<1>11. States(w, g)[n] = TableStep[<<States(w, g)[n - 1], g[n]>>]
  BY <1>6, StatesStep
<1> QED BY <1>4, <1>8, <1>9, <1>10, <1>11

(* Once the words differ, equal bytes do not make them equal. *)
LEMMA OtherStates ==
  ASSUME NEW f \in Seq(Byte), NEW g \in Seq(Byte), NEW w \in Words, Len(f) = Len(g),
         NEW p \in 0 .. Len(f), States(w, f)[p] # States(w, g)[p],
         \A q \in 1 .. Len(f) : q > p => f[q] = g[q]
  PROVE  States(w, f)[Len(f)] # States(w, g)[Len(f)]
<1>1. Len(f) \in Nat /\ p \in Nat
  BY LenProperties
<1> DEFINE T == {n \in 0 .. Len(f) : n >= p /\ States(w, f)[n] = States(w, g)[n]}
<1> SUFFICES ASSUME T # {} PROVE FALSE
  BY <1>1
<1>2. T \subseteq Nat
  OBVIOUS
<1>3. PICK n \in T : \A x \in T : n <= x
  BY <1>2, LeastNumber
<1>4. n \in 0 .. Len(f) /\ n \in Nat /\ n >= p /\ States(w, f)[n] = States(w, g)[n]
  OBVIOUS
<1>5. n # p
  BY <1>4
<1>6. n \in 1 .. Len(f) /\ n - 1 \in 0 .. Len(f) /\ ~(n <= n - 1) /\ n - 1 >= p /\ n > p
  BY <1>1, <1>4, <1>5
<1>7. n - 1 \notin T
  BY <1>3, <1>6
<1>8. States(w, f)[n - 1] # States(w, g)[n - 1]
  BY <1>6, <1>7
<1>9. f[n] \in Byte /\ g[n] \in Byte /\ f[n] = g[n]
  BY <1>6, ElementOfSeq
<1>10. States(w, f)[n - 1] \in Words /\ States(w, g)[n - 1] \in Words
  BY <1>6, StatesStep
<1>11. TableStep[<<States(w, f)[n - 1], f[n]>>] = TableStep[<<States(w, g)[n - 1], g[n]>>]
  BY <1>4, <1>6, StatesStep
<1> QED BY <1>8, <1>9, <1>10, <1>11, StepInjective

(* crc returns a word. *)
THEOREM CrcTyped ==
  ASSUME NEW buf \in Seq(Byte)
  PROVE  crc(buf) \in Words
<1>1. Len(buf) \in 0 .. Len(buf)
  BY LenProperties
<1>2. update_crc(AllOnes, buf) \in Words
  BY <1>1, BitWidths, StatesStep DEF update_crc
<1> QED BY <1>2, BitWidths, XorBits DEF crc

(* A checksum made by crc.c tells any change of a single byte, wherever it *)
(* is in a message of any length, by any table built as make_crc_table     *)
(* builds it.                                                              *)
THEOREM OneByteSeen ==
  ASSUME NEW f \in Seq(Byte), NEW g \in Seq(Byte), Len(f) = Len(g),
         NEW p \in 1 .. Len(f), f[p] # g[p],
         \A q \in 1 .. Len(f) : q # p => f[q] = g[q]
  PROVE  crc(f) # crc(g)
<1>1. Len(f) \in Nat /\ p - 1 \in 0 .. Len(f) /\ p \in 0 .. Len(f) /\ AllOnes \in Words
      /\ p - 1 <= Len(g) /\ Len(f) \in 0 .. Len(f)
  BY LenProperties, BitWidths
<1>2. States(AllOnes, f)[p - 1] = States(AllOnes, g)[p - 1]
  <2>1. \A q \in 1 .. p - 1 : f[q] = g[q]
    BY <1>1
  <2> QED BY <1>1, <2>1, SameStates
<1>3. States(AllOnes, f)[p] # States(AllOnes, g)[p]
  <2>1. f[p] \in Byte /\ g[p] \in Byte
    BY ElementOfSeq
  <2>2. States(AllOnes, f)[p - 1] \in Words /\ States(AllOnes, g)[p - 1] \in Words
    BY <1>1, StatesStep
  <2>3. /\ States(AllOnes, f)[p] = TableStep[<<States(AllOnes, f)[p - 1], f[p]>>]
        /\ States(AllOnes, g)[p] = TableStep[<<States(AllOnes, g)[p - 1], g[p]>>]
    BY <1>1, StatesStep
  <2> QED BY <1>2, <2>1, <2>2, <2>3, StepInjective
<1>4. States(AllOnes, f)[Len(f)] # States(AllOnes, g)[Len(f)]
  <2>1. \A q \in 1 .. Len(f) : q > p => f[q] = g[q]
    BY <1>1
  <2> QED BY <1>1, <1>3, <2>1, OtherStates
<1>5. \A v, w : Xor(v, AllOnes) = Xor(w, AllOnes) => v = w
  BY DEF Xor
<1> QED BY <1>4, <1>5 DEF crc, update_crc

-----------------------------------------------------------------------------
(* The division *)

(* The polynomial of a word, multiplied by x^s: bit 0 is its highest       *)
(* coefficient.                                                            *)
Up(w, s) == {s + WordBits - 1 - b : b \in w}

(* The part of the message from byte m + 1 on. *)
After(buf, m) == {x \in Message(buf) : x < (Len(buf) - m) * ByteBits + WordBits}

(* A coefficient of a word. *)
LEMMA UpBits ==
  ASSUME NEW w \in Words, NEW s \in Nat
  PROVE  /\ Up(w, s) \subseteq Nat
         /\ \A x \in Nat : x \in Up(w, s) <=> x <= s + WordBits - 1 /\ s + WordBits - 1 - x \in w
<1>1. \A b \in w : b \in Nat /\ b <= WordBits - 1
  BY BitWidths DEF Words, AllOnes
<1>2. \A x : x \in Up(w, s) <=> \E b \in w : x = s + WordBits - 1 - b
  BY DEF Up
<1>3. Up(w, s) \subseteq Nat
  BY <1>1, <1>2, BitWidths
<1>4. ASSUME NEW x \in Nat, x \in Up(w, s)
      PROVE  x <= s + WordBits - 1 /\ s + WordBits - 1 - x \in w
  <2>1. PICK b \in w : x = s + WordBits - 1 - b
    BY <1>2, <1>4
  <2>2. b = s + WordBits - 1 - x /\ x <= s + WordBits - 1
    BY <1>1, <2>1, BitWidths
  <2> QED BY <2>2
<1>5. ASSUME NEW x \in Nat, s + WordBits - 1 - x \in w
      PROVE  x \in Up(w, s)
  <2>1. x = s + WordBits - 1 - (s + WordBits - 1 - x)
    BY BitWidths
  <2> QED BY <1>2, <1>5, <2>1
<1> QED BY <1>3, <1>4, <1>5

(* A step of the division does to the polynomial what a round does to the  *)
(* word, whatever is left of the message.                                  *)
LEMMA TakeAwayIsRound ==
  ASSUME NEW c \in Words, NEW s \in Nat, s >= 1, NEW T, T \subseteq Nat,
         \A x \in T : x < s + WordBits - 1
  PROVE  TakeAway(Xor(Up(c, s), T), s + WordBits - 1) = Xor(Up(DivideBit(c), s - 1), T)
<1> DEFINE e == s + WordBits - 1
           p == Xor(Up(c, s), T)
           away == {x + (e - WordBits) : x \in Divisor}
           q == Xor(Up(DivideBit(c), s - 1), T)
<1>1. e \in Nat /\ s - 1 \in Nat /\ WordBits \in Nat /\ e - WordBits = s - 1
      /\ (s - 1) + WordBits - 1 = e - 1
  BY BitWidths
<1>2. Up(c, s) \subseteq Nat /\ \A x \in Nat : x \in Up(c, s) <=> x <= e /\ e - x \in c
  <2>1. /\ Up(c, s) \subseteq Nat
        /\ \A x \in Nat : x \in Up(c, s) <=> x <= s + WordBits - 1 /\ s + WordBits - 1 - x \in c
    BY UpBits
  <2>2. \A x \in Nat : e - x = s + WordBits - 1 - x
    BY BitWidths
  <2> QED BY <2>1, <2>2
<1>3. /\ DivideBit(c) \in Words
      /\ \A x \in Nat : x \in DivideBit(c) <=> (x + 1 \in c <=> ~(0 \in c /\ x \in Poly))
  BY DivideBits
<1>4. /\ Up(DivideBit(c), s - 1) \subseteq Nat
      /\ \A x \in Nat : x \in Up(DivideBit(c), s - 1) <=> x <= e - 1 /\ e - 1 - x \in DivideBit(c)
  BY <1>1, <1>3, UpBits
<1>5. /\ Up(Poly, s - 1) \subseteq Nat
      /\ \A x \in Nat : x \in Up(Poly, s - 1) <=> x <= e - 1 /\ e - 1 - x \in Poly
  BY <1>1, BitWidths, UpBits
<1>6. away = {e} \cup Up(Poly, s - 1)
  <2>1. \A b \in Poly : b \in Nat
    BY BitWidths DEF Words, AllOnes
  <2>2. WordBits + (e - WordBits) = e
    BY <1>1
  <2>3. \A b \in Poly : (WordBits - 1 - b) + (e - WordBits) = (s - 1) + WordBits - 1 - b
    BY <1>1, <2>1
  <2>4. away = {WordBits + (e - WordBits)} \cup {(WordBits - 1 - b) + (e - WordBits) : b \in Poly}
    BY DEF Divisor
  <2>5. {(WordBits - 1 - b) + (e - WordBits) : b \in Poly} = Up(Poly, s - 1)
    BY <2>3 DEF Up
  <2> QED BY <2>2, <2>4, <2>5
<1>7. \A x : x \in p <=> (x \in Up(c, s) <=> x \notin T)
  BY DEF Xor
<1>8. \A x : x \in q <=> (x \in Up(DivideBit(c), s - 1) <=> x \notin T)
  BY DEF Xor
<1>9. TakeAway(p, e) = IF e \in p THEN Xor(p, away) ELSE p
  BY DEF TakeAway
<1>10. \A x : x \in Xor(p, away) <=> (x \in p <=> x \notin away)
  BY DEF Xor
<1> HIDE DEF e, p, q, away
<1>11. e \notin T
  BY <1>1 DEF e
<1>12. e \in p <=> 0 \in c
  <2>1. e <= e /\ e - e = 0
    BY <1>1
  <2> QED BY <1>1, <1>2, <1>7, <1>11, <2>1
<1>13. p \subseteq Nat /\ q \subseteq Nat /\ away \subseteq Nat
  BY <1>1, <1>2, <1>4, <1>5, <1>6, <1>7, <1>8
<1>14. ASSUME NEW x \in Nat
       PROVE  x \in TakeAway(p, e) <=> x \in q
  <2>1. CASE x = e
    <3>1. ~(e <= e - 1)
      BY <1>1
    <3>2. e \notin q
      BY <1>1, <1>4, <1>8, <1>11, <3>1
    <3> QED BY <1>6, <1>9, <1>10, <2>1, <3>2
  <2>2. CASE x > e
    <3>1. ~(x <= e) /\ ~(x <= e - 1) /\ x # e
      BY <1>1, <2>2
    <3> QED BY <1>2, <1>4, <1>5, <1>6, <1>7, <1>8, <1>9, <1>10, <3>1
  <2>3. CASE x < e
    <3>1. x <= e /\ x <= e - 1 /\ x # e /\ e - 1 - x \in Nat /\ (e - 1 - x) + 1 = e - x
      BY <1>1, <2>3
    <3>2. x \in Up(DivideBit(c), s - 1) <=> (e - x \in c <=> ~(0 \in c /\ e - 1 - x \in Poly))
      BY <1>3, <1>4, <3>1
    <3>3. x \in away <=> e - 1 - x \in Poly
      BY <1>5, <1>6, <3>1
    <3>4. x \in p <=> (e - x \in c <=> x \notin T)
      BY <1>2, <1>7, <3>1
    <3> QED BY <1>8, <1>9, <1>10, <1>12, <3>2, <3>3, <3>4
  <2> QED BY <1>1, <2>1, <2>2, <2>3
<1>15. TakeAway(p, e) \subseteq Nat
  BY <1>9, <1>10, <1>13
<1>16. TakeAway(p, e) = q
  BY <1>13, <1>14, <1>15
<1> QED BY <1>16 DEF e, p, q

(* What is left after each of the n steps of the long division of p *)
IsDivided(r, p, n) ==
  /\ r[0] = p
  /\ \A k \in 1 .. n : r[k] = TakeAway(r[k - 1], n + WordBits - k)
  /\ Remainder(p, n + WordBits - 1) = r[n]

(* The long division of a message of n bits, step by step *)
LEMMA RestsStep ==
  ASSUME NEW p \in SUBSET Nat, NEW n \in Nat
  PROVE  \E r : IsDivided(r, p, n)
<1> DEFINE S == SUBSET Nat
           F == [a \in (1 .. n) \X S |-> TakeAway(a[2], n + WordBits - a[1])]
           d == n + WordBits - 1
<1>1. d \in Nat /\ d - WordBits + 1 = n /\ \A k \in 0 .. n : d + 1 - k = n + WordBits - k
  BY BitWidths
<1>2. F \in [(1 .. n) \X S -> S]
  <2> SUFFICES ASSUME NEW k \in 1 .. n, NEW v \in S
               PROVE  TakeAway(v, n + WordBits - k) \in S
    OBVIOUS
  <2>1. (n + WordBits - k) - WordBits \in Nat
    BY BitWidths
  <2>2. Divisor \subseteq Nat
    BY BitWidths DEF Divisor, Words, AllOnes
  <2>3. {x + ((n + WordBits - k) - WordBits) : x \in Divisor} \subseteq Nat
    BY <2>1, <2>2
  <2> QED BY <2>3 DEF TakeAway, Xor
<1>3. \A k \in 1 .. n, v \in S : F[<<k, v>>] = TakeAway(v, n + WordBits - k)
  OBVIOUS
<1> HIDE DEF F
<1>4. PICK t : Solves(t, F, n, S, p)
  <2>1. p \in S
    OBVIOUS
  <2> HIDE DEF S
  <2> QED BY <1>2, <2>1, RecursionSolved, Zenon
<1>5. /\ t \in [0 .. n -> S] /\ t[0] = p
      /\ \A k \in 1 .. n : t[k] = TakeAway(t[k - 1], n + WordBits - k)
  <2>1. \A k \in 1 .. n : k - 1 \in 0 .. n
    OBVIOUS
  <2> QED BY <1>3, <1>4, <2>1 DEF Solves
<1>6. t = [k \in 0 .. n |-> IF k = 0 THEN p ELSE TakeAway(t[k - 1], d + 1 - k)]
  <2>1. \A k \in 0 .. n : k = 0 \/ k \in 1 .. n
    OBVIOUS
  <2>2. \A k \in 0 .. n : t[k] = IF k = 0 THEN p ELSE TakeAway(t[k - 1], d + 1 - k)
    BY <1>1, <1>5, <2>1
  <2> QED BY <1>5, <2>2
<1> HIDE DEF d
<1>7. Rests(p, d) = CHOOSE r : r = [k \in 0 .. n |->
                      IF k = 0 THEN p ELSE TakeAway(r[k - 1], d + 1 - k)]
  BY <1>1 DEF Rests
<1>8. Rests(p, d) = [k \in 0 .. n |->
                      IF k = 0 THEN p ELSE TakeAway(Rests(p, d)[k - 1], d + 1 - k)]
  BY <1>6, <1>7, Zenon
<1>9. PICK r : r = Rests(p, d)
  OBVIOUS
<1>10. \A k \in 0 .. n : r[k] = IF k = 0 THEN p ELSE TakeAway(r[k - 1], d + 1 - k)
  BY <1>8, <1>9
<1>11. r[0] = p /\ \A k \in 1 .. n : r[k] = TakeAway(r[k - 1], n + WordBits - k)
  <2>1. 0 \in 0 .. n /\ \A k \in 1 .. n : k \in 0 .. n /\ k # 0
    OBVIOUS
  <2> QED BY <1>1, <1>10, <2>1
<1>12. Remainder(p, d) = r[n]
  BY <1>1, <1>9 DEF Remainder
<1> QED BY <1>11, <1>12 DEF d, IsDivided

(* Where the bits of a byte are in the message: bit i of byte m. *)
LEMMA MessageBits ==
  ASSUME NEW buf \in Seq(Byte)
  PROVE  /\ Message(buf) \subseteq Nat
         /\ \A x \in Message(buf) : WordBits <= x /\ x < Len(buf) * ByteBits + WordBits
         /\ \A m \in 1 .. Len(buf), i \in 0 .. ByteBits - 1 :
              (Len(buf) - m + 1) * ByteBits + WordBits - 1 - i \in Message(buf) <=> i \in buf[m]
<1> DEFINE n == Len(buf) * ByteBits
           J == {k \in 0 .. n - 1 : k % ByteBits \in buf[k \div ByteBits + 1]}
<1>1. Len(buf) \in Nat /\ n \in Nat /\ WordBits \in Nat /\ ByteBits \in Nat /\ ByteBits >= 1
  BY LenProperties, BitWidths
<1>2. \A x : x \in Message(buf) <=> \E j \in J : x = n + WordBits - 1 - j
  BY DEF Message
<1>3. \A j \in J : j \in 0 .. n - 1
  OBVIOUS
<1>4. ASSUME NEW m \in 1 .. Len(buf), NEW i \in 0 .. ByteBits - 1
      PROVE  (Len(buf) - m + 1) * ByteBits + WordBits - 1 - i \in Message(buf) <=> i \in buf[m]
  <2> DEFINE j == (m - 1) * ByteBits + i
             x == (Len(buf) - m + 1) * ByteBits + WordBits - 1 - i
  <2>1. PICK q \in Nat : q = m - 1 /\ q < Len(buf)
    BY <1>1
  <2>2. j % ByteBits = i /\ j \div ByteBits = q
    <3>1. j = q * ByteBits + i
      BY <2>1
    <3>2. (q * ByteBits + i) % ByteBits = i /\ (q * ByteBits + i) \div ByteBits = q
      BY <1>1
    <3> QED BY <3>1, <3>2
  <2>3. j \in 0 .. n - 1
    <3>1. (q + 1) * ByteBits <= Len(buf) * ByteBits
      BY <1>1, <2>1
    <3>2. (q + 1) * ByteBits = q * ByteBits + ByteBits /\ q * ByteBits \in Nat
      BY <1>1
    <3> QED BY <1>1, <2>1, <3>1, <3>2
  <2>4. j \in J <=> i \in buf[m]
    <3>1. q + 1 = m
      BY <2>1
    <3> QED BY <2>2, <2>3, <3>1
  <2>5. x = n + WordBits - 1 - j
    <3>1. (Len(buf) - m + 1) * ByteBits = Len(buf) * ByteBits - (m - 1) * ByteBits
      BY <1>1
    <3>2. (m - 1) * ByteBits \in Int /\ Len(buf) * ByteBits \in Int
      BY <1>1
    <3> QED BY <1>1, <3>1, <3>2
  <2> HIDE DEF J, n, j, x
  <2>6. x \in Message(buf) <=> j \in J
    <3>1. \A k \in J : x = n + WordBits - 1 - k => k = j
      BY <1>1, <1>3, <2>3, <2>5
    <3> QED BY <1>2, <2>5, <3>1
  <2> QED BY <2>4, <2>6 DEF x
<1> HIDE DEF J, n
<1>5. ASSUME NEW x \in Message(buf)
      PROVE  x \in Nat /\ WordBits <= x /\ x < n + WordBits
  <2>1. PICK j \in J : x = n + WordBits - 1 - j
    BY <1>2
  <2> QED BY <1>1, <1>3, <2>1
<1> QED BY <1>4, <1>5 DEF n

(* A byte of the message may be added to the word when its turn comes. *)
LEMMA ByteIntoWord ==
  ASSUME NEW buf \in Seq(Byte), NEW m \in 1 .. Len(buf), NEW c \in Words, NEW s,
         s = (Len(buf) - m + 1) * ByteBits
  PROVE  /\ s \in Nat /\ s >= ByteBits
         /\ (Len(buf) - m) * ByteBits = s - ByteBits
         /\ (Len(buf) - (m - 1)) * ByteBits = s
         /\ Xor(Up(c, s), After(buf, m - 1)) = Xor(Up(Xor(c, buf[m]), s), After(buf, m))
<1> DEFINE b == buf[m]
           x == Xor(c, b)
           M == Message(buf)
           p == Xor(Up(c, s), After(buf, m - 1))
           q == Xor(Up(x, s), After(buf, m))
<1>1. Len(buf) \in Nat /\ m \in Nat /\ WordBits \in Nat /\ ByteBits \in Nat /\ ByteBits >= 1
      /\ ByteBits <= WordBits
  BY LenProperties, BitWidths
<1>2. b \in Byte /\ b \in Words
  BY ElementOfSeq, BitWidths
<1>3. (Len(buf) - (m - 1)) * ByteBits = s /\ (Len(buf) - m) * ByteBits = s - ByteBits
  <2>1. Len(buf) - (m - 1) = Len(buf) - m + 1
    BY <1>1
  <2>2. PICK k \in Nat : k = Len(buf) - m
    BY <1>1
  <2>3. (k + 1) * ByteBits = k * ByteBits + ByteBits /\ k * ByteBits \in Nat
    BY <1>1
  <2> QED BY <1>1, <2>1, <2>2, <2>3
<1>4. s \in Nat /\ s >= ByteBits
  <2>1. PICK k \in Nat : k = Len(buf) - m
    BY <1>1
  <2>2. (k + 1) * ByteBits = k * ByteBits + ByteBits /\ k * ByteBits \in Nat
    BY <1>1
  <2> QED BY <1>1, <2>1, <2>2
<1>5. /\ M \subseteq Nat
      /\ \A i \in 0 .. ByteBits - 1 : s + WordBits - 1 - i \in M <=> i \in b
  BY MessageBits
<1>6. x \in Words /\ \A y : y \in x <=> (y \in c <=> y \notin b)
  BY <1>2, XorBits
<1>7. \A y : y \in p <=> (y \in Up(c, s) <=> ~(y \in M /\ y < s + WordBits))
  BY <1>3 DEF Xor, After
<1>8. \A y : y \in q <=> (y \in Up(x, s) <=> ~(y \in M /\ y < s - ByteBits + WordBits))
  BY <1>3 DEF Xor, After
<1>9. /\ Up(c, s) \subseteq Nat
      /\ \A y \in Nat : y \in Up(c, s) <=> y <= s + WordBits - 1 /\ s + WordBits - 1 - y \in c
  BY <1>4, UpBits
<1>10. /\ Up(x, s) \subseteq Nat
       /\ \A y \in Nat : y \in Up(x, s) <=> y <= s + WordBits - 1 /\ s + WordBits - 1 - y \in x
  BY <1>4, <1>6, UpBits
<1> HIDE DEF b, x, M, p, q
<1>11. p \subseteq Nat /\ q \subseteq Nat
  BY <1>5, <1>7, <1>8, <1>9, <1>10
<1>12. ASSUME NEW y \in Nat
       PROVE  y \in p <=> y \in q
  <2> DEFINE i == s + WordBits - 1 - y
  <2>1. CASE y > s + WordBits - 1
    <3>1. ~(y <= s + WordBits - 1) /\ ~(y < s + WordBits) /\ ~(y < s - ByteBits + WordBits)
      BY <1>1, <1>4, <2>1
    <3> QED BY <1>7, <1>8, <1>9, <1>10, <3>1
  <2>2. CASE y <= s + WordBits - 1 /\ y >= s - ByteBits + WordBits
    <3>1. i \in 0 .. ByteBits - 1 /\ y < s + WordBits /\ ~(y < s - ByteBits + WordBits)
          /\ s + WordBits - 1 - i = y
      BY <1>1, <1>4, <2>2
    <3>2. y \in M <=> i \in b
      BY <1>5, <3>1
    <3> QED BY <1>6, <1>7, <1>8, <1>9, <1>10, <2>2, <3>1, <3>2
  <2>3. CASE y < s - ByteBits + WordBits
    <3>1. i \notin b
      <4>1. ~(i <= ByteBits - 1)
        BY <1>1, <1>4, <2>3
      <4> QED BY <1>1, <1>2, <4>1 DEF Byte, b
    <3>2. y < s + WordBits /\ y <= s + WordBits - 1
      BY <1>1, <1>4, <2>3
    <3> QED BY <1>6, <1>7, <1>8, <1>9, <1>10, <2>3, <3>1, <3>2
  <2> QED BY <1>1, <1>4, <2>1, <2>2, <2>3
<1>13. p = q
  BY <1>11, <1>12
<1> QED BY <1>3, <1>4, <1>13 DEF p, q, x, b

(* Multiples of a number *)
LEMMA Multiples ==
  ASSUME NEW a \in Nat, NEW b \in Nat
  PROVE  /\ a * b \in Nat
         /\ (a + 1) * b = a * b + b
         /\ \A c \in Nat : (a + c) * b = a * b + c * b
OBVIOUS

(* The bits before byte m, and those from it on *)
LEMMA BitsBefore ==
  ASSUME NEW n \in Nat, NEW m \in 1 .. n
  PROVE  /\ (m - 1) * ByteBits \in Nat /\ n * ByteBits \in Nat
         /\ n * ByteBits = (m - 1) * ByteBits + (n - m + 1) * ByteBits
         /\ m * ByteBits = (m - 1) * ByteBits + ByteBits
<1>1. PICK a \in Nat : a = m - 1
  OBVIOUS
<1>2. PICK b \in Nat : b = n - m + 1
  OBVIOUS
<1>3. a + b = n /\ a + 1 = m /\ ByteBits \in Nat
  BY <1>1, <1>2, BitWidths
<1>4. /\ a * ByteBits \in Nat /\ (a + b) * ByteBits \in Nat
      /\ (a + 1) * ByteBits = a * ByteBits + ByteBits
      /\ (a + b) * ByteBits = a * ByteBits + b * ByteBits
  BY <1>3, Multiples
<1> QED BY <1>1, <1>2, <1>3, <1>4

(* The exponent that is taken away, counted from the message's first bit   *)
(* and from the last of the rest                                           *)
LEMMA Exponents ==
  ASSUME NEW a \in Nat, NEW b \in Nat, NEW f \in Nat, NEW e \in Nat
  PROVE  (a + b) + f - (a + e) = b - (e - 1) + f - 1
OBVIOUS

(* While the bits of one byte are taken away, the word goes through the    *)
(* rounds of make_crc_table.                                               *)
LEMMA ByteDivided ==
  ASSUME NEW buf \in Seq(Byte), NEW m \in 1 .. Len(buf), NEW c \in Words, NEW n, n = Len(buf) * ByteBits,
         NEW r, \A k \in 1 .. n : r[k] = TakeAway(r[k - 1], n + WordBits - k),
         r[(m - 1) * ByteBits]
           = Xor(Up(c, (Len(buf) - (m - 1)) * ByteBits), After(buf, m - 1))
  PROVE  r[m * ByteBits] = Xor(Up(TableStep[<<c, buf[m]>>], (Len(buf) - m) * ByteBits), After(buf, m))
<1> DEFINE x == Xor(c, buf[m])
           s == (Len(buf) - m + 1) * ByteBits
           k0 == (m - 1) * ByteBits
           T == {i \in 0 .. ByteBits : r[k0 + i] # Xor(Up(Rounds(x)[i], s - i), After(buf, m))}
<1>1. /\ Len(buf) \in Nat /\ m \in Nat /\ WordBits \in Nat /\ ByteBits \in Nat /\ ByteBits >= 1
      /\ ByteBits <= WordBits /\ buf[m] \in Byte
  BY LenProperties, ElementOfSeq, BitWidths
<1>2. /\ s \in Nat /\ s >= ByteBits
      /\ (Len(buf) - m) * ByteBits = s - ByteBits
      /\ (Len(buf) - (m - 1)) * ByteBits = s
      /\ Xor(Up(c, s), After(buf, m - 1)) = Xor(Up(x, s), After(buf, m))
  BY ByteIntoWord
<1>3. k0 \in Nat /\ n \in Nat /\ n = k0 + s /\ m * ByteBits = k0 + ByteBits
  BY <1>1, BitsBefore
<1>4. x \in Words /\ TableStep[<<c, buf[m]>>] = Rounds(x)[ByteBits]
  BY <1>1, StepIsRounds
<1>5. /\ Rounds(x)[0] = x
      /\ \A k \in 1 .. ByteBits : Rounds(x)[k] = DivideBit(Rounds(x)[k - 1])
      /\ \A k \in 0 .. ByteBits : Rounds(x)[k] \in Words
  BY <1>4, RoundsStep
<1>7. r[k0] = Xor(Up(x, s), After(buf, m))
  BY <1>2
<1>8. /\ After(buf, m) \subseteq Nat
      /\ \A y \in After(buf, m) : y < s - ByteBits + WordBits
  BY <1>2, MessageBits DEF After
<1> HIDE DEF x, s, k0
<1>9. T = {}
  <2> SUFFICES ASSUME T # {} PROVE FALSE
    OBVIOUS
  <2>1. T \subseteq Nat
    OBVIOUS
  <2>2. PICK i \in T : \A y \in T : i <= y
    BY <2>1, LeastNumber
  <2>3. i \in 0 .. ByteBits /\ i \in Nat /\ r[k0 + i] # Xor(Up(Rounds(x)[i], s - i), After(buf, m))
    OBVIOUS
  <2> HIDE DEF T
  <2>4. i # 0
    <3>1. k0 + 0 = k0 /\ s - 0 = s
      BY <1>2, <1>3
    <3> QED BY <1>5, <1>7, <2>3, <3>1
  <2>5. i \in 1 .. ByteBits /\ i - 1 \in 0 .. ByteBits /\ ~(i <= i - 1)
    BY <1>1, <2>3, <2>4
  <2>6. r[k0 + (i - 1)] = Xor(Up(Rounds(x)[i - 1], s - (i - 1)), After(buf, m))
    BY <2>2, <2>5 DEF T
  <2> DEFINE v == Rounds(x)[i - 1]
             u == s - (i - 1)
  <2>7. v \in Words /\ Rounds(x)[i] = DivideBit(v)
    BY <1>5, <2>5
  <2>8. u \in Nat /\ u >= 1 /\ u - 1 = s - i
    BY <1>1, <1>2, <2>5
  <2>9. k0 + i \in 1 .. n /\ (k0 + i) - 1 = k0 + (i - 1) /\ n + WordBits - (k0 + i) = u + WordBits - 1
    <3>1. k0 + i \in 1 .. n
      BY <1>1, <1>2, <1>3, <2>5
    <3>2. (k0 + i) - 1 = k0 + (i - 1)
      BY <1>1, <1>3, <2>5
    <3>3. n + WordBits - (k0 + i) = u + WordBits - 1
      <4>1. k0 \in Nat /\ s \in Nat /\ WordBits \in Nat /\ n = k0 + s
        BY <1>1, <1>2, <1>3, Zenon
      <4>2. i \in Nat
        BY <2>3, Zenon
      <4>3. \A a, b, f, e \in Nat : (a + b) + f - (a + e) = b - (e - 1) + f - 1
        BY Exponents
      <4>4. (k0 + s) + WordBits - (k0 + i) = s - (i - 1) + WordBits - 1
        BY <4>1, <4>2, <4>3
      <4> QED BY <4>1, <4>4, Zenon
    <3> QED BY <3>1, <3>2, <3>3
  <2>10. \A y \in After(buf, m) : y < u + WordBits - 1
    <3>1. s - ByteBits + WordBits <= u + WordBits - 1
      BY <1>1, <1>2, <2>5
    <3>2. s - ByteBits + WordBits \in Int /\ u + WordBits - 1 \in Int
      BY <1>1, <1>2, <2>8
    <3> QED BY <1>8, <3>1, <3>2
  <2>11. r[k0 + i] = TakeAway(Xor(Up(v, u), After(buf, m)), u + WordBits - 1)
    BY <2>6, <2>9
  <2> HIDE DEF u, v
  <2>12. r[k0 + i] = Xor(Up(DivideBit(v), u - 1), After(buf, m))
    BY <1>8, <2>7, <2>8, <2>10, <2>11, TakeAwayIsRound
  <2> QED BY <2>3, <2>7, <2>8, <2>12
<1>10. r[k0 + ByteBits] = Xor(Up(Rounds(x)[ByteBits], s - ByteBits), After(buf, m))
  <2>1. ByteBits \in 0 .. ByteBits
    BY <1>1
  <2> QED BY <1>9, <2>1, Zenon
<1> QED BY <1>2, <1>3, <1>4, <1>10

(* After each byte what is left to divide is the word of update_crc, and   *)
(* the rest of the message.                                                *)
LEMMA StatesAreRests ==
  ASSUME NEW buf \in Seq(Byte), NEW n, n = Len(buf) * ByteBits,
         NEW r, r[0] = Xor(Message(buf), Up(AllOnes, n)),
         \A k \in 1 .. n : r[k] = TakeAway(r[k - 1], n + WordBits - k),
         NEW m \in 0 .. Len(buf)
  PROVE  r[m * ByteBits]
           = Xor(Up(States(AllOnes, buf)[m], (Len(buf) - m) * ByteBits), After(buf, m))
<1> DEFINE T == {k \in 0 .. Len(buf) :
                   r[k * ByteBits]
                     # Xor(Up(States(AllOnes, buf)[k], (Len(buf) - k) * ByteBits), After(buf, k))}
<1>1. /\ Len(buf) \in Nat /\ WordBits \in Nat /\ ByteBits \in Nat /\ n \in Nat
      /\ AllOnes \in Words
  BY LenProperties, BitWidths
<1>3. SUFFICES ASSUME T # {} PROVE FALSE
  OBVIOUS
<1>4. T \subseteq Nat
  OBVIOUS
<1>5. PICK k \in T : \A y \in T : k <= y
  BY <1>3, <1>4, LeastNumber
<1>6. k \in 0 .. Len(buf) /\ k \in Nat
  OBVIOUS
<1>7. r[k * ByteBits]
        # Xor(Up(States(AllOnes, buf)[k], (Len(buf) - k) * ByteBits), After(buf, k))
  OBVIOUS
<1>8. States(AllOnes, buf)[0] = AllOnes
  BY <1>1, StatesStep
<1>9. k # 0
  <2>2. After(buf, 0) = Message(buf)
    <3>1. (Len(buf) - 0) * ByteBits = Len(buf) * ByteBits
      BY <1>1
    <3> QED BY <3>1, MessageBits DEF After
  <2>3. r[0] = Xor(Up(AllOnes, n), Message(buf))
    BY DEF Xor
  <2>4. 0 * ByteBits = 0 /\ (Len(buf) - 0) * ByteBits = n
    BY <1>1
  <2> QED BY <1>7, <1>8, <2>2, <2>3, <2>4
<1>10. k \in 1 .. Len(buf) /\ k - 1 \in 0 .. Len(buf) /\ ~(k <= k - 1)
  BY <1>1, <1>6, <1>9
<1>11. r[(k - 1) * ByteBits]
         = Xor(Up(States(AllOnes, buf)[k - 1], (Len(buf) - (k - 1)) * ByteBits), After(buf, k - 1))
  BY <1>5, <1>10
<1> HIDE DEF T
<1>12. /\ States(AllOnes, buf)[k - 1] \in Words
       /\ States(AllOnes, buf)[k] = TableStep[<<States(AllOnes, buf)[k - 1], buf[k]>>]
  BY <1>1, <1>10, StatesStep
<1>13. PICK c \in Words : c = States(AllOnes, buf)[k - 1]
  BY <1>12
<1>14. r[k * ByteBits] = Xor(Up(TableStep[<<c, buf[k]>>], (Len(buf) - k) * ByteBits), After(buf, k))
  <2>1. r[(k - 1) * ByteBits] = Xor(Up(c, (Len(buf) - (k - 1)) * ByteBits), After(buf, k - 1))
    BY <1>11, <1>13, Zenon
  <2> QED BY <1>10, <2>1, ByteDivided, Zenon
<1> QED BY <1>7, <1>12, <1>13, <1>14

(* The checksum that crc.c computes by its table is the remainder of the   *)
(* polynomial division that defines it, for every message, width and       *)
(* polynomial.                                                             *)
THEOREM TableDivides ==
  ASSUME NEW buf \in Seq(Byte)
  PROVE  crc(buf) = Division(buf)
<1> DEFINE n == Len(buf) * ByteBits
           w == States(AllOnes, buf)[Len(buf)]
           p == Xor(Message(buf), Up(AllOnes, n))
           rest == Remainder(p, n + WordBits - 1)
<1>1. /\ Len(buf) \in Nat /\ Len(buf) \in 0 .. Len(buf) /\ WordBits \in Nat /\ ByteBits \in Nat
      /\ n \in Nat /\ AllOnes \in Words
  BY LenProperties, BitWidths
<1>2. w \in Words
  BY <1>1, StatesStep
<1>3. {n + b : b \in AllOnes} = Up(AllOnes, n)
  <2>1. ASSUME NEW b \in AllOnes
        PROVE  n + b = n + WordBits - 1 - (WordBits - 1 - b) /\ WordBits - 1 - b \in AllOnes
    BY <1>1 DEF AllOnes
  <2>2. ASSUME NEW b \in AllOnes
        PROVE  n + WordBits - 1 - b = n + (WordBits - 1 - b) /\ WordBits - 1 - b \in AllOnes
    BY <1>1 DEF AllOnes
  <2> HIDE DEF n
  <2>3. {n + b : b \in AllOnes} \subseteq Up(AllOnes, n)
    BY <2>1 DEF Up
  <2>4. Up(AllOnes, n) \subseteq {n + b : b \in AllOnes}
    BY <2>2 DEF Up
  <2> QED BY <2>3, <2>4
<1>4. Division(buf) = Xor({WordBits - 1 - e : e \in rest}, AllOnes)
  BY <1>3 DEF Division
<1>5. rest = Xor(Up(w, 0), After(buf, Len(buf)))
  <2>1. p \subseteq Nat
    <3>1. Up(AllOnes, n) \subseteq Nat
      BY <1>1, UpBits
    <3> QED BY <3>1, MessageBits DEF Xor
  <2>2. PICK r : IsDivided(r, p, n)
    <3>1. n \in Nat /\ p \in SUBSET Nat
      BY <1>1, <2>1, Zenon
    <3> HIDE DEF n, p
    <3> QED BY <3>1, RestsStep, Zenon
  <2>3. (Len(buf) - Len(buf)) * ByteBits = 0
    BY <1>1
  <2>4. r[n] = Xor(Up(w, (Len(buf) - Len(buf)) * ByteBits), After(buf, Len(buf)))
    BY <1>1, <2>2, StatesAreRests DEF IsDivided
  <2> QED BY <2>2, <2>3, <2>4 DEF IsDivided
<1>6. After(buf, Len(buf)) = {}
  <2>1. (Len(buf) - Len(buf)) * ByteBits + WordBits = WordBits
    BY <1>1
  <2>2. \A x \in Message(buf) : x \in Nat /\ WordBits <= x
    BY MessageBits
  <2>3. \A x \in Message(buf) : ~(x < WordBits)
    BY <1>1, <2>2
  <2> QED BY <2>1, <2>3 DEF After
<1>7. rest = Up(w, 0)
  BY <1>5, <1>6 DEF Xor
<1>8. {WordBits - 1 - e : e \in rest} = w
  <2>1. \A b \in w : b \in Nat
    BY <1>2, BitWidths DEF Words, AllOnes
  <2>2. \A b \in w : WordBits - 1 - (0 + WordBits - 1 - b) = b
    BY <1>1, <2>1
  <2>3. {WordBits - 1 - e : e \in Up(w, 0)} = {WordBits - 1 - (0 + WordBits - 1 - b) : b \in w}
    BY DEF Up
  <2>4. {WordBits - 1 - (0 + WordBits - 1 - b) : b \in w} = {b : b \in w}
    BY <2>2
  <2> HIDE DEF w
  <2> QED BY <1>7, <2>3, <2>4
<1> QED BY <1>4, <1>8 DEF crc, update_crc

=============================================================================
