----------------------------- MODULE PngCodecProofs -----------------------------
(***************************************************************************)
(* Theorems about the way of an image through a file: the loops of mem_def *)
(* and mem_inf leave what they promise, an undamaged image comes back as   *)
(* it was, a damaged byte is reported for its chunk alone, and checksums   *)
(* are remainders, whatever has become of the chunk.                       *)
(***************************************************************************)
EXTENDS PngCodec, CrcProofs

-----------------------------------------------------------------------------
(* Bytes and words *)

(* A word is WordBytes whole bytes. *)
LEMMA WholeBytes ==
  /\ WordBytes \in Nat /\ WordBytes >= 1
  /\ WordBits = WordBytes * ByteBits
<1>1. WordBits = (WordBits \div ByteBits) * ByteBits
  BY BitWidths, CrcAssumption
<1>2. WordBits \div ByteBits \in Nat
  BY BitWidths
<1>3. WordBits \div ByteBits >= 1
  BY <1>1, <1>2, BitWidths
<1> QED BY <1>1, <1>2, <1>3 DEF WordBytes

(* Bit b of a word is bit b % ByteBits of a byte. *)
LEMMA PlaceOfBit ==
  ASSUME NEW b \in AllOnes
  PROVE  /\ b % ByteBits \in 0 .. ByteBits - 1
         /\ b \div ByteBits \in 0 .. WordBytes - 1
         /\ (b % ByteBits) + (b \div ByteBits) * ByteBits = b
<1>1. b \in Nat /\ b < WordBytes * ByteBits /\ ByteBits \in Nat /\ ByteBits >= 1
  BY WholeBytes, BitWidths DEF AllOnes
<1>2. b % ByteBits \in 0 .. ByteBits - 1 /\ b \div ByteBits \in Nat
  BY <1>1
<1>3. b = ((b \div ByteBits) * ByteBits) + (b % ByteBits)
  BY <1>1
<1>4. b \div ByteBits < WordBytes
  BY <1>1, <1>2, <1>3, WholeBytes
<1> QED BY <1>1, <1>2, <1>3, <1>4, WholeBytes

(* Bit r of byte q + 1 is a bit of the word. *)
LEMMA BitOfPlace ==
  ASSUME NEW q \in 0 .. WordBytes - 1, NEW r \in 0 .. ByteBits - 1
  PROVE  /\ r + q * ByteBits \in AllOnes
         /\ (r + q * ByteBits) % ByteBits = r
         /\ (r + q * ByteBits) \div ByteBits = q
<1>1. q \in Nat /\ r \in Nat /\ ByteBits \in Nat /\ ByteBits >= 1 /\ q + 1 <= WordBytes
  BY WholeBytes, BitWidths
<1>2. (q + 1) * ByteBits <= WordBytes * ByteBits
  BY <1>1, WholeBytes
<1>3. (q * ByteBits) + r \in 0 .. WordBits - 1
  BY <1>1, <1>2, WholeBytes
<1>4. ((q * ByteBits) + r) % ByteBits = r
  BY <1>1
<1>5. ((q * ByteBits) + r) \div ByteBits = q
  BY <1>1
<1>6. r + q * ByteBits = (q * ByteBits) + r
  BY <1>1
<1> QED BY <1>3, <1>4, <1>5, <1>6, Zenon DEF AllOnes

(* The sequences of a word's bytes *)
WordSeq == [1 .. WordBytes -> Byte]

(* The bytes of a word, bit by bit *)
LEMMA BytesTyped ==
  ASSUME NEW w \in Words
  PROVE  /\ BytesOf(w) \in WordSeq
         /\ \A q \in 0 .. WordBytes - 1 : \A b :
              b \in BytesOf(w)[q + 1] <=> b \in 0 .. ByteBits - 1 /\ b + q * ByteBits \in w
<1>1. ASSUME NEW q \in 0 .. WordBytes - 1, NEW b
      PROVE  b \in BytesOf(w)[q + 1] <=> b \in 0 .. ByteBits - 1 /\ b + q * ByteBits \in w
  <2>1. q + 1 \in 1 .. WordBytes /\ q + 1 - 1 = q
    BY WholeBytes
  <2> QED BY <2>1 DEF BytesOf
<1> QED BY <1>1 DEF BytesOf, Byte, WordSeq

(* Words in memory are the same if their bytes are. *)
LEMMA SameWordSeq ==
  ASSUME NEW f \in WordSeq, NEW g \in WordSeq, \A k \in 1 .. WordBytes : f[k] = g[k]
  PROVE  f = g
<1>1. f = [k \in 1 .. WordBytes |-> f[k]] /\ g = [k \in 1 .. WordBytes |-> g[k]]
  BY DEF WordSeq
<1>2. [k \in 1 .. WordBytes |-> f[k]] = [k \in 1 .. WordBytes |-> g[k]]
  OBVIOUS
<1> QED BY <1>1, <1>2, Zenon

(* The word of some bytes, bit by bit *)
LEMMA WordTyped ==
  ASSUME NEW s \in WordSeq
  PROVE  /\ WordOf[s] \in Words
         /\ \A b : b \in WordOf[s] <=> b \in AllOnes /\ b % ByteBits \in s[b \div ByteBits + 1]
BY DEF WordOf, Words, WordSeq

(* Memory keeps a word. *)
LEMMA WordOfBytes ==
  ASSUME NEW w \in Words
  PROVE  WordOf[BytesOf(w)] = w
<1>1. /\ BytesOf(w) \in WordSeq
      /\ \A q \in 0 .. WordBytes - 1 : \A b :
           b \in BytesOf(w)[q + 1] <=> b \in 0 .. ByteBits - 1 /\ b + q * ByteBits \in w
  BY BytesTyped
<1>2. \A b : b \in WordOf[BytesOf(w)] <=> b \in AllOnes /\ b % ByteBits \in BytesOf(w)[b \div ByteBits + 1]
  BY <1>1, WordTyped
<1>3. ASSUME NEW b \in AllOnes
      PROVE  b \in WordOf[BytesOf(w)] <=> b \in w
  <2>1. /\ b % ByteBits \in 0 .. ByteBits - 1
        /\ b \div ByteBits \in 0 .. WordBytes - 1
        /\ (b % ByteBits) + (b \div ByteBits) * ByteBits = b
    BY PlaceOfBit
  <2>3. b % ByteBits \in BytesOf(w)[b \div ByteBits + 1] <=> b \in w
    BY <1>1, <2>1, Zenon
  <2> QED BY <1>2, <2>3
<1>4. w \subseteq AllOnes
  BY DEF Words
<1> QED BY <1>2, <1>3, <1>4

(* A word keeps its bytes. *)
LEMMA BytesOfWord ==
  ASSUME NEW s \in WordSeq
  PROVE  BytesOf(WordOf[s]) = s
<1>1. /\ WordOf[s] \in Words
      /\ \A b : b \in WordOf[s] <=> b \in AllOnes /\ b % ByteBits \in s[b \div ByteBits + 1]
  BY WordTyped
<1>2. /\ BytesOf(WordOf[s]) \in WordSeq
      /\ \A q \in 0 .. WordBytes - 1 : \A b :
           b \in BytesOf(WordOf[s])[q + 1] <=>
             b \in 0 .. ByteBits - 1 /\ b + q * ByteBits \in WordOf[s]
  BY <1>1, BytesTyped
<1>3. ASSUME NEW q \in 0 .. WordBytes - 1, NEW b \in 0 .. ByteBits - 1
      PROVE  b \in BytesOf(WordOf[s])[q + 1] <=> b \in s[q + 1]
  <2>1. /\ b + q * ByteBits \in AllOnes
        /\ (b + q * ByteBits) % ByteBits = b
        /\ (b + q * ByteBits) \div ByteBits = q
    BY BitOfPlace
  <2>2. b + q * ByteBits \in WordOf[s] <=> b \in s[q + 1]
    BY <1>1, <2>1, Zenon
  <2> QED BY <1>2, <2>2, Zenon
<1>4. \A k \in 1 .. WordBytes : s[k] \subseteq 0 .. ByteBits - 1 /\ BytesOf(WordOf[s])[k] \subseteq 0 .. ByteBits - 1
  BY <1>2 DEF WordSeq, Byte
<1>5. ASSUME NEW k \in 1 .. WordBytes
      PROVE  BytesOf(WordOf[s])[k] = s[k]
  <2>1. k - 1 \in 0 .. WordBytes - 1 /\ (k - 1) + 1 = k
    BY WholeBytes
  <2>2. \A b \in 0 .. ByteBits - 1 : b \in BytesOf(WordOf[s])[k] <=> b \in s[k]
    BY <1>3, <2>1
  <2> QED BY <1>4, <2>2
<1> QED BY <1>2, <1>5, SameWordSeq

(* Reversed twice, the bytes are in order again. *)
LEMMA ReverseWord ==
  ASSUME NEW s \in WordSeq
  PROVE  Reverse(s) \in WordSeq /\ Reverse(Reverse(s)) = s
<1>1. Len(s) = WordBytes
  BY WholeBytes DEF WordSeq
<1>2. Reverse(s) = [k \in 1 .. WordBytes |-> s[(WordBytes - k) + 1]]
  BY <1>1 DEF Reverse
<1>3. Reverse(s) \in WordSeq
  BY <1>2, WholeBytes DEF WordSeq
<1>4. Len(Reverse(s)) = WordBytes
  BY <1>3, WholeBytes DEF WordSeq
<1>5. Reverse(Reverse(s)) = [k \in 1 .. WordBytes |-> Reverse(s)[(WordBytes - k) + 1]]
  BY <1>4 DEF Reverse
<1>6. \A k \in 1 .. WordBytes : Reverse(s)[(WordBytes - k) + 1] = s[k]
  BY <1>2, WholeBytes
<1>7. Reverse(Reverse(s)) = [k \in 1 .. WordBytes |-> s[k]]
  BY <1>5, <1>6
<1> QED BY <1>3, <1>7 DEF WordSeq

(* Network byte order and back *)
LEMMA ByteOrder ==
  ASSUME NEW w \in Words
  PROVE  htonl[w] \in Words /\ ntohl[w] = htonl[w] /\ ntohl[htonl[w]] = w
<1>1. BytesOf(w) \in WordSeq
  BY BytesTyped
<1>2. Reverse(BytesOf(w)) \in WordSeq /\ Reverse(Reverse(BytesOf(w))) = BytesOf(w)
  BY <1>1, ReverseWord
<1>3. htonl[w] = WordOf[Reverse(BytesOf(w))]
  BY DEF htonl
<1>4. htonl[w] \in Words /\ BytesOf(htonl[w]) = Reverse(BytesOf(w))
  BY <1>2, <1>3, WordTyped, BytesOfWord
<1>5. htonl[htonl[w]] = WordOf[Reverse(BytesOf(htonl[w]))]
  BY <1>4 DEF htonl
<1>6. htonl[htonl[w]] = w
  BY <1>2, <1>4, <1>5, WordOfBytes
<1> QED BY <1>4, <1>6 DEF ntohl

-----------------------------------------------------------------------------
(* Words and numbers *)

(* The recursions of Highest and of Shifted *)
LEMMA HighestStep ==
  ASSUME NEW w \in Words
  PROVE  /\ Highest(w)[0] = 0
         /\ \A k \in 1 .. WordBits :
              Highest(w)[k] = 2 * Highest(w)[k - 1] + (IF WordBits - k \in w THEN 1 ELSE 0)
         /\ \A k \in 0 .. WordBits : Highest(w)[k] \in Nat
<1> DEFINE F == [p \in (1 .. WordBits) \X Nat |->
                   2 * p[2] + (IF WordBits - p[1] \in w THEN 1 ELSE 0)]
<1>1. F \in [(1 .. WordBits) \X Nat -> Nat]
  OBVIOUS
<1>2. \A k \in 1 .. WordBits, v \in Nat :
        F[<<k, v>>] = 2 * v + (IF WordBits - k \in w THEN 1 ELSE 0)
  OBVIOUS
<1> HIDE DEF F
<1>3. PICK t : Solves(t, F, WordBits, Nat, 0)
  <2>1. WordBits \in Nat /\ 0 \in Nat
    BY BitWidths
  <2> QED BY <1>1, <2>1, RecursionSolved, Zenon
<1>4. \A k \in 1 .. WordBits : k - 1 \in 0 .. WordBits
  BY BitWidths
<1>5. /\ t \in [0 .. WordBits -> Nat] /\ t[0] = 0
      /\ \A k \in 1 .. WordBits : t[k] = 2 * t[k - 1] + (IF WordBits - k \in w THEN 1 ELSE 0)
  BY <1>2, <1>3, <1>4 DEF Solves
<1>6. t = [k \in 0 .. WordBits |->
             IF k = 0 THEN 0 ELSE 2 * t[k - 1] + (IF WordBits - k \in w THEN 1 ELSE 0)]
  <2>1. \A k \in 0 .. WordBits : k = 0 \/ k \in 1 .. WordBits
    BY BitWidths
  <2>2. \A k \in 0 .. WordBits :
          t[k] = IF k = 0 THEN 0 ELSE 2 * t[k - 1] + (IF WordBits - k \in w THEN 1 ELSE 0)
    BY <1>5, <2>1
  <2> QED BY <1>5, <2>2
<1>7. Highest(w) = CHOOSE h : h =
        [k \in 0 .. WordBits |->
           IF k = 0 THEN 0 ELSE 2 * h[k - 1] + (IF WordBits - k \in w THEN 1 ELSE 0)]
  BY DEF Highest
<1>8. Highest(w) =
        [k \in 0 .. WordBits |->
           IF k = 0 THEN 0 ELSE 2 * Highest(w)[k - 1] + (IF WordBits - k \in w THEN 1 ELSE 0)]
  BY <1>6, <1>7, Zenon
<1>9. PICK r : r = Highest(w)
  OBVIOUS
<1>10. r = [k \in 0 .. WordBits |->
              IF k = 0 THEN 0 ELSE 2 * r[k - 1] + (IF WordBits - k \in w THEN 1 ELSE 0)]
  BY <1>8, <1>9
<1>11. /\ r[0] = 0
       /\ \A k \in 1 .. WordBits : r[k] = 2 * r[k - 1] + (IF WordBits - k \in w THEN 1 ELSE 0)
  <2>1. 0 \in 0 .. WordBits /\ \A k \in 1 .. WordBits : k \in 0 .. WordBits /\ k # 0
    BY BitWidths
  <2>2. \A k \in 0 .. WordBits :
          r[k] = IF k = 0 THEN 0 ELSE 2 * r[k - 1] + (IF WordBits - k \in w THEN 1 ELSE 0)
    BY <1>10
  <2> QED BY <2>1, <2>2
<1>12. \A k \in 0 .. WordBits : r[k] \in Nat
  <2> DEFINE T == {k \in 0 .. WordBits : r[k] \notin Nat}
  <2> SUFFICES ASSUME T # {} PROVE FALSE
    OBVIOUS
  <2>1. T \subseteq Nat
    OBVIOUS
  <2>2. PICK k \in T : \A x \in T : k <= x
    BY <2>1, LeastNumber
  <2>3. k \in 0 .. WordBits /\ k \in Nat /\ r[k] \notin Nat /\ k # 0
    BY <1>11
  <2>4. k \in 1 .. WordBits /\ k - 1 \in 0 .. WordBits /\ ~(k <= k - 1)
    BY <2>3, BitWidths
  <2>5. r[k - 1] \in Nat
    BY <2>2, <2>4
  <2> QED BY <1>11, <2>3, <2>4, <2>5
<1> QED BY <1>9, <1>11, <1>12

(* The same for Shifted *)
LEMMA ShiftedStep ==
  ASSUME NEW n \in Nat
  PROVE  /\ Shifted(n)[0] = n
         /\ \A k \in 1 .. WordBits : Shifted(n)[k] = Shifted(n)[k - 1] \div 2
<1> DEFINE F == [p \in (1 .. WordBits) \X Nat |-> p[2] \div 2]
<1>1. F \in [(1 .. WordBits) \X Nat -> Nat]
  OBVIOUS
<1>2. \A k \in 1 .. WordBits, v \in Nat : F[<<k, v>>] = v \div 2
  OBVIOUS
<1> HIDE DEF F
<1>3. PICK t : Solves(t, F, WordBits, Nat, n)
  <2>1. WordBits \in Nat
    BY BitWidths
  <2> QED BY <1>1, <2>1, RecursionSolved, Zenon
<1>4. \A k \in 1 .. WordBits : k - 1 \in 0 .. WordBits
  BY BitWidths
<1>5. /\ t \in [0 .. WordBits -> Nat] /\ t[0] = n
      /\ \A k \in 1 .. WordBits : t[k] = t[k - 1] \div 2
  BY <1>2, <1>3, <1>4 DEF Solves
<1>6. t = [k \in 0 .. WordBits |-> IF k = 0 THEN n ELSE t[k - 1] \div 2]
  <2>1. \A k \in 0 .. WordBits : k = 0 \/ k \in 1 .. WordBits
    BY BitWidths
  <2>2. \A k \in 0 .. WordBits : t[k] = IF k = 0 THEN n ELSE t[k - 1] \div 2
    BY <1>5, <2>1
  <2> QED BY <1>5, <2>2
<1>7. Shifted(n) = CHOOSE h : h = [k \in 0 .. WordBits |-> IF k = 0 THEN n ELSE h[k - 1] \div 2]
  BY DEF Shifted
<1>8. Shifted(n) = [k \in 0 .. WordBits |-> IF k = 0 THEN n ELSE Shifted(n)[k - 1] \div 2]
  BY <1>6, <1>7, Zenon
<1>9. PICK r : r = Shifted(n)
  OBVIOUS
<1>10. r = [k \in 0 .. WordBits |-> IF k = 0 THEN n ELSE r[k - 1] \div 2]
  BY <1>8, <1>9
<1>11. r[0] = n /\ \A k \in 1 .. WordBits : r[k] = r[k - 1] \div 2
  <2>1. 0 \in 0 .. WordBits /\ \A k \in 1 .. WordBits : k \in 0 .. WordBits /\ k # 0
    BY BitWidths
  <2>2. \A k \in 0 .. WordBits : r[k] = IF k = 0 THEN n ELSE r[k - 1] \div 2
    BY <1>10
  <2> QED BY <2>1, <2>2
<1> QED BY <1>9, <1>11

(* Shifting a number removes the bits it was made of last. *)
LEMMA ShiftedNumber ==
  ASSUME NEW w \in Words, NEW k \in 0 .. WordBits
  PROVE  Shifted(Number[w])[k] = Highest(w)[WordBits - k]
<1>1. WordBits \in Nat /\ Number[w] = Highest(w)[WordBits]
  BY BitWidths DEF Number
<1>2. Number[w] \in Nat
  BY <1>1, HighestStep
<1> DEFINE T == {n \in 0 .. WordBits : Shifted(Number[w])[n] # Highest(w)[WordBits - n]}
<1> SUFFICES ASSUME T # {} PROVE FALSE
  OBVIOUS
<1>3. T \subseteq Nat
  OBVIOUS
<1>4. PICK n \in T : \A x \in T : n <= x
  BY <1>3, LeastNumber
<1>5. n \in 0 .. WordBits /\ n \in Nat /\ Shifted(Number[w])[n] # Highest(w)[WordBits - n]
  OBVIOUS
<1>6. n # 0
  <2>1. WordBits - 0 = WordBits
    BY <1>1
  <2>2. Shifted(Number[w])[0] = Highest(w)[WordBits - 0]
    BY <1>1, <1>2, <2>1, ShiftedStep
  <2> QED BY <1>5, <2>2
<1>7. n \in 1 .. WordBits /\ n - 1 \in 0 .. WordBits /\ ~(n <= n - 1)
  BY <1>1, <1>5, <1>6
<1>8. n - 1 \notin T
  BY <1>4, <1>7
<1>9. Shifted(Number[w])[n - 1] = Highest(w)[WordBits - (n - 1)]
  BY <1>7, <1>8
<1> DEFINE m == WordBits - (n - 1)
<1>10. m \in 1 .. WordBits /\ m - 1 = WordBits - n /\ m - 1 \in 0 .. WordBits
  BY <1>1, <1>7
<1>11. Highest(w)[m] = 2 * Highest(w)[m - 1] + (IF WordBits - m \in w THEN 1 ELSE 0)
  BY <1>10, HighestStep
<1>12. Highest(w)[m - 1] \in Nat
  BY <1>10, HighestStep
<1> HIDE DEF m
<1>13. Highest(w)[m] \div 2 = Highest(w)[m - 1]
  BY <1>11, <1>12
<1>14. Shifted(Number[w])[n] = Shifted(Number[w])[n - 1] \div 2
  BY <1>2, <1>7, ShiftedStep
<1> QED BY <1>5, <1>9, <1>10, <1>13, <1>14 DEF m

(* The bits of an unsigned int and the number they make *)
LEMMA WordOfNumber ==
  ASSUME NEW w \in Words
  PROVE  Number[w] \in Unsigned /\ Number[w] \in Nat /\ Word(Number[w]) = w
<1>1. WordBits \in Nat /\ Number[w] = Highest(w)[WordBits]
  BY BitWidths DEF Number
<1>2. Number[w] \in Nat
  BY <1>1, HighestStep
<1>3. ASSUME NEW b \in AllOnes
      PROVE  Shifted(Number[w])[b] % 2 = 1 <=> b \in w
  <2>1. b \in 0 .. WordBits /\ WordBits - b \in 1 .. WordBits /\ WordBits - (WordBits - b) = b
    BY <1>1 DEF AllOnes
  <2>2. Shifted(Number[w])[b] = Highest(w)[WordBits - b]
    BY <2>1, ShiftedNumber
  <2>3. PICK m \in 1 .. WordBits : m = WordBits - b
    BY <2>1
  <2>4. Highest(w)[m] = 2 * Highest(w)[m - 1] + (IF b \in w THEN 1 ELSE 0)
    BY <2>1, <2>3, HighestStep
  <2>5. m - 1 \in 0 .. WordBits
    BY <1>1, <2>3
  <2>6. Highest(w)[m - 1] \in Nat
    BY <2>5, HighestStep
  <2>7. Highest(w)[m] % 2 = IF b \in w THEN 1 ELSE 0
    BY <2>4, <2>6
  <2> QED BY <2>2, <2>3, <2>7
<1>4. Word(Number[w]) = {b \in AllOnes : b \in w}
  BY <1>3 DEF Word
<1>5. w \subseteq AllOnes
  BY DEF Words
<1> QED BY <1>2, <1>4, <1>5 DEF Unsigned

(* An unsigned int is the number that its own bits make. *)
LEMMA NumberOfWord ==
  ASSUME NEW n \in Unsigned
  PROVE  Word(n) \in Words /\ Number[Word(n)] = n /\ n \in Nat
<1>1. PICK w \in Words : n = Number[w]
  BY DEF Unsigned
<1> QED BY <1>1, WordOfNumber

(* What stands in a file for a length or a dimension is read as it was. *)
LEMMA NumberInFile ==
  ASSUME NEW n \in Unsigned
  PROVE  /\ BytesOf(htonl[Word(n)]) \in WordSeq
         /\ Number[ntohl[WordOf[BytesOf(htonl[Word(n)])]]] = n
<1>1. Word(n) \in Words /\ Number[Word(n)] = n
  BY NumberOfWord
<1>2. htonl[Word(n)] \in Words /\ ntohl[htonl[Word(n)]] = Word(n)
  BY <1>1, ByteOrder
<1> QED BY <1>1, <1>2, BytesTyped, WordOfBytes

(* IEND has no data: its length, 0, is an unsigned int. *)
LEMMA ZeroUnsigned == 0 \in Unsigned
<1>1. {} \in Words /\ WordBits \in Nat
  BY BitWidths DEF Words
<1> DEFINE T == {n \in 0 .. WordBits : Highest({})[n] # 0}
<1>2. T = {}
  <2> SUFFICES ASSUME T # {} PROVE FALSE
    OBVIOUS
  <2>1. T \subseteq Nat
    OBVIOUS
  <2>2. PICK k \in T : \A x \in T : k <= x
    BY <2>1, LeastNumber
  <2>3. k \in 0 .. WordBits /\ k \in Nat /\ Highest({})[k] # 0 /\ k # 0
    BY <1>1, HighestStep
  <2>4. k \in 1 .. WordBits /\ k - 1 \in 0 .. WordBits /\ ~(k <= k - 1)
    BY <2>3, <1>1
  <2>5. Highest({})[k - 1] = 0
    BY <2>2, <2>4
  <2>6. Highest({})[k] = 2 * Highest({})[k - 1] + (IF WordBits - k \in {} THEN 1 ELSE 0)
    BY <1>1, <2>4, HighestStep
  <2> QED BY <2>3, <2>5, <2>6
<1>3. Highest({})[WordBits] = 0
  BY <1>1, <1>2
<1> QED BY <1>1, <1>3 DEF Unsigned, Number

-----------------------------------------------------------------------------
(* The loops of zutil.c *)

(* What is in dest while a loop runs: what was written up to now of all.   *)
Loop(all) ==
  /\ given \in 0 .. Len(all)
  /\ dest = SubSeq(all, 1, given)
  /\ len = Unassigned
  /\ result = "none"

(* A call writes no more than is left, and fills out only if it writes. *)
LEMMA HaveBounds ==
  ASSUME NEW all \in Seq(Byte), given \in 0 .. Len(all)
  PROVE  /\ Have(all) \in Nat /\ given + Have(all) <= Len(all)
         /\ Have(all) # CHUNK => given + Have(all) = Len(all) /\ Have(all) < CHUNK
         /\ Have(all) = CHUNK => Have(all) > 0
<1>1. Len(all) \in Nat /\ CHUNK \in Nat \ {0}
  BY LenProperties, ZUtilAssumption
<1> QED BY <1>1 DEF Have

(* A block is copied behind the blocks before it. *)
LEMMA CopyBlock ==
  ASSUME NEW all \in Seq(Byte), Loop(all), Copy(all)
  PROVE  /\ given' \in 0 .. Len(all)
         /\ dest' = SubSeq(all, 1, given')
         /\ given' = given + Have(all)
<1>1. Len(all) \in Nat /\ given \in 0 .. Len(all) /\ dest = SubSeq(all, 1, given)
  BY LenProperties DEF Loop
<1>2. Have(all) \in Nat /\ given + Have(all) <= Len(all)
  BY <1>1, HaveBounds
<1>3. given' = given + Have(all) /\ dest' = dest \o SubSeq(all, given + 1, given')
  BY DEF Copy
<1>4. 1 \in 1 .. Len(all) + 1 /\ given \in 1 - 1 .. Len(all) /\ given' \in given .. Len(all)
  BY <1>1, <1>2, <1>3
<1>5. SubSeq(all, 1, given) \o SubSeq(all, given + 1, given') = SubSeq(all, 1, given')
  BY <1>4, ConcatAdjacentSubSeq
<1> QED BY <1>1, <1>3, <1>4, <1>5

(* A call of deflate goes on with the loop, or the assertions behind the   *)
(* loop of mem_def hold and the whole stream is in dest.                   *)
LEMMA DeflateLoop ==
  ASSUME Stream(source) \in Seq(Byte), Loop(Stream(source)), mem_def
  PROVE  /\ source' = source
         /\ \/ zcall' = "mem_def" /\ Loop(Stream(source))'
            \/ zcall' = "none" /\ MemDefDone(source)'
<1> DEFINE all == Stream(source)
<1>1. all \in Seq(Byte) /\ Len(all) \in Nat /\ Loop(all) /\ source' = source /\ zcall = "mem_def"
  BY LenProperties DEF mem_def
<1>2. /\ ret' \in Codes(all, "Z_STREAM_END")
      /\ Copy(all)
      /\ IF Again(Have(all)) THEN UNCHANGED <<zcall, result, len>> ELSE Return("Z_OK")
  BY DEF mem_def
<1>3. Stream(source') = all
  BY <1>1
<1> HIDE DEF all
<1>4. given' \in 0 .. Len(all) /\ dest' = SubSeq(all, 1, given') /\ given' = given + Have(all)
  BY <1>1, <1>2, CopyBlock
<1>5. CASE Again(Have(all))
  <2>1. zcall' = "mem_def" /\ len' = Unassigned /\ result' = "none"
    BY <1>1, <1>2, <1>5 DEF Loop
  <2>2. Loop(Stream(source))'
    BY <1>3, <1>4, <2>1 DEF Loop, Unassigned
  <2> QED BY <1>1, <2>1, <2>2
<1>6. CASE ~Again(Have(all))
  <2>1. Have(all) # CHUNK /\ given + Have(all) = Len(all)
    BY <1>1, <1>6, HaveBounds DEF Again, Loop
  <2>2. ret' = "Z_STREAM_END"
    BY <1>1, <1>2, <2>1 DEF Codes
  <2>3. dest' = all
    BY <1>1, <1>4, <2>1, SubSeqFull
  <2>4. zcall' = "none" /\ result' = "Z_OK" /\ len' = {Len(dest')}
    BY <1>2, <1>6 DEF Return
  <2> QED BY <1>1, <1>3, <2>2, <2>3, <2>4 DEF MemDefDone
<1> QED BY <1>5, <1>6

(* A call of inflate goes on with the loop, or the result, the data and    *)
(* the length are what a caller may rely on.                               *)
LEMMA InflateLoop ==
  ASSUME Plain(source) \in Seq(Byte), Verdict(source) \in Verdicts, Loop(Plain(source)), mem_inf
  PROVE  /\ source' = source
         /\ \/ zcall' = "mem_inf" /\ Loop(Plain(source))'
            \/ zcall' = "none" /\ MemInfDone(source)'
<1> DEFINE all == Plain(source)
           end == Verdict(source)
<1>1. /\ all \in Seq(Byte) /\ Len(all) \in Nat /\ Loop(all) /\ source' = source
      /\ zcall = "mem_inf" /\ end \in Verdicts
  BY LenProperties DEF mem_inf
<1>2. /\ ret' \in Codes(all, end)
      /\ IF ret' = "Z_DATA_ERROR"
           THEN zcall' = "none" /\ result' = ret' /\ UNCHANGED <<given, dest, len>>
           ELSE /\ Copy(all)
                /\ IF Again(Have(all)) THEN UNCHANGED <<zcall, result, len>>
                                       ELSE Return(EndCode(ret'))
  BY DEF mem_inf
<1>3. Plain(source') = all /\ Verdict(source') = end
  BY <1>1
<1>4. given \in 0 .. Len(all) /\ dest = SubSeq(all, 1, given) /\ len = Unassigned /\ result = "none"
  BY <1>1 DEF Loop
<1> HIDE DEF all, end
<1>5. CASE ret' = "Z_DATA_ERROR"
  <2>1. end = "Z_DATA_ERROR"
    BY <1>2, <1>5 DEF Codes
  <2>2. zcall' = "none" /\ result' = "Z_DATA_ERROR" /\ dest' = dest /\ len' = Unassigned
    BY <1>2, <1>4, <1>5
  <2>3. Len(dest) = given
    <3>1. \A i \in 1 .. given : all[i] \in Byte
      BY <1>1, <1>4, ElementOfSeq
    <3> QED BY <1>4, <3>1, SubSeqProperties
  <2>4. Len(dest') <= Len(all) /\ dest' = SubSeq(all, 1, Len(dest'))
    BY <1>1, <1>4, <2>2, <2>3
  <2>5. MemInfDone(source)'
    BY <1>3, <2>1, <2>2, <2>4 DEF MemInfDone, Unassigned
  <2> QED BY <1>1, <2>2, <2>5
<1>6. CASE ret' # "Z_DATA_ERROR" /\ Again(Have(all))
  <2>1. given' \in 0 .. Len(all) /\ dest' = SubSeq(all, 1, given')
    BY <1>1, <1>2, <1>6, CopyBlock
  <2>2. zcall' = "mem_inf" /\ len' = Unassigned /\ result' = "none"
    BY <1>1, <1>2, <1>4, <1>6
  <2>3. Loop(Plain(source))'
    BY <1>3, <2>1, <2>2 DEF Loop, Unassigned
  <2> QED BY <1>1, <2>2, <2>3
<1>7. CASE ret' # "Z_DATA_ERROR" /\ ~Again(Have(all))
  <2>1. Have(all) # CHUNK /\ given + Have(all) = Len(all)
    BY <1>1, <1>4, <1>7, HaveBounds DEF Again
  <2>2. ret' = end
    BY <1>1, <1>2, <2>1 DEF Codes
  <2>3. dest' = all
    BY <1>1, <1>2, <1>7, <2>1, CopyBlock, SubSeqFull
  <2>4. zcall' = "none" /\ result' = EndCode(end) /\ len' = {Len(dest')}
    BY <1>2, <1>7, <2>2 DEF Return
  <2>5. result' = "Z_OK" <=> end = "Z_STREAM_END"
    BY <2>4 DEF EndCode
  <2>6. MemInfDone(source)'
    BY <1>3, <1>7, <2>2, <2>3, <2>4, <2>5 DEF MemInfDone
  <2> QED BY <1>1, <2>4, <2>6
<1> QED BY <1>5, <1>6, <1>7

(* A call of mem_def or mem_inf begins with nothing written. *)
LEMMA LoopStarts ==
  ASSUME NEW f, NEW s, NEW all \in Seq(Byte), Start(f, s)
  PROVE  zcall' = f /\ source' = s /\ Loop(all)'
<1>1. Len(all) \in Nat
  BY LenProperties
<1>2. SubSeq(all, 1, 0) = <<>>
  BY SubSeqEmpty
<1> QED BY <1>1, <1>2 DEF Start, Loop, Unassigned

-----------------------------------------------------------------------------
(* Places in a file *)

(* s stands in f behind position p. *)
At(f, p, s) == p + Len(s) <= Len(f) /\ \A i \in 1 .. Len(s) : f[p + i] = s[i]

(* A file stands in itself. *)
LEMMA AtStart ==
  ASSUME NEW f \in Seq(Byte)
  PROVE  At(f, 0, f)
<1>1. Len(f) \in Nat /\ \A i \in 1 .. Len(f) : 0 + i = i
  BY LenProperties
<1>2. 0 + Len(f) <= Len(f)
  BY <1>1
<1>3. \A i \in 1 .. Len(f) : f[0 + i] = f[i]
  BY <1>1, Zenon
<1> QED BY <1>2, <1>3 DEF At

(* The parts of what stands in a file *)
LEMMA AtParts ==
  ASSUME NEW f \in Seq(Byte), NEW p \in Nat, NEW s \in Seq(Byte), NEW t \in Seq(Byte),
         At(f, p, s \o t)
  PROVE  At(f, p, s) /\ At(f, p + Len(s), t)
<1> DEFINE st == s \o t
<1>1. Len(f) \in Nat /\ Len(s) \in Nat /\ Len(t) \in Nat
  BY LenProperties
<1>2. /\ Len(st) = Len(s) + Len(t)
      /\ \A i \in 1 .. Len(s) + Len(t) : st[i] = IF i <= Len(s) THEN s[i] ELSE t[i - Len(s)]
  BY ConcatProperties
<1>3. p + Len(st) <= Len(f) /\ \A i \in 1 .. Len(st) : f[p + i] = st[i]
  BY DEF At
<1> HIDE DEF st
<1>4. At(f, p, s)
  <2>1. p + Len(s) <= Len(f)
    BY <1>1, <1>2, <1>3
  <2>2. ASSUME NEW i \in 1 .. Len(s)
        PROVE  f[p + i] = s[i]
    <3>1. i \in 1 .. Len(st) /\ i \in 1 .. Len(s) + Len(t) /\ i <= Len(s)
      BY <1>1, <1>2
    <3> QED BY <1>2, <1>3, <3>1
  <2> QED BY <2>1, <2>2 DEF At
<1>5. At(f, p + Len(s), t)
  <2>1. (p + Len(s)) + Len(t) <= Len(f)
    BY <1>1, <1>2, <1>3
  <2>2. ASSUME NEW i \in 1 .. Len(t)
        PROVE  f[(p + Len(s)) + i] = t[i]
    <3> DEFINE k == Len(s) + i
    <3>1. /\ k \in 1 .. Len(st) /\ k \in 1 .. Len(s) + Len(t) /\ ~(k <= Len(s))
          /\ k - Len(s) = i /\ (p + Len(s)) + i = p + k
      BY <1>1, <1>2
    <3> HIDE DEF k
    <3>2. st[k] = t[i]
      BY <1>2, <3>1
    <3>3. f[p + k] = st[k]
      BY <1>3, <3>1
    <3> QED BY <3>1, <3>2, <3>3
  <2> QED BY <2>1, <2>2 DEF At
<1> QED BY <1>4, <1>5

(* s with another byte *)
Change(s, j, b) == [s EXCEPT ![j] = b]

(* It has the length, and elsewhere the bytes, it had before. *)
LEMMA Changed ==
  ASSUME NEW s \in Seq(Byte), NEW j \in 1 .. Len(s), NEW b \in Byte
  PROVE  /\ Change(s, j, b) \in Seq(Byte)
         /\ Len(Change(s, j, b)) = Len(s)
         /\ Change(s, j, b)[j] = b
         /\ \A i \in 1 .. Len(s) : i # j => Change(s, j, b)[i] = s[i]
BY ExceptSeq DEF Change

(* A byte changed elsewhere leaves s alone, *)
LEMMA ChangeElsewhere ==
  ASSUME NEW f \in Seq(Byte), NEW p \in Nat, NEW s \in Seq(Byte), At(f, p, s),
         NEW q \in 1 .. Len(f), NEW b \in Byte, q \notin p + 1 .. p + Len(s)
  PROVE  At(Change(f, q, b), p, s)
<1> DEFINE h == Change(f, q, b)
<1>1. Len(f) \in Nat /\ Len(s) \in Nat
  BY LenProperties
<1>2. Len(h) = Len(f) /\ \A j \in 1 .. Len(f) : j # q => h[j] = f[j]
  BY Changed
<1>3. p + Len(s) <= Len(f) /\ \A i \in 1 .. Len(s) : f[p + i] = s[i]
  BY DEF At
<1> HIDE DEF h
<1>4. ASSUME NEW i \in 1 .. Len(s)
      PROVE  h[p + i] = s[i]
  <2>1. p + i \in 1 .. Len(f) /\ p + i # q
    BY <1>1, <1>3
  <2> QED BY <1>2, <1>3, <2>1
<1>5. At(h, p, s)
  BY <1>2, <1>3, <1>4 DEF At
<1> QED BY <1>5 DEF h

(* and one within s changes it there. *)
LEMMA ChangeWithin ==
  ASSUME NEW f \in Seq(Byte), NEW p \in Nat, NEW s \in Seq(Byte), At(f, p, s),
         NEW j \in 1 .. Len(s), NEW b \in Byte
  PROVE  /\ p + j \in 1 .. Len(f)
         /\ At(Change(f, p + j, b), p, Change(s, j, b))
         /\ f[p + j] = s[j]
<1>1. Len(f) \in Nat /\ Len(s) \in Nat
  BY LenProperties
<1>2. p + Len(s) <= Len(f) /\ \A i \in 1 .. Len(s) : f[p + i] = s[i]
  BY DEF At
<1>3. p + j \in 1 .. Len(f)
  BY <1>1, <1>2
<1> DEFINE h == Change(f, p + j, b)
           u == Change(s, j, b)
<1> HIDE DEF h, u
<1>4. /\ Len(h) = Len(f) /\ h[p + j] = b
      /\ \A i \in 1 .. Len(f) : i # p + j => h[i] = f[i]
  BY <1>3, Changed, Zenon DEF h
<1>5. Len(u) = Len(s) /\ u[j] = b /\ \A i \in 1 .. Len(s) : i # j => u[i] = s[i]
  BY Changed, Zenon DEF u
<1>6. ASSUME NEW i \in 1 .. Len(s)
      PROVE  h[p + i] = u[i]
  <2>1. p + i \in 1 .. Len(f) /\ (p + i = p + j <=> i = j)
    BY <1>1, <1>2
  <2> QED BY <1>2, <1>4, <1>5, <2>1
<1>7. At(h, p, u)
  BY <1>1, <1>2, <1>4, <1>5, <1>6 DEF At
<1> QED BY <1>2, <1>3, <1>7 DEF h, u

(* fread and memcpy get what stands there, *)
LEMMA BytesAt ==
  ASSUME NEW p \in Nat, NEW s \in Seq(Byte), NEW g, At(file, p, s)
  PROVE  Bytes(p, Len(s), g) = s
<1>1. Len(s) \in Nat /\ s \in [1 .. Len(s) -> Byte]
  BY LenProperties
<1>2. ASSUME NEW k \in 1 .. Len(s)
      PROVE  (IF p + k <= Len(file) THEN file[p + k] ELSE g) = s[k]
  <2>1. p + k <= p + Len(s)
    BY <1>1
  <2>2. file[p + k] = s[k] /\ p + Len(s) <= Len(file)
    BY DEF At
  <2> QED BY <1>1, <2>1, <2>2
<1>3. Bytes(p, Len(s), g) = [k \in 1 .. Len(s) |-> s[k]]
  BY <1>2 DEF Bytes
<1>4. s = [k \in 1 .. Len(s) |-> s[k]]
  BY <1>1
<1> QED BY <1>3, <1>4

(* and bytes wherever they look. *)
LEMMA BytesAreBytes ==
  ASSUME file \in Seq(Byte), NEW p \in Nat, NEW n \in Nat, NEW g \in Byte
  PROVE  Bytes(p, n, g) \in Seq(Byte) /\ Bytes(p, n, g) \in [1 .. n -> Byte]
<1>1. Len(file) \in Nat /\ \A i \in 1 .. Len(file) : file[i] \in Byte
  BY LenProperties, ElementOfSeq
<1>2. Bytes(p, n, g) \in [1 .. n -> Byte]
  BY <1>1 DEF Bytes
<1> QED BY <1>2

-----------------------------------------------------------------------------
(* A chunk in a file *)

ChunkRecord == [length : Unsigned, type : Seq(Byte), p_data : Seq(Byte), crc : Words]

(* A chunk as catpng makes it *)
Made(c) ==
  /\ c \in ChunkRecord
  /\ c.length = Len(c.p_data)
  /\ Len(c.type) = TypeBytes
  /\ c.crc = htonl[calculate_chunk_crc(c.type, c.p_data)]

(* A word in memory is a sequence of bytes. *)
LEMMA WordSeqIsSeq ==
  ASSUME NEW s \in WordSeq
  PROVE  s \in Seq(Byte) /\ Len(s) = WordBytes
BY WholeBytes DEF WordSeq

(* Its four parts, and where they are *)
LEMMA ChunkParts ==
  ASSUME NEW c, Made(c)
  PROVE  /\ c.length \in Nat /\ Len(c.type) \in Nat /\ TypeBytes = Len(c.type)
         /\ BytesOf(htonl[Word(c.length)]) \in WordSeq /\ BytesOf(c.crc) \in WordSeq
         /\ write_chunk(c) \in Seq(Byte)
         /\ Len(write_chunk(c)) = WordBytes + TypeBytes + c.length + WordBytes
         /\ \A f \in Seq(Byte), p \in Nat : At(f, p, write_chunk(c)) =>
              /\ At(f, p, BytesOf(htonl[Word(c.length)]))
              /\ At(f, p + WordBytes, c.type)
              /\ At(f, p + WordBytes + TypeBytes, c.p_data)
              /\ At(f, p + WordBytes + TypeBytes + c.length, BytesOf(c.crc))
<1> DEFINE l == BytesOf(htonl[Word(c.length)])
           t == c.type
           d == c.p_data
           z == BytesOf(c.crc)
<1>1. /\ c.length \in Unsigned /\ t \in Seq(Byte) /\ d \in Seq(Byte) /\ c.crc \in Words
      /\ c.length = Len(d) /\ Len(t) = TypeBytes
  BY DEF Made, ChunkRecord
<1>2. l \in WordSeq /\ z \in WordSeq
  BY <1>1, NumberInFile, BytesTyped
<1>3. l \in Seq(Byte) /\ Len(l) = WordBytes /\ z \in Seq(Byte) /\ Len(z) = WordBytes
  BY <1>2, WordSeqIsSeq
<1>4. write_chunk(c) = ((l \o t) \o d) \o z
  BY DEF write_chunk
<1>5. c.length \in Nat /\ Len(t) \in Nat
  BY <1>1, LenProperties
<1>6. /\ l \in WordSeq /\ z \in WordSeq /\ BytesOf(htonl[Word(c.length)]) = l /\ BytesOf(c.crc) = z
      /\ c.type = t /\ c.p_data = d
  BY <1>2
<1> HIDE DEF l, t, d, z
<1>7. l \o t \in Seq(Byte) /\ Len(l \o t) = WordBytes + TypeBytes
  <2>1. l \o t \in Seq(Byte) /\ Len(l \o t) = Len(l) + Len(t)
    BY <1>1, <1>3, ConcatProperties
  <2> QED BY <1>1, <1>3, <2>1
<1>8. (l \o t) \o d \in Seq(Byte) /\ Len((l \o t) \o d) = WordBytes + TypeBytes + c.length
  BY <1>1, <1>7, ConcatProperties
<1>9. /\ ((l \o t) \o d) \o z \in Seq(Byte)
      /\ Len(((l \o t) \o d) \o z) = WordBytes + TypeBytes + c.length + WordBytes
  <2> DEFINE ltd == (l \o t) \o d
  <2>1. ltd \o z \in Seq(Byte) /\ Len(ltd \o z) = Len(ltd) + Len(z)
    BY <1>3, <1>8, ConcatProperties
  <2> QED BY <1>3, <1>8, <2>1
<1>10. ASSUME NEW f \in Seq(Byte), NEW p \in Nat, At(f, p, ((l \o t) \o d) \o z)
       PROVE  /\ At(f, p, l)
              /\ At(f, p + WordBytes, t)
              /\ At(f, p + WordBytes + TypeBytes, d)
              /\ At(f, p + WordBytes + TypeBytes + c.length, z)
  <2>1. At(f, p, (l \o t) \o d) /\ At(f, p + (WordBytes + TypeBytes + c.length), z)
    BY <1>3, <1>8, <1>10, AtParts
  <2>2. At(f, p, l \o t) /\ At(f, p + (WordBytes + TypeBytes), d)
    BY <1>1, <1>7, <2>1, AtParts
  <2>3. At(f, p, l) /\ At(f, p + WordBytes, t)
    BY <1>1, <1>3, <2>2, AtParts
  <2>4. /\ p + (WordBytes + TypeBytes + c.length) = p + WordBytes + TypeBytes + c.length
        /\ p + (WordBytes + TypeBytes) = p + WordBytes + TypeBytes
    BY <1>1, <1>5, WholeBytes
  <2> QED BY <2>1, <2>2, <2>3, <2>4
<1> QED BY <1>1, <1>4, <1>5, <1>6, <1>9, <1>10

(* A byte changed in the type or in the data changes the checksum. *)
LEMMA ChangeSeen ==
  ASSUME NEW s \in Seq(Byte), NEW t \in Seq(Byte), NEW b \in Byte
  PROVE  /\ \A j \in 1 .. Len(s) : b # s[j] => crc(Change(s, j, b) \o t) # crc(s \o t)
         /\ \A j \in 1 .. Len(t) : b # t[j] => crc(s \o Change(t, j, b)) # crc(s \o t)
<1>1. Len(s) \in Nat /\ Len(t) \in Nat
  BY LenProperties
<1> DEFINE st == s \o t
<1>2. /\ st \in Seq(Byte) /\ Len(st) = Len(s) + Len(t)
      /\ \A i \in 1 .. Len(s) + Len(t) : st[i] = IF i <= Len(s) THEN s[i] ELSE t[i - Len(s)]
  BY ConcatProperties
<1>3. ASSUME NEW j \in 1 .. Len(s), b # s[j]
      PROVE  crc(Change(s, j, b) \o t) # crc(st)
  <2> DEFINE u == Change(s, j, b)
             ut == u \o t
  <2>1. /\ u \in Seq(Byte) /\ Len(u) = Len(s)
        /\ u[j] = b /\ \A i \in 1 .. Len(s) : i # j => u[i] = s[i]
    BY Changed, Zenon
  <2> HIDE DEF u
  <2>2. /\ ut \in Seq(Byte) /\ Len(ut) = Len(u) + Len(t)
        /\ \A i \in 1 .. Len(u) + Len(t) : ut[i] = IF i <= Len(u) THEN u[i] ELSE t[i - Len(u)]
    BY <2>1, ConcatProperties
  <2> HIDE DEF st, ut
  <2>3. j \in 1 .. Len(st) /\ ut[j] # st[j]
    BY <1>1, <1>2, <1>3, <2>1, <2>2
  <2>4. Len(ut) = Len(st)
    BY <1>1, <1>2, <2>1, <2>2
  <2>6. ASSUME NEW i \in 1 .. Len(st), i # j
        PROVE  ut[i] = st[i]
    <3>1. i \in 1 .. Len(s) + Len(t) /\ i \in 1 .. Len(u) + Len(t)
      BY <1>2, <2>1
    <3>2. CASE i <= Len(s)
      <4>1. i \in 1 .. Len(s) /\ i <= Len(u)
        BY <1>1, <2>1, <3>1, <3>2
      <4> QED BY <1>2, <2>1, <2>2, <2>6, <3>1, <4>1
    <3>3. CASE ~(i <= Len(s))
      <4>1. ut[i] = t[i - Len(u)] /\ st[i] = t[i - Len(s)]
        BY <1>2, <2>1, <2>2, <3>1, <3>3
      <4> QED BY <2>1, <4>1
    <3> QED BY <3>2, <3>3
  <2>5. crc(ut) # crc(st)
    BY <1>2, <2>2, <2>3, <2>4, <2>6, OneByteSeen
  <2> QED BY <2>5 DEF ut, u
<1>4. ASSUME NEW j \in 1 .. Len(t), b # t[j]
      PROVE  crc(s \o Change(t, j, b)) # crc(st)
  <2> DEFINE u == Change(t, j, b)
             su == s \o u
             k == Len(s) + j
  <2>1. /\ u \in Seq(Byte) /\ Len(u) = Len(t)
        /\ u[j] = b /\ \A i \in 1 .. Len(t) : i # j => u[i] = t[i]
    BY Changed, Zenon
  <2> HIDE DEF u
  <2>2. /\ su \in Seq(Byte) /\ Len(su) = Len(s) + Len(u)
        /\ \A i \in 1 .. Len(s) + Len(u) : su[i] = IF i <= Len(s) THEN s[i] ELSE u[i - Len(s)]
    BY <2>1, ConcatProperties
  <2>3. /\ k \in 1 .. Len(st) /\ ~(k <= Len(s)) /\ k - Len(s) = j
        /\ \A i \in 1 .. Len(st) : i # k /\ ~(i <= Len(s)) => i - Len(s) \in 1 .. Len(t) /\ i - Len(s) # j
    BY <1>1, <1>2
  <2> HIDE DEF st, su, k
  <2>4. su[k] # st[k]
    BY <1>1, <1>2, <1>4, <2>1, <2>2, <2>3
  <2>5. Len(su) = Len(st) /\ \A i \in 1 .. Len(st) : i # k => su[i] = st[i]
    BY <1>1, <1>2, <2>1, <2>2, <2>3
  <2>6. crc(su) # crc(st)
    BY <1>2, <2>2, <2>3, <2>4, <2>5, OneByteSeen
  <2> QED BY <2>6 DEF su, u
<1> QED BY <1>3, <1>4

(* A chunk that is in the file is read as it was written, *)
LEMMA ChunkBack ==
  ASSUME file \in Seq(Byte), NEW c, Made(c), NEW p \in Nat, NEW g \in Byte,
         At(file, p, write_chunk(c))
  PROVE  /\ LengthAt(p, g) = c.length
         /\ SameChunk(ChunkAt(p, c.length, g), c)
         /\ CrcIntact(ChunkAt(p, c.length, g))
<1>1. /\ c \in ChunkRecord /\ c.length = Len(c.p_data) /\ Len(c.type) = TypeBytes
      /\ c.crc = htonl[calculate_chunk_crc(c.type, c.p_data)]
  BY DEF Made
<1>2. c.length \in Unsigned /\ c.type \in Seq(Byte) /\ c.p_data \in Seq(Byte) /\ c.crc \in Words
  BY <1>1 DEF ChunkRecord
<1>3. /\ At(file, p, BytesOf(htonl[Word(c.length)]))
      /\ At(file, p + WordBytes, c.type)
      /\ At(file, p + WordBytes + TypeBytes, c.p_data)
      /\ At(file, p + WordBytes + TypeBytes + c.length, BytesOf(c.crc))
      /\ c.length \in Nat /\ TypeBytes \in Nat
      /\ BytesOf(htonl[Word(c.length)]) \in WordSeq /\ BytesOf(c.crc) \in WordSeq
  BY ChunkParts
<1>4. p + WordBytes \in Nat /\ p + WordBytes + TypeBytes \in Nat
      /\ p + WordBytes + TypeBytes + c.length \in Nat
  BY <1>3, WholeBytes
<1>5. Bytes(p, WordBytes, g) = BytesOf(htonl[Word(c.length)])
  BY <1>3, WordSeqIsSeq, BytesAt
<1>6. LengthAt(p, g) = c.length
  BY <1>2, <1>5, NumberInFile DEF LengthAt
<1>7. Bytes(p + WordBytes, TypeBytes, g) = c.type
  BY <1>1, <1>2, <1>3, <1>4, BytesAt
<1>8. Bytes(p + WordBytes + TypeBytes, c.length, g) = c.p_data
  BY <1>1, <1>2, <1>3, <1>4, BytesAt
<1>9. Bytes(p + WordBytes + TypeBytes + c.length, WordBytes, g) = BytesOf(c.crc)
  BY <1>3, <1>4, WordSeqIsSeq, BytesAt
<1>10. ChunkAt(p, c.length, g)
         = [length |-> c.length, type |-> c.type, p_data |-> c.p_data, crc |-> ntohl[c.crc]]
  BY <1>2, <1>7, <1>8, <1>9, WordOfBytes DEF ChunkAt
<1>11. SameChunk(ChunkAt(p, c.length, g), c)
  <2>1. PICK w : w = ntohl[c.crc]
    OBVIOUS
  <2>2. [c EXCEPT !.crc = w]
          = [length |-> c.length, type |-> c.type, p_data |-> c.p_data, crc |-> w]
    BY <1>1 DEF ChunkRecord
  <2> QED BY <1>10, <2>1, <2>2 DEF SameChunk
<1>12. c.type \o c.p_data \in Seq(Byte)
  BY <1>2, ConcatProperties
<1>13. ntohl[c.crc] = calculate_chunk_crc(c.type, c.p_data)
  BY <1>1, <1>12, CrcTyped, ByteOrder DEF calculate_chunk_crc
<1> QED BY <1>6, <1>10, <1>11, <1>13 DEF CrcIntact

(* and one with a wrong byte behind its length is seen not to be intact. *)
LEMMA DamageSeen ==
  ASSUME NEW f \in Seq(Byte), NEW c, Made(c), NEW p \in Nat, At(f, p, write_chunk(c)),
         NEW q \in p + WordBytes + 1 .. p + Len(write_chunk(c)),
         NEW b \in Byte, b # f[q], file = Change(f, q, b), NEW g \in Byte
  PROVE  LengthAt(p, g) = c.length /\ ~CrcIntact(ChunkAt(p, c.length, g))
<1> DEFINE l == BytesOf(htonl[Word(c.length)])
           t == c.type
           d == c.p_data
           z == BytesOf(c.crc)
           pt == p + WordBytes
           pd == p + WordBytes + TypeBytes
           pz == p + WordBytes + TypeBytes + c.length
           w == WordOf[Bytes(pz, WordBytes, g)]
           r == ChunkAt(p, c.length, g)
<1>1. /\ c \in ChunkRecord /\ c.length = Len(d) /\ Len(t) = TypeBytes
      /\ c.crc = htonl[calculate_chunk_crc(t, d)]
  BY DEF Made
<1>2. c.length \in Unsigned /\ t \in Seq(Byte) /\ d \in Seq(Byte) /\ c.crc \in Words
  BY <1>1 DEF ChunkRecord
<1>3. /\ At(f, p, l) /\ At(f, pt, t) /\ At(f, pd, d) /\ At(f, pz, z)
      /\ c.length \in Nat /\ TypeBytes \in Nat
      /\ l \in WordSeq /\ z \in WordSeq
      /\ Len(write_chunk(c)) = WordBytes + TypeBytes + c.length + WordBytes
  BY ChunkParts
<1>4. l \in Seq(Byte) /\ Len(l) = WordBytes /\ z \in Seq(Byte) /\ Len(z) = WordBytes
  BY <1>3, WordSeqIsSeq
<1>5. /\ WordBytes \in Nat /\ pt \in Nat /\ pd \in Nat /\ pz \in Nat /\ Len(f) \in Nat
      /\ Len(t) \in Nat /\ Len(d) \in Nat /\ Len(z) \in Nat /\ Len(z) = WordBytes
      /\ pt = p + WordBytes /\ pd = pt + Len(t) /\ pz = pd + Len(d)
      /\ pz + Len(z) = p + Len(write_chunk(c))
      /\ pz + Len(z) <= Len(f)
  <2>1. WordBytes \in Nat /\ Len(f) \in Nat
    BY WholeBytes, LenProperties
  <2>2. pt \in Nat /\ pd \in Nat /\ pz \in Nat /\ pt = p + WordBytes
        /\ pd = pt + TypeBytes /\ pz = pd + c.length
        /\ pz + WordBytes = p + Len(write_chunk(c))
    BY <1>3, <2>1
  <2>3. pz + Len(z) <= Len(f)
    BY <1>3 DEF At
  <2> QED BY <1>1, <1>3, <1>4, <2>1, <2>2, <2>3
<1>6. q \in 1 .. Len(f) /\ q \in pt + 1 .. pz + Len(z)
  BY <1>5
<1>7. file \in Seq(Byte)
  BY <1>6, Changed
<1>8. LengthAt(p, g) = c.length
  <2>1. q \notin p + 1 .. p + Len(l)
    BY <1>4, <1>5, <1>6
  <2>2. At(file, p, l)
    BY <1>3, <1>4, <1>6, <2>1, ChangeElsewhere
  <2>3. Bytes(p, WordBytes, g) = l
    BY <1>4, <2>2, BytesAt
  <2> QED BY <1>2, <2>3, NumberInFile DEF LengthAt
<1>9. /\ r.type = Bytes(pt, TypeBytes, g)
      /\ r.p_data = Bytes(pd, c.length, g)
      /\ r.crc = ntohl[w]
  BY DEF ChunkAt
<1>10. CrcIntact(r) <=> r.crc = crc(r.type \o r.p_data)
  BY DEF CrcIntact, calculate_chunk_crc
<1>11. ntohl[WordOf[z]] = crc(t \o d) /\ WordOf[z] = c.crc
  <2>1. WordOf[z] = c.crc
    BY <1>2, WordOfBytes
  <2>2. t \o d \in Seq(Byte)
    BY <1>2, ConcatProperties
  <2>3. crc(t \o d) \in Words /\ c.crc = htonl[crc(t \o d)]
    BY <1>1, <2>2, CrcTyped DEF calculate_chunk_crc
  <2> QED BY <2>1, <2>3, ByteOrder
<1> HIDE DEF r, w, l, t, d, z, pt, pd, pz
<1>12. q \notin pt + 1 .. pt + Len(t) => Bytes(pt, TypeBytes, g) = t
  BY <1>1, <1>2, <1>3, <1>5, <1>6, ChangeElsewhere, BytesAt
<1>13. q \notin pd + 1 .. pd + Len(d) => Bytes(pd, c.length, g) = d
  BY <1>1, <1>2, <1>3, <1>5, <1>6, ChangeElsewhere, BytesAt
<1>14. q \notin pz + 1 .. pz + Len(z) => Bytes(pz, WordBytes, g) = z
  BY <1>3, <1>4, <1>5, <1>6, ChangeElsewhere, BytesAt
<1>15. CASE q \in pt + 1 .. pt + Len(t)
  <2> DEFINE j == q - pt
             u == Change(t, j, b)
  <2>1. j \in 1 .. Len(t) /\ pt + j = q
    BY <1>5, <1>6, <1>15
  <2>2. q \notin pd + 1 .. pd + Len(d) /\ q \notin pz + 1 .. pz + Len(z)
    BY <1>5, <1>6, <1>15
  <2>3. u \in Seq(Byte) /\ Len(u) = TypeBytes
    BY <1>1, <1>2, <2>1, Changed
  <2> HIDE DEF j
  <2>4. At(file, pt, u) /\ f[q] = t[j]
    <3>1. At(f, pt, t) /\ pt \in Nat /\ t \in Seq(Byte) /\ j \in 1 .. Len(t)
      BY <1>2, <1>3, <1>5, <2>1
    <3>2. At(Change(f, pt + j, b), pt, Change(t, j, b)) /\ f[pt + j] = t[j]
      BY <3>1, ChangeWithin
    <3> QED BY <2>1, <3>2, Zenon DEF u
  <2>5. Bytes(pt, TypeBytes, g) = u
    <3> HIDE DEF u
    <3> QED BY <1>5, <2>3, <2>4, BytesAt
  <2>6. crc(u \o d) # crc(t \o d)
    BY <1>2, <2>1, <2>4, ChangeSeen
  <2>7. r.type = u /\ r.p_data = d /\ r.crc = crc(t \o d)
    BY <1>9, <1>11, <1>13, <1>14, <2>2, <2>5 DEF w
  <2>8. ~CrcIntact(r)
    BY <1>10, <2>6, <2>7
  <2> QED BY <1>8, <2>8 DEF r
<1>16. CASE q \in pd + 1 .. pd + Len(d)
  <2> DEFINE j == q - pd
             u == Change(d, j, b)
  <2>1. j \in 1 .. Len(d) /\ pd + j = q
    BY <1>5, <1>6, <1>16
  <2>2. q \notin pt + 1 .. pt + Len(t) /\ q \notin pz + 1 .. pz + Len(z)
    BY <1>5, <1>6, <1>16
  <2>3. u \in Seq(Byte) /\ Len(u) = c.length
    BY <1>1, <1>2, <2>1, Changed
  <2> HIDE DEF j
  <2>4. At(file, pd, u) /\ f[q] = d[j]
    <3>1. At(f, pd, d) /\ pd \in Nat /\ d \in Seq(Byte) /\ j \in 1 .. Len(d)
      BY <1>2, <1>3, <1>5, <2>1
    <3>2. At(Change(f, pd + j, b), pd, Change(d, j, b)) /\ f[pd + j] = d[j]
      BY <3>1, ChangeWithin
    <3> QED BY <2>1, <3>2, Zenon DEF u
  <2>5. Bytes(pd, c.length, g) = u
    <3> HIDE DEF u
    <3> QED BY <1>5, <2>3, <2>4, BytesAt
  <2>6. crc(t \o u) # crc(t \o d)
    BY <1>2, <2>1, <2>4, ChangeSeen
  <2>7. r.type = t /\ r.p_data = u /\ r.crc = crc(t \o d)
    BY <1>9, <1>11, <1>12, <1>14, <2>2, <2>5 DEF w
  <2>8. ~CrcIntact(r)
    BY <1>10, <2>6, <2>7
  <2> QED BY <1>8, <2>8 DEF r
<1>17. CASE q \in pz + 1 .. pz + Len(z)
  <2> DEFINE j == q - pz
             u == Change(z, j, b)
  <2>1. j \in 1 .. Len(z) /\ j \in 1 .. WordBytes /\ pz + j = q
    BY <1>5, <1>6, <1>17
  <2>2. q \notin pt + 1 .. pt + Len(t) /\ q \notin pd + 1 .. pd + Len(d)
    BY <1>5, <1>6, <1>17
  <2>3. u \in Seq(Byte) /\ Len(u) = WordBytes /\ u[j] = b
    <3>1. z \in Seq(Byte) /\ j \in 1 .. Len(z) /\ Len(z) = WordBytes
      BY <1>4, <2>1
    <3> HIDE DEF j
    <3>2. u \in Seq(Byte) /\ Len(u) = Len(z) /\ u[j] = b
      BY <3>1, Changed, Zenon
    <3> QED BY <3>1, <3>2
  <2>4. u \in WordSeq
    BY <2>3, LenProperties DEF WordSeq
  <2> HIDE DEF j
  <2>5. At(file, pz, u) /\ f[q] = z[j]
    <3>1. At(f, pz, z) /\ pz \in Nat /\ z \in Seq(Byte) /\ j \in 1 .. Len(z)
      BY <1>3, <1>4, <1>5, <2>1
    <3>2. At(Change(f, pz + j, b), pz, Change(z, j, b)) /\ f[pz + j] = z[j]
      BY <3>1, ChangeWithin
    <3> QED BY <2>1, <3>2, Zenon DEF u
  <2> HIDE DEF u
  <2>6. Bytes(pz, WordBytes, g) = u
    BY <1>5, <2>3, <2>5, BytesAt
  <2>7. WordOf[u] # WordOf[z]
    BY <1>3, <2>3, <2>4, <2>5, BytesOfWord
  <2>8. WordOf[u] \in Words /\ WordOf[z] \in Words
    BY <1>3, <2>4, WordTyped
  <2>9. ntohl[WordOf[u]] # ntohl[WordOf[z]]
    <3>1. \A x \in Words : ntohl[ntohl[x]] = x
      BY ByteOrder
    <3>2. /\ ntohl[ntohl[WordOf[u]]] = WordOf[u]
          /\ ntohl[ntohl[WordOf[z]]] = WordOf[z]
      BY <2>8, <3>1, Zenon
    <3> QED BY <2>7, <3>2, Zenon
  <2>10. r.type = t /\ r.p_data = d /\ r.crc = ntohl[WordOf[u]]
    <3>1. Bytes(pt, TypeBytes, g) = t
      BY <1>12, <2>2
    <3>2. Bytes(pd, c.length, g) = d
      BY <1>13, <2>2
    <3> QED BY <1>9, <2>6, <3>1, <3>2 DEF w
  <2>11. ~CrcIntact(r)
    BY <1>10, <1>11, <2>9, <2>10
  <2> QED BY <1>8, <2>11 DEF r
<1>18. q \in pt + 1 .. pt + Len(t) \/ q \in pd + 1 .. pd + Len(d) \/ q \in pz + 1 .. pz + Len(z)
  BY <1>5, <1>6
<1> QED BY <1>15, <1>16, <1>17, <1>18

-----------------------------------------------------------------------------
(* The invariant *)

(* The chunks of the image *)
Image ==
  [t \in Chunks |-> MakeChunk(t, CASE t = "IHDR" -> IhdrData
                                   [] t = "IDAT" -> Stream(scan)
                                   [] t = "IEND" -> <<>>)]

Steps == {"scan", "deflate", "write", "stored", "read", "info", "checked", "inflate",
          "done", "failed", "crashed"}

(* The types of the variables, and what is not begun at a step *)
StepInv ==
  /\ step \in Steps
  /\ scan \in Sources
  /\ dims \in Widths \X Widths
  /\ file \in Seq(Byte)
  /\ reader \in {1, 2}
  /\ pos \in Nat
  /\ chunks \in Seq(ChunkRecord)
  /\ Len(chunks) <= 3
  /\ step \in {"scan", "deflate", "write", "stored"} => chunks = <<>> /\ damage.kind = "none"
  /\ step \in {"info", "checked", "inflate", "done"} => Len(chunks) = 3
  /\ step \notin {"checked", "inflate", "done"} => reported = {}
  /\ step = "info" => reader = 1
  /\ reader = 2 => reported = {}

(* The loop of mem_def, and what it leaves *)
DeflateInv ==
  /\ zcall = "mem_def" => step = "deflate"
  /\ zcall = "mem_inf" => step = "inflate"
  /\ step = "deflate" =>
       /\ source = scan
       /\ \/ zcall = "mem_def" /\ Loop(Stream(scan))
          \/ zcall = "none" /\ MemDefDone(scan)
  /\ step = "write" => MemDefDone(scan)

(* What is stored is the image, or it with one byte changed, or cut. *)
FileInv ==
  /\ step \notin {"scan", "deflate"} => ans = Image
  /\ step \notin {"scan", "deflate", "write"} =>
       /\ damage.kind = "none" => file = write_PNG(ans)
       /\ damage.kind = "byte" =>
            /\ damage.at \in 1 .. Len(write_PNG(ans))
            /\ \E b \in Byte : b # write_PNG(ans)[damage.at]
                               /\ file = Change(write_PNG(ans), damage.at, b)

(* A byte of chunk k is wrong. *)
Hit(k) == damage.kind = "byte" /\ CoveredBy(k, damage.at)

(* No byte is wrong, or one that tells nobody where a chunk ends. *)
Sound == damage.kind = "none" \/ \E k \in 1 .. 3 : Hit(k)

(* c is chunk k as it comes back. *)
Back(c, k) ==
  IF Hit(k) THEN ~CrcIntact(c) ELSE SameChunk(c, ans[NameOf[k]]) /\ CrcIntact(c)

(* Then the chunks are found, and what is wrong with them can be seen. *)
ReadInv ==
  Sound =>
    /\ step = "read" /\ Len(chunks) < 3 => pos = ChunkStart(Len(chunks) + 1)
    /\ step \notin {"scan", "deflate", "write", "stored"} =>
         \A k \in 1 .. Len(chunks) : Back(chunks[k], k)

(* The dimensions come back. *)
IhdrInv ==
  damage.kind = "none" /\ step \in {"info", "checked", "inflate", "done"} => ihdr = dims

(* pnginfo has reported the chunks that are not intact. *)
ReportInv ==
  reader = 1 /\ step \in {"checked", "inflate", "done"} =>
    reported = {NameOf[k] : k \in {j \in 1 .. 3 : ~CrcIntact(chunks[j])}}

CodecInv == StepInv /\ DeflateInv /\ FileInv /\ ReadInv /\ IhdrInv /\ ReportInv

(* zlib's answer to s, as inflate documents it *)
Answered(s) == Plain(s) \in Seq(Byte) /\ Verdict(s) \in Verdicts

(* The loop of mem_inf, and what it leaves *)
InflateInv ==
  step \in {"inflate", "done"} /\ Answered(chunks[2].p_data) =>
    /\ step = "inflate" =>
         /\ source = chunks[2].p_data
         /\ \/ zcall = "mem_inf" /\ Loop(Plain(source))
            \/ zcall = "none" /\ MemInfDone(source)
    /\ step = "done" => MemInfDone(chunks[2].p_data)

-----------------------------------------------------------------------------
(* The image in a file *)

(* All types have the length of IHDR's. *)
LEMMA TypeLengths ==
  \A t \in Chunks : TypeOf[t] \in Seq(Byte) /\ Len(TypeOf[t]) = TypeBytes
<1>1. TypeOf \in [Chunks -> Seq(Byte)] /\ \A t, u \in Chunks : Len(TypeOf[t]) = Len(TypeOf[u])
  BY CodecAssumption
<1>2. "IHDR" \in Chunks
  BY DEF Chunks
<1> QED BY <1>1, <1>2 DEF TypeBytes

(* MakeChunk makes chunks like those of catpng. *)
LEMMA ChunkMade ==
  ASSUME NEW t \in Chunks, NEW data \in Seq(Byte), Len(data) \in Unsigned
  PROVE  Made(MakeChunk(t, data)) /\ MakeChunk(t, data).p_data = data
<1>1. TypeOf[t] \in Seq(Byte) /\ Len(TypeOf[t]) = TypeBytes
  BY TypeLengths
<1>2. TypeOf[t] \o data \in Seq(Byte)
  BY <1>1, ConcatProperties
<1>3. htonl[calculate_chunk_crc(TypeOf[t], data)] \in Words
  BY <1>2, CrcTyped, ByteOrder DEF calculate_chunk_crc
<1> DEFINE w == htonl[calculate_chunk_crc(TypeOf[t], data)]
           c == MakeChunk(t, data)
<1>4. c = [length |-> Len(data), type |-> TypeOf[t], p_data |-> data, crc |-> w]
  BY DEF MakeChunk
<1>5. w \in Words
  BY <1>3
<1> HIDE DEF c
<1>6. c.length = Len(data) /\ c.type = TypeOf[t] /\ c.p_data = data /\ c.crc = w
  <2> HIDE DEF w
  <2> QED BY <1>4
<1>7. c \in ChunkRecord
  <2> HIDE DEF w
  <2> QED BY <1>1, <1>4, <1>5 DEF ChunkRecord
<1>8. Made(c)
  BY <1>1, <1>6, <1>7 DEF Made
<1> QED BY <1>6, <1>8 DEF c

(* The data of IHDR: two words and the rest *)
LEMMA IhdrTyped ==
  ASSUME dims \in Widths \X Widths
  PROVE  /\ IhdrData \in Seq(Byte)
         /\ Len(IhdrData) = IhdrSize /\ IhdrSize \in Unsigned
         /\ At(IhdrData, 0, BytesOf(htonl[Word(dims[1])]))
         /\ At(IhdrData, WordBytes, BytesOf(htonl[Word(dims[2])]))
<1> DEFINE x == BytesOf(htonl[Word(dims[1])])
           y == BytesOf(htonl[Word(dims[2])])
<1>1. dims[1] \in Unsigned /\ dims[2] \in Unsigned
  BY CodecAssumption
<1>2. x \in WordSeq /\ y \in WordSeq
  BY <1>1, NumberInFile
<1>3. /\ x \in Seq(Byte) /\ Len(x) = WordBytes /\ y \in Seq(Byte) /\ Len(y) = WordBytes
      /\ Format \in Seq(Byte) /\ Len(Format) \in Nat /\ WordBytes \in Nat
  BY <1>2, WordSeqIsSeq, CodecAssumption, LenProperties, WholeBytes
<1>4. IhdrData = (x \o y) \o Format
  BY DEF IhdrData
<1> HIDE DEF x, y
<1>5. x \o y \in Seq(Byte) /\ Len(x \o y) = WordBytes + WordBytes
  <2>1. x \o y \in Seq(Byte) /\ Len(x \o y) = Len(x) + Len(y)
    BY <1>3, ConcatProperties
  <2> QED BY <1>3, <2>1
<1>6. (x \o y) \o Format \in Seq(Byte) /\ Len((x \o y) \o Format) = (WordBytes + WordBytes) + Len(Format)
  <2>1. /\ (x \o y) \o Format \in Seq(Byte)
        /\ Len((x \o y) \o Format) = Len(x \o y) + Len(Format)
    BY <1>3, <1>5, ConcatProperties
  <2> QED BY <1>3, <1>5, <2>1
<1>7. Len(IhdrData) = IhdrSize
  BY <1>3, <1>4, <1>6 DEF IhdrSize
<1>8. IhdrSize \in Unsigned
  BY CodecAssumption DEF IhdrSize
<1>9. At(IhdrData, 0, IhdrData)
  BY <1>4, <1>6, AtStart
<1>10. At(IhdrData, 0, x \o y)
  BY <1>3, <1>4, <1>5, <1>6, <1>9, AtParts
<1>11. At(IhdrData, 0, x) /\ At(IhdrData, 0 + WordBytes, y)
  BY <1>3, <1>4, <1>6, <1>10, AtParts
<1>12. 0 + WordBytes = WordBytes
  BY <1>3
<1> QED BY <1>4, <1>6, <1>7, <1>8, <1>11, <1>12, Zenon DEF x, y

(* What stands somewhere is cut out by SubSeq. *)
LEMMA SubSeqAt ==
  ASSUME NEW f \in Seq(Byte), NEW p \in Nat, NEW s \in Seq(Byte), At(f, p, s)
  PROVE  SubSeq(f, p + 1, p + Len(s)) = s
<1>1. Len(f) \in Nat /\ Len(s) \in Nat
  BY LenProperties
<1>2. p + Len(s) <= Len(f) /\ \A i \in 1 .. Len(s) : f[p + i] = s[i]
  BY DEF At
<1>3. \A i \in p + 1 .. p + Len(s) : f[i] \in Byte
  <2> TAKE i \in p + 1 .. p + Len(s)
  <2>1. i \in 1 .. Len(f)
    BY <1>1, <1>2
  <2> QED BY <2>1, ElementOfSeq
<1> DEFINE u == SubSeq(f, p + 1, p + Len(s))
           n == p + Len(s)
<1>4. n \in Int /\ p + 1 \in Int /\ n - (p + 1) + 1 = Len(s) /\ (p + 1 <= n <=> Len(s) # 0)
  BY <1>1
<1>5. /\ u \in Seq(Byte)
      /\ Len(u) = IF p + 1 <= n THEN n - (p + 1) + 1 ELSE 0
      /\ \A i \in 1 .. n - (p + 1) + 1 : u[i] = f[(p + 1) + i - 1]
  BY <1>3, <1>4, SubSeqProperties
<1> HIDE DEF u, n
<1>6. Len(u) = Len(s)
  BY <1>1, <1>4, <1>5
<1>7. ASSUME NEW i \in 1 .. Len(s)
      PROVE  u[i] = s[i]
  <2>1. (p + 1) + i - 1 = p + i
    BY <1>1
  <2>2. u[i] = f[p + i]
    BY <1>4, <1>5, <2>1, Zenon
  <2> QED BY <1>2, <2>2
<1>8. u = s
  BY <1>5, <1>6, <1>7, SeqEqual
<1> QED BY <1>8 DEF u, n

(* The dimensions are the first two words. *)
LEMMA DimsBack ==
  ASSUME dims \in Widths \X Widths
  PROVE  DimsOf(IhdrData) = dims
<1> DEFINE x == BytesOf(htonl[Word(dims[1])])
           y == BytesOf(htonl[Word(dims[2])])
<1>1. dims[1] \in Unsigned /\ dims[2] \in Unsigned /\ dims = <<dims[1], dims[2]>>
  BY CodecAssumption
<1>2. /\ x \in WordSeq /\ Number[ntohl[WordOf[x]]] = dims[1]
      /\ y \in WordSeq /\ Number[ntohl[WordOf[y]]] = dims[2]
  BY <1>1, NumberInFile
<1>3. x \in Seq(Byte) /\ Len(x) = WordBytes /\ y \in Seq(Byte) /\ Len(y) = WordBytes
  BY <1>2, WordSeqIsSeq
<1>4. IhdrData \in Seq(Byte) /\ At(IhdrData, 0, x) /\ At(IhdrData, WordBytes, y)
  BY IhdrTyped
<1> HIDE DEF x, y
<1>5. SubSeq(IhdrData, 0 + 1, 0 + WordBytes) = x
  BY <1>3, <1>4, SubSeqAt
<1>6. SubSeq(IhdrData, WordBytes + 1, WordBytes + WordBytes) = y
  BY <1>3, <1>4, WholeBytes, SubSeqAt
<1>7. 0 + 1 = 1 /\ 0 + WordBytes = WordBytes /\ WordBytes + WordBytes = 2 * WordBytes
  BY WholeBytes
<1>8. SubSeq(IhdrData, 1, WordBytes) = x /\ SubSeq(IhdrData, WordBytes + 1, 2 * WordBytes) = y
  BY <1>5, <1>6, <1>7
<1>9. DimsOf(IhdrData) = <<Number[ntohl[WordOf[x]]], Number[ntohl[WordOf[y]]]>>
  BY <1>8 DEF DimsOf
<1> QED BY <1>1, <1>2, <1>9

(* Three chunks like those of catpng, in the order of the file *)
AllMade == \A k \in 1 .. 3 : Made(ans[NameOf[k]])

(* The names of the chunks, in order *)
LEMMA Names ==
  /\ NameOf[1] = "IHDR" /\ NameOf[2] = "IDAT" /\ NameOf[3] = "IEND"
  /\ \A k \in 1 .. 3 : k = 1 \/ k = 2 \/ k = 3
BY DEF NameOf

(* The chunks of the image are like that, with the data they should have. *)
LEMMA ImageMade ==
  ASSUME scan \in Sources, dims \in Widths \X Widths, ans = Image
  PROVE  /\ AllMade
         /\ ans["IHDR"].p_data = IhdrData
         /\ ans["IDAT"].p_data = Stream(scan)
<1>1. IhdrData \in Seq(Byte) /\ Len(IhdrData) \in Unsigned
  BY IhdrTyped
<1>2. Stream(scan) \in Seq(Byte) /\ Len(Stream(scan)) \in Unsigned
  BY CodecAssumption
<1>3. <<>> \in Seq(Byte) /\ Len(<<>>) \in Unsigned
  BY EmptySeq, ZeroUnsigned
<1>4. "IHDR" \in Chunks /\ "IDAT" \in Chunks /\ "IEND" \in Chunks
  BY DEF Chunks
<1>5. /\ ans["IHDR"] = MakeChunk("IHDR", IhdrData)
      /\ ans["IDAT"] = MakeChunk("IDAT", Stream(scan))
      /\ ans["IEND"] = MakeChunk("IEND", <<>>)
  BY <1>4 DEF Image
<1>6. Made(ans["IHDR"]) /\ ans["IHDR"].p_data = IhdrData
  BY <1>1, <1>4, <1>5, ChunkMade
<1>7. Made(ans["IDAT"]) /\ ans["IDAT"].p_data = Stream(scan)
  BY <1>2, <1>4, <1>5, ChunkMade
<1>8. Made(ans["IEND"])
  BY <1>3, <1>4, <1>5, ChunkMade
<1> QED BY <1>6, <1>7, <1>8, Names DEF AllMade

(* Where ChunkStart says, there the chunks are. *)
LEMMA Layout ==
  ASSUME AllMade
  PROVE  /\ write_PNG(ans) \in Seq(Byte)
         /\ ChunkStart(1) = Len(Sig)
         /\ \A k \in 1 .. 3 :
              /\ ChunkStart(k) \in Nat
              /\ At(write_PNG(ans), ChunkStart(k), write_chunk(ans[NameOf[k]]))
         /\ \A k \in 1 .. 2 : ChunkStart(k + 1) = ChunkStart(k) + Len(write_chunk(ans[NameOf[k]]))
<1> DEFINE f == write_PNG(ans)
           x == write_chunk(ans["IHDR"])
           y == write_chunk(ans["IDAT"])
           z == write_chunk(ans["IEND"])
<1>1. Made(ans["IHDR"]) /\ Made(ans["IDAT"]) /\ Made(ans["IEND"])
  BY Names DEF AllMade
<1>2. x \in Seq(Byte) /\ y \in Seq(Byte) /\ z \in Seq(Byte) /\ Sig \in Seq(Byte)
  BY <1>1, ChunkParts, CodecAssumption
<1>3. Len(x) \in Nat /\ Len(y) \in Nat /\ Len(z) \in Nat /\ Len(Sig) \in Nat
  BY <1>2, LenProperties
<1>4. f = ((Sig \o x) \o y) \o z
  BY DEF write_PNG
<1>5. /\ ChunkStart(1) = Len(Sig)
      /\ ChunkStart(2) = Len(Sig) + Len(x)
      /\ ChunkStart(3) = Len(Sig) + Len(x) + Len(y)
  BY <1>3 DEF ChunkStart
<1>6. /\ write_chunk(ans[NameOf[1]]) = x /\ write_chunk(ans[NameOf[2]]) = y
      /\ write_chunk(ans[NameOf[3]]) = z /\ write_PNG(ans) = f
  BY Names
<1> HIDE DEF f, x, y, z
<1>7. Sig \o x \in Seq(Byte) /\ Len(Sig \o x) = Len(Sig) + Len(x)
  BY <1>2, ConcatProperties
<1>8. /\ (Sig \o x) \o y \in Seq(Byte)
      /\ Len((Sig \o x) \o y) = Len(Sig) + Len(x) + Len(y)
  <2>1. /\ (Sig \o x) \o y \in Seq(Byte)
        /\ Len((Sig \o x) \o y) = Len(Sig \o x) + Len(y)
    BY <1>2, <1>7, ConcatProperties
  <2> QED BY <1>7, <2>1
<1>9. f \in Seq(Byte)
  BY <1>2, <1>4, <1>8, ConcatProperties
<1>10. At(f, 0, f)
  BY <1>9, AtStart
<1>11. At(f, 0, (Sig \o x) \o y) /\ At(f, 0 + (Len(Sig) + Len(x) + Len(y)), z)
  BY <1>2, <1>4, <1>8, <1>9, <1>10, AtParts
<1>12. At(f, 0, Sig \o x) /\ At(f, 0 + (Len(Sig) + Len(x)), y)
  BY <1>2, <1>7, <1>9, <1>11, AtParts
<1>13. At(f, 0 + Len(Sig), x)
  BY <1>2, <1>9, <1>12, AtParts
<1>14. /\ 0 + Len(Sig) = ChunkStart(1) /\ 0 + (Len(Sig) + Len(x)) = ChunkStart(2)
       /\ 0 + (Len(Sig) + Len(x) + Len(y)) = ChunkStart(3)
       /\ ChunkStart(1) \in Nat /\ ChunkStart(2) \in Nat /\ ChunkStart(3) \in Nat
       /\ ChunkStart(2) = ChunkStart(1) + Len(x) /\ ChunkStart(3) = ChunkStart(2) + Len(y)
  BY <1>3, <1>5
<1>15. At(f, ChunkStart(1), x) /\ At(f, ChunkStart(2), y) /\ At(f, ChunkStart(3), z)
  BY <1>11, <1>12, <1>13, <1>14
<1>16. ASSUME NEW k \in 1 .. 3
       PROVE  ChunkStart(k) \in Nat /\ At(f, ChunkStart(k), write_chunk(ans[NameOf[k]]))
  BY <1>6, <1>14, <1>15, Names
<1>17. ASSUME NEW k \in 1 .. 2
       PROVE  ChunkStart(k + 1) = ChunkStart(k) + Len(write_chunk(ans[NameOf[k]]))
  <2>1. (k = 1 /\ k + 1 = 2) \/ (k = 2 /\ k + 1 = 3)
    OBVIOUS
  <2> QED BY <1>6, <1>14, <2>1
<1> QED BY <1>5, <1>6, <1>9, <1>16, <1>17

(* A wrong byte is in one chunk only. *)
LEMMA OneHit ==
  ASSUME AllMade, NEW j \in 1 .. 3, NEW k \in 1 .. 3, Hit(j), j # k
  PROVE  damage.at \notin ChunkStart(k) + 1 .. ChunkStart(k) + Len(write_chunk(ans[NameOf[k]]))
<1> DEFINE S(i) == ChunkStart(i)
           L(i) == Len(write_chunk(ans[NameOf[i]]))
<1>1. \A i \in 1 .. 3 : L(i) \in Nat
  BY ChunkParts, LenProperties DEF AllMade
<1>2. \A i \in 1 .. 3 : S(i) \in Nat
  BY Layout
<1>3. \A i \in 1 .. 2 : S(i + 1) = S(i) + L(i)
  BY Layout
<1>4. damage.at \in S(j) + WordBytes + 1 .. S(j) + L(j)
  BY DEF Hit, CoveredBy
<1> HIDE DEF S, L
<1>5. S(2) = S(1) + L(1) /\ S(3) = S(2) + L(2)
  <2>1. 1 + 1 = 2 /\ 2 + 1 = 3 /\ 1 \in 1 .. 2 /\ 2 \in 1 .. 2
    OBVIOUS
  <2> QED BY <1>3, <2>1
<1>6. L(1) \in Nat /\ L(2) \in Nat /\ L(3) \in Nat /\ S(1) \in Nat /\ S(2) \in Nat /\ S(3) \in Nat
  BY <1>1, <1>2
<1>7. damage.at \notin S(k) + 1 .. S(k) + L(k)
  BY <1>4, <1>5, <1>6, WholeBytes, Names
<1> QED BY <1>7 DEF S, L

(* Chunk k, read from where it is: it is as written, or seen to be wrong. *)
LEMMA ChunkRead ==
  ASSUME AllMade, file \in Seq(Byte), FileInv, Sound,
         step \notin {"scan", "deflate", "write"},
         NEW k \in 1 .. 3, NEW g \in Byte
  PROVE  /\ LengthAt(ChunkStart(k), g) = ans[NameOf[k]].length
         /\ Back(ChunkAt(ChunkStart(k), ans[NameOf[k]].length, g), k)
<1> DEFINE f == write_PNG(ans)
           p == ChunkStart(k)
           c == ans[NameOf[k]]
<1>1. f \in Seq(Byte) /\ p \in Nat /\ At(f, p, write_chunk(c))
  BY Layout
<1>2. Made(c) /\ write_chunk(c) \in Seq(Byte)
  BY ChunkParts DEF AllMade
<1>3. c = ans[NameOf[k]] /\ p = ChunkStart(k) /\ f = write_PNG(ans)
  OBVIOUS
<1> HIDE DEF f, p, c
<1>4. CASE damage.kind = "none"
  <2>1. file = f
    BY <1>3, <1>4 DEF FileInv
  <2>2. LengthAt(p, g) = c.length /\ SameChunk(ChunkAt(p, c.length, g), c)
        /\ CrcIntact(ChunkAt(p, c.length, g))
    BY <1>1, <1>2, <2>1, ChunkBack
  <2>3. ~Hit(k)
    BY <1>4 DEF Hit
  <2> QED BY <1>3, <2>2, <2>3, Zenon DEF Back
<1>5. CASE damage.kind # "none"
  <2>1. PICK j \in 1 .. 3 : Hit(j)
    BY <1>5 DEF Sound
  <2>2. damage.kind = "byte"
    BY <2>1 DEF Hit
  <2>3. damage.at \in 1 .. Len(f)
    BY <1>3, <2>2 DEF FileInv
  <2>4. PICK b \in Byte : b # f[damage.at] /\ file = Change(f, damage.at, b)
    BY <1>3, <2>2 DEF FileInv
  <2>5. CASE j = k
    <3>1. damage.at \in p + WordBytes + 1 .. p + Len(write_chunk(c)) /\ Hit(k)
      BY <1>3, <2>1, <2>5 DEF Hit, CoveredBy
    <3>2. LengthAt(p, g) = c.length /\ ~CrcIntact(ChunkAt(p, c.length, g))
      BY <1>1, <1>2, <2>4, <3>1, DamageSeen
    <3> QED BY <1>3, <3>1, <3>2, Zenon DEF Back
  <2>6. CASE j # k
    <3>1. damage.at \notin p + 1 .. p + Len(write_chunk(c))
      BY <1>3, <2>1, <2>6, OneHit
    <3>2. At(file, p, write_chunk(c))
      BY <1>1, <1>2, <2>3, <2>4, <3>1, ChangeElsewhere
    <3>3. LengthAt(p, g) = c.length /\ SameChunk(ChunkAt(p, c.length, g), c)
          /\ CrcIntact(ChunkAt(p, c.length, g))
      BY <1>1, <1>2, <3>2, ChunkBack
    <3>4. ~Hit(k)
      <4>1. ChunkStart(k) \in Nat /\ WordBytes \in Nat
        BY Layout, WholeBytes
      <4>2. Len(write_chunk(c)) \in Nat
        BY <1>2, LenProperties
      <4> QED BY <1>3, <3>1, <4>1, <4>2 DEF Hit, CoveredBy
    <3> QED BY <1>3, <3>3, <3>4, Zenon DEF Back
  <2> QED BY <2>5, <2>6
<1> QED BY <1>4, <1>5

(* The next chunk begins where a chunk ends. *)
LEMMA NextChunk ==
  ASSUME AllMade, NEW k \in 1 .. 2
  PROVE  EndOf(ChunkStart(k), ans[NameOf[k]].length) = ChunkStart(k + 1)
<1>1. ChunkStart(k + 1) = ChunkStart(k) + Len(write_chunk(ans[NameOf[k]])) /\ ChunkStart(k) \in Nat
  BY Layout
<1>2. PICK c : c = ans[NameOf[k]]
  OBVIOUS
<1>3. Made(c)
  BY <1>2 DEF AllMade
<1>4. /\ c.length \in Nat /\ TypeBytes \in Nat
      /\ Len(write_chunk(c)) = WordBytes + TypeBytes + c.length + WordBytes
  BY <1>3, ChunkParts
<1> QED BY <1>1, <1>2, <1>4, WholeBytes DEF EndOf

(* IHDR's data in an undamaged file, for a FILE and for a buffer *)
LEMMA IhdrBack ==
  ASSUME AllMade, dims \in Widths \X Widths, ans["IHDR"].p_data = IhdrData,
         file = write_PNG(ans), NEW g
  PROVE  /\ DimsOf(SubSeq(file, IhdrAt + 1, IhdrAt + IhdrSize)) = dims
         /\ DimsOf(Bytes(IhdrAt, IhdrSize, g)) = dims
<1>1. file \in Seq(Byte) /\ At(file, Len(Sig), write_chunk(ans["IHDR"])) /\ Len(Sig) \in Nat
  BY Layout, Names
<1>2. Made(ans["IHDR"])
  BY Names DEF AllMade
<1>3. At(file, Len(Sig) + WordBytes + TypeBytes, IhdrData) /\ TypeBytes \in Nat
  BY <1>1, <1>2, ChunkParts
<1>4. IhdrAt \in Nat /\ At(file, IhdrAt, IhdrData)
  BY <1>1, <1>3, WholeBytes DEF IhdrAt
<1>5. IhdrData \in Seq(Byte) /\ Len(IhdrData) = IhdrSize
  BY IhdrTyped
<1>6. SubSeq(file, IhdrAt + 1, IhdrAt + IhdrSize) = IhdrData
  BY <1>1, <1>4, <1>5, SubSeqAt
<1>7. Bytes(IhdrAt, IhdrSize, g) = IhdrData
  BY <1>4, <1>5, BytesAt
<1> QED BY <1>6, <1>7, DimsBack

-----------------------------------------------------------------------------
(* Steps *)

(* As long as scan lines and dimensions stay, so does the image. *)
LEMMA SameImage ==
  ASSUME UNCHANGED <<scan, dims>>
  PROVE  Image' = Image
BY DEF Image, IhdrData

(* As long as chunks and damage stay, so does what is said of them. *)
LEMMA SameDamage ==
  ASSUME UNCHANGED <<ans, damage>>
  PROVE  /\ Sound' <=> Sound
         /\ \A k \in 1 .. 3 : ChunkStart(k)' = ChunkStart(k)
         /\ \A k \in 1 .. 3 : \A c : Back(c, k)' <=> Back(c, k)
<1>1. \A k \in 1 .. 3 : ChunkStart(k)' = ChunkStart(k)
  BY DEF ChunkStart
<1>2. \A k \in 1 .. 3 : Hit(k)' <=> Hit(k)
  BY <1>1 DEF Hit, CoveredBy
<1>3. Sound' <=> Sound
  BY <1>2 DEF Sound
<1>4. \A k \in 1 .. 3 : \A c : Back(c, k)' <=> Back(c, k)
  BY <1>2 DEF Back
<1> QED BY <1>1, <1>3, <1>4

(* Steps that leave image, file and chunks as they are *)
LEMMA SameFile ==
  ASSUME CodecInv, UNCHANGED <<scan, dims, ans, file, damage, chunks>>,
         step \notin {"scan", "deflate", "write", "stored"},
         step' \notin {"scan", "deflate", "write", "stored", "read"}
  PROVE  FileInv' /\ ReadInv'
<1>1. FileInv /\ ReadInv
  BY DEF CodecInv
<1>2. FileInv'
  BY <1>1, SameImage DEF FileInv
<1>3. ReadInv'
  <2>1. SUFFICES ASSUME Sound'
                 PROVE  \A k \in 1 .. Len(chunks) : Back(chunks[k], k)'
    BY DEF ReadInv
  <2>2. Sound
    BY <2>1, SameDamage
  <2>3. \A k \in 1 .. Len(chunks) : Back(chunks[k], k)
    BY <1>1, <2>2 DEF ReadInv
  <2>4. \A k \in 1 .. Len(chunks) : k \in 1 .. 3
    BY LenProperties DEF CodecInv, StepInv
  <2> QED BY <2>3, <2>4, SameDamage
<1> QED BY <1>2, <1>3

(* catpng calls mem_def: its loop begins. *)
LEMMA DeflateScanStep ==
  ASSUME CodecInv, DeflateScan
  PROVE  CodecInv'
<1> USE DEF CodecInv, DeflateScan
<1>1. StepInv'
  BY DEF StepInv, Steps
<1>2. DeflateInv'
  <2>1. Stream(scan) \in Seq(Byte)
    BY CodecAssumption DEF StepInv
  <2>2. zcall' = "mem_def" /\ source' = scan /\ Loop(Stream(scan))'
    BY <2>1, LoopStarts
  <2> QED BY <2>2 DEF DeflateInv
<1>3. FileInv' /\ ReadInv' /\ IhdrInv' /\ ReportInv'
  BY DEF FileInv, ReadInv, IhdrInv, ReportInv
<1> QED BY <1>1, <1>2, <1>3

(* A call of deflate or inflate changes nothing but its loop's state. *)
LEMMA ZStepStep ==
  ASSUME CodecInv, ZStep
  PROVE  CodecInv'
<1> USE DEF CodecInv
<1>1. UNCHANGED <<step, scan, dims, ans, file, damage, reader, pos, chunks, ihdr, reported>>
  BY DEF ZStep
<1>2. StepInv'
  BY <1>1 DEF StepInv
<1>3. DeflateInv'
  <2>1. CASE mem_def
    <3>1. step = "deflate" /\ source = scan /\ Loop(Stream(scan)) /\ zcall = "mem_def"
      BY <2>1 DEF DeflateInv, mem_def
    <3>2. Stream(source) \in Seq(Byte)
      BY <3>1, CodecAssumption DEF StepInv
    <3>3. /\ source' = source
          /\ \/ zcall' = "mem_def" /\ Loop(Stream(source))'
             \/ zcall' = "none" /\ MemDefDone(source)'
      BY <2>1, <3>1, <3>2, DeflateLoop
    <3> QED BY <1>1, <3>1, <3>3 DEF DeflateInv
  <2>2. CASE mem_inf
    <3>1. step = "inflate"
      BY <2>2 DEF DeflateInv, mem_inf
    <3>2. zcall' \in {"mem_inf", "none"}
      BY <2>2 DEF mem_inf, Return
    <3> QED BY <1>1, <3>1, <3>2 DEF DeflateInv
  <2> QED BY <2>1, <2>2 DEF ZStep
<1>4. FileInv'
  BY <1>1, SameImage DEF FileInv
<1>5. ReadInv' /\ IhdrInv' /\ ReportInv'
  <2>1. step \in {"deflate", "inflate"}
    BY DEF ZStep, DeflateInv, mem_def, mem_inf
  <2>2. CASE step = "deflate"
    BY <1>1, <2>2 DEF ReadInv, IhdrInv, ReportInv
  <2>3. CASE step = "inflate"
    <3>1. ReadInv'
      BY <1>1, <2>3, SameFile
    <3>2. IhdrInv' /\ ReportInv'
      BY <1>1 DEF IhdrInv, ReportInv, CrcIntact
    <3> QED BY <3>1, <3>2
  <2> QED BY <2>1, <2>2, <2>3
<1> QED BY <1>2, <1>3, <1>4, <1>5

(* The chunks are made of the whole stream. *)
LEMMA MakeChunksStep ==
  ASSUME CodecInv, MakeChunks
  PROVE  CodecInv'
<1> USE DEF CodecInv, MakeChunks
<1>1. StepInv'
  BY DEF StepInv, Steps
<1>2. MemDefDone(scan) /\ zcall = "none"
  BY DEF DeflateInv
<1>3. DeflateInv'
  BY <1>2 DEF DeflateInv, MemDefDone, zvars
<1>4. ans' = Image'
  <2>1. dest = Stream(scan)
    BY <1>2 DEF MemDefDone
  <2>2. ans' = Image
    BY <2>1 DEF Image
  <2> QED BY <2>2, SameImage
<1>5. FileInv' /\ ReadInv' /\ IhdrInv' /\ ReportInv'
  BY <1>4 DEF FileInv, ReadInv, IhdrInv, ReportInv
<1> QED BY <1>1, <1>3, <1>5

(* All chunks are written. *)
LEMMA WriteStep ==
  ASSUME CodecInv, Write
  PROVE  CodecInv'
<1> USE DEF CodecInv, Write
<1>1. ans = Image /\ scan \in Sources /\ dims \in Widths \X Widths
  BY DEF FileInv, StepInv
<1>2. write_PNG(ans) \in Seq(Byte)
  BY <1>1, ImageMade, Layout
<1>3. StepInv'
  BY <1>2 DEF StepInv, Steps
<1>4. DeflateInv'
  BY DEF DeflateInv, zvars
<1>5. damage'.kind = "none"
  BY DEF StepInv
<1>6. FileInv'
  BY <1>1, <1>5, SameImage DEF FileInv
<1>7. ReadInv' /\ IhdrInv' /\ ReportInv'
  BY DEF ReadInv, IhdrInv, ReportInv
<1> QED BY <1>3, <1>4, <1>6, <1>7

(* The file is stored, well or with a fault. *)
LEMMA StoreStep ==
  ASSUME CodecInv, Store
  PROVE  CodecInv'
<1> USE DEF CodecInv
<1>1. /\ step = "stored" /\ step' = "read" /\ pos' = Len(Sig)
      /\ UNCHANGED <<scan, dims, ans, reader, chunks, ihdr, reported, zvars>>
  BY DEF Store
<1>2. /\ ans = Image /\ scan \in Sources /\ dims \in Widths \X Widths
      /\ file = write_PNG(ans) /\ file \in Seq(Byte) /\ chunks = <<>>
  BY <1>1 DEF FileInv, StepInv
<1>3. AllMade
  BY <1>2, ImageMade
<1> DEFINE f == write_PNG(ans)
<1>4. f \in Seq(Byte) /\ Len(f) \in Nat /\ f = file /\ f' = f
  BY <1>1, <1>2, LenProperties
<1> HIDE DEF f
<1>5. /\ file' \in Seq(Byte)
      /\ damage'.kind = "none" => file' = f
      /\ damage'.kind = "byte" =>
           /\ damage'.at \in 1 .. Len(f)
           /\ \E b \in Byte : b # f[damage'.at] /\ file' = Change(f, damage'.at, b)
  <2>1. CASE damage' = [kind |-> "none", at |-> 0] /\ UNCHANGED file
    BY <1>4, <2>1
  <2>2. ASSUME NEW p \in DOMAIN file, NEW b \in Byte, b # file[p],
               file' = [file EXCEPT ![p] = b], damage' = [kind |-> "byte", at |-> p]
        PROVE  <1>5!:
    <3>1. p \in 1 .. Len(f)
      BY <1>4, LenProperties
    <3>2. file' = Change(f, p, b)
      BY <1>4, <2>2 DEF Change
    <3>3. file' \in Seq(Byte)
      BY <1>4, <3>1, <3>2, Changed
    <3> QED BY <1>4, <2>2, <3>1, <3>2, <3>3
  <2>3. ASSUME NEW n \in 0 .. Len(file) - 1, file' = SubSeq(file, 1, n),
               damage' = [kind |-> "cut", at |-> n]
        PROVE  <1>5!:
    <3>1. \A i \in 1 .. n : f[i] \in Byte
      <4> TAKE i \in 1 .. n
      <4>1. i \in 1 .. Len(f)
        BY <1>4
      <4> QED BY <1>4, <4>1, ElementOfSeq
    <3>2. file' \in Seq(Byte)
      BY <1>4, <2>3, <3>1, SubSeqProperties
    <3> QED BY <2>3, <3>2
  <2> QED BY <2>1, <2>2, <2>3 DEF Store
<1>6. StepInv'
  <2>1. Len(Sig) \in Nat
    BY CodecAssumption, LenProperties
  <2>2. Len(chunks) <= 3 /\ chunks \in Seq(ChunkRecord) /\ reader \in {1, 2} /\ reported = {}
    BY <1>1 DEF StepInv
  <2> QED BY <1>1, <1>2, <1>5, <2>1, <2>2 DEF StepInv, Steps
<1>7. DeflateInv'
  BY <1>1 DEF DeflateInv, zvars
<1>8. FileInv'
  <2>1. ans' = Image'
    BY <1>1, <1>2, SameImage
  <2>2. write_PNG(ans') = f
    BY <1>1 DEF f
  <2> QED BY <1>1, <1>5, <2>1, <2>2 DEF FileInv
<1>9. ReadInv'
  <2>1. Len(chunks') = 0 /\ step' = "read"
    BY <1>1, <1>2
  <2>2. pos' = ChunkStart(1)'
    <3>1. ChunkStart(1) = Len(Sig)
      BY <1>3, Layout
    <3>2. ChunkStart(1)' = ChunkStart(1)
      BY <1>1 DEF ChunkStart
    <3> QED BY <1>1, <3>1, <3>2
  <2>3. Len(chunks') + 1 = 1
    BY <2>1
  <2> QED BY <2>1, <2>2, <2>3 DEF ReadInv
<1>10. IhdrInv' /\ ReportInv'
  BY <1>1 DEF IhdrInv, ReportInv
<1> QED BY <1>6, <1>7, <1>8, <1>9, <1>10

(* A chunk that is read is a chunk, whatever is in the file. *)
LEMMA ChunkTyped ==
  ASSUME file \in Seq(Byte), NEW p \in Nat, NEW g \in Byte
  PROVE  /\ LengthAt(p, g) \in Unsigned
         /\ ChunkAt(p, LengthAt(p, g), g) \in ChunkRecord
         /\ EndOf(p, LengthAt(p, g)) \in Nat
<1>1. WordBytes \in Nat /\ TypeBytes \in Nat
  BY WholeBytes, TypeLengths, LenProperties DEF Chunks
<1>2. Bytes(p, WordBytes, g) \in WordSeq
  BY <1>1, BytesAreBytes DEF WordSeq
<1>3. LengthAt(p, g) \in Unsigned
  BY <1>2, WordTyped, ByteOrder, WordOfNumber DEF LengthAt
<1> DEFINE n == LengthAt(p, g)
<1>4. n \in Nat /\ n \in Unsigned
  BY <1>3, NumberOfWord
<1> HIDE DEF n
<1>5. p + WordBytes \in Nat /\ p + WordBytes + TypeBytes \in Nat
      /\ p + WordBytes + TypeBytes + n \in Nat
  BY <1>1, <1>4
<1>6. Bytes(p + WordBytes, TypeBytes, g) \in Seq(Byte)
  BY <1>1, <1>5, BytesAreBytes
<1>7. Bytes(p + WordBytes + TypeBytes, n, g) \in Seq(Byte)
  BY <1>4, <1>5, BytesAreBytes
<1>8. Bytes(p + WordBytes + TypeBytes + n, WordBytes, g) \in WordSeq
  BY <1>1, <1>5, BytesAreBytes DEF WordSeq
<1>9. ntohl[WordOf[Bytes(p + WordBytes + TypeBytes + n, WordBytes, g)]] \in Words
  BY <1>8, WordTyped, ByteOrder
<1>10. ChunkAt(p, n, g) \in ChunkRecord
  BY <1>4, <1>6, <1>7, <1>9 DEF ChunkAt, ChunkRecord
<1>11. EndOf(p, n) \in Nat
  BY <1>1, <1>4 DEF EndOf
<1> QED BY <1>4, <1>10, <1>11 DEF n

(* The next chunk is read from where it begins. *)
LEMMA GetChunksStep ==
  ASSUME CodecInv, get_png_chunks
  PROVE  CodecInv'
<1> USE DEF CodecInv
<1>1. /\ step = "read" /\ Len(chunks) < 3
      /\ UNCHANGED <<scan, dims, ans, file, damage, reader, ihdr, reported, zvars>>
      /\ step' \in {"read", "crashed"}
  BY DEF get_png_chunks, GetChunkFromFile, GetChunkFromMemory
<1>2. PICK g \in Uninitialised : GetChunk(LengthAt(pos, g), g)
  BY DEF get_png_chunks, GetChunkFromFile, GetChunkFromMemory
<1> DEFINE n == LengthAt(pos, g)
           c == ChunkAt(pos, n, g)
<1>3. pos' = EndOf(pos, n) /\ chunks' = Append(chunks, c)
  BY <1>2 DEF GetChunk
<1>4. g \in Byte /\ file \in Seq(Byte) /\ pos \in Nat /\ chunks \in Seq(ChunkRecord)
  BY CodecAssumption DEF StepInv
<1>5. n \in Unsigned /\ c \in ChunkRecord /\ pos' \in Nat
  BY <1>3, <1>4, ChunkTyped
<1>6. Len(chunks) \in Nat
  BY <1>4, LenProperties
<1>7. PICK k \in 1 .. 3 : k = Len(chunks) + 1
  BY <1>1, <1>6
<1>8. n = LengthAt(pos, g) /\ c = ChunkAt(pos, n, g)
  OBVIOUS
<1> HIDE DEF n, c
<1>9. /\ chunks' \in Seq(ChunkRecord) /\ Len(chunks') = k
      /\ \A j \in 1 .. Len(chunks) : chunks'[j] = chunks[j]
      /\ chunks'[k] = c
  BY <1>3, <1>4, <1>5, <1>6, <1>7, AppendProperties
<1>10. StepInv'
  BY <1>1, <1>5, <1>6, <1>7, <1>9 DEF StepInv, Steps
<1>11. DeflateInv'
  BY <1>1 DEF DeflateInv, zvars
<1>12. FileInv'
  BY <1>1, SameImage DEF FileInv
<1>13. ReadInv'
  <2>1. SUFFICES ASSUME Sound'
                 PROVE  /\ step' = "read" /\ k < 3 => pos' = ChunkStart(k + 1)'
                        /\ \A j \in 1 .. k : \A x : x = chunks'[j] => Back(x, j)'
    BY <1>9 DEF ReadInv, Back, CrcIntact, SameChunk
  <2>2. Sound
    BY <1>1, <2>1, SameDamage
  <2>3. pos = ChunkStart(k) /\ \A j \in 1 .. Len(chunks) : Back(chunks[j], j)
    BY <1>1, <1>6, <1>7, <2>2 DEF ReadInv
  <2>4. AllMade
    BY <1>1, ImageMade DEF FileInv, StepInv
  <2>5. n = ans[NameOf[k]].length /\ Back(c, k)
    BY <1>1, <1>4, <1>6, <1>7, <1>8, <2>2, <2>3, <2>4, ChunkRead
  <2>6. ASSUME k < 3
        PROVE  pos' = ChunkStart(k + 1)'
    <3>1. k \in 1 .. 2 /\ k + 1 \in 1 .. 3
      BY <1>6, <1>7, <2>6
    <3>2. pos' = ChunkStart(k + 1)
      BY <1>3, <2>3, <2>4, <2>5, <3>1, NextChunk
    <3> QED BY <1>1, <3>1, <3>2, SameDamage
  <2>7. ASSUME NEW j \in 1 .. k, NEW x, x = chunks'[j]
        PROVE  Back(x, j)'
    <3>2. Back(x, j)
      <4>1. CASE j = k
        BY <1>9, <2>5, <2>7, <4>1
      <4>2. CASE j # k
        <5>1. j \in 1 .. Len(chunks)
          BY <1>6, <1>7, <4>2
        <5>2. x = chunks[j]
          BY <1>9, <2>7, <5>1
        <5> QED BY <2>3, <5>1, <5>2
      <4> QED BY <4>1, <4>2
    <3>3. j \in 1 .. 3
      BY <1>6, <1>7
    <3> QED BY <1>1, <3>2, <3>3, SameDamage
  <2> QED BY <2>6, <2>7
<1>14. IhdrInv' /\ ReportInv'
  BY <1>1 DEF IhdrInv, ReportInv
<1> QED BY <1>10, <1>11, <1>12, <1>13, <1>14

(* The dimensions are read. *)
LEMMA IhdrStep ==
  ASSUME CodecInv, get_png_data_IHDR
  PROVE  CodecInv'
<1> USE DEF CodecInv
<1>1. /\ step = "read" /\ Len(chunks) = 3
      /\ UNCHANGED <<scan, dims, ans, file, damage, reader, pos, chunks, reported, zvars>>
      /\ step' \in {"info", "failed", "checked"}
      /\ step' = "info" => reader = 1
      /\ step' = "checked" => reader = 2
  BY DEF get_png_data_IHDR, IhdrFromFile, IhdrFromMemory
<1>2. StepInv'
  BY <1>1 DEF StepInv, Steps
<1>3. DeflateInv'
  BY <1>1 DEF DeflateInv, zvars
<1>4. FileInv' /\ ReadInv'
  BY <1>1, SameFile
<1>5. IhdrInv'
  <2>1. SUFFICES ASSUME damage.kind = "none", step' \in {"info", "checked"}
                 PROVE  ihdr' = dims
    BY <1>1 DEF IhdrInv
  <2>2. /\ AllMade /\ dims \in Widths \X Widths /\ ans["IHDR"].p_data = IhdrData
        /\ file = write_PNG(ans)
    BY <1>1, <2>1, ImageMade DEF FileInv, StepInv
  <2>3. \A g : /\ DimsOf(SubSeq(file, IhdrAt + 1, IhdrAt + IhdrSize)) = dims
               /\ DimsOf(Bytes(IhdrAt, IhdrSize, g)) = dims
    BY <2>2, IhdrBack
  <2> QED BY <2>1, <2>3 DEF get_png_data_IHDR, IhdrFromFile, IhdrFromMemory
<1>6. ReportInv'
  BY <1>1 DEF ReportInv, StepInv
<1> QED BY <1>2, <1>3, <1>4, <1>5, <1>6

(* pnginfo reports what is not intact. *)
LEMMA pnginfoStep ==
  ASSUME CodecInv, pnginfo
  PROVE  CodecInv'
<1> USE DEF CodecInv, pnginfo
<1>1. StepInv'
  BY DEF StepInv, Steps
<1>2. DeflateInv'
  BY DEF DeflateInv, zvars
<1>3. FileInv' /\ ReadInv'
  BY SameFile
<1>4. IhdrInv'
  BY DEF IhdrInv
<1>5. ReportInv'
  BY DEF ReportInv, CrcIntact
<1> QED BY <1>1, <1>2, <1>3, <1>4, <1>5

(* catpng calls mem_inf. *)
LEMMA InflateScanStep ==
  ASSUME CodecInv, InflateScan
  PROVE  CodecInv'
<1> USE DEF CodecInv, InflateScan
<1>1. StepInv'
  BY DEF StepInv, Steps
<1>2. DeflateInv'
  BY DEF DeflateInv, Start
<1>3. FileInv' /\ ReadInv'
  BY SameFile
<1>4. IhdrInv'
  BY DEF IhdrInv
<1>5. ReportInv'
  BY DEF ReportInv, CrcIntact
<1> QED BY <1>1, <1>2, <1>3, <1>4, <1>5

(* The loop of mem_inf has ended. *)
LEMMA InflatedStep ==
  ASSUME CodecInv, Inflated
  PROVE  CodecInv'
<1> USE DEF CodecInv, Inflated
<1>1. StepInv'
  BY DEF StepInv, Steps
<1>2. DeflateInv'
  BY DEF DeflateInv, zvars
<1>3. FileInv' /\ ReadInv'
  BY SameFile
<1>4. IhdrInv'
  BY DEF IhdrInv
<1>5. ReportInv'
  BY DEF ReportInv, CrcIntact
<1> QED BY <1>1, <1>2, <1>3, <1>4, <1>5

(* Nothing happens. *)
LEMMA StutterStep ==
  ASSUME CodecInv, UNCHANGED vars
  PROVE  CodecInv'
<1> USE DEF CodecInv, vars
<1>1. StepInv'
  BY DEF StepInv
<1>2. DeflateInv'
  BY DEF DeflateInv, zvars, Loop, MemDefDone
<1>3. FileInv'
  BY SameImage DEF FileInv
<1>4. ReadInv'
  <2>1. SUFFICES ASSUME Sound'
                 PROVE  /\ step = "read" /\ Len(chunks) < 3 => pos = ChunkStart(Len(chunks) + 1)'
                        /\ step \notin {"scan", "deflate", "write", "stored"} =>
                             \A k \in 1 .. Len(chunks) : Back(chunks[k], k)'
    BY DEF ReadInv
  <2>2. Sound
    BY <2>1, SameDamage
  <2>3. \A k \in 1 .. Len(chunks) : k \in 1 .. 3
    BY LenProperties DEF StepInv
  <2>4. Len(chunks) < 3 => Len(chunks) + 1 \in 1 .. 3
    BY LenProperties DEF StepInv
  <2> QED BY <2>2, <2>3, <2>4, SameDamage DEF ReadInv
<1>5. IhdrInv'
  BY DEF IhdrInv
<1>6. ReportInv'
  BY DEF ReportInv, CrcIntact
<1> QED BY <1>1, <1>2, <1>3, <1>4, <1>5, <1>6

-----------------------------------------------------------------------------
(* Theorems *)

(* CodecInv holds in every state: where the image is, what is in the file  *)
(* and what was read of it fit together.                                   *)
THEOREM CodecInvariance == Spec => []CodecInv
<1>1. Init => CodecInv
  <2> SUFFICES ASSUME Init PROVE CodecInv
    OBVIOUS
  <2> USE DEF Init, ZInit
  <2>1. StepInv
    <3>1. chunks \in Seq(ChunkRecord) /\ Len(chunks) = 0 /\ file \in Seq(Byte)
      BY EmptySeq
    <3> QED BY <3>1 DEF StepInv, Steps
  <2>2. DeflateInv /\ FileInv /\ IhdrInv /\ ReportInv
    BY DEF DeflateInv, FileInv, IhdrInv, ReportInv
  <2>3. ReadInv
    BY DEF ReadInv
  <2> QED BY <2>1, <2>2, <2>3 DEF CodecInv
<1>2. CodecInv /\ [Next]_vars => CodecInv'
  <2> SUFFICES ASSUME CodecInv, [Next]_vars PROVE CodecInv'
    OBVIOUS
  <2>1. CASE DeflateScan
    BY <2>1, DeflateScanStep
  <2>2. CASE ZStep
    BY <2>2, ZStepStep
  <2>3. CASE MakeChunks
    BY <2>3, MakeChunksStep
  <2>4. CASE Write
    BY <2>4, WriteStep
  <2>5. CASE Store
    BY <2>5, StoreStep
  <2>6. CASE get_png_chunks
    BY <2>6, GetChunksStep
  <2>7. CASE get_png_data_IHDR
    BY <2>7, IhdrStep
  <2>8. CASE pnginfo
    BY <2>8, pnginfoStep
  <2>9. CASE InflateScan
    BY <2>9, InflateScanStep
  <2>10. CASE Inflated
    BY <2>10, InflatedStep
  <2>11. CASE Over
    BY <2>11, StutterStep DEF Over
  <2>12. CASE UNCHANGED vars
    BY <2>12, StutterStep
  <2> QED
    BY <2>1, <2>2, <2>3, <2>4, <2>5, <2>6, <2>7, <2>8, <2>9, <2>10, <2>11, <2>12 DEF Next, Work
<1> QED BY <1>1, <1>2, PTL DEF Spec

(* A byte changed in the type, the data or the checksum of a chunk makes   *)
(* pnginfo (v1/starter/png_util/pnginfo.c) report that chunk and no other, *)
(* whatever the widths, the polynomial and the image are.                  *)
THEOREM DamageReported == Spec => []DamageFound
<1>1. CodecInv => DamageFound
  <2> SUFFICES ASSUME CodecInv, reader = 1, step \in {"checked", "done"}, damage.kind = "byte",
                      NEW k \in 1 .. 3, CoveredBy(k, damage.at)
               PROVE  reported = {NameOf[k]}
    BY DEF DamageFound
  <2>1. Hit(k) /\ Sound
    BY DEF Hit, Sound
  <2>2. Len(chunks) = 3 /\ \A j \in 1 .. 3 : Back(chunks[j], j)
    BY <2>1 DEF CodecInv, ReadInv, StepInv
  <2>3. AllMade
    BY ImageMade DEF CodecInv, FileInv, StepInv
  <2>4. ASSUME NEW j \in 1 .. 3
        PROVE  Hit(j) <=> j = k
    <3>1. CASE j = k
      BY <2>1, <3>1
    <3>2. CASE j # k
      <4>1. damage.at \notin ChunkStart(j) + 1 .. ChunkStart(j) + Len(write_chunk(ans[NameOf[j]]))
        BY <2>1, <2>3, <3>2, OneHit
      <4>2. ChunkStart(j) \in Nat /\ WordBytes \in Nat
        BY <2>3, Layout, WholeBytes
      <4>3. Len(write_chunk(ans[NameOf[j]])) \in Nat
        BY <2>3, ChunkParts, LenProperties DEF AllMade
      <4>4. damage.at \notin ChunkStart(j) + WordBytes + 1 .. ChunkStart(j) + Len(write_chunk(ans[NameOf[j]]))
        BY <4>1, <4>2, <4>3
      <4> QED BY <3>2, <4>4 DEF Hit, CoveredBy
    <3> QED BY <3>1, <3>2
  <2>5. \A j \in 1 .. 3 : ~CrcIntact(chunks[j]) <=> j = k
    <3> TAKE j \in 1 .. 3
    <3>1. Back(chunks[j], j)
      BY <2>2
    <3> QED BY <2>4, <3>1, Zenon DEF Back
  <2>6. reported = {NameOf[i] : i \in {j \in 1 .. 3 : ~CrcIntact(chunks[j])}}
    BY DEF CodecInv, ReportInv
  <2>7. {j \in 1 .. 3 : ~CrcIntact(chunks[j])} = {k}
    <3> HIDE DEF CrcIntact
    <3> QED BY <2>5
  <2> QED BY <2>6, <2>7
<1> QED BY <1>1, CodecInvariance, PTL

(* The loop of mem_inf does what it promises for every answer of zlib.     *)
THEOREM InflateInvariance == Spec => []InflateInv
<1>1. Init => InflateInv
  BY DEF Init, InflateInv
<1>2. CodecInv /\ InflateInv /\ [Next]_vars => InflateInv'
  <2> SUFFICES ASSUME CodecInv, InflateInv, [Next]_vars PROVE InflateInv'
    OBVIOUS
  <2>1. CASE InflateScan
    <3>1. step' = "inflate" /\ chunks' = chunks /\ Start("mem_inf", chunks[2].p_data)
      BY <2>1 DEF InflateScan
    <3>2. ASSUME Answered(chunks[2].p_data)
          PROVE  zcall' = "mem_inf" /\ source' = chunks[2].p_data /\ Loop(Plain(chunks[2].p_data))'
      BY <3>1, <3>2, LoopStarts DEF Answered
    <3> QED BY <3>1, <3>2 DEF InflateInv, Answered
  <2>2. CASE ZStep
    <3>1. UNCHANGED <<step, chunks>>
      BY <2>2 DEF ZStep
    <3>2. CASE step = "inflate" /\ Answered(chunks[2].p_data)
      <4>1. mem_inf
        BY <2>2, <3>2 DEF ZStep, mem_def, CodecInv, DeflateInv
      <4>2. source = chunks[2].p_data /\ Loop(Plain(source))
        BY <3>2, <4>1 DEF InflateInv, mem_inf
      <4>3. /\ source' = source
            /\ \/ zcall' = "mem_inf" /\ Loop(Plain(source))'
               \/ zcall' = "none" /\ MemInfDone(source)'
        BY <3>2, <4>1, <4>2, InflateLoop DEF Answered
      <4> QED BY <3>1, <3>2, <4>2, <4>3 DEF InflateInv
    <3>3. CASE ~(step = "inflate" /\ Answered(chunks[2].p_data))
      <4>1. step \in {"deflate", "inflate"}
        BY <2>2 DEF ZStep, mem_def, mem_inf, CodecInv, DeflateInv
      <4> QED BY <3>1, <3>3, <4>1 DEF InflateInv, Answered
    <3> QED BY <3>2, <3>3
  <2>3. CASE Inflated
    <3>1. /\ step = "inflate" /\ step' = "done" /\ zcall = "none"
          /\ UNCHANGED <<chunks, dest, len, result>>
      BY <2>3 DEF Inflated, zvars
    <3>2. ASSUME Answered(chunks[2].p_data)
          PROVE  MemInfDone(chunks[2].p_data)
      BY <3>1, <3>2 DEF InflateInv
    <3> QED BY <3>1, <3>2 DEF InflateInv, Answered, MemInfDone
  <2>4. CASE \/ DeflateScan \/ MakeChunks \/ Write \/ Store
             \/ get_png_chunks \/ get_png_data_IHDR \/ pnginfo
    <3>1. step' \notin {"inflate", "done"}
      BY <2>4 DEF DeflateScan, MakeChunks, Write, Store, get_png_chunks, GetChunkFromFile,
         GetChunkFromMemory, get_png_data_IHDR, IhdrFromFile, IhdrFromMemory, pnginfo
    <3> QED BY <3>1 DEF InflateInv
  <2>5. CASE UNCHANGED vars
    BY <2>5 DEF InflateInv, Answered, MemInfDone, Loop, vars, zvars
  <2> QED BY <2>1, <2>2, <2>3, <2>4, <2>5 DEF Next, Work, Over
<1> QED BY <1>1, <1>2, CodecInvariance, PTL DEF Spec

(* zlib answers to any bytes. *)
ZlibTotal == \A s \in Seq(Byte) : Answered(s)

(* If zlib answers to any bytes, then mem_inf (v1/starter/png_util/        *)
(* zutil.c) tells complete streams from all others and leaves the data and *)
(* the length a caller may rely on, for every file, damaged or cut.        *)
THEOREM InflateHonest ==
  ASSUME ZlibTotal
  PROVE  Spec => []MemInfHonest
<1>1. CodecInv /\ InflateInv => MemInfHonest
  <2> SUFFICES ASSUME CodecInv, InflateInv, step = "done"
               PROVE  MemInfDone(chunks[2].p_data)
    BY DEF MemInfHonest
  <2>1. chunks \in Seq(ChunkRecord) /\ Len(chunks) = 3
    BY DEF CodecInv, StepInv
  <2>2. chunks[2] \in ChunkRecord
    BY <2>1, ElementOfSeq
  <2>3. chunks[2].p_data \in Seq(Byte)
    BY <2>2 DEF ChunkRecord
  <2> QED BY <2>3 DEF InflateInv, ZlibTotal
<1> QED BY <1>1, CodecInvariance, InflateInvariance, PTL

(* An image goes through an undamaged file unchanged (lab_png.c, zutil.c,  *)
(* crc.c): every byte order, checksum, dimension and scan line.            *)
THEOREM ImageComesBack == Spec => []RoundTrip
<1>1. CodecInv /\ InflateInv => RoundTrip
  <2> SUFFICES ASSUME CodecInv, InflateInv PROVE RoundTrip
    OBVIOUS
  <2> USE DEF CodecInv
  <2>1. ASSUME step = "write"
        PROVE  dest = ans["IDAT"].p_data /\ MemDefDone(scan)
    <3>1. MemDefDone(scan)
      BY <2>1 DEF DeflateInv
    <3>2. ans["IDAT"].p_data = Stream(scan)
      BY <2>1, ImageMade DEF FileInv, StepInv
    <3> QED BY <3>1, <3>2 DEF MemDefDone
  <2>2. ASSUME step = "done", damage.kind = "none"
        PROVE  /\ \A k \in 1 .. 3 : SameChunk(chunks[k], ans[NameOf[k]])
               /\ \A k \in 1 .. 3 : CrcIntact(chunks[k])
               /\ ihdr = dims
               /\ reported = {}
               /\ result = "Z_OK"
               /\ dest = scan
    <3>1. Sound /\ \A k : ~Hit(k)
      BY <2>2 DEF Sound, Hit
    <3>2. Len(chunks) = 3 /\ \A k \in 1 .. 3 : Back(chunks[k], k)
      BY <2>2, <3>1 DEF ReadInv, StepInv
    <3>3. \A k \in 1 .. 3 : SameChunk(chunks[k], ans[NameOf[k]]) /\ CrcIntact(chunks[k])
      BY <3>1, <3>2, Zenon DEF Back
    <3>4. ihdr = dims
      BY <2>2 DEF IhdrInv
    <3>5. reported = {}
      <4>1. CASE reader = 1
        <5>1. reported = {NameOf[i] : i \in {j \in 1 .. 3 : ~CrcIntact(chunks[j])}}
          BY <2>2, <4>1 DEF ReportInv
        <5>2. {j \in 1 .. 3 : ~CrcIntact(chunks[j])} = {}
          BY <3>3
        <5> QED BY <5>1, <5>2
      <4>2. CASE reader = 2
        BY <4>2 DEF StepInv
      <4> QED BY <4>1, <4>2 DEF StepInv
    <3>6. chunks[2].p_data = Stream(scan)
      <4>1. AllMade /\ ans["IDAT"].p_data = Stream(scan)
        BY <2>2, ImageMade DEF FileInv, StepInv
      <4>2. ans["IDAT"] \in ChunkRecord
        BY <4>1, Names DEF AllMade, Made
      <4>3. SameChunk(chunks[2], ans["IDAT"])
        BY <3>3, Names
      <4>4. chunks[2].p_data = ans["IDAT"].p_data
        BY <4>2, <4>3 DEF SameChunk, ChunkRecord
      <4> QED BY <4>1, <4>4
    <3>7. /\ Plain(Stream(scan)) = scan /\ Verdict(Stream(scan)) = "Z_STREAM_END"
          /\ scan \in Seq(Byte)
      BY CodecAssumption DEF StepInv
    <3>8. MemInfDone(Stream(scan))
      BY <2>2, <3>6, <3>7 DEF InflateInv, Answered, Verdicts
    <3>9. result = "Z_OK" /\ dest = scan
      BY <3>7, <3>8 DEF MemInfDone
    <3> QED BY <3>3, <3>4, <3>5, <3>9
  <2> QED BY <2>1, <2>2 DEF RoundTrip
<1> QED BY <1>1, CodecInvariance, InflateInvariance, PTL

(* The table of crc.c gives the remainder of the polynomial division that  *)
(* defines the checksum, for every chunk catpng writes and every chunk     *)
(* read back from a file, damaged or not.                                  *)
THEOREM ChecksumIsDivision == Spec => []CrcIsDivision
<1>1. CodecInv => CrcIsDivision
  <2> SUFFICES ASSUME CodecInv PROVE CrcIsDivision
    OBVIOUS
  <2>1. ASSUME NEW s \in Seq(Byte), NEW d \in Seq(Byte)
        PROVE  crc(s \o d) = Division(s \o d)
    BY ConcatProperties, TableDivides
  <2>2. ASSUME step = "write", NEW t \in Chunks
        PROVE  ans[t].type \in Seq(Byte) /\ ans[t].p_data \in Seq(Byte)
    <3>1. AllMade
      BY <2>2, ImageMade DEF CodecInv, FileInv, StepInv
    <3>2. PICK k \in 1 .. 3 : t = NameOf[k]
      BY Names DEF Chunks
    <3>3. ans[t] \in ChunkRecord
      BY <3>1, <3>2 DEF AllMade, Made
    <3> QED BY <3>3 DEF ChunkRecord
  <2>3. ASSUME step = "checked", NEW k \in 1 .. 3
        PROVE  chunks[k].type \in Seq(Byte) /\ chunks[k].p_data \in Seq(Byte)
    <3>1. chunks \in Seq(ChunkRecord) /\ Len(chunks) = 3
      BY <2>3 DEF CodecInv, StepInv
    <3>2. chunks[k] \in ChunkRecord
      BY <3>1, ElementOfSeq
    <3> QED BY <3>2 DEF ChunkRecord
  <2> QED BY <2>1, <2>2, <2>3 DEF CrcIsDivision
<1> QED BY <1>1, CodecInvariance, PTL

=============================================================================
