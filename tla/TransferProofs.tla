---------------------------- MODULE TransferProofs ----------------------------
(***************************************************************************)
(* Theorems about Transfer, for all capacities, increments, block and body *)
(* sizes, numbers of transfers and faults.                                 *)
(***************************************************************************)
EXTENDS Transfer, TLAPS

-----------------------------------------------------------------------------
(* The inductive invariant *)

(* The array of a strip is there all the time and never changes its size. *)
FixedArray ==
  program = "paster2" =>
    /\ buf \in [0 .. Capacity[program] - 1 -> Bytes]
    /\ phase # "init" => max_size = Capacity[program]

SentIsPart == phase # "init" => sent <= Response.length

Numbered ==
  /\ phase \in {"fork", "curl", "header"} => seq = -1 /\ sent = 0
  /\ phase = "body" => seq = NumberOf(program, Response)
  /\ phase \in {"performed", "returned", "aborted"} =>
       seq = NumberOf(program, Response) \/ (seq = -1 /\ sent = 0)
  /\ phase = "performed" /\ res = "ok" =>
       seq = NumberOf(program, Response) /\ sent = Response.length

Buffer == FixedArray /\ InBounds /\ PrefixKept /\ SentIsPart /\ Numbered

Records == [round : 1 .. Rounds, seq : Nat \cup {-1}, bytes : UNION {[0 .. n - 1 -> Bytes] : n \in Nat}]

(* An answer of which something was handed on is final. *)
KeptEarlier ==
  \A j \in 1 .. Len(kept) :
    phase \notin {"returned", "aborted"} => kept[j].round < round

Handed == kept \in Seq(Records) /\ KeptEarlier /\ KeptIsOneAnswer /\ PushedIsWhole

Family ==
  /\ program # "main_2proc" => parent = "none" /\ phase # "fork"
  /\ program \notin Shared => phase # "aborted"
  /\ phase \in {"init", "fork"} => parent = "none"
  /\ program = "main_2proc" /\ phase \notin {"init", "fork", "aborted"} => parent # "none"
  /\ program = "main_2proc" /\ phase = "aborted" /\ parent = "none" => failed["fork"] > 0
  /\ parent = "returned" => phase \in {"returned", "aborted"}
  /\ program = "main_2proc" /\ parent # "returned" => kept = <<>>

(* No file has been left open before one is written. *)
NoneOpen ==
  /\ program \in {"paster", "paster2"} => failed["fwrite"] = 0
  /\ program # "main_2proc" /\ phase # "returned" => failed["fwrite"] = 0
  /\ program = "main_2proc" /\ parent # "returned" => failed["fwrite"] = 0

Holding ==
  /\ NoneOpen
  /\ phase = "init" \/ program = "paster2" => held = 0
  /\ parent = "returned" => held = failed["fwrite"]
  /\ program # "main_2proc" /\ phase = "returned" =>
       held = failed["fwrite"] \/ failed["curl"] > 0
  /\ program \notin {"paster2", "main_2proc"} /\ phase \notin {"init", "returned"} => held = 1
  /\ program = "main_2proc" /\ phase # "init" /\ parent # "returned" => held = 1

IInv == TypeOK /\ Buffer /\ Handed /\ Family /\ FileIsFinal /\ Holding

-----------------------------------------------------------------------------
(* Lemmas about the operators *)

(* What is sent, the 0 and what nobody wrote are bytes. *)
LEMMA BytesAre ==
  /\ \A r \in Nat \ {0}, i \in Nat : Byte(r, i) \in Bytes
  /\ Nul \in Bytes
  /\ Junk \in Bytes
BY DEF Bytes, Byte, Nul, Junk

(* A grown buffer holds one more block and the 0 behind it. *)
LEMMA GrownFits ==
  ASSUME size \in Nat, max_size \in Nat, NEW n \in Nat, size < max_size
  PROVE  /\ Grown(n) \in Nat
         /\ max_size <= Grown(n)
         /\ size + n < Grown(n)
BY ConstantsAssumption DEF ConstantsAssumption, Grown, Larger

(* realloc keeps what was there. *)
LEMMA ReallocKeeps ==
  ASSUME max_size \in Nat, buf \in [0 .. max_size - 1 -> Bytes], NEW k \in Nat, max_size <= k
  PROVE  /\ Realloc(k) \in [0 .. k - 1 -> Bytes]
         /\ \A i \in 0 .. max_size - 1 : Realloc(k)[i] = buf[i]
<1>1. \A i \in 0 .. k - 1 : i < max_size => i \in 0 .. max_size - 1
  OBVIOUS
<1>2. \A i \in 0 .. k - 1 : (IF i < max_size THEN buf[i] ELSE Junk) \in Bytes
  BY <1>1, BytesAre
<1>3. \A i \in 0 .. max_size - 1 : i \in 0 .. k - 1 /\ i < max_size
  OBVIOUS
<1> QED
  BY <1>2, <1>3 DEF Realloc

(* The memcpy and the 0 extend the received prefix by one block. *)
LEMMA CopyExtends ==
  ASSUME size \in Nat, sent = size, round \in Nat \ {0},
         NEW k \in Nat, NEW mem \in [0 .. k - 1 -> Bytes], NEW n \in Nat, n > 0,
         size + n < k,
         \A i \in 0 .. size - 1 : mem[i] = Byte(round, i)
  PROVE  /\ Copied(mem, n) \in [0 .. k - 1 -> Bytes]
         /\ \A i \in 0 .. size + n - 1 : Copied(mem, n)[i] = Byte(round, i)
         /\ Copied(mem, n)[size + n] = Nul
<1>1. DOMAIN mem = 0 .. k - 1
  OBVIOUS
<1>2. ASSUME NEW i \in 0 .. k - 1
      PROVE  Copied(mem, n)[i] = IF size <= i /\ i < size + n THEN Byte(round, sent + (i - size))
                                 ELSE IF i = size + n THEN Nul ELSE mem[i]
  BY <1>1 DEF Copied
<1>3. ASSUME NEW i \in 0 .. k - 1
      PROVE  (IF size <= i /\ i < size + n THEN Byte(round, sent + (i - size))
              ELSE IF i = size + n THEN Nul ELSE mem[i]) \in Bytes
  <2>1. CASE size <= i /\ i < size + n
    <3>1. sent + (i - size) \in Nat
      BY <2>1
    <3> QED
      BY <2>1, <3>1, BytesAre
  <2>2. CASE ~(size <= i /\ i < size + n)
    BY <2>2, BytesAre
  <2> QED
    BY <2>1, <2>2
<1>4. Copied(mem, n) \in [0 .. k - 1 -> Bytes]
  BY <1>1, <1>3 DEF Copied
<1>5. ASSUME NEW i \in 0 .. size + n - 1
      PROVE  Copied(mem, n)[i] = Byte(round, i)
  <2>1. i \in 0 .. k - 1
    OBVIOUS
  <2>2. CASE i < size
    BY <2>1, <2>2, <1>2
  <2>3. CASE i >= size
    <3>1. sent + (i - size) = i
      BY <2>3
    <3> QED
      BY <2>1, <2>3, <1>2, <3>1
  <2> QED
    BY <2>2, <2>3
<1>6. size + n \in 0 .. k - 1
  OBVIOUS
<1>7. Copied(mem, n)[size + n] = Nul
  BY <1>2, <1>6
<1> QED
  BY <1>4, <1>5, <1>7

(* Lemmas about what is handed on *)

(* What is handed on is of one of the transfers. *)
LEMMA RecordsHaveRounds ==
  ASSUME NEW s \in Seq(Records), NEW j \in 1 .. Len(s)
  PROVE  s[j].round \in 1 .. Rounds /\ s[j].round \in Nat
<1>1. s[j] \in Records
  OBVIOUS
<1>2. s[j].round \in 1 .. Rounds /\ Rounds \in Nat
  BY <1>1, ConstantsAssumption DEF Records, ConstantsAssumption
<1> QED
  BY <1>2

(* The record made of the front of what was received is one answer's. *)
LEMMA FrontIsOneAnswer ==
  ASSUME IInv, phase \in {"performed", "returned", "aborted"}, NEW n \in 0 .. size
  PROVE  /\ Front(n) \in Records
         /\ Front(n).round = round
         /\ Front(n).seq = seq
         /\ Front(n).bytes = [i \in 0 .. n - 1 |-> Byte(round, i)]
         /\ n \in 0 .. response[round].length
         /\ seq = NumberOf(program, response[round]) \/ (seq = -1 /\ size = 0)
<1>1. /\ size \in Nat /\ round \in 1 .. Rounds /\ size = sent /\ sent <= response[round].length
      /\ response[round].length \in Nat /\ response[round].header \in Headers
      /\ seq \in Nat \cup {-1}
      /\ Rounds \in Nat
  BY ConstantsAssumption DEF IInv, TypeOK, Buffer, PrefixKept, SentIsPart, Response, ConstantsAssumption
<1>2. [i \in 0 .. n - 1 |-> buf[i]] = [i \in 0 .. n - 1 |-> Byte(round, i)]
  <2>1. \A i \in 0 .. n - 1 : i \in 0 .. size - 1
    BY <1>1
  <2>2. \A i \in 0 .. n - 1 : buf[i] = Byte(round, i)
    BY <1>1, <2>1 DEF IInv, Buffer, PrefixKept
  <2> QED
    BY <2>2
<1>3. [i \in 0 .. n - 1 |-> Byte(round, i)] \in [0 .. n - 1 -> Bytes]
  BY <1>1, BytesAre
<1>4. Front(n) \in Records
  <2>1. [i \in 0 .. n - 1 |-> buf[i]] \in UNION {[0 .. k - 1 -> Bytes] : k \in Nat}
    BY <1>1, <1>2, <1>3
  <2> QED
    BY <1>1, <2>1 DEF Front, Records
<1>5. seq = NumberOf(program, response[round]) \/ (seq = -1 /\ sent = 0)
  BY <1>1 DEF IInv, Buffer, Numbered, Response
<1> QED
  BY <1>1, <1>2, <1>4, <1>5 DEF Front

(* All of what was received is its longest front. *)
LEMMA ReceivedIsFront ==
  ASSUME TypeOK
  PROVE  size \in 0 .. size /\ Received = Front(size)
BY DEF TypeOK, Received

(* A step that hands on nothing and asks nothing. *)
LEMMA HandedStays ==
  ASSUME IInv, phase \notin {"returned", "aborted"}, UNCHANGED <<program, response, kept>>,
         round' = round \/ round' = round + 1
  PROVE  Handed'
<1>1. round \in Nat /\ kept \in Seq(Records)
  BY ConstantsAssumption DEF IInv, TypeOK, Handed, ConstantsAssumption
<1>2. KeptEarlier'
  <2> SUFFICES ASSUME NEW j \in 1 .. Len(kept)
               PROVE  kept[j].round < round'
    BY DEF KeptEarlier
  <2>1. kept[j].round < round
    BY DEF IInv, Handed, KeptEarlier
  <2>2. kept[j].round \in Nat
    BY <1>1, RecordsHaveRounds
  <2> QED
    BY <1>1, <2>1, <2>2
<1>3. KeptIsOneAnswer'
  <2>1. KeptIsOneAnswer
    BY DEF IInv, Handed
  <2> QED
    BY <2>1 DEF KeptIsOneAnswer
<1>4. PushedIsWhole'
  <2>1. PushedIsWhole
    BY DEF IInv, Handed
  <2> QED
    BY <2>1 DEF PushedIsWhole
<1> QED
  BY <1>1, <1>2, <1>3, <1>4 DEF Handed

(* A step that hands on the front of what was received, after which the    *)
(* transfer is over; all of it in paster2.                                 *)
LEMMA HandedMore ==
  ASSUME IInv, TypeOK', NEW n \in 0 .. size, phase \in {"performed", "returned", "aborted"},
         UNCHANGED <<program, response>>, kept' = Append(kept, Front(n)),
         phase' \in {"returned", "aborted"} \/ (phase = "performed" /\ round' = round + 1),
         program = "paster2" => phase = "performed" /\ res = "ok" /\ n = size
  PROVE  Handed'
<1> USE FrontIsOneAnswer
<1>1. kept \in Seq(Records) /\ Front(n) \in Records
  BY DEF IInv, Handed
<1>2. kept' \in Seq(Records) /\ Len(kept') = Len(kept) + 1 /\ Len(kept) \in Nat
  BY <1>1
<1>3. \A j \in 1 .. Len(kept') : IF j = Len(kept') THEN kept'[j] = Front(n)
                                 ELSE j \in 1 .. Len(kept) /\ kept'[j] = kept[j]
  BY <1>1, <1>2
<1>4. KeptEarlier'
  <2> SUFFICES ASSUME NEW j \in 1 .. Len(kept'), phase' \notin {"returned", "aborted"}
               PROVE  kept'[j].round < round'
    BY DEF KeptEarlier
  <2>1. phase = "performed" /\ round' = round + 1 /\ round \in Nat
    BY ConstantsAssumption DEF IInv, TypeOK, ConstantsAssumption
  <2>2. CASE j = Len(kept')
    <3>1. kept'[j].round = round
      BY <1>3, <2>2
    <3> QED
      BY <2>1, <3>1
  <2>3. CASE j # Len(kept')
    <3>1. j \in 1 .. Len(kept) /\ kept'[j] = kept[j]
      BY <1>3, <2>3
    <3>2. kept[j].round < round
      BY <2>1, <3>1 DEF IInv, Handed, KeptEarlier
    <3>3. kept[j].round \in Nat
      BY <3>1, <1>1, RecordsHaveRounds
    <3> QED
      BY <2>1, <3>1, <3>2, <3>3
  <2> QED
    BY <2>2, <2>3
<1>5. KeptIsOneAnswer'
  <2> SUFFICES ASSUME NEW j \in 1 .. Len(kept')
               PROVE  PrefixOf(program, kept'[j], response[kept'[j].round])
    BY DEF KeptIsOneAnswer
  <2>1. CASE j = Len(kept')
    <3>1. kept'[j] = Front(n)
      BY <1>3, <2>1
    <3>2. size = 0 => DOMAIN Front(n).bytes = {}
      BY DEF Front, IInv, TypeOK
    <3> QED
      BY <3>1, <3>2 DEF PrefixOf
  <2>2. CASE j # Len(kept')
    <3>1. j \in 1 .. Len(kept) /\ kept'[j] = kept[j]
      BY <1>3, <2>2
    <3> QED
      BY <3>1 DEF IInv, Handed, KeptIsOneAnswer
  <2> QED
    BY <2>1, <2>2
<1>6. PushedIsWhole'
  <2> SUFFICES ASSUME program = "paster2", NEW j \in 1 .. Len(kept')
               PROVE  WholeOf(kept'[j], response[kept'[j].round])
    BY DEF PushedIsWhole
  <2>1. CASE j = Len(kept')
    <3>1. kept'[j] = Front(n)
      BY <1>3, <2>1
    <3>2. phase = "performed" /\ res = "ok" /\ n = size
      OBVIOUS
    <3>3. seq = NumberOf(program, response[round]) /\ sent = response[round].length /\ size = sent
      BY <3>2 DEF IInv, Buffer, Numbered, PrefixKept, Response
    <3>4. DOMAIN Front(n).bytes = 0 .. response[round].length - 1
      BY <3>2, <3>3
    <3>5. response[round].header \in Headers
      BY DEF IInv, TypeOK
    <3>6. seq = -1 => response[round].header = NoHeader
      BY <3>3, <3>5, ConstantsAssumption DEF NumberOf, Atoi, Headers, Garbled, NoHeader, ConstantsAssumption
    <3> QED
      BY <3>1, <3>4, <3>6 DEF WholeOf
  <2>2. CASE j # Len(kept')
    <3>1. j \in 1 .. Len(kept) /\ kept'[j] = kept[j]
      BY <1>3, <2>2
    <3> QED
      BY <3>1 DEF IInv, Handed, PushedIsWhole
  <2> QED
    BY <2>1, <2>2
<1> QED
  BY <1>2, <1>4, <1>5, <1>6 DEF Handed

-----------------------------------------------------------------------------
(* One lemma per action *)

(* One more fault of one kind. *)
LEMMA InjectAdds ==
  ASSUME TypeOK, NEW k \in FaultKinds, Inject(k)
  PROVE  /\ failed' \in [FaultKinds -> Nat]
         /\ failed'[k] > 0
         /\ \A j \in FaultKinds : failed[j] > 0 => failed'[j] > 0
         /\ \A j \in FaultKinds \ {k} : failed'[j] = failed[j]
BY DEF TypeOK, Inject

(* malloc returns a buffer of n bytes. *)
LEMMA AllocatedIsJunk ==
  ASSUME NEW n \in Nat
  PROVE  Allocated(n) \in [0 .. n - 1 -> Bytes]
BY BytesAre DEF Allocated

(* Every program starts with some capacity. *)
LEMMA CapacityIs ==
  ASSUME TypeOK
  PROVE  Capacity[program] \in Nat /\ Capacity[program] > 0
BY ConstantsAssumption DEF TypeOK, ConstantsAssumption

(* A program goes on to its next transfer, or returns. *)
LEMMA NextRoundIs ==
  ASSUME TypeOK, NextRound
  PROVE  /\ round' \in 1 .. Rounds
         /\ (phase' = "returned" /\ round' = round) \/ (phase' = "init" /\ round' = round + 1)
         /\ program \in {"main_2proc", "main", "main_write_header_cb", "main_write_callback"} => phase' = "returned"
<1>1. round \in 1 .. Rounds /\ Rounds \in Nat
  BY ConstantsAssumption DEF TypeOK, ConstantsAssumption
<1>2. CASE LastRound
  BY <1>1, <1>2 DEF NextRound, LastRound
<1>3. CASE ~LastRound
  BY <1>1, <1>3 DEF NextRound, LastRound
<1> QED
  BY <1>2, <1>3

(* The buffer is set up. *)
LEMMA InitBufferKeeps ==
  ASSUME IInv, InitBuffer
  PROVE  IInv'
<1> USE ConstantsAssumption DEF ConstantsAssumption, Programs, Shared
<1> DEFINE c == Capacity[program]
<1>1. /\ c \in Nat /\ c > 0
      /\ Allocated(c) \in [0 .. c - 1 -> Bytes]
      /\ held = 0
  BY CapacityIs, AllocatedIsJunk DEF IInv, Holding, NoneOpen, InitBuffer
<1>2. /\ size' = 0 /\ seq' = -1 /\ sent' = 0 /\ max_size' = c /\ res' = "none"
      /\ phase' \in {"fork", "curl"}
      /\ UNCHANGED <<program, parent, round, response, kept, failed>>
  BY DEF InitBuffer, Cleared, recv_buf_init, image_strip_init, shm_recv_buf_init
<1>3. /\ buf' \in [0 .. c - 1 -> Bytes]
      /\ held' \in Nat
  <2>1. CASE recv_buf_init
    BY <1>1, <2>1 DEF recv_buf_init
  <2>2. CASE image_strip_init
    <3>1. program = "paster2" /\ phase = "init" /\ UNCHANGED <<buf, held>>
      BY <2>2 DEF image_strip_init, InitBuffer
    <3>2. buf \in [0 .. c - 1 -> Bytes]
      BY <3>1 DEF IInv, Buffer, FixedArray
    <3> QED
      BY <1>1, <3>1, <3>2
  <2>3. CASE shm_recv_buf_init
    BY <1>1, <2>3 DEF shm_recv_buf_init
  <2> QED
    BY <2>1, <2>2, <2>3 DEF InitBuffer
<1>4. TypeOK'
  BY <1>1, <1>2, <1>3 DEF IInv, TypeOK
<1>5. Buffer'
  <2>1. FixedArray' /\ InBounds'
    BY <1>1, <1>2, <1>3 DEF FixedArray, InBounds
  <2>2. PrefixKept'
    BY <1>2 DEF PrefixKept
  <2>3. Response.length \in Nat
    <3>1. /\ round \in 1 .. Rounds
          /\ response \in [1 .. Rounds -> [header : Headers, length : 0 .. MaxBody[program]]]
      BY DEF IInv, TypeOK
    <3> QED
      BY <3>1 DEF Response
  <2>4. SentIsPart' /\ Numbered'
    BY <1>2, <2>3 DEF SentIsPart, Numbered, Response
  <2> QED
    BY <2>1, <2>2, <2>4 DEF Buffer
<1>6. Handed'
  BY <1>2, HandedStays DEF InitBuffer
<1>7. Family'
  <2>1. CASE recv_buf_init
    BY <1>2, <2>1 DEF IInv, Family, InitBuffer, recv_buf_init, Growing
  <2>2. CASE image_strip_init
    BY <1>2, <2>2 DEF IInv, Family, InitBuffer, image_strip_init
  <2>3. CASE shm_recv_buf_init
    BY <1>2, <2>3 DEF IInv, Family, InitBuffer, shm_recv_buf_init
  <2> QED
    BY <2>1, <2>2, <2>3 DEF InitBuffer
<1>8. FileIsFinal'
  BY <1>2 DEF IInv, Family, FileIsFinal, InitBuffer
<1>9. Holding'
  <2>1. CASE recv_buf_init
    BY <1>1, <1>2, <2>1 DEF IInv, Family, Holding, NoneOpen, recv_buf_init, InitBuffer, Growing
  <2>2. CASE image_strip_init
    BY <1>1, <1>2, <2>2 DEF IInv, Family, Holding, NoneOpen, image_strip_init, InitBuffer, Growing
  <2>3. CASE shm_recv_buf_init
    BY <1>1, <1>2, <2>3 DEF IInv, Family, Holding, NoneOpen, shm_recv_buf_init, InitBuffer, Growing
  <2> QED
    BY <2>1, <2>2, <2>3 DEF InitBuffer
<1> QED
  BY <1>4, <1>5, <1>6, <1>7, <1>8, <1>9 DEF IInv

(* The parent forks. *)
LEMMA ForkKeeps ==
  ASSUME IInv, Fork
  PROVE  IInv'
<1> USE ConstantsAssumption DEF ConstantsAssumption, Programs, Shared
<1>1. TypeOK'
  BY DEF IInv, TypeOK, recv_buf, Fork
<1>2. Buffer'
  BY <1>1 DEF IInv, TypeOK, recv_buf, Buffer, FixedArray, InBounds, PrefixKept, SentIsPart, Numbered, Response, Fork
<1>3. Handed'
  BY HandedStays DEF IInv, TypeOK, recv_buf, Fork
<1>4. Family'
  BY DEF IInv, TypeOK, recv_buf, Family, Fork
<1>5. FileIsFinal'
  BY DEF IInv, TypeOK, recv_buf, Family, FileIsFinal, Fork
<1>6. Holding'
  BY DEF IInv, TypeOK, recv_buf, Family, Holding, NoneOpen, Fork
<1> QED
  BY <1>1, <1>2, <1>3, <1>4, <1>5, <1>6 DEF IInv

(* It cannot. *)
LEMMA ForkFailsKeeps ==
  ASSUME IInv, ForkFails
  PROVE  IInv'
<1> USE ConstantsAssumption DEF ConstantsAssumption, Programs, Shared
<1>a. /\ failed' \in [FaultKinds -> Nat]
      /\ failed'["fork"] > 0
      /\ failed'["fwrite"] = failed["fwrite"]
      /\ \A j \in FaultKinds : failed[j] > 0 => failed'[j] > 0
  <2>1. TypeOK /\ "fork" \in FaultKinds /\ "fwrite" \in FaultKinds \ {"fork"} /\ Inject("fork")
    BY DEF IInv, FaultKinds, ForkFails
  <2> QED
    BY <2>1, InjectAdds
<1>b. {"fork", "curl", "fwrite"} \subseteq FaultKinds
  BY DEF FaultKinds
<1>1. TypeOK'
  BY <1>a, <1>b DEF IInv, TypeOK, recv_buf, ForkFails, Growing
<1>2. Buffer'
  BY <1>a, <1>b, <1>1 DEF IInv, TypeOK, recv_buf, Buffer, FixedArray, InBounds, PrefixKept, SentIsPart, Numbered, Response, ForkFails, Growing
<1>3. Handed'
  BY HandedStays DEF IInv, TypeOK, recv_buf, ForkFails
<1>4. Family'
  BY <1>a, <1>b DEF IInv, TypeOK, recv_buf, Family, ForkFails, Growing
<1>5. FileIsFinal'
  BY DEF IInv, TypeOK, recv_buf, Family, FileIsFinal, ForkFails, Growing
<1>6. Holding'
  BY <1>a, <1>b DEF IInv, TypeOK, recv_buf, Family, Holding, NoneOpen, ForkFails, Growing
<1> QED
  BY <1>1, <1>2, <1>3, <1>4, <1>5, <1>6 DEF IInv

(* The server is asked: no record of this transfer exists yet. *)
LEMMA EasyInitKeeps ==
  ASSUME IInv, EasyInit
  PROVE  IInv'
<1> USE ConstantsAssumption DEF ConstantsAssumption, Programs, Shared
<1>1. TypeOK'
  <2>1. PICK answer \in [header : Headers, length : 0 .. MaxBody[program]] :
          response' = [response EXCEPT ![round] = answer]
    BY DEF EasyInit
  <2>2. response' \in [1 .. Rounds -> [header : Headers, length : 0 .. MaxBody[program]]]
    BY <2>1 DEF IInv, TypeOK
  <2> QED
    BY <2>2 DEF IInv, TypeOK, recv_buf, EasyInit
<1>2. Buffer'
  BY <1>1 DEF IInv, TypeOK, recv_buf, Buffer, FixedArray, InBounds, PrefixKept, SentIsPart, Numbered, Response, EasyInit, Growing
<1>3. Handed'
  <2>1. PICK answer \in [header : Headers, length : 0 .. MaxBody[program]] :
          response' = [response EXCEPT ![round] = answer]
    BY DEF EasyInit
  <2>2. \A r \in 1 .. Rounds : r # round => response'[r] = response[r]
    BY <2>1 DEF IInv, TypeOK
  <2>3. \A j \in 1 .. Len(kept) : kept[j].round \in 1 .. Rounds /\ kept[j].round < round
    BY RecordsHaveRounds DEF IInv, Handed, KeptEarlier, EasyInit
  <2>4. \A j \in 1 .. Len(kept) : response'[kept[j].round] = response[kept[j].round]
    <3>1. round \in Nat
      BY DEF IInv, TypeOK
    <3>2. TAKE j \in 1 .. Len(kept)
    <3>3. kept[j].round \in 1 .. Rounds /\ kept[j].round < round
      BY <2>3
    <3>4. kept[j].round # round
      BY <3>1, <3>3
    <3> QED
      BY <2>2, <3>3, <3>4
  <2>5. UNCHANGED <<program, round, kept>> /\ phase \notin {"returned", "aborted"}
    BY DEF EasyInit
  <2> QED
    BY <2>4, <2>5 DEF IInv, Handed, KeptEarlier, KeptIsOneAnswer, PushedIsWhole
<1>4. Family'
  BY DEF IInv, TypeOK, recv_buf, Family, EasyInit, Growing
<1>5. FileIsFinal'
  BY DEF IInv, TypeOK, recv_buf, Family, FileIsFinal, EasyInit, Growing
<1>6. Holding'
  BY DEF IInv, TypeOK, recv_buf, Family, Holding, NoneOpen, EasyInit, Growing
<1> QED
  BY <1>1, <1>2, <1>3, <1>4, <1>5, <1>6 DEF IInv

(* There is no curl handle. *)
LEMMA EasyInitFailsKeeps ==
  ASSUME IInv, EasyInitFails
  PROVE  IInv'
<1> USE ConstantsAssumption DEF ConstantsAssumption, Programs, Shared
<1>a. /\ failed' \in [FaultKinds -> Nat]
      /\ failed'["curl"] > 0
      /\ failed'["fwrite"] = failed["fwrite"]
      /\ \A j \in FaultKinds : failed[j] > 0 => failed'[j] > 0
  <2>1. TypeOK /\ "curl" \in FaultKinds /\ "fwrite" \in FaultKinds \ {"curl"} /\ Inject("curl")
    BY DEF IInv, FaultKinds, EasyInitFails
  <2> QED
    BY <2>1, InjectAdds
<1>b. {"fork", "curl", "fwrite"} \subseteq FaultKinds
  BY DEF FaultKinds
<1>c. NextRound =>
        /\ round' \in 1 .. Rounds
        /\ (phase' = "returned" /\ round' = round) \/ (phase' = "init" /\ round' = round + 1)
        /\ program \in {"main_2proc", "main", "main_write_header_cb", "main_write_callback"} => phase' = "returned"
  BY NextRoundIs DEF IInv
<1>1. TypeOK'
  BY <1>a, <1>b, <1>c DEF IInv, TypeOK, recv_buf, EasyInitFails, Growing
<1>2. Buffer'
  BY <1>a, <1>b, <1>c, <1>1 DEF IInv, TypeOK, recv_buf, Buffer, FixedArray, InBounds, PrefixKept, SentIsPart, Numbered, Response, EasyInitFails, Growing
<1>3. Handed'
  BY HandedStays DEF IInv, TypeOK, recv_buf, EasyInitFails, NextRound
<1>4. Family'
  BY <1>a, <1>b, <1>c DEF IInv, TypeOK, recv_buf, Family, EasyInitFails, Growing
<1>5. FileIsFinal'
  BY DEF IInv, TypeOK, recv_buf, Family, FileIsFinal, EasyInitFails, Growing
<1>6. Holding'
  BY <1>a, <1>b, <1>c DEF IInv, TypeOK, recv_buf, Family, Holding, NoneOpen, EasyInitFails, Growing
<1> QED
  BY <1>1, <1>2, <1>3, <1>4, <1>5, <1>6 DEF IInv

(* The fragment header sets the number. *)
LEMMA HeaderKeeps ==
  ASSUME IInv, header_cb_curl
  PROVE  IInv'
<1> USE ConstantsAssumption DEF ConstantsAssumption, Programs, Shared
<1>1. TypeOK'
  BY DEF IInv, TypeOK, recv_buf, header_cb_curl, Atoi, NumberOf, Headers, Garbled, NoHeader, Growing
<1>2. Buffer'
  BY <1>1 DEF IInv, TypeOK, recv_buf, Buffer, FixedArray, InBounds, PrefixKept, SentIsPart, Numbered, Response, header_cb_curl, Atoi, NumberOf, Headers, Garbled, NoHeader, Growing
<1>3. Handed'
  BY HandedStays DEF IInv, TypeOK, recv_buf, header_cb_curl
<1>4. Family'
  BY DEF IInv, TypeOK, recv_buf, Family, header_cb_curl, Atoi, NumberOf, Headers, Garbled, NoHeader, Growing
<1>5. FileIsFinal'
  BY DEF IInv, TypeOK, recv_buf, Family, FileIsFinal, header_cb_curl, Atoi, NumberOf, Headers, Garbled, NoHeader, Growing
<1>6. Holding'
  BY DEF IInv, TypeOK, recv_buf, Family, Holding, NoneOpen, header_cb_curl, Atoi, NumberOf, Headers, Garbled, NoHeader, Growing
<1> QED
  BY <1>1, <1>2, <1>3, <1>4, <1>5, <1>6 DEF IInv

(* The header goes by. *)
LEMMA HeaderUnseenKeeps ==
  ASSUME IInv, HeaderUnseen
  PROVE  IInv'
<1> USE ConstantsAssumption DEF ConstantsAssumption, Programs, Shared
<1>1. TypeOK'
  BY DEF IInv, TypeOK, recv_buf, HeaderUnseen
<1>2. Buffer'
  BY <1>1 DEF IInv, TypeOK, recv_buf, Buffer, FixedArray, InBounds, PrefixKept, SentIsPart, Numbered, Response, HeaderUnseen, NumberOf
<1>3. Handed'
  BY HandedStays DEF IInv, TypeOK, recv_buf, HeaderUnseen
<1>4. Family'
  BY DEF IInv, TypeOK, recv_buf, Family, HeaderUnseen
<1>5. FileIsFinal'
  BY DEF IInv, TypeOK, recv_buf, Family, FileIsFinal, HeaderUnseen
<1>6. Holding'
  BY DEF IInv, TypeOK, recv_buf, Family, Holding, NoneOpen, HeaderUnseen
<1> QED
  BY <1>1, <1>2, <1>3, <1>4, <1>5, <1>6 DEF IInv

(* The transfer ends. *)
LEMMA PerformedKeeps ==
  ASSUME IInv, Performed
  PROVE  IInv'
<1> USE ConstantsAssumption DEF ConstantsAssumption, Programs, Shared
<1>1. TypeOK'
  BY DEF IInv, TypeOK, recv_buf, Performed, Growing
<1>2. Buffer'
  BY <1>1 DEF IInv, TypeOK, recv_buf, Buffer, FixedArray, InBounds, PrefixKept, SentIsPart, Numbered, Response, Performed, Growing
<1>3. Handed'
  BY HandedStays DEF IInv, TypeOK, recv_buf, Performed
<1>4. Family'
  BY DEF IInv, TypeOK, recv_buf, Family, Performed, Growing
<1>5. FileIsFinal'
  BY DEF IInv, TypeOK, recv_buf, Family, FileIsFinal, Performed, Growing
<1>6. Holding'
  BY DEF IInv, TypeOK, recv_buf, Family, Holding, NoneOpen, Performed, Growing
<1> QED
  BY <1>1, <1>2, <1>3, <1>4, <1>5, <1>6 DEF IInv

(* The transfer breaks off. *)
LEMMA BreaksKeeps ==
  ASSUME IInv, Breaks
  PROVE  IInv'
<1> USE ConstantsAssumption DEF ConstantsAssumption, Programs, Shared
<1>a. /\ failed' \in [FaultKinds -> Nat]
      /\ failed'["cut"] > 0
      /\ failed'["fwrite"] = failed["fwrite"]
      /\ \A j \in FaultKinds : failed[j] > 0 => failed'[j] > 0
  <2>1. TypeOK /\ "cut" \in FaultKinds /\ "fwrite" \in FaultKinds \ {"cut"} /\ Inject("cut")
    BY DEF IInv, FaultKinds, Breaks
  <2> QED
    BY <2>1, InjectAdds
<1>b. {"fork", "curl", "fwrite"} \subseteq FaultKinds
  BY DEF FaultKinds
<1>1. TypeOK'
  BY <1>a, <1>b DEF IInv, TypeOK, recv_buf, Breaks, Growing
<1>2. Buffer'
  BY <1>a, <1>b, <1>1 DEF IInv, TypeOK, recv_buf, Buffer, FixedArray, InBounds, PrefixKept, SentIsPart, Numbered, Response, Breaks, Growing
<1>3. Handed'
  BY HandedStays DEF IInv, TypeOK, recv_buf, Breaks
<1>4. Family'
  BY <1>a, <1>b DEF IInv, TypeOK, recv_buf, Family, Breaks, Growing
<1>5. FileIsFinal'
  BY DEF IInv, TypeOK, recv_buf, Family, FileIsFinal, Breaks, Growing
<1>6. Holding'
  BY <1>a, <1>b DEF IInv, TypeOK, recv_buf, Family, Holding, NoneOpen, Breaks, Growing
<1> QED
  BY <1>1, <1>2, <1>3, <1>4, <1>5, <1>6 DEF IInv

(* The buffer cannot grow. *)
LEMMA ReallocFailsKeeps ==
  ASSUME IInv, NEW n \in 1 .. MaxBlock, ReallocFails(n)
  PROVE  IInv'
<1> USE ConstantsAssumption DEF ConstantsAssumption, Programs, Shared
<1>a. /\ failed' \in [FaultKinds -> Nat]
      /\ failed'["realloc"] > 0
      /\ failed'["fwrite"] = failed["fwrite"]
      /\ \A j \in FaultKinds : failed[j] > 0 => failed'[j] > 0
  <2>1. TypeOK /\ "realloc" \in FaultKinds /\ "fwrite" \in FaultKinds \ {"realloc"} /\ Inject("realloc")
    BY DEF IInv, FaultKinds, ReallocFails
  <2> QED
    BY <2>1, InjectAdds
<1>b. {"fork", "curl", "fwrite"} \subseteq FaultKinds
  BY DEF FaultKinds
<1>1. TypeOK'
  BY <1>a, <1>b DEF IInv, TypeOK, recv_buf, ReallocFails, Block, Growing
<1>2. Buffer'
  BY <1>a, <1>b, <1>1 DEF IInv, TypeOK, recv_buf, Buffer, FixedArray, InBounds, PrefixKept, SentIsPart, Numbered, Response, ReallocFails, Block, Growing
<1>3. Handed'
  BY HandedStays DEF IInv, TypeOK, recv_buf, ReallocFails, Block
<1>4. Family'
  BY <1>a, <1>b DEF IInv, TypeOK, recv_buf, Family, ReallocFails, Block, Growing
<1>5. FileIsFinal'
  BY DEF IInv, TypeOK, recv_buf, Family, FileIsFinal, ReallocFails, Block, Growing
<1>6. Holding'
  BY <1>a, <1>b DEF IInv, TypeOK, recv_buf, Family, Holding, NoneOpen, ReallocFails, Block, Growing
<1> QED
  BY <1>1, <1>2, <1>3, <1>4, <1>5, <1>6 DEF IInv

(* The child of main_2proc, or main, aborts. *)
LEMMA TooSmallKeeps ==
  ASSUME IInv, NEW n \in 1 .. MaxBlock, TooSmall(n)
  PROVE  IInv'
<1> USE ConstantsAssumption DEF ConstantsAssumption, Programs, Shared
<1>1. TypeOK'
  BY DEF IInv, TypeOK, recv_buf, TooSmall, Block, Growing
<1>2. Buffer'
  BY <1>1 DEF IInv, TypeOK, recv_buf, Buffer, FixedArray, InBounds, PrefixKept, SentIsPart, Numbered, Response, TooSmall, Block, Growing
<1>3. Handed'
  BY HandedStays DEF IInv, TypeOK, recv_buf, TooSmall, Block
<1>4. Family'
  BY DEF IInv, TypeOK, recv_buf, Family, TooSmall, Block, Growing
<1>5. FileIsFinal'
  BY DEF IInv, TypeOK, recv_buf, Family, FileIsFinal, TooSmall, Block, Growing
<1>6. Holding'
  BY DEF IInv, TypeOK, recv_buf, Family, Holding, NoneOpen, TooSmall, Block, Growing
<1> QED
  BY <1>1, <1>2, <1>3, <1>4, <1>5, <1>6 DEF IInv

(* The child of main_2proc ends. *)
LEMMA ChildReturnsKeeps ==
  ASSUME IInv, ChildReturns
  PROVE  IInv'
<1> USE ConstantsAssumption DEF ConstantsAssumption, Programs, Shared
<1>c. NextRound =>
        /\ round' \in 1 .. Rounds
        /\ (phase' = "returned" /\ round' = round) \/ (phase' = "init" /\ round' = round + 1)
        /\ program \in {"main_2proc", "main", "main_write_header_cb", "main_write_callback"} => phase' = "returned"
  BY NextRoundIs DEF IInv
<1>1. TypeOK'
  BY <1>c DEF IInv, TypeOK, recv_buf, ChildReturns, Growing
<1>2. Buffer'
  BY <1>c, <1>1 DEF IInv, TypeOK, recv_buf, Buffer, FixedArray, InBounds, PrefixKept, SentIsPart, Numbered, Response, ChildReturns, Growing
<1>3. Handed'
  BY HandedStays DEF IInv, TypeOK, recv_buf, ChildReturns, NextRound
<1>4. Family'
  BY <1>c DEF IInv, TypeOK, recv_buf, Family, ChildReturns, Growing
<1>5. FileIsFinal'
  BY DEF IInv, TypeOK, recv_buf, Family, FileIsFinal, ChildReturns, Growing
<1>6. Holding'
  BY <1>c DEF IInv, TypeOK, recv_buf, Family, Holding, NoneOpen, ChildReturns, Growing
<1> QED
  BY <1>1, <1>2, <1>3, <1>4, <1>5, <1>6 DEF IInv

(* The next n bytes go into a buffer of k bytes with the contents of mem. *)
CopiedInto(k, mem, n) ==
  /\ size + n < k
  /\ \A i \in 0 .. size - 1 : mem[i] = Byte(round, i)
  /\ program = "paster2" => k = max_size
  /\ buf' = Copied(mem, n)
  /\ max_size' = k

(* A block that makes the buffer grow, or not. *)
LEMMA WriteGrownKeeps ==
  ASSUME IInv, NEW n \in 1 .. MaxBlock, write_cb_curl3(n)
  PROVE  IInv'
<1> USE ConstantsAssumption DEF ConstantsAssumption, Programs, Shared
<1>1. /\ size \in Nat /\ sent = size /\ round \in Nat \ {0} /\ max_size \in Nat
      /\ n \in Nat /\ n > 0 /\ phase = "body" /\ size < max_size
      /\ buf \in [0 .. max_size - 1 -> Bytes]
      /\ n <= Response.length - sent /\ Response.length \in Nat
      /\ \A i \in 0 .. size - 1 : buf[i] = Byte(round, i)
  BY DEF IInv, TypeOK, Buffer, PrefixKept, InBounds, Response, write_cb_curl3, Block
<1>2. \E k \in Nat : \E mem \in [0 .. k - 1 -> Bytes] : CopiedInto(k, mem, n)
  <2>1. program # "paster2"
    BY DEF write_cb_curl3, Block, Growing
  <2>2. CASE Fits(n)
    <3>1. buf' = Copied(buf, n) /\ max_size' = max_size
      BY <2>2 DEF write_cb_curl3, Store
    <3>2. size + n < max_size
      BY <1>1, <2>2 DEF Fits
    <3> QED
      BY <1>1, <2>1, <3>1, <3>2 DEF CopiedInto
  <2>3. CASE ~Fits(n)
    <3>1. buf' = Copied(Realloc(Grown(n)), n) /\ max_size' = Grown(n)
      BY <2>3 DEF write_cb_curl3, Store
    <3>2. /\ Grown(n) \in Nat
          /\ max_size <= Grown(n)
          /\ size + n < Grown(n)
      BY <1>1, GrownFits
    <3>3. /\ Realloc(Grown(n)) \in [0 .. Grown(n) - 1 -> Bytes]
          /\ \A i \in 0 .. max_size - 1 : Realloc(Grown(n))[i] = buf[i]
      BY <1>1, <3>2, ReallocKeeps
    <3>4. \A i \in 0 .. size - 1 : i \in 0 .. max_size - 1
      BY <1>1
    <3> QED
      BY <1>1, <2>1, <3>1, <3>2, <3>3, <3>4 DEF CopiedInto
  <2> QED
    BY <2>2, <2>3
<1>3. /\ size' = size + n /\ sent' = sent + n
      /\ UNCHANGED <<program, phase, parent, round, response, res, seq, held, kept, failed>>
  BY DEF write_cb_curl3, Store
<1>a. PICK k \in Nat : \E mem \in [0 .. k - 1 -> Bytes] : CopiedInto(k, mem, n)
  BY <1>2
<1>b. PICK mem \in [0 .. k - 1 -> Bytes] : CopiedInto(k, mem, n)
  BY <1>a
<1>4. /\ size + n < k
      /\ \A i \in 0 .. size - 1 : mem[i] = Byte(round, i)
      /\ program = "paster2" => k = max_size
      /\ buf' = Copied(mem, n)
      /\ max_size' = k
  BY <1>b DEF CopiedInto
<1>5. /\ Copied(mem, n) \in [0 .. k - 1 -> Bytes]
      /\ \A i \in 0 .. size + n - 1 : Copied(mem, n)[i] = Byte(round, i)
      /\ Copied(mem, n)[size + n] = Nul
  <2> HIDE DEF ConstantsAssumption, Programs, Shared
  <2> QED
    BY <1>1, <1>4, CopyExtends
<1>6. TypeOK'
  <2>1. size' \in Nat /\ sent' \in Nat /\ max_size' \in Nat
    BY <1>1, <1>3, <1>4
  <2>2. buf' \in [0 .. max_size' - 1 -> Bytes]
    BY <1>4, <1>5
  <2> HIDE DEF ConstantsAssumption, Programs, Shared
  <2> QED
    BY ONLY IInv, <1>3, <2>1, <2>2 DEF IInv, TypeOK
<1>7. PrefixKept'
  BY <1>1, <1>3, <1>4, <1>5 DEF PrefixKept
<1>8. FixedArray'
  BY <1>1, <1>3, <1>4, <1>5 DEF IInv, Buffer, FixedArray
<1>9. InBounds' /\ SentIsPart' /\ Numbered'
  BY <1>1, <1>3, <1>4 DEF IInv, Buffer, InBounds, SentIsPart, Numbered, Response
<1>10. Handed'
  BY <1>1, <1>3, HandedStays
<1>11. Family' /\ FileIsFinal' /\ Holding'
  BY <1>1, <1>3 DEF IInv, Family, FileIsFinal, Holding, NoneOpen
<1> QED
  BY <1>6, <1>7, <1>8, <1>9, <1>10, <1>11 DEF IInv, Buffer

(* A block of a strip, which is never larger than the array. *)
LEMMA WriteUncheckedKeeps ==
  ASSUME IInv, NEW n \in 1 .. MaxBlock, WriteUnchecked(n)
  PROVE  IInv'
<1> USE ConstantsAssumption DEF ConstantsAssumption, Programs, Shared
<1>1. /\ size \in Nat /\ sent = size /\ round \in Nat \ {0} /\ max_size \in Nat
      /\ n \in Nat /\ n > 0 /\ phase = "body" /\ size < max_size
      /\ buf \in [0 .. max_size - 1 -> Bytes]
      /\ n <= Response.length - sent /\ Response.length \in Nat
      /\ \A i \in 0 .. size - 1 : buf[i] = Byte(round, i)
  BY DEF IInv, TypeOK, Buffer, PrefixKept, InBounds, Response, WriteUnchecked, Block
<1>2. \E k \in Nat : \E mem \in [0 .. k - 1 -> Bytes] : CopiedInto(k, mem, n)
  <2>1. program = "paster2"
    BY DEF WriteUnchecked, Block
  <2>2. max_size = Capacity["paster2"]
    BY <1>1, <2>1 DEF IInv, Buffer, FixedArray
  <2>3. Response.length <= MaxBody["paster2"]
    BY <2>1 DEF IInv, TypeOK, Response
  <2>4. MaxBody["paster2"] \in Nat /\ Capacity["paster2"] \in Nat
    OBVIOUS
  <2>5. size + n < max_size
    BY <1>1, <2>2, <2>3, <2>4
  <2>6. buf' = Copied(buf, n) /\ max_size' = max_size
    BY DEF WriteUnchecked, Store
  <2> QED
    BY <1>1, <2>5, <2>6 DEF CopiedInto
<1>3. /\ size' = size + n /\ sent' = sent + n
      /\ UNCHANGED <<program, phase, parent, round, response, res, seq, held, kept, failed>>
  BY DEF WriteUnchecked, Store
<1>a. PICK k \in Nat : \E mem \in [0 .. k - 1 -> Bytes] : CopiedInto(k, mem, n)
  BY <1>2
<1>b. PICK mem \in [0 .. k - 1 -> Bytes] : CopiedInto(k, mem, n)
  BY <1>a
<1>4. /\ size + n < k
      /\ \A i \in 0 .. size - 1 : mem[i] = Byte(round, i)
      /\ program = "paster2" => k = max_size
      /\ buf' = Copied(mem, n)
      /\ max_size' = k
  BY <1>b DEF CopiedInto
<1>5. /\ Copied(mem, n) \in [0 .. k - 1 -> Bytes]
      /\ \A i \in 0 .. size + n - 1 : Copied(mem, n)[i] = Byte(round, i)
      /\ Copied(mem, n)[size + n] = Nul
  <2> HIDE DEF ConstantsAssumption, Programs, Shared
  <2> QED
    BY <1>1, <1>4, CopyExtends
<1>6. TypeOK'
  <2>1. size' \in Nat /\ sent' \in Nat /\ max_size' \in Nat
    BY <1>1, <1>3, <1>4
  <2>2. buf' \in [0 .. max_size' - 1 -> Bytes]
    BY <1>4, <1>5
  <2> HIDE DEF ConstantsAssumption, Programs, Shared
  <2> QED
    BY ONLY IInv, <1>3, <2>1, <2>2 DEF IInv, TypeOK
<1>7. PrefixKept'
  BY <1>1, <1>3, <1>4, <1>5 DEF PrefixKept
<1>8. FixedArray'
  BY <1>1, <1>3, <1>4, <1>5 DEF IInv, Buffer, FixedArray
<1>9. InBounds' /\ SentIsPart' /\ Numbered'
  BY <1>1, <1>3, <1>4 DEF IInv, Buffer, InBounds, SentIsPart, Numbered, Response
<1>10. Handed'
  BY <1>1, <1>3, HandedStays
<1>11. Family' /\ FileIsFinal' /\ Holding'
  BY <1>1, <1>3 DEF IInv, Family, FileIsFinal, Holding, NoneOpen
<1> QED
  BY <1>6, <1>7, <1>8, <1>9, <1>10, <1>11 DEF IInv, Buffer

(* A block that fits. *)
LEMMA WriteCheckedKeeps ==
  ASSUME IInv, NEW n \in 1 .. MaxBlock, write_cb_curl(n)
  PROVE  IInv'
<1> USE ConstantsAssumption DEF ConstantsAssumption, Programs, Shared
<1>1. /\ size \in Nat /\ sent = size /\ round \in Nat \ {0} /\ max_size \in Nat
      /\ n \in Nat /\ n > 0 /\ phase = "body" /\ size < max_size
      /\ buf \in [0 .. max_size - 1 -> Bytes]
      /\ n <= Response.length - sent /\ Response.length \in Nat
      /\ \A i \in 0 .. size - 1 : buf[i] = Byte(round, i)
  BY DEF IInv, TypeOK, Buffer, PrefixKept, InBounds, Response, write_cb_curl, Block
<1>2. \E k \in Nat : \E mem \in [0 .. k - 1 -> Bytes] : CopiedInto(k, mem, n)
  <2>1. size + n < max_size
    BY <1>1 DEF write_cb_curl, Fits
  <2>2. buf' = Copied(buf, n) /\ max_size' = max_size
    BY DEF write_cb_curl, Store
  <2> QED
    BY <1>1, <2>1, <2>2 DEF CopiedInto
<1>3. /\ size' = size + n /\ sent' = sent + n
      /\ UNCHANGED <<program, phase, parent, round, response, res, seq, held, kept, failed>>
  BY DEF write_cb_curl, Store
<1>a. PICK k \in Nat : \E mem \in [0 .. k - 1 -> Bytes] : CopiedInto(k, mem, n)
  BY <1>2
<1>b. PICK mem \in [0 .. k - 1 -> Bytes] : CopiedInto(k, mem, n)
  BY <1>a
<1>4. /\ size + n < k
      /\ \A i \in 0 .. size - 1 : mem[i] = Byte(round, i)
      /\ program = "paster2" => k = max_size
      /\ buf' = Copied(mem, n)
      /\ max_size' = k
  BY <1>b DEF CopiedInto
<1>5. /\ Copied(mem, n) \in [0 .. k - 1 -> Bytes]
      /\ \A i \in 0 .. size + n - 1 : Copied(mem, n)[i] = Byte(round, i)
      /\ Copied(mem, n)[size + n] = Nul
  <2> HIDE DEF ConstantsAssumption, Programs, Shared
  <2> QED
    BY <1>1, <1>4, CopyExtends
<1>6. TypeOK'
  <2>1. size' \in Nat /\ sent' \in Nat /\ max_size' \in Nat
    BY <1>1, <1>3, <1>4
  <2>2. buf' \in [0 .. max_size' - 1 -> Bytes]
    BY <1>4, <1>5
  <2> HIDE DEF ConstantsAssumption, Programs, Shared
  <2> QED
    BY ONLY IInv, <1>3, <2>1, <2>2 DEF IInv, TypeOK
<1>7. PrefixKept'
  BY <1>1, <1>3, <1>4, <1>5 DEF PrefixKept
<1>8. FixedArray'
  BY <1>1, <1>3, <1>4, <1>5 DEF IInv, Buffer, FixedArray
<1>9. InBounds' /\ SentIsPart' /\ Numbered'
  BY <1>1, <1>3, <1>4 DEF IInv, Buffer, InBounds, SentIsPart, Numbered, Response
<1>10. Handed'
  BY <1>1, <1>3, HandedStays
<1>11. Family' /\ FileIsFinal' /\ Holding'
  BY <1>1, <1>3 DEF IInv, Family, FileIsFinal, Holding, NoneOpen
<1> QED
  BY <1>6, <1>7, <1>8, <1>9, <1>10, <1>11 DEF IInv, Buffer

(* A whole strip is pushed. *)
LEMMA PushesKeeps ==
  ASSUME IInv, Pushes
  PROVE  IInv'
<1> USE ConstantsAssumption DEF ConstantsAssumption, Programs, Shared
<1>c. NextRound =>
        /\ round' \in 1 .. Rounds
        /\ (phase' = "returned" /\ round' = round) \/ (phase' = "init" /\ round' = round + 1)
        /\ program \in {"main_2proc", "main", "main_write_header_cb", "main_write_callback"} => phase' = "returned"
  BY NextRoundIs DEF IInv
<1>1. TypeOK'
  BY <1>c DEF IInv, TypeOK, recv_buf, Pushes, PushStrip, Growing
<1>2. Buffer'
  BY <1>c, <1>1 DEF IInv, TypeOK, recv_buf, Buffer, FixedArray, InBounds, PrefixKept, SentIsPart, Numbered, Response, Pushes, PushStrip, Growing
<1>3. Handed'
  <2>1. UNCHANGED <<program, response>> /\ phase = "performed"
    BY DEF Pushes
  <2>2. CASE kept' = kept
    BY <1>c, <2>1, <2>2, HandedStays DEF Pushes
  <2>3. CASE kept' = Append(kept, Received) /\ res = "ok"
    <3>1. size \in 0 .. size /\ kept' = Append(kept, Front(size))
      BY <2>3, ReceivedIsFront DEF IInv
    <3> QED
      BY <1>1, <1>c, <2>1, <2>3, <3>1, HandedMore DEF Pushes
  <2> QED
    BY <2>2, <2>3 DEF Pushes, PushStrip
<1>4. Family'
  BY <1>c DEF IInv, TypeOK, recv_buf, Family, Pushes, PushStrip, Growing
<1>5. FileIsFinal'
  BY DEF IInv, TypeOK, recv_buf, Family, FileIsFinal, Pushes
<1>6. Holding'
  BY <1>c DEF IInv, TypeOK, recv_buf, Family, Holding, NoneOpen, Pushes, PushStrip, Growing
<1> QED
  BY <1>1, <1>2, <1>3, <1>4, <1>5, <1>6 DEF IInv

(* What was received is saved. *)
LEMMA SavesKeeps ==
  ASSUME IInv, Saves
  PROVE  IInv'
<1> USE ConstantsAssumption DEF ConstantsAssumption, Programs, Shared
<1>c. NextRound =>
        /\ round' \in 1 .. Rounds
        /\ (phase' = "returned" /\ round' = round) \/ (phase' = "init" /\ round' = round + 1)
        /\ program \in {"main_2proc", "main", "main_write_header_cb", "main_write_callback"} => phase' = "returned"
  BY NextRoundIs DEF IInv
<1>1. TypeOK'
  <2>1. held' \in Nat
    BY DEF IInv, Saves, recv_buf_cleanup, Holding
  <2> QED
    BY <1>c, <2>1 DEF IInv, TypeOK, recv_buf, Saves
<1>2. Buffer'
  BY <1>c, <1>1 DEF IInv, TypeOK, recv_buf, Buffer, FixedArray, InBounds, PrefixKept, SentIsPart, Numbered, Response, Saves, recv_buf_cleanup, Holding, NoneOpen, Growing
<1>3. Handed'
  <2>1. UNCHANGED <<program, response>> /\ phase = "performed"
    BY DEF Saves
  <2>2. CASE kept' = kept
    BY <1>c, <2>1, <2>2, HandedStays DEF Saves
  <2>3. CASE kept' = Append(kept, Received) 
    <3>1. size \in 0 .. size /\ kept' = Append(kept, Front(size))
      BY <2>3, ReceivedIsFront DEF IInv
    <3> QED
      BY <1>1, <1>c, <2>1, <2>3, <3>1, HandedMore DEF Saves
  <2> QED
    BY <2>2, <2>3 DEF Saves, recv_buf_cleanup, Holding, NoneOpen
<1>4. Family'
  BY <1>c DEF IInv, TypeOK, recv_buf, Family, Saves, recv_buf_cleanup, Holding, NoneOpen, Growing
<1>5. FileIsFinal'
  BY DEF IInv, TypeOK, recv_buf, Family, FileIsFinal, Saves
<1>6. Holding'
  BY <1>c DEF IInv, TypeOK, recv_buf, Family, Holding, NoneOpen, Saves, recv_buf_cleanup, Holding, NoneOpen, Growing
<1> QED
  BY <1>1, <1>2, <1>3, <1>4, <1>5, <1>6 DEF IInv

(* write_file hands on what was received, the front of it, or nothing, and *)
(* keeps the file open only if fwrite fell short.                          *)
LEMMA WriteFileIs ==
  ASSUME TypeOK, NEW rest \in Nat, write_file(rest)
  PROVE  /\ failed' \in [FaultKinds -> Nat]
         /\ \A j \in FaultKinds : failed[j] > 0 => failed'[j] > 0
         /\ held' = rest + (failed'["fwrite"] - failed["fwrite"])
         /\ kept' = kept \/ \E n \in 0 .. size : kept' = Append(kept, Front(n))
         /\ \/ kept' = kept \/ kept' = Append(kept, Received)
            \/ failed'["fwrite"] > 0 /\ \E n \in 0 .. size - 1 : kept' = Append(kept, Front(n))
<1> USE ReceivedIsFront DEF TypeOK
<1>0. {"file", "fwrite"} \subseteq FaultKinds
  BY DEF FaultKinds
<1>1. CASE UNCHANGED failed /\ held' = rest /\ kept' = Append(kept, Received)
  BY <1>0, <1>1
<1>2. CASE Inject("file") /\ held' = rest /\ UNCHANGED kept
  <2>1. failed'["fwrite"] = failed["fwrite"]
    BY <1>0, <1>2, InjectAdds
  <2> QED
    BY <1>0, <1>2, <2>1, InjectAdds
<1>3. CASE /\ Inject("fwrite")
           /\ \E n \in 0 .. size - 1 : kept' = Append(kept, Front(n))
           /\ held' = rest + 1
  <2>1. failed'["fwrite"] = failed["fwrite"] + 1
    BY <1>0, <1>3 DEF Inject
  <2>2. \A n \in 0 .. size - 1 : n \in 0 .. size
    OBVIOUS
  <2> QED
    BY <1>0, <1>3, <2>1, <2>2, InjectAdds
<1> QED
  BY <1>1, <1>2, <1>3 DEF write_file

(* The file of the two programs of v2/starter/cURL is written. *)
LEMMA WritesFileKeeps ==
  ASSUME IInv, WritesFile
  PROVE  IInv'
<1> USE ConstantsAssumption DEF ConstantsAssumption, Programs, Shared
<1>0. /\ TypeOK /\ phase = "performed" /\ write_file(held - 1)
      /\ program \in {"main", "main_write_header_cb", "main_write_callback"}
      /\ held = 1 /\ failed["fwrite"] = 0
  BY DEF IInv, Holding, NoneOpen, recv_buf_cleanup, WritesFile
<1>1. /\ failed' \in [FaultKinds -> Nat]
      /\ \A j \in FaultKinds : failed[j] > 0 => failed'[j] > 0
      /\ held' = failed'["fwrite"]
      /\ kept' = kept \/ \E n \in 0 .. size : kept' = Append(kept, Front(n))
  <2>1. held - 1 \in Nat
    BY <1>0
  <2>2. failed' \in [FaultKinds -> Nat] /\ "fwrite" \in FaultKinds
    BY <1>0, <2>1, WriteFileIs DEF FaultKinds
  <2> QED
    BY <1>0, <2>1, <2>2, WriteFileIs
<1>2. {"fork", "curl", "fwrite"} \subseteq FaultKinds
  BY DEF FaultKinds
<1>3. /\ program \in {"main_write_header_cb", "main_write_callback"} /\ phase = "performed"
      /\ phase' = "returned" /\ round' = round
      /\ UNCHANGED <<program, parent, response, sent, res, buf, size, max_size, seq>>
  BY <1>0, NextRoundIs DEF IInv, TypeOK, Holding, NoneOpen, WritesFile, recv_buf_cleanup, recv_buf, Growing
<1>4. TypeOK'
  BY <1>1, <1>2, <1>3 DEF IInv, TypeOK
<1>5. Buffer'
  BY <1>3 DEF IInv, Buffer, FixedArray, InBounds, PrefixKept, SentIsPart, Numbered, Response
<1>6. Handed'
  <2>1. CASE kept' = kept
    BY <1>3, <2>1, HandedStays
  <2>2. CASE \E n \in 0 .. size : kept' = Append(kept, Front(n))
    BY <1>3, <1>4, <2>2, HandedMore
  <2> QED
    BY <1>1, <2>1, <2>2
<1>7. Family' /\ FileIsFinal' /\ Holding'
  BY <1>1, <1>2, <1>3 DEF IInv, Family, FileIsFinal, Holding, NoneOpen, Growing
<1> QED
  BY <1>4, <1>5, <1>6, <1>7 DEF IInv

(* The file of main is written. *)
LEMMA WritesSegmentKeeps ==
  ASSUME IInv, WritesSegment
  PROVE  IInv'
<1> USE ConstantsAssumption DEF ConstantsAssumption, Programs, Shared
<1>0. /\ TypeOK /\ phase = "performed" /\ write_file(held - 1)
      /\ program \in {"main", "main_write_header_cb", "main_write_callback"}
      /\ held = 1 /\ failed["fwrite"] = 0
  BY DEF IInv, Holding, NoneOpen, recv_buf_cleanup, WritesSegment
<1>1. /\ failed' \in [FaultKinds -> Nat]
      /\ \A j \in FaultKinds : failed[j] > 0 => failed'[j] > 0
      /\ held' = failed'["fwrite"]
      /\ kept' = kept \/ \E n \in 0 .. size : kept' = Append(kept, Front(n))
  <2>1. held - 1 \in Nat
    BY <1>0
  <2>2. failed' \in [FaultKinds -> Nat] /\ "fwrite" \in FaultKinds
    BY <1>0, <2>1, WriteFileIs DEF FaultKinds
  <2> QED
    BY <1>0, <2>1, <2>2, WriteFileIs
<1>2. {"fork", "curl", "fwrite"} \subseteq FaultKinds
  BY DEF FaultKinds
<1>3. /\ program = "main" /\ phase = "performed"
      /\ phase' = "returned" /\ round' = round
      /\ UNCHANGED <<program, parent, response, sent, res, buf, size, max_size, seq>>
  BY <1>0, NextRoundIs DEF IInv, TypeOK, Holding, NoneOpen, WritesSegment, recv_buf, Growing
<1>4. TypeOK'
  BY <1>1, <1>2, <1>3 DEF IInv, TypeOK
<1>5. Buffer'
  BY <1>3 DEF IInv, Buffer, FixedArray, InBounds, PrefixKept, SentIsPart, Numbered, Response
<1>6. Handed'
  <2>1. CASE kept' = kept
    BY <1>3, <2>1, HandedStays
  <2>2. CASE \E n \in 0 .. size : kept' = Append(kept, Front(n))
    BY <1>3, <1>4, <2>2, HandedMore
  <2> QED
    BY <1>1, <2>1, <2>2
<1>7. Family' /\ FileIsFinal' /\ Holding'
  BY <1>1, <1>2, <1>3 DEF IInv, Family, FileIsFinal, Holding, NoneOpen, Growing
<1> QED
  BY <1>4, <1>5, <1>6, <1>7 DEF IInv

(* The parent of main_2proc writes the file when its child has ended. *)
LEMMA ParentWritesKeeps ==
  ASSUME IInv, ParentWrites
  PROVE  IInv'
<1> USE ConstantsAssumption DEF ConstantsAssumption, Programs, Shared
<1>2. {"fork", "curl", "fwrite"} \subseteq FaultKinds
  BY DEF FaultKinds
<1>3. /\ phase \in {"returned", "aborted"} /\ parent = "waits" /\ parent' = "returned"
      /\ UNCHANGED <<program, phase, round, response, sent, res, buf, size, max_size, seq>>
      /\ write_file(held - 1)
  BY DEF ParentWrites, recv_buf, ChildEnded
<1>4. program = "main_2proc" /\ held = 1 /\ kept = <<>> /\ failed["fwrite"] = 0
  BY <1>3 DEF IInv, TypeOK, Family, Holding, NoneOpen
<1>1. /\ failed' \in [FaultKinds -> Nat]
      /\ \A j \in FaultKinds : failed[j] > 0 => failed'[j] > 0
      /\ held' = failed'["fwrite"]
      /\ kept' = kept \/ \E n \in 0 .. size : kept' = Append(kept, Front(n))
      /\ \/ kept' = kept \/ kept' = Append(kept, Received)
         \/ failed'["fwrite"] > 0 /\ \E n \in 0 .. size - 1 : kept' = Append(kept, Front(n))
  <2>1. TypeOK /\ held - 1 \in Nat
    BY <1>4 DEF IInv
  <2>2. failed' \in [FaultKinds -> Nat] /\ "fwrite" \in FaultKinds
    BY <1>3, <2>1, WriteFileIs DEF FaultKinds
  <2> QED
    BY <1>3, <1>4, <2>1, <2>2, WriteFileIs
<1>5. TypeOK'
  BY <1>1, <1>2, <1>3, <1>4 DEF IInv, TypeOK
<1>6. Buffer'
  BY <1>3 DEF IInv, Buffer, FixedArray, InBounds, PrefixKept, SentIsPart, Numbered, Response
<1>7. Handed'
  <2>1. CASE kept' = kept
    BY <1>3, <1>4, <2>1 DEF IInv, Handed, KeptEarlier, KeptIsOneAnswer, PushedIsWhole
  <2>2. CASE \E n \in 0 .. size : kept' = Append(kept, Front(n))
    BY <1>3, <1>4, <1>5, <2>2, HandedMore
  <2> QED
    BY <1>1, <2>1, <2>2
<1>8. FileIsFinal'
  <2>1. Received' = Received /\ \A n \in 0 .. size - 1 : Front(n)' = Front(n)
    BY <1>3 DEF Received, Front
  <2>2. \A x : Append(<<>>, x)[1] = x
    OBVIOUS
  <2>3. CASE kept' = kept
    BY <1>4, <2>3 DEF FileIsFinal
  <2>4. CASE kept' = Append(kept, Received)
    BY <1>3, <1>4, <2>1, <2>2, <2>4 DEF FileIsFinal
  <2>5. CASE failed'["fwrite"] > 0 /\ \E n \in 0 .. size - 1 : kept' = Append(kept, Front(n))
    BY <1>3, <1>4, <2>1, <2>2, <2>5 DEF FileIsFinal
  <2> QED
    BY <1>1, <2>3, <2>4, <2>5
<1>9. Family' /\ Holding'
  BY <1>1, <1>2, <1>3, <1>4 DEF IInv, Family, Holding, NoneOpen, Growing
<1> QED
  BY <1>5, <1>6, <1>7, <1>8, <1>9 DEF IInv

-----------------------------------------------------------------------------
(* The invariant *)

(* The invariant holds when nothing has been allocated. *)
LEMMA InitEstablishes ==
  ASSUME Init
  PROVE  IInv
<1> USE ConstantsAssumption DEF ConstantsAssumption, Programs, Shared
<1>1. /\ Capacity["paster2"] \in Nat
      /\ Allocated(Capacity["paster2"]) \in [0 .. Capacity["paster2"] - 1 -> Bytes]
  BY AllocatedIsJunk
<1>2. [r \in 1 .. Rounds |-> [header |-> NoHeader, length |-> 0]]
        \in [1 .. Rounds -> [header : Headers, length : 0 .. MaxBody[program]]]
  BY DEF Headers, Init
<1>f. failed \in [FaultKinds -> Nat] /\ failed["fwrite"] = 0
  BY DEF Init, FaultKinds
<1>3. TypeOK
  <2> USE DEF Init
  <2>1. /\ program \in Programs /\ phase = "init" /\ parent = "none" /\ round \in 1 .. Rounds
        /\ sent \in Nat /\ res = "none" /\ size \in Nat /\ max_size \in Nat
        /\ seq \in Nat \cup {-1} /\ held \in Nat
    OBVIOUS
  <2> QED
    BY <1>2, <1>f, <2>1 DEF TypeOK
<1>4. Buffer
  BY <1>1 DEF Init, Buffer, FixedArray, InBounds, PrefixKept, SentIsPart, Numbered
<1>5. Handed
  BY DEF Init, Handed, KeptEarlier, KeptIsOneAnswer, PushedIsWhole
<1>6. Family /\ FileIsFinal /\ Holding
  BY <1>f DEF Init, Family, FileIsFinal, Holding, NoneOpen
<1> QED
  BY <1>3, <1>4, <1>5, <1>6 DEF IInv

(* Nothing changes. *)
LEMMA StutterKeeps ==
  ASSUME IInv, UNCHANGED vars
  PROVE  IInv'
<1> USE DEF IInv, vars, recv_buf
<1>1. TypeOK' /\ Buffer'
  BY DEF TypeOK, Buffer, FixedArray, InBounds, PrefixKept, SentIsPart, Numbered, Response
<1>2. Handed' /\ Family' /\ Holding'
  BY DEF Handed, KeptEarlier, KeptIsOneAnswer, PushedIsWhole, Family, Holding, NoneOpen
<1>3. FileIsFinal'
  <2>1. Received' = Received /\ \A n \in 0 .. size - 1 : Front(n)' = Front(n)
    BY DEF Received, Front
  <2> QED
    BY <2>1 DEF FileIsFinal
<1> QED
  BY <1>1, <1>2, <1>3

(* Every step keeps the invariant. *)
LEMMA NextKeeps ==
  ASSUME IInv, [Next]_vars
  PROVE  IInv'
<1>1. CASE InitBuffer \/ Fork \/ ForkFails \/ EasyInit \/ EasyInitFails
  BY <1>1, InitBufferKeeps, ForkKeeps, ForkFailsKeeps, EasyInitKeeps, EasyInitFailsKeeps
<1>2. CASE header_cb_curl \/ HeaderUnseen \/ Performed \/ Breaks
  BY <1>2, HeaderKeeps, HeaderUnseenKeeps, PerformedKeeps, BreaksKeeps
<1>3. CASE WriteCallback
  BY <1>3, WriteGrownKeeps, ReallocFailsKeeps, WriteUncheckedKeeps, WriteCheckedKeeps, TooSmallKeeps
  DEF WriteCallback
<1>4. CASE Pushes \/ Saves \/ WritesFile \/ WritesSegment \/ ChildReturns \/ ParentWrites
  BY <1>4, PushesKeeps, SavesKeeps, WritesFileKeeps, WritesSegmentKeeps, ChildReturnsKeeps, ParentWritesKeeps
<1>5. CASE Over \/ UNCHANGED vars
  BY <1>5, StutterKeeps DEF Over
<1> QED
  BY <1>1, <1>2, <1>3, <1>4, <1>5 DEF Next, Step

(* The strengthened invariant of the buffer, the records and the processes *)
(* holds always.                                                           *)
THEOREM Invariance == Spec => []IInv
<1>1. Init => IInv
  BY InitEstablishes
<1>2. IInv /\ [Next]_vars => IInv'
  BY NextKeeps
<1> QED
  BY <1>1, <1>2, PTL DEF Spec

(* The types of the receive buffer, the server's answers and the processes. *)
THEOREM TypeCorrect == Spec => []TypeOK
<1>1. IInv => TypeOK
  BY DEF IInv
<1> QED
  BY <1>1, Invariance, PTL

(* No block overruns the buffer of any program, and the 0 has its place:   *)
(* for all sizes, provided paster2's strips are smaller than its array.    *)
THEOREM NoOverrun == Spec => []InBounds
<1>1. IInv => InBounds
  BY DEF IInv, Buffer
<1> QED
  BY <1>1, Invariance, PTL

(* The buffer holds the received bytes, however often it has grown.        *)
THEOREM NothingLost == Spec => []PrefixKept
<1>1. IInv => PrefixKept
  BY DEF IInv, Buffer
<1> QED
  BY <1>1, Invariance, PTL

(* What is saved, pushed or written comes from one answer of the server.   *)
THEOREM OneAnswer == Spec => []KeptIsOneAnswer
<1>1. IInv => KeptIsOneAnswer
  BY DEF IInv, Handed
<1> QED
  BY <1>1, Invariance, PTL

(* paster2's strips are whole and numbered.                                *)
THEOREM StripsWhole == Spec => []PushedIsWhole
<1>1. IInv => PushedIsWhole
  BY DEF IInv, Handed
<1> QED
  BY <1>1, Invariance, PTL

(* The parent of main_2proc writes what its child had received in the end. *)
THEOREM FileFinal == Spec => []FileIsFinal
<1>1. IInv => FileIsFinal
  BY DEF IInv
<1> QED
  BY <1>1, Invariance, PTL

(* Nothing stays allocated or open, but for a file after each short fwrite, *)
(* and the buffers of two other failures and of a body too large.           *)
THEOREM AllReleased == Spec => []Released
<1>1. IInv => Released
  <2> SUFFICES ASSUME IInv, Ended
               PROVE  \/ held = failed["fwrite"]
                      \/ failed["curl"] > 0 \/ failed["fork"] > 0
                      \/ program = "main" /\ phase = "aborted"
    BY DEF Released
  <2> QED
    BY DEF IInv, TypeOK, Family, Holding, NoneOpen, Ended, Programs, Shared
<1> QED
  BY <1>1, Invariance, PTL

=============================================================================
