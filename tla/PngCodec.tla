--------------------------------- MODULE PngCodec ---------------------------------
(***************************************************************************)
(* The way of an image through a file: catpng deflates the scan lines and  *)
(* writes three chunks (lab_png.c); the file may be damaged; pnginfo       *)
(* checks the chunks it reads back, and catpng, of version 1 from the file *)
(* or of version 2 from memory, inflates their data.                       *)
(* Bytes and words have ByteBits and WordBits bits and are sets of bits.   *)
(***************************************************************************)
EXTENDS Crc, ZUtil

CONSTANTS
  Sig,           \* png_signature
  TypeOf,        \* the types of the chunks, as bytes
  Sources,       \* scan lines
  Widths,        \* widths and heights
  Format,        \* the rest of IHDR's data: bit depth to interlace
  Uninitialised, \* what is in memory nobody wrote to
  Damages        \* the faults a stored file may suffer: "byte", "cut"

Chunks == {"IHDR", "IDAT", "IEND"}

WordBytes == WordBits \div ByteBits

VARIABLES
  step,     \* where the image is
  scan,     \* its scan lines
  dims,     \* width and height
  ans,      \* the chunks catpng makes
  file,     \* what is stored
  damage,   \* what happened to it
  reader,   \* 1: lab_png.c of version 1, 2: of version 2
  pos,      \* the position in the file, or in memory
  chunks,   \* the chunks read
  ihdr,     \* the data get_png_data_IHDR read
  reported  \* the chunks for which pnginfo printed a CRC error

vars == <<step, scan, dims, ans, file, damage, reader, pos, chunks, ihdr, reported, zvars>>

-----------------------------------------------------------------------------
(* Words in memory, lowest byte first *)

BytesOf(w) ==
  [k \in 1 .. WordBytes |->
     {b \in 0 .. ByteBits - 1 : b + (k - 1) * ByteBits \in w}]

WordOf ==
  [s \in [1 .. WordBytes -> Byte] |->
     {b \in AllOnes : b % ByteBits \in s[b \div ByteBits + 1]}]

htonl == [w \in Words |-> WordOf[Reverse(BytesOf(w))]]
ntohl == htonl

(* n, shifted to the right again and again *)
Shifted(n) == LET h[k \in 0 .. WordBits] == IF k = 0 THEN n ELSE h[k - 1] \div 2 IN h

Word(n) == {b \in AllOnes : Shifted(n)[b] % 2 = 1}

(* The numbers that the highest bits of w make *)
Highest(w) ==
  LET h[k \in 0 .. WordBits] ==
        IF k = 0 THEN 0 ELSE 2 * h[k - 1] + (IF WordBits - k \in w THEN 1 ELSE 0)
  IN  h

Number == [w \in Words |-> Highest(w)[WordBits]]

(* The values of an unsigned int *)
Unsigned == {Number[w] : w \in Words}

(* Dimensions and lengths are unsigned ints; of its own streams inflate    *)
(* makes the data they were made of.                                       *)
ASSUME CodecAssumption ==
  /\ Sig \in Seq(Byte)
  /\ TypeOf \in [Chunks -> Seq(Byte)]
  /\ \A t, u \in Chunks : Len(TypeOf[t]) = Len(TypeOf[u])
  /\ Format \in Seq(Byte)
  /\ Widths \subseteq Unsigned
  /\ 2 * WordBytes + Len(Format) \in Unsigned
  /\ Uninitialised \subseteq Byte
  /\ Damages \subseteq {"byte", "cut"}
  /\ \A s \in Sources :
       /\ s \in Seq(Byte) /\ Stream(s) \in Seq(Byte) /\ Len(Stream(s)) \in Unsigned
       /\ Plain(Stream(s)) = s /\ Verdict(Stream(s)) = "Z_STREAM_END"

-----------------------------------------------------------------------------
(* Writing *)

(* mutant: the type is left out *)
crc_of_data(type, data) == crc(data)

(* type and data in one buffer *)
calculate_chunk_crc(type, data) == crc(type \o data)

(* A chunk as catpng makes it: crc in the order of the file already *)
MakeChunk(t, data) ==
  [length |-> Len(data), type |-> TypeOf[t], p_data |-> data,
   crc |-> htonl[calculate_chunk_crc(TypeOf[t], data)]]

IhdrData == BytesOf(htonl[Word(dims[1])]) \o BytesOf(htonl[Word(dims[2])]) \o Format

(* mutant: the length in host byte order *)
write_chunk_host(c) == BytesOf(Word(c.length)) \o c.type \o c.p_data \o BytesOf(c.crc)

write_chunk(c) == BytesOf(htonl[Word(c.length)]) \o c.type \o c.p_data \o BytesOf(c.crc)

write_PNG(a) == Sig \o write_chunk(a["IHDR"]) \o write_chunk(a["IDAT"]) \o write_chunk(a["IEND"])

DeflateScan ==
  /\ step = "scan"
  /\ step' = "deflate"
  /\ Start("mem_def", scan)
  /\ UNCHANGED <<scan, dims, ans, file, damage, reader, pos, chunks, ihdr, reported>>

MakeChunks ==
  /\ step = "deflate"
  /\ zcall = "none"
  /\ step' = "write"
  /\ ans' = [t \in Chunks |->
               MakeChunk(t, CASE t = "IHDR" -> IhdrData
                              [] t = "IDAT" -> dest
                              [] t = "IEND" -> <<>>)]
  /\ UNCHANGED <<scan, dims, file, damage, reader, pos, chunks, ihdr, reported, zvars>>

Write ==
  /\ step = "write"
  /\ step' = "stored"
  /\ file' = write_PNG(ans)
  /\ UNCHANGED <<scan, dims, ans, damage, reader, pos, chunks, ihdr, reported, zvars>>

(* The file is stored well, or a byte is changed, or its end is lost. *)
Store ==
  /\ step = "stored"
  /\ step' = "read"
  /\ pos' = Len(Sig)
  /\ \/ damage' = [kind |-> "none", at |-> 0] /\ UNCHANGED file
     \/ /\ "byte" \in Damages
        /\ \E p \in DOMAIN file, b \in Byte :
             /\ b # file[p]
             /\ file' = [file EXCEPT ![p] = b]
             /\ damage' = [kind |-> "byte", at |-> p]
     \/ /\ "cut" \in Damages
        /\ \E n \in 0 .. Len(file) - 1 :
             /\ file' = SubSeq(file, 1, n)
             /\ damage' = [kind |-> "cut", at |-> n]
  /\ UNCHANGED <<scan, dims, ans, reader, chunks, ihdr, reported, zvars>>

-----------------------------------------------------------------------------
(* Reading *)

(* n bytes from position p: behind the end memory stays as it was.  fread  *)
(* stops at the end of the file and a pointer does not, but neither finds  *)
(* anything there.                                                         *)
Bytes(p, n, g) == [k \in 1 .. n |-> IF p + k <= Len(file) THEN file[p + k] ELSE g]

TypeBytes == Len(TypeOf["IHDR"])

(* The chunk from position p, of size bytes *)
ChunkAt(p, size, g) ==
  [length |-> size,
   type   |-> Bytes(p + WordBytes, TypeBytes, g),
   p_data |-> Bytes(p + WordBytes + TypeBytes, size, g),
   crc    |-> ntohl[WordOf[Bytes(p + WordBytes + TypeBytes + size, WordBytes, g)]]]

EndOf(p, size) == p + WordBytes + TypeBytes + size + WordBytes

LengthAt(p, g) == Number[ntohl[WordOf[Bytes(p, WordBytes, g)]]]

GetChunk(size, g) ==
  /\ pos' = EndOf(pos, size)
  /\ chunks' = Append(chunks, ChunkAt(pos, size, g))

(* get_chunk on a FILE *)
GetChunkFromFile ==
  /\ reader = 1
  /\ \E g \in Uninitialised : GetChunk(LengthAt(pos, g), g)
  /\ UNCHANGED step

(* get_chunk on a buffer: what is behind its end may be unreadable. *)
GetChunkFromMemory ==
  /\ reader = 2
  /\ \E g \in Uninitialised : GetChunk(LengthAt(pos, g), g)
  /\ step' \in IF pos' > Len(file) THEN {"read", "crashed"} ELSE {"read"}

get_png_chunks ==
  /\ step = "read"
  /\ Len(chunks) < 3
  /\ GetChunkFromFile \/ GetChunkFromMemory
  /\ UNCHANGED <<scan, dims, ans, file, damage, reader, ihdr, reported, zvars>>

(* Where IHDR's data is if the file starts with it. *)
IhdrAt == Len(Sig) + WordBytes + TypeBytes

IhdrSize == 2 * WordBytes + Len(Format)

(* width and height in host byte order *)
DimsOf(s) ==
  <<Number[ntohl[WordOf[SubSeq(s, 1, WordBytes)]]],
    Number[ntohl[WordOf[SubSeq(s, WordBytes + 1, 2 * WordBytes)]]]>>

(* From a FILE, unless the data is not there *)
IhdrFromFile ==
  /\ reader = 1
  /\ IF IhdrAt + IhdrSize <= Len(file)
       THEN ihdr' = DimsOf(SubSeq(file, IhdrAt + 1, IhdrAt + IhdrSize)) /\ step' = "info"
       ELSE step' = "failed" /\ UNCHANGED ihdr

(* From a buffer, whatever is there *)
IhdrFromMemory ==
  /\ reader = 2
  /\ \E g \in Uninitialised : ihdr' = DimsOf(Bytes(IhdrAt, IhdrSize, g))
  /\ step' = "checked"

get_png_data_IHDR ==
  /\ step = "read"
  /\ Len(chunks) = 3
  /\ IhdrFromFile \/ IhdrFromMemory
  /\ UNCHANGED <<scan, dims, ans, file, damage, reader, pos, chunks, reported, zvars>>

CrcIntact(c) == c.crc = calculate_chunk_crc(c.type, c.p_data)

NameOf == <<"IHDR", "IDAT", "IEND">>

(* main of pnginfo.c *)
pnginfo ==
  /\ step = "info"
  /\ step' = "checked"
  /\ reported' = {NameOf[k] : k \in {j \in 1 .. 3 : ~CrcIntact(chunks[j])}}
  /\ UNCHANGED <<scan, dims, ans, file, damage, reader, pos, chunks, ihdr, zvars>>

InflateScan ==
  /\ step = "checked"
  /\ step' = "inflate"
  /\ Start("mem_inf", chunks[2].p_data)
  /\ UNCHANGED <<scan, dims, ans, file, damage, reader, pos, chunks, ihdr, reported>>

Inflated ==
  /\ step = "inflate"
  /\ zcall = "none"
  /\ step' = "done"
  /\ UNCHANGED <<scan, dims, ans, file, damage, reader, pos, chunks, ihdr, reported, zvars>>

ZStep ==
  /\ mem_def \/ mem_inf
  /\ UNCHANGED <<step, scan, dims, ans, file, damage, reader, pos, chunks, ihdr, reported>>

Ended == step \in {"done", "failed", "crashed"}

Over == Ended /\ UNCHANGED vars

Init ==
  /\ step = "scan"
  /\ scan \in Sources
  /\ dims \in Widths \X Widths
  /\ ans = [t \in {} |-> <<>>]
  /\ file = <<>>
  /\ damage = [kind |-> "none", at |-> 0]
  /\ reader \in {1, 2}
  /\ pos = 0
  /\ chunks = <<>>
  /\ ihdr = <<0, 0>>
  /\ reported = {}
  /\ ZInit

Work ==
  \/ DeflateScan \/ ZStep \/ MakeChunks \/ Write \/ Store
  \/ get_png_chunks \/ get_png_data_IHDR \/ pnginfo \/ InflateScan \/ Inflated

Next == Work \/ Over

Spec == Init /\ [][Next]_vars /\ WF_vars(Work)

-----------------------------------------------------------------------------
(* Properties *)

(* What is read is what was written: crc in host byte order again. *)
SameChunk(c, a) == c = [a EXCEPT !.crc = ntohl[@]]

(* An image goes through an undamaged file unchanged: mem_def leaves a     *)
(* complete stream, the chunks, their checksums and the dimensions come    *)
(* back in spite of two byte orders, pnginfo finds no error, and mem_inf   *)
(* returns the scan lines.                                                 *)
RoundTrip ==
  /\ step = "write" => dest = ans["IDAT"].p_data /\ MemDefDone(scan)
  /\ step = "done" /\ damage.kind = "none" =>
       /\ \A k \in 1 .. 3 : SameChunk(chunks[k], ans[NameOf[k]])
       /\ \A k \in 1 .. 3 : CrcIntact(chunks[k])
       /\ ihdr = dims
       /\ reported = {}
       /\ result = "Z_OK"
       /\ dest = scan

(* The first byte of the type and the last of the checksum of a chunk *)
ChunkStart(k) ==
  Len(Sig) + (IF k > 1 THEN Len(write_chunk(ans["IHDR"])) ELSE 0)
           + (IF k > 2 THEN Len(write_chunk(ans["IDAT"])) ELSE 0)

CoveredBy(k, p) ==
  p \in ChunkStart(k) + WordBytes + 1 .. ChunkStart(k) + Len(write_chunk(ans[NameOf[k]]))

(* A change of one byte in the type, the data or the checksum of a chunk   *)
(* makes pnginfo report that chunk and no other.                           *)
DamageFound ==
  reader = 1 /\ step \in {"checked", "done"} /\ damage.kind = "byte" =>
    \A k \in 1 .. 3 : CoveredBy(k, damage.at) => reported = {NameOf[k]}

(* The table gives the remainder of the polynomial division, for every     *)
(* chunk written or read.                                                  *)
CrcIsDivision ==
  /\ step = "write" =>
       \A t \in Chunks : LET buf == ans[t].type \o ans[t].p_data IN crc(buf) = Division(buf)
  /\ step = "checked" =>
       \A k \in 1 .. 3 : LET buf == chunks[k].type \o chunks[k].p_data IN crc(buf) = Division(buf)

(* mem_inf tells complete streams from others, and what it leaves in dest  *)
(* and *dest_len is what a caller may rely on: see MemInfDone.             *)
MemInfHonest == step = "done" => MemInfDone(chunks[2].p_data)

(* The loops of mem_def and mem_inf end, on whatever bytes. *)
Ends == <>Ended

=============================================================================
