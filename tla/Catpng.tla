--------------------------------- MODULE Catpng ---------------------------------
(***************************************************************************)
(* catpng: put images below each other in all.png.  Version 1,             *)
(* v1/catpng.c, takes them from files, which it reads twice; version 2,    *)
(* v2/catpng2.c, from the fragments that paster has in memory.             *)
(***************************************************************************)
EXTENDS PngFile, Sequences

CONSTANTS
  Names,        \* the files, or the fragments
  Contents,     \* what one may contain
  U32,          \* 2^32: unsigned int wraps here
  MaxExtra,     \* how much longer than its input deflate's output may be
  MaxCatFaults  \* how many faults of each kind the environment may inject

CatFaults == {"fopen", "malloc", "fwrite"}

ASSUME CatpngAssumption ==
  /\ U32 \in Nat \ {0}
  /\ MaxExtra \in Nat
  /\ \A c \in Contents : IsContents(c)
  /\ MaxCatFaults \in [CatFaults -> Nat]

VARIABLES
  version,    \* 1 or 2
  disk,       \* the contents of the files, or of the fragments
  cat,        \* where catpng is
  args,       \* paths, or fragments
  i,          \* the loop variable
  width,
  new_height,
  checked,    \* what the first loop read
  size,       \* of inf_IDAT_buffer and of def_IDAT_buffer
  inf,        \* whose scan lines were copied to inf_IDAT_buffer
  inf_len,    \* inf_IDAT_buffer_length
  overrun,    \* the buffers behind whose end something was written
  held,       \* memory allocated and files open
  image,      \* all.png, as far as this call wrote it
  ret,        \* what catpng returned
  cat_failed  \* faults injected so far

catvars == <<version, disk, cat, args, i, width, new_height, checked, size, inf,
             inf_len, overrun, held, image, ret, cat_failed>>

NoImage == [rows |-> <<>>]

Chunks == {"IHDR", "IDAT", "IEND"}

CatInit ==
  /\ version \in {1, 2}
  /\ cat = "idle"
  /\ args = <<>>
  /\ i = 1
  /\ width = 0
  /\ new_height = 0
  /\ checked = <<>>
  /\ size = 0
  /\ inf = <<>>
  /\ inf_len = 0
  /\ overrun = {}
  /\ held = {}
  /\ image = NoImage
  /\ ret = "none"
  /\ cat_failed = [k \in CatFaults |-> 0]

CatInject(k) ==
  /\ cat_failed[k] < MaxCatFaults[k]
  /\ cat_failed' = [cat_failed EXCEPT ![k] = @ + 1]

NoFault == UNCHANGED cat_failed

File == disk[args[i]]

(* return: blocks are freed and files closed on the way out *)
Return(r, blocks) ==
  /\ cat' = "returned"
  /\ ret' = r
  /\ held' = blocks

(* main of v1/catpng.c, or the call in paster's main *)
Call(a) ==
  /\ cat = "idle"
  /\ args' = a
  /\ IF version = 1 /\ Len(a) < 2
       THEN Return("fails", held)
       ELSE cat' = "check" /\ UNCHANGED <<ret, held>>
  /\ UNCHANGED <<version, disk, i, width, new_height, checked, size, inf, inf_len,
                 overrun, image, cat_failed>>

-----------------------------------------------------------------------------
(* The first loop: sizes *)

Checks == cat = "check" /\ i <= Len(args)

SameWidth == i = 1 \/ File.width = width

(* mutant: the last height instead of the sum *)
LastHeight(h) == new_height' = h

AddHeight(h) == new_height' = (new_height + h) % U32

CountImage(w, h) ==
  /\ width' = IF i = 1 THEN w ELSE width
  /\ AddHeight(h)
  /\ checked' = Append(checked, File)
  /\ i' = i + 1
  /\ UNCHANGED <<version, disk, cat, args, size, inf, inf_len, overrun, held, image,
                 ret, cat_failed>>

(* Version 1: signature, IHDR and width are looked at. *)
CheckFile ==
  /\ Checks
  /\ version = 1
  /\ TRUE \in is_png(File)
  /\ File.ihdr
  /\ SameWidth
  /\ CountImage(File.width, File.height)

CheckFails ==
  /\ Checks
  /\ version = 1
  /\ \/ /\ \/ FALSE \in is_png(File)
           \/ ~File.ihdr
           \/ ~SameWidth
        /\ NoFault
     \/ CatInject("fopen")
     \/ CatInject("malloc")
  /\ Return("fails", held)
  /\ UNCHANGED <<version, disk, args, i, width, new_height, checked, size, inf,
                 inf_len, overrun, image>>

(* What version 2 takes for width and height: behind the end of a fragment *)
(* its buffer has what malloc returned.                                    *)
MemoryIhdr(c) ==
  IF c.ihdr THEN {<<c.width, c.height>>} ELSE {<<d.width, d.height>> : d \in Contents}

(* Version 2: nothing is looked at. *)
ReadIhdr ==
  /\ Checks
  /\ version = 2
  /\ \E wh \in MemoryIhdr(File) : CountImage(wh[1], wh[2])

(* mutant: a line is its pixels, without the filter byte *)
PixelsOnly == (new_height * (width * 4)) % U32

(* new_height * (width*4 + 1), in unsigned int *)
BufferSize == (new_height * (width * 4 + 1)) % U32

(* The results of malloc are not looked at. *)
AllocBuffers ==
  /\ cat = "check"
  /\ i > Len(args)
  /\ cat' = "append"
  /\ i' = 1
  /\ size' = BufferSize
  /\ \/ held' = {"inf", "def"} /\ NoFault
     \/ held' \in {{"inf"}, {"def"}, {}} /\ CatInject("malloc")
  /\ UNCHANGED <<version, disk, args, width, new_height, checked, inf, inf_len, overrun,
                 image, ret>>

-----------------------------------------------------------------------------
(* The second loop: data *)

Appends == cat = "append" /\ i <= Len(args)

(* What the body of the loop has allocated and opened. *)
Curr == IF version = 1 THEN {"file", "curr"} ELSE {"curr"}

(* mem_inf copies behind what is there already, whatever the size. *)
CopyToInf ==
  /\ inf' = Append(inf, [name |-> args[i], contents |-> File])
  /\ overrun' = IF inf_len + Inflated(File) > size THEN overrun \cup {"inf"} ELSE overrun

(* The third chunk is not looked at: it need not be there. *)
AppendImage ==
  /\ Appends
  /\ "inf" \in held
  /\ File.whole
  /\ CopyToInf
  /\ inf_len' = inf_len + Inflated(File)
  /\ i' = i + 1
  /\ held' = (held \cup Curr) \ {"curr", "file"}
  /\ UNCHANGED <<version, disk, cat, args, width, new_height, checked, size, image, ret,
                 cat_failed>>

(* mutant: a damaged image is left out *)
SkipImage ==
  /\ cat' = cat
  /\ i' = i + 1
  /\ held' = (held \cup Curr) \ {"curr", "file"}
  /\ UNCHANGED ret

(* mutant: curr is not freed *)
GiveUpKeepsCurr ==
  /\ Return("fails", (held \cup Curr) \ {"inf", "def", "file"})
  /\ UNCHANGED i

(* Error inflating IDAT data *)
GiveUpImage ==
  /\ Return("fails", (held \cup Curr) \ {"inf", "def", "curr", "file"})
  /\ UNCHANGED i

(* The part of the stream before the damage may have been copied. *)
AppendFails ==
  /\ Appends
  /\ ~File.whole
  /\ \/ "inf" \in held /\ CopyToInf
     \/ UNCHANGED <<inf, overrun>>
  /\ GiveUpImage
  /\ UNCHANGED <<version, disk, args, width, new_height, checked, size, inf_len, image,
                 cat_failed>>

(* fopen, mallocPNG or inflateInit fails. *)
AppendStopped ==
  /\ Appends
  /\ \/ version = 1 /\ CatInject("fopen")
     \/ CatInject("malloc")
  /\ Return("fails", held \ {"inf", "def"})
  /\ UNCHANGED <<version, disk, args, i, width, new_height, checked, size, inf, inf_len,
                 overrun, image>>

-----------------------------------------------------------------------------
(* all.png *)

(* The three chunks and IHDR's data *)
MakeChunks ==
  /\ cat = "append"
  /\ i > Len(args)
  /\ cat' = "deflate"
  /\ held' = held \cup Chunks
  /\ UNCHANGED <<version, disk, args, i, width, new_height, checked, size, inf, inf_len,
                 overrun, image, ret, cat_failed>>

(* How long the deflated data may be: short, or as long as it can get. *)
Deflated(n) == {1, n + MaxExtra}

Deflate ==
  /\ cat = "deflate"
  /\ "def" \in held
  /\ cat' = "write"
  /\ \E n \in Deflated(inf_len) :
       overrun' = IF n > size THEN overrun \cup {"def"} ELSE overrun
  /\ UNCHANGED <<version, disk, args, i, width, new_height, checked, size, inf, inf_len,
                 held, image, ret, cat_failed>>

(* A chunk, IHDR's or IDAT's data or the state of deflate could not be     *)
(* allocated, and cleaning up came to an end.                              *)
BuildFails ==
  /\ cat \in {"deflate", "write"}
  /\ CatInject("malloc")
  /\ Return("fails", held \ ({"inf", "def"} \cup Chunks))
  /\ UNCHANGED <<version, disk, args, i, width, new_height, checked, size, inf, inf_len,
                 overrun, image>>

(* all.png with its header and the data of some images; something of it    *)
(* may not have got to the file.                                           *)
Image(rows, complete) ==
  [width |-> width, height |-> new_height, pixel |-> 4,
   rows |-> rows, complete |-> complete]

(* The result of write_PNG is not looked at, nor are those of its fwrites: *)
(* "Concatenated strips into all.png" is printed in any case.              *)
WriteImage ==
  /\ cat = "write"
  /\ cat' = "free"
  /\ \/ image' = Image(inf, TRUE) /\ NoFault
     \/ UNCHANGED image /\ CatInject("fopen")
     \/ /\ \E n \in 0 .. Len(inf) : image' = Image(SubSeq(inf, 1, n), FALSE)
        /\ CatInject("fwrite")
  /\ UNCHANGED <<version, disk, args, i, width, new_height, checked, size, inf, inf_len,
                 overrun, held, ret>>

(* Version 1 ends without a return statement: main returns anything. *)
FreeAll ==
  /\ cat = "free"
  /\ \E r \in IF version = 1 THEN {"ok", "fails"} ELSE {"ok"} :
       Return(r, held \ ({"inf", "def"} \cup Chunks))
  /\ UNCHANGED <<version, disk, args, i, width, new_height, checked, size, inf, inf_len,
                 overrun, image, cat_failed>>

(* get_chunk takes garbage for a length, in version 2 also behind the end  *)
(* of a fragment without a third chunk, or malloc returns NULL where it is *)
(* not looked at or where the cleanup frees what is not initialized, or    *)
(* something was written behind a buffer.                                  *)
Crash ==
  /\ \/ NoFault /\ \/ Appends /\ "inf" \notin held
                   \/ Appends /\ ~File.whole
                   \/ Appends /\ version = 2 /\ ~File.third
                   \/ cat = "deflate" /\ "def" \notin held
                   \/ cat \in {"append", "deflate", "write", "free"} /\ overrun # {}
     \/ CatInject("malloc") /\ (Appends \/ cat \in {"deflate", "write"})
  /\ cat' = "crashed"
  /\ UNCHANGED <<version, disk, args, i, width, new_height, checked, size, inf, inf_len,
                 overrun, held, image, ret>>

CatEnded == cat \in {"returned", "crashed"}

catpng ==
  \/ CheckFile \/ CheckFails \/ ReadIhdr \/ AllocBuffers
  \/ AppendImage \/ AppendFails \/ AppendStopped
  \/ MakeChunks \/ Deflate \/ BuildFails \/ WriteImage \/ FreeAll
  \/ Crash

-----------------------------------------------------------------------------
(* Properties *)

CatTypeOK ==
  /\ version \in {1, 2}
  /\ disk \in [Names -> Contents]
  /\ cat \in {"idle", "check", "append", "deflate", "write", "free", "returned", "crashed"}
  /\ args \in Seq(Names)
  /\ i \in 1 .. Len(args) + 1
  /\ width \in Nat
  /\ new_height \in 0 .. U32 - 1
  /\ checked \in Seq(Contents)
  /\ size \in 0 .. U32 - 1
  /\ inf \in Seq([name : Names, contents : Contents])
  /\ inf_len \in Nat
  /\ overrun \subseteq {"inf", "def"}
  /\ held \subseteq {"inf", "def", "file", "curr"} \cup Chunks
  /\ ret \in {"none", "ok", "fails"}
  /\ cat_failed \in [CatFaults -> Nat]

(* No image is made of a part of the arguments: a complete all.png has the *)
(* data of each of them, in their order, and the width of the first; in    *)
(* version 1 the first loop found a PNG of that width in each.  What a     *)
(* short write leaves begins like that.                                    *)
WrittenFromAll ==
  image # NoImage =>
    /\ image.complete => Len(image.rows) = Len(args)
    /\ \A j \in 1 .. Len(image.rows) :
         /\ image.rows[j].name = args[j]
         /\ image.rows[j].contents.whole
         /\ version = 1 =>
              checked[j].signature # "other" /\ checked[j].width = image.width
    /\ version = 2 /\ checked[1].ihdr => image.width = checked[1].width

(* When catpng has returned, all memory is freed and all files are closed. *)
Released == cat = "returned" => held = {}

=============================================================================
