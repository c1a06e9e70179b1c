---------------------------------- MODULE ZUtil ----------------------------------
(***************************************************************************)
(* mem_def and mem_inf of zutil.c: zlib's deflate and inflate are called   *)
(* block by block of CHUNK bytes until one does not fill its block.        *)
(* zlib itself is external: what it makes of its input is a constant, how  *)
(* it cuts that into blocks is not.                                        *)
(***************************************************************************)
EXTENDS Naturals, Sequences

CONSTANTS
  CHUNK,     \* bytes in out
  Stream(_), \* the zlib stream of data
  Plain(_),  \* the data inflate gets out of bytes, before it stops
  Verdict(_) \* why it stops: see Verdicts

(* The stream is complete, or it is wrong, or the input comes to an end.   *)
Verdicts == {"Z_STREAM_END", "Z_DATA_ERROR", "Z_BUF_ERROR"}

ASSUME ZUtilAssumption == CHUNK \in Nat \ {0}

VARIABLES
  zcall,  \* the function that runs
  source, \* its input
  given,  \* how many bytes zlib has written to out
  dest,   \* what was copied to dest
  ret,    \* the last return code of deflate or inflate
  len,    \* *dest_len
  result  \* what the last call of mem_def or mem_inf returned

zvars == <<zcall, source, given, dest, ret, len, result>>

(* *dest_len is a set: {} if it was not assigned. *)
Unassigned == {}

ZInit ==
  /\ zcall = "none"
  /\ source = <<>>
  /\ given = 0
  /\ dest = <<>>
  /\ ret = "Z_OK"
  /\ len = Unassigned
  /\ result = "none"

Start(f, s) ==
  /\ zcall' = f
  /\ source' = s
  /\ given' = 0
  /\ dest' = <<>>
  /\ ret' = "Z_OK"
  /\ len' = Unassigned
  /\ result' = "none"

(* How many bytes of all the next call writes to out. *)
Have(all) == IF Len(all) - given < CHUNK THEN Len(all) - given ELSE CHUNK

(* When out is full and all was written, zlib may see the end in this call *)
(* or in the next.                                                         *)
Codes(all, end) ==
  IF given + Have(all) < Len(all) THEN {"Z_OK"}
  ELSE IF Have(all) = CHUNK /\ ret # end THEN {"Z_OK", end}
  ELSE {end}

Copy(all) ==
  /\ dest' = dest \o SubSeq(all, given + 1, given + Have(all))
  /\ given' = given + Have(all)

Return(r) ==
  /\ zcall' = "none"
  /\ result' = r
  /\ len' = {Len(dest')}

(* mutant: as long as the stream is not complete *)
UntilStreamEnd(have) == ret' # "Z_STREAM_END"

(* do ... while (strm.avail_out == 0) *)
Again(have) == have = CHUNK

mem_def ==
  /\ zcall = "mem_def"
  /\ LET all == Stream(source) IN
     /\ ret' \in Codes(all, "Z_STREAM_END")
     /\ Copy(all)
     /\ IF Again(Have(all))
          THEN UNCHANGED <<zcall, result, len>>
          ELSE Return("Z_OK")
  /\ UNCHANGED source

(* mutant: no more input is taken for the end of the stream *)
OkAtEnd(r) == "Z_OK"

EndCode(r) == IF r = "Z_STREAM_END" THEN "Z_OK" ELSE "Z_DATA_ERROR"

mem_inf ==
  /\ zcall = "mem_inf"
  /\ LET all == Plain(source) IN
     /\ ret' \in Codes(all, Verdict(source))
     /\ IF ret' = "Z_DATA_ERROR"
          THEN \* the switch: out is not copied, *dest_len not assigned
               /\ zcall' = "none"
               /\ result' = ret'
               /\ UNCHANGED <<given, dest, len>>
          ELSE /\ Copy(all)
               /\ IF Again(Have(all))
                    THEN UNCHANGED <<zcall, result, len>>
                    ELSE Return(EndCode(ret'))
  /\ UNCHANGED source

-----------------------------------------------------------------------------
(* What the loops promise *)

(* mem_def leaves the whole stream, the assertions at its end hold.        *)
MemDefDone(s) ==
  /\ result = "Z_OK"
  /\ dest = Stream(s)
  /\ len = {Len(dest)}
  /\ ret = "Z_STREAM_END"

(* mem_inf returns Z_OK for a complete stream and for nothing else, with   *)
(* all of its data and their length; of a stream that ends early there is  *)
(* what could be inflated; of a wrong one whole blocks, and no length.     *)
MemInfDone(s) ==
  /\ result = "Z_OK" <=> Verdict(s) = "Z_STREAM_END"
  /\ Verdict(s) # "Z_DATA_ERROR" => dest = Plain(s) /\ len = {Len(dest)}
  /\ Verdict(s) = "Z_DATA_ERROR" =>
       len = Unassigned /\ Len(dest) <= Len(Plain(s)) /\ dest = SubSeq(Plain(s), 1, Len(dest))

=============================================================================
