------------------------------- MODULE Transfer -------------------------------
(***************************************************************************)
(* A transfer of libcurl into a receive buffer.  The same two callbacks    *)
(* are in six programs, each with its own treatment of the buffer:         *)
(*   "paster"               v2/paster.c: allocated for each one, grows     *)
(*   "paster2"              v3/paster2.c: a fixed array, used again for    *)
(*                          each transfer, not checked (138-148)           *)
(*   "main_write_header_cb" v2/starter/cURL: as paster, then a file        *)
(*   "main_write_callback"  v2/starter/cURL: without the header callback   *)
(*   "main_2proc"           v3/starter/cURL_IPC: a shared segment; a child *)
(*                          receives, its parent writes the file           *)
(*   "main"                 v3/starter/cURL_IPC: the same in one process   *)
(* libcurl calls the header callback for the fragment header, then the     *)
(* write callback for one block of the body after the other.               *)
(***************************************************************************)
EXTENDS Integers, Sequences

CONSTANTS
  Capacity,  \* BUF_SIZE or STRIP_SIZE of each program
  BufInc,    \* BUF_INC
  MaxBlock,  \* the largest block libcurl passes on
  MaxBody,   \* the largest body each program is sent
  Parts,     \* fragment numbers
  Rounds,    \* how many transfers paster and paster2 make here
  MaxFaults  \* how many faults of each kind the environment may inject

Programs == {"paster", "paster2", "main_write_header_cb", "main_write_callback",
             "main_2proc", "main"}

(* Those whose buffer grows. *)
Growing == {"paster", "main_write_header_cb", "main_write_callback"}

(* Those that receive into a shared segment. *)
Shared == {"main_2proc", "main"}

(* "curl": curl_easy_init returns NULL.  "cut": the transfer breaks off.   *)
(* "realloc", "fork", "file": realloc, fork or fopen fails.  "fwrite":     *)
(* fwrite writes less than it was given.                                   *)
FaultKinds == {"curl", "cut", "realloc", "fork", "file", "fwrite"}

(* A strip of 400 x 6 pixels never deflates to STRIP_SIZE bytes. *)
ASSUME ConstantsAssumption ==
  /\ Capacity \in [Programs -> Nat \ {0}]
  /\ BufInc \in Nat
  /\ MaxBlock \in Nat \ {0}
  /\ MaxBody \in [Programs -> Nat]
  /\ MaxBody["paster2"] < Capacity["paster2"]
  /\ Parts \subseteq Nat
  /\ Rounds \in Nat \ {0}
  /\ MaxFaults \in [FaultKinds -> Nat]

VARIABLES
  program,  \* which program runs
  phase,    \* where it is; for main_2proc, where the child is
  parent,   \* main_2proc: where the parent is
  round,    \* the transfer under way
  response, \* the answer of the server to each transfer, empty until asked
  sent,     \* bytes of it that libcurl has passed on
  res,      \* what curl_easy_perform returned
  buf, size, max_size, seq,  \* the RECV_BUF or IMAGE_STRIP
  held,     \* receive buffers not freed, segments not removed, files not closed
  kept,     \* what was handed on: to fragments, to the ring buffer, to a file
  failed    \* faults injected so far

recv_buf == <<buf, size, max_size, seq>>
vars == <<program, phase, parent, round, response, sent, res, recv_buf, held, kept, failed>>

-----------------------------------------------------------------------------
(* Byte i of the body of transfer r, the terminating 0, and memory nobody  *)
(* has written to.                                                         *)
Byte(r, i) == <<r, i>>
Nul  == <<0, 0>>
Junk == <<0, 1>>

Bytes == (Nat \ {0}) \X Nat \cup {Nul, Junk}

(* The fragment header: a number, no number, or not there. *)
Garbled  == -2
NoHeader == -1
Headers  == Parts \cup {Garbled, NoHeader}

(* atoi *)
Atoi(header) == IF header \in Parts THEN header ELSE 0

Allocated(n) == [i \in 0 .. n - 1 |-> Junk]

Larger(a, b) == IF a > b THEN a ELSE b

Inject(k) ==
  /\ failed[k] < MaxFaults[k]
  /\ failed' = [failed EXCEPT ![k] = @ + 1]

(* The programs called main make one transfer. *)
LastRound == program \notin {"paster", "paster2"} \/ round = Rounds

Init ==
  /\ program \in Programs
  /\ phase = "init"
  /\ parent = "none"
  /\ round = 1
  /\ response = [r \in 1 .. Rounds |-> [header |-> NoHeader, length |-> 0]]
  /\ sent = 0
  /\ res = "none"
  /\ buf = IF program = "paster2" THEN Allocated(Capacity[program]) ELSE <<>>
  /\ size = 0
  /\ max_size = 0
  /\ seq = -1
  /\ held = 0
  /\ kept = <<>>
  /\ failed = [k \in FaultKinds |-> 0]

(* mutants: a member keeps the value of the transfer before *)
ClearedButSize == size' = size /\ seq' = -1
ClearedButSeq  == size' = 0 /\ seq' = seq

(* What all three init functions do. *)
Cleared == size' = 0 /\ seq' = -1

(* New memory for each transfer. *)
recv_buf_init ==
  /\ program \in Growing
  /\ phase' = "curl"
  /\ buf' = Allocated(Capacity[program])
  /\ held' = held + 1

(* The array in the strip keeps what the last transfer has left in it. *)
image_strip_init ==
  /\ program = "paster2"
  /\ phase' = "curl"
  /\ UNCHANGED <<buf, held>>

(* buf points behind the members in the segment. *)
shm_recv_buf_init ==
  /\ program \in Shared
  /\ phase' = IF program = "main_2proc" THEN "fork" ELSE "curl"
  /\ buf' = Allocated(Capacity[program])
  /\ held' = held + 1

InitBuffer ==
  /\ phase = "init"
  /\ recv_buf_init \/ image_strip_init \/ shm_recv_buf_init
  /\ Cleared
  /\ max_size' = Capacity[program]
  /\ sent' = 0
  /\ res' = "none"
  /\ UNCHANGED <<program, parent, round, response, kept, failed>>

(* main_2proc: the child receives, the parent waits for it. *)
Fork ==
  /\ phase = "fork"
  /\ phase' = "curl"
  /\ parent' = "waits"
  /\ UNCHANGED <<program, round, response, sent, res, recv_buf, held, kept, failed>>

(* abort() *)
ForkFails ==
  /\ Inject("fork")
  /\ phase = "fork"
  /\ phase' = "aborted"
  /\ UNCHANGED <<program, parent, round, response, sent, res, recv_buf, held, kept>>

(* The server's answer is made up when it is asked. *)
EasyInit ==
  /\ phase = "curl"
  /\ phase' = "header"
  /\ \E header \in Headers, length \in 0 .. MaxBody[program] :
       response' = [response EXCEPT ![round] = [header |-> header, length |-> length]]
  /\ UNCHANGED <<program, parent, round, sent, res, recv_buf, held, kept, failed>>

NextRound ==
  /\ phase' = IF LastRound THEN "returned" ELSE "init"
  /\ round' = IF LastRound THEN round ELSE round + 1

(* curl_easy_init returns NULL: paster2 goes on with another transfer, the *)
(* others return at once.                                                  *)
EasyInitFails ==
  /\ Inject("curl")
  /\ phase = "curl"
  /\ IF program = "paster2"
       THEN NextRound
       ELSE phase' = "returned" /\ UNCHANGED round
  /\ UNCHANGED <<program, parent, response, sent, res, recv_buf, held, kept>>

Response == response[round]

-----------------------------------------------------------------------------
(* The callbacks *)

(* Other headers than the fragment header leave no trace. *)
header_cb_curl ==
  /\ phase = "header"
  /\ program # "main_write_callback"
  /\ phase' = "body"
  /\ seq' = IF Response.header = NoHeader THEN seq ELSE Atoi(Response.header)
  /\ UNCHANGED <<program, parent, round, response, sent, res, buf, size, max_size,
                 held, kept, failed>>

(* No header callback is registered. *)
HeaderUnseen ==
  /\ phase = "header"
  /\ program = "main_write_callback"
  /\ phase' = "body"
  /\ UNCHANGED <<program, parent, round, response, sent, res, recv_buf, held, kept, failed>>

(* mutant: no byte for the terminating 0 *)
FitsExactly(n) == size + n <= max_size

(* p->size + realsize + 1 <= p->max_size *)
Fits(n) == size + n + 1 <= max_size

Grown(n) == max_size + Larger(BufInc, n + 1)

(* mutants: the old memory; malloc and free *)
NotMoved(new_size) == buf
Malloced(new_size) == Allocated(new_size)

(* realloc: the old contents at the front of the new memory *)
Realloc(new_size) == [i \in 0 .. new_size - 1 |-> IF i < max_size THEN buf[i] ELSE Junk]

(* memcpy of the next n bytes of the body, and a 0 behind them *)
Copied(mem, n) ==
  [i \in DOMAIN mem |->
     IF size <= i /\ i < size + n THEN Byte(round, sent + (i - size))
     ELSE IF i = size + n THEN Nul
     ELSE mem[i]]

Store(mem, n) ==
  /\ buf' = Copied(mem, n)
  /\ size' = size + n
  /\ sent' = sent + n

(* A block libcurl may pass on next, for one of the programs P. *)
Block(P, n) ==
  /\ program \in P
  /\ phase = "body"
  /\ n <= Response.length - sent

(* The block goes behind what is there, in memory grown if need be. *)
write_cb_curl3(n) ==
  /\ Block(Growing, n)
  /\ max_size' = IF Fits(n) THEN max_size ELSE Grown(n)
  /\ Store(IF Fits(n) THEN buf ELSE Realloc(Grown(n)), n)
  /\ UNCHANGED <<program, phase, parent, round, response, res, seq, held, kept, failed>>

(* The callback returns -1, not the size of the block: libcurl gives up. *)
ReallocFails(n) ==
  /\ Inject("realloc")
  /\ Block(Growing, n)
  /\ ~Fits(n)
  /\ phase' = "performed"
  /\ res' = "failed"
  /\ UNCHANGED <<program, parent, round, response, sent, recv_buf, held, kept>>

(* paster2: the test and the growth are commented out. *)
WriteUnchecked(n) ==
  /\ Block({"paster2"}, n)
  /\ Store(buf, n)
  /\ UNCHANGED <<program, phase, parent, round, response, res, max_size, seq, held, kept, failed>>

(* main_2proc and main *)
write_cb_curl(n) ==
  /\ Block(Shared, n)
  /\ Fits(n)
  /\ Store(buf, n)
  /\ UNCHANGED <<program, phase, parent, round, response, res, max_size, seq, held, kept, failed>>

(* "User buffer is too small, abort..." *)
TooSmall(n) ==
  /\ Block(Shared, n)
  /\ ~Fits(n)
  /\ phase' = "aborted"
  /\ UNCHANGED <<program, parent, round, response, sent, res, recv_buf, held, kept, failed>>

WriteCallback ==
  \E n \in 1 .. MaxBlock :
    \/ write_cb_curl3(n) \/ ReallocFails(n)
    \/ WriteUnchecked(n)
    \/ write_cb_curl(n) \/ TooSmall(n)

(* curl_easy_perform returns CURLE_OK, *)
Performed ==
  /\ phase = "body"
  /\ sent = Response.length
  /\ phase' = "performed"
  /\ res' = "ok"
  /\ UNCHANGED <<program, parent, round, response, sent, recv_buf, held, kept, failed>>

(* or the transfer breaks off before the fragment header or in the body. *)
Breaks ==
  /\ Inject("cut")
  /\ phase \in {"header", "body"}
  /\ phase' = "performed"
  /\ res' = "failed"
  /\ UNCHANGED <<program, parent, round, response, sent, recv_buf, held, kept>>

-----------------------------------------------------------------------------
(* What becomes of the received bytes *)

(* The first n bytes of the buffer, with the number from the header. *)
Front(n) == [round |-> round, seq |-> seq, bytes |-> [i \in 0 .. n - 1 |-> buf[i]]]

Received == Front(size)

(* mutant: whatever curl_easy_perform returned *)
PushAny == kept' = Append(kept, Received)

(* paster2: only a whole strip is pushed. *)
PushStrip == kept' = IF res = "ok" THEN Append(kept, Received) ELSE kept

Pushes ==
  /\ phase = "performed"
  /\ program = "paster2"
  /\ PushStrip
  /\ NextRound
  /\ UNCHANGED <<program, parent, response, sent, res, recv_buf, held, failed>>

(* mutant: paster2's continue, in paster, forgets the buffer *)
CleanupIfOk == IF res = "ok" THEN held - 1 ELSE held

(* What is still held after recv_buf_cleanup. *)
recv_buf_cleanup == held - 1

(* paster: the result of the transfer is only printed. *)
Saves ==
  /\ phase = "performed"
  /\ program = "paster"
  /\ kept' = Append(kept, Received)
  /\ held' = recv_buf_cleanup
  /\ NextRound
  /\ UNCHANGED <<program, parent, response, sent, res, recv_buf, failed>>

(* write_file, after which rest is held.  Its result is not looked at:     *)
(* after a short fwrite it returns without fclose.                         *)
write_file(rest) ==
  \/ kept' = Append(kept, Received) /\ held' = rest /\ UNCHANGED failed
  \/ Inject("file") /\ held' = rest /\ UNCHANGED kept
  \/ /\ Inject("fwrite")
     /\ \E n \in 0 .. size - 1 : kept' = Append(kept, Front(n))
     /\ held' = rest + 1

WritesFile ==
  /\ phase = "performed"
  /\ program \in {"main_write_header_cb", "main_write_callback"}
  /\ write_file(recv_buf_cleanup)
  /\ NextRound
  /\ UNCHANGED <<program, parent, response, sent, res, recv_buf>>

(* main writes the file, whatever came, and removes the segment. *)
WritesSegment ==
  /\ phase = "performed"
  /\ program = "main"
  /\ write_file(held - 1)
  /\ NextRound
  /\ UNCHANGED <<program, parent, response, sent, res, recv_buf>>

(* The child of main_2proc cleans up and returns. *)
ChildReturns ==
  /\ phase = "performed"
  /\ program = "main_2proc"
  /\ NextRound
  /\ UNCHANGED <<program, parent, response, sent, res, recv_buf, held, kept, failed>>

(* mutants: without waitpid; a child that is killed is not noticed *)
NoWait == TRUE
ChildReturned == phase = "returned"

(* waitpid *)
ChildEnded == phase \in {"returned", "aborted"}

(* The parent of main_2proc does not look at how the child ended. *)
ParentWrites ==
  /\ parent = "waits"
  /\ ChildEnded
  /\ parent' = "returned"
  /\ write_file(held - 1)
  /\ UNCHANGED <<program, phase, round, response, sent, res, recv_buf>>

Ended == phase \in {"returned", "aborted"} /\ parent # "waits"

(* Nothing is left to do. *)
Over == Ended /\ UNCHANGED vars

Step ==
  \/ InitBuffer \/ Fork \/ ForkFails \/ EasyInit \/ EasyInitFails
  \/ header_cb_curl \/ HeaderUnseen \/ WriteCallback \/ Performed \/ Breaks
  \/ Pushes \/ Saves \/ WritesFile \/ WritesSegment \/ ChildReturns \/ ParentWrites

Next == Step \/ Over

(* libcurl and the programs go on while they can; that something fails is  *)
(* never due.                                                              *)
Spec == Init /\ [][Next]_vars /\ WF_vars(Step /\ UNCHANGED failed)

-----------------------------------------------------------------------------
(* Properties *)

(* The members of the receive buffer have their types and buf has max_size *)
(* bytes whenever the buffer is set up.                                    *)
TypeOK ==
  /\ program \in Programs
  /\ phase \in {"init", "fork", "curl", "header", "body", "performed", "returned", "aborted"}
  /\ parent \in {"none", "waits", "returned"}
  /\ round \in 1 .. Rounds
  /\ response \in [1 .. Rounds -> [header : Headers, length : 0 .. MaxBody[program]]]
  /\ sent \in Nat
  /\ res \in {"none", "ok", "failed"}
  /\ size \in Nat
  /\ max_size \in Nat
  /\ phase # "init" => buf \in [0 .. max_size - 1 -> Bytes]
  /\ seq \in Nat \cup {-1}
  /\ held \in Nat
  /\ failed \in [FaultKinds -> Nat]

(* No block is ever copied beyond the end of the buffer, and the 0 behind  *)
(* it has its place too, however the body is cut into blocks: size plus    *)
(* the byte for the 0 stays within the allocation, which grows by no more  *)
(* than one increment per block.                                           *)
InBounds == phase # "init" => size < max_size

(* What has been received is in the buffer, byte for byte and ended by a   *)
(* 0, also after the buffer has moved and when it held an earlier strip.   *)
PrefixKept ==
  phase # "init" =>
    /\ size = sent
    /\ \A i \in 0 .. size - 1 : buf[i] = Byte(round, i)
    /\ size > 0 => buf[size] = Nul

(* The number program p gets from an answer. *)
NumberOf(p, answer) ==
  IF p = "main_write_callback" \/ answer.header = NoHeader THEN -1 ELSE Atoi(answer.header)

(* The first bytes of an answer, and its number unless there are no bytes. *)
PrefixOf(p, k, answer) ==
  /\ \E n \in 0 .. answer.length : k.bytes = [i \in 0 .. n - 1 |-> Byte(k.round, i)]
  /\ k.seq = NumberOf(p, answer) \/ (k.seq = -1 /\ DOMAIN k.bytes = {})

WholeOf(k, answer) ==
  /\ DOMAIN k.bytes = 0 .. answer.length - 1
  /\ k.seq = -1 => answer.header = NoHeader

(* Whatever is handed on, its bytes are the first ones of one answer and   *)
(* its number is that answer's: never what an earlier transfer left in the *)
(* buffer.  It has bytes without a number only if no callback saw one.     *)
KeptIsOneAnswer ==
  \A j \in 1 .. Len(kept) : PrefixOf(program, kept[j], response[kept[j].round])

(* paster2 pushes no strip of which a part is missing, and none without a  *)
(* number, the index its consumer uses, unless the server sent no header.  *)
PushedIsWhole ==
  program = "paster2" =>
    \A j \in 1 .. Len(kept) : WholeOf(kept[j], response[kept[j].round])

(* The file of main_2proc is what the child had received when it ended, or *)
(* the front of it if fwrite fell short: the parent never reads a buffer   *)
(* that still changes.                                                     *)
FileIsFinal ==
  program = "main_2proc" /\ kept # <<>> =>
    \/ kept[1] = Received
    \/ failed["fwrite"] > 0 /\ \E n \in 0 .. size - 1 : kept[1] = Front(n)

(* When a program has come to its end nothing is left allocated or open,   *)
(* but for the file of each short fwrite, the buffer of a transfer without *)
(* a curl handle, the segment of a program that could not fork and that of *)
(* main when the body did not fit.                                         *)
Released ==
  Ended =>
    \/ held = failed["fwrite"]
    \/ failed["curl"] > 0 \/ failed["fork"] > 0
    \/ program = "main" /\ phase = "aborted"

(* Every program comes to its end, and the parent of main_2proc writes     *)
(* after its child has returned, failed or aborted.                        *)
Finishes == <>Ended

=============================================================================
