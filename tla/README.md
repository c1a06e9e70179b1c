# PNG scraper and concatenator: TLA+ verification

This directory holds TLA+ models of the three versions of the PNG tools in `src/`, the TLC
configurations that check them, and TLAPS proofs about them. `PROJECT.json` maps every
definition that models code to its lines, lists the runs, the properties, the findings, the
hazards and the theorems. This file explains how they fit together.

## 1. The system

The repository has three generations of one idea: fetch or find pieces of an image as PNG
files and concatenate them vertically into `all.png`.

| part | code | state | operations |
|---|---|---|---|
| `paster2` (version 3) | `v3/paster2.c` | shared memory: two semaphores, a mutex, a bounded buffer, a ticket counter, a counter of processed strips, the final pixels; per child its loop variables; the parent's progress | producers download strips, consumers decode them, the parent forks, waits, builds the image |
| strip buffer | `v3/paster2.c:39-122` (a copy of `v3/starter/shm/shm_stack.c`) | `pos` and `items` | `init_shm_stack`, `is_full`, `is_empty`, `push`, `pop` |
| transfer callbacks | `v3/paster2.c:133-183`, `v2/paster.c:55-133` | a receive buffer with size, capacity and sequence number | header callback, write callback, init, cleanup |
| `paster` (version 2) | `v2/paster.c` | the array `fragments`, its mutex; per thread its receive buffer and return value; `main`'s progress | threads request random fragments and save new ones; `main` creates and joins them, concatenates, cleans up |
| `catpng` of fragments | `v2/catpng2.c` | two buffers for pixels | sum up heights, inflate each fragment, deflate the whole, write |
| `catpng` command (version 1) | `v1/catpng.c` | the same, over files | check each file, then read each file a second time |
| `findpng` (version 1) | `v1/findpng.c` | recursion over directories | print each file with a PNG signature |
| PNG chunks | `*/lab_png.c` | none | read, write, allocate and free chunks, signature, chunk CRC |
| zlib wrappers | `*/zutil.c` | a `z_stream` | `mem_def`, `mem_inf` |
| CRC | `*/crc.c` | the table of 256 words | `make_crc_table`, `update_crc`, `crc` |
| `pnginfo` | `*/pnginfo.c` | none | print the dimensions, check the three checksums |
| cURL examples | `v2/starter/cURL`, `v3/starter/cURL_IPC` | a receive buffer, in memory or in a shared segment; a child process | the callbacks that `paster` and `paster2` took over, one transfer, a file |
| other course examples, scripts | `v*/starter`, `*/main.c` | | not part of the programs |

### How they interact

* In `paster2` the parent creates all shared memory, forks `p` producers and `c` consumers and
  waits for them with `waitpid`, producers first. A producer reserves a slot
  (`sem_wait(buf_spaces_avail)`), draws a ticket (`__sync_fetch_and_add`), downloads that strip
  (libcurl calls the two callbacks), pushes it under the mutex and posts `buf_spaces_occ`. A
  consumer waits for `buf_spaces_occ`, pops under the mutex, posts `buf_spaces_avail`, sleeps,
  decodes (`get_png_chunks`, `mem_inf`) into its place of `final_strips` and counts. Whoever
  sees 50 counted posts `c` wake-ups; a consumer that finds the buffer empty passes its wake-up
  on and leaves. The parent then deflates `final_strips` and calls `write_PNG`.
* In `paster` the threads share `fragments` under `fragments_protection`. The server answers
  each request with a random fragment and its number in a header; a thread keeps a fragment
  whose slot is `NULL` and leaves when `is_full` says so. After the join `main` calls `catpng`.
* In version 1 the paths that `findpng` prints are given to `catpng`; the files may change in
  between, and between the two loops of `catpng`.
* `catpng` in both versions is built from the chunk operations, the zlib wrappers and the CRC.

### What is hard

* **Concurrency without one lock.** In `paster2` counters, semaphores and stack are changed at
  different moments; every property of interest relates at least two of them across several
  processes. Termination depends on wake-ups that are handed from one consumer to the next.
* **Failure.** A failed transfer hands back a ticket but not a slot; a child that dies takes a
  strip along; a corrupt strip is counted like a good one; a failed `fork` leaves orphans.
* **Unordered, duplicated and broken answers.** In `paster` the server repeats fragments, may
  break off in the middle of one, or send none of the headers the code relies on.
* **Boundaries.** Fixed buffers, one byte kept for a terminating 0, buffers that grow, loops over
  blocks of fixed size, 32-bit products of sizes, two byte orders.

### What makes each part correct

* `paster2`: each strip is handled exactly once; slots, tickets and tokens are conserved; push
  and pop never fail; changes to the stack are exclusive; nobody quits while work is left, and
  nothing is pushed, copied or counted after the last strip; the processes never all wait for
  each other, and none goes round for ever; the written image is complete; the program ends.
* strip buffer: never more than `size` items; what is pushed is popped.
* `paster`: each fragment is saved once and never replaced; a slot that is not `NULL` outside
  the mutex has its data; threads leave only when everything is there; `catpng` gets a full
  array; return values are filled exactly once; the program ends.
* transfer callbacks: writes stay in the buffer, which holds what was received, however it is cut
  into blocks; what is handed on belongs to one answer of the server; buffers and segments are
  released.
* `findpng`: no path twice, none passed over. `catpng`: no image of a part of the input, a header
  that is true, enough room for the scan lines, everything released on every path.
* chunks, zlib wrappers, CRC: what is written is read back; a damaged byte is found in its chunk;
  `mem_inf` tells complete streams from others; the loops end.

The list "hazards" of `PROJECT.json` has each point at its line.

## 2. Modules

| module | role |
|---|---|
| `StripStack` | the strip buffer as operators on a sequence: `items[0..pos]` |
| `Paster2` | `paster2`: one action per access to shared state |
| `StripAssembly` | what `paster2` promises, without processes, semaphores or counters |
| `Paster2Assembly` | the refinement mapping from `Paster2` to `StripAssembly` |
| `Paster` | `paster`: threads, mutex, server, and `main` |
| `Transfer` | the receive buffer and its callbacks in six programs, block by block |
| `PngFile` | what the commands can tell apart in a file |
| `FindPng` | `findpng`: the walk over a tree of directories |
| `Catpng` | `catpng` of version 1 (files) and version 2 (fragments in memory) |
| `PngCommands` | `findpng`, then `catpng`, over files that others may change; or `catpng` of `paster` |
| `Crc` | `crc.c` and the polynomial division it implements, for any width |
| `ZUtil` | `mem_def` and `mem_inf`: the loops around zlib |
| `PngCodec` | an image written to a file by `catpng` and read back by `pnginfo` and `catpng` |
| `MCPaster2`, `MCPaster`, `MCTransfer`, `MCPngCommands`, `MCPngCodec` | small instances for TLC |
| `Paster2Proofs` | theorems about `Paster2` with any faults: accounts, exclusion, quitting, running down |
| `Paster2ExactProofs` | each strip exactly once, the honest counter, the complete image, no standstill; the lone producer |
| `Paster2AssemblyProofs` | the refinement of `StripAssembly`, step by step |
| `PasterProofs`, `TransferProofs` | theorems about `Paster`, `Transfer` |
| `PngCommandsProofs` | theorems about `findpng` followed by `catpng` |
| `CrcProofs` | the CRC by table is the remainder of the division, and sees a changed byte |
| `PngCodecProofs` | theorems about a PNG that is written, damaged and read |

`Transfer` refines the view of its two clients: what `Paster` takes for "whole", "cut" or "no
header" and `Paster2` for a fetched strip is there the result of a sequence of callbacks.
`PngCodec` is the inside of `whole` and `ihdr` in `PngFile`.

### Paster2 and StripStack

State and actions keep the names of the code. `pc` says at which access to shared state a child
is; the labels and actions of `producer_work` (P...) and `consumer_work` (C...) are in program
order: `PWait` (232), `PTicket` (234), `PBow` (236), `PFetched` / `PFetchFails` (240-268),
`PLock`, `PPush`, `PUnlock` (271-273), `PPost` (276-283); `CWait` (292), `CLock`, `CCheck`,
`CUnlockEmpty`, `CRepost`, `COver`, `CUnlockAgain` (298-307), `CPop`, `CUnlock` (311-312),
`CSlot` (315-319), `CPlace` / `CPlaceGarbled` / `CCrash` (326-335), `CCount` (337), `CFull`
(338), `CWake` (341). The parent has `ForkProducer`, `ForkConsumer`, `ForkFails`,
`WaitChildren`, `BuildImage`, `Returned`.

Abstractions: a strip is its number; the pixels of a strip are in `final_strips` or not;
`nanosleep` is any delay; the sequence number in the response is that of the strip asked for.
`push` and `pop` are one action each although they access the shared stack several times:
`RingExclusive`, which is checked and proved, says that no other process is in the critical
section then. `BuildImage` is the parent from the end of `waitpid` to its return: the image, and the
removal of the shared memory, of which nobody else is left to take notice. `pthread_mutex_unlock` by a process that is not the holder is undefined in POSIX;
the model takes what glibc's default mutex does, it becomes free. A crash in decoding
(`CCrash`) is what `free_png` does after a failed `get_png_chunks`: `free_chunk` dereferences
the chunk that is missing.

### Paster

`fragments` maps each part to `"null"`, `"allocated"` (the pointer is set, the data not copied
yet: lines 227 to 232), `"whole"` or `"cut"`. The scan of `is_full` is one action between its
lock and its unlock: all writers hold the mutex. A request (`ReceiveWhole`, `ReceiveCut`,
`ReceiveNoHeader`, `InitFails`) stands for `curl_easy_init`, `curl_easy_perform` and the
callbacks in it. `fragments[-1]`, which the code accesses after a response without header, is
the word `word_below`, whose initial content is up to the build; what else an overwritten word
on `main`'s stack may spoil is not followed up. `catpng` is one step of `main` (no thread is
left then) that succeeds on whole fragments; with a cut one it may also fail or die, unless the
fragment is cut behind its IDAT chunk. Freeing a pointer that was never set (329) is a choice
between no effect and a crash. That the numbers in the server's headers are below 50 is an
assumption about the server; a larger one would be an index behind the array, like -1 one below.

### Transfer

`program` is one of `paster`, `paster2`, `main_write_header_cb`, `main_write_callback`,
`main_2proc` and `main` (of `cURL_IPC`), which differ in whether they see the fragment header
(`HeaderUnseen`), in how the buffer is set up (`InitBuffer`), in what the write callback
does with a block that does not fit (`write_cb_curl3` grows the buffer, `WriteUnchecked` of
`paster2` does not look, `write_cb_curl` aborts) and in what becomes of the bytes (`Saves`,
`Pushes`, `WritesFile`, `WritesSegment`, `ParentWrites`). Bytes are pairs of transfer and
position, so that a byte of an earlier transfer is never mistaken for one of this; memory nobody
has written to is `Junk`. The server's answer is any fragment header (a number, something else,
none) and any length; libcurl cuts it into blocks of 1 to `MaxBlock` bytes and may break off
anywhere. In `main_2proc` `phase` is the child and `parent` the process that waits for it.
`write_file` succeeds, cannot open the file, or is cut short in `fwrite`: then a front of the data
(`Front`) is in the file and the file stays open (`held` counts open files too). That a strip is
shorter than `paster2`'s array is an assumption about the server's images (400 x 6 pixels); the code
does not check it, its test is commented out, so for `paster2` `InBounds` says that the other sizes go
together, not that an oversized strip is refused. `PushedIsWhole` lets through a strip without a
number if the server sent no header; that `paster2` then uses -1 as an index is not a property here.

### FindPng, Catpng, PngCommands

The recursion of `findpng` is the sequence `stack`; `left` has the entries that each `readdir`
loop has not returned yet, in any order. `return 1` in the middle of a loop (45-52), whose result
the recursive call ignores, gives up that directory (`gave_up`); a failing `opendir` ends the
process. A file is a record of `PngFile`: whether it has the signature, its header, its
dimensions, bytes per pixel, whether its second chunk is a complete stream, and whether there is a
third chunk. A file shorter than 8 bytes leaves the buffer of `is_png` as `malloc` returned it:
either answer. A directory of which `stat` knows nothing (or whose path was truncated) is opened
like a file and then gives up its parent the same way (`FopenFails`); a failing `closedir` ends the
process (`ClosedirFails`).

`Catpng` has the two loops (`CheckFile` / `CheckFails` / `ReadIhdr`, `AppendImage` /
`AppendFails` / `AppendStopped`), the buffers with their sizes in `unsigned int` (modulo `U32`),
the set `held` of what is allocated or open, and each way out. `overrun` notes behind which buffer
something was written, after which the program may crash at any step; the same for `malloc`
results nobody looks at. `rows` of the image are the pieces in the order they were inflated;
`complete` is false if a write of `write_PNG` was cut short, which nobody notices: `rows` is then a
front of the pieces. A file cut behind its IDAT chunk is read like a whole one by version 1; version 2
reads beyond its buffer for the third chunk, which may be the end of it (`Crash`).

### Crc, ZUtil, PngCodec

Words and bytes are sets of bits. `Crc` has the table and the loop of `crc.c`, and next to it the
remainder of a division of polynomials. zlib is external: `Stream`, `Plain` and `Verdict` are
constants that say what deflate makes of data and what inflate gets out of bytes; how a call
fills `out` and when it reports the end is left open as far as zlib's manual does. `PngCodec`
lets an image go through `mem_def`, `write_PNG`, a file in which a byte is changed or which is
cut, `get_chunk` of either version, `pnginfo` and `mem_inf`. What `fread` or `memcpy` do not find
is taken from `Uninitialised`.

## 3. Runs

Every run finishes in about a minute. All bounds are in the `.cfg` files and `MC` modules.

| run | instance | shows |
|---|---|---|
| `paster2_complete` | 2 producers, 2 consumers, 2 slots, 4 strips, 1 failed transfer whose ticket was the last drawn | `ExactlyOnce`, `CountHonest`, `WrittenImageComplete`, `NoStandstill`; liveness `Finishes`; refinement `ImplementsAssembly` |
| `paster2_faults` | 2 producers, 3 consumers, 2 slots, 3 strips, up to 2 failed transfers, 2 deaths, 1 garbled strip, 1 failed fork | `TypeOK`, the accounts `SlotsAccounted`, `TicketsAccounted`, `TokensAccounted`, `RingExclusive`, `PushPopNeverFail`, `QuitMeansDone`, `RunsDown` |
| `paster2_ticket_rollback` | 2 producers, 1 failed transfer | violation: a hole in the image |
| `paster2_slot_leak` | 1 slot, 1 failed transfer | violation: everybody waits for ever |
| `paster2_crash` | 1 consumer that dies | violation: an incomplete image is written |
| `paster_faults` | 2 threads, 3 fragments, one fault of each kind | `TypeOK`, `HalfSavedIsLocked`, `NoHoles` (no thread returns and no `catpng` before the array is full), `SavedOnce` (fragments and return values), `Finishes` |
| `paster_returns` | 2 threads, no faults | violation: a return value that was never set |
| `paster_bounds` | 1 thread, 1 response without header | violation: a write below the array |
| `paster_cut` | 1 thread, 1 broken transfer | violation: no complete image |
| `transfers` | 6 programs, 2 transfers, blocks of 1 to 3 bytes, bodies of up to 5, one fault of each kind | `TypeOK`, `InBounds`, `PrefixKept`, `KeptIsOneAnswer`, `PushedIsWhole`, `FileIsFinal`, `Released`, `Finishes` |
| `png_commands` | 2 directories, 3 files or fragments of 7 kinds, one fault of each kind, 1 change of a file | `TypeOK`, `PrintedOnce`, `NothingSkipped`, `WrittenFromAll`, `InfFits`, `HeaderTells`, `Released`, `Finishes` |
| `png_codec` | bytes of 2 bits, words of 2 bytes, blocks of 2 bytes, 8 inputs of up to 3 bytes, any one byte changed or the file cut anywhere | `RoundTrip`, `DamageFound`, `CrcIsDivision`, `MemInfHonest`, `Ends` |

**Why the bounds are enough.** With two producers a ticket can be drawn between a failure and
its rollback; with two slots and three or four strips the buffer is full, empty and in between,
and producers wait for consumers as well as the other way round; three consumers are needed for
the second unlock (306) to let a third process in beside a second one, and for wake-ups to be
passed on more than once. `paster2_complete` runs under `RetrySpec`, in which a transfer only
fails while its ticket is the last one drawn (`LastTicketRetried`): with a single producer it
always is. The safety results of both runs are also proved for every instance (section 4). Two threads
and three fragments let one thread save the last fragment while the other is at any point of its
loop. In `transfers` a body is smaller than the buffer, fits exactly with and without its 0, and
needs growing twice; blocks are larger and smaller than `BufInc`; the second transfer finds what
the first one left; all its safety results are proved for every instance. `png_commands` has
images of two heights, two widths and two pixel sizes, damaged and short files; `U32` is 24, so
that products of sizes do wrap, and deflated data may be longer than its input; its safety results
are proved for every tree and every input. In `png_codec`
streams have 2 to 5 bytes: shorter than, equal to and longer than one and two blocks; a changed
length byte makes chunks end anywhere in or behind the file. Toy widths are enough for the loops
and the byte orders; that the division with `crc.c`'s own constants is CRC-32 is the assumption
`CheckValue` of `MCPngCodec`, which TLC evaluates: cbf43926 for "123456789". Symmetry of
producers and of consumers is used in runs without liveness.

**Deadlock** is checked where the system must come to an end by itself (`Returned`, `Over`
stand for a finished program). `CHECK_DEADLOCK FALSE` is in the runs with faults of `paster2`:
after a leaked slot, dead consumers or a failed fork the system really may stop, and in runs
that look for a single violation of that kind.

**Fairness.** Weak fairness of each process (thread) and of the parent: the operating system
schedules what can run. A process waiting for a semaphore or the mutex is only enabled while it
can proceed, so nothing is assumed about the order in which waiters are served. `Paster` also
assumes that a server that is asked again and again sends every fragment again and again
(strong fairness of receiving each fragment whole, by some thread): it picks fragments at
random. The single-threaded programs (`Transfer`, `PngCommands`, `PngCodec`) go on while they
can; in `Transfer` that includes libcurl, which passes on the body, and `waitpid`,
which returns when the child has ended. Changes of files need never happen. Faults have
no fairness: they may happen, within `MaxFaults`. The fairness of `Transfer` and `PngCommands` is of
the steps in which nothing fails; in `Paster2` and `Paster` whatever can fail can also succeed, so
that no fault is ever forced.

**Mutants.** Each property of a passing run is paired in `PROJECT.json` with a slip in a
definition that models code, under which TLC finds the property violated. These definitions are
marked "mutant" in the modules.

## 4. Theorems

The theorems are checked by TLAPS and hold for every value of the constants allowed by the
assumptions of each module: any finite non-empty sets of processes, any positive number of slots,
strips and fragments, any capacities, increments, block and body sizes, any number of transfers
and of faults of each kind, any tree of directories and contents of files, any widths of words and
bytes. Each inductive invariant was first checked by TLC on a small instance.

*`Paster2Proofs`.* `SlotsAccounted`, `TicketsAccounted` and `TokensAccounted` are invariants
about sums of label counts; none is inductive alone. Slots bound the stack, so a producer with
a slot never finds it full. Tickets bound the work, so `strips_processed_count >= NumStrips`
really means that nothing is left, in spite of rollbacks that repeat tickets. Until then the
tokens count the stack, so a consumer with a token never finds it empty. The conjunct
`LockHeld` adds that until then whoever is in the critical section holds the lock. After that
the second unlock (306) may let two consumers in, but the accounts say that no producer has a
strip and no consumer is about to pop, so the stack is only read. `IInv` is the conjunction;
there is one lemma per action, and under it the bookkeeping of a move from one label to another
(`MoveCounts`). From `Invariance` follow `TypeCorrect`, `SlotsSafe`, `TicketsSafe`,
`TokensSafe`, `NoBufferErrors`, `StackChangesExclusive`, `QuittingIsSafe`, and the step property
`NothingAfterLast`: a step that pushes, copies or counts needs a strip with some process, which the
tickets do not leave once `strips_processed_count` is full (`DoneIsFinal`, which is only proved).

`EveryStepCounts` says that each step, whatever fails, lowers `StepsAtMost`, which is never negative
(`RunsDown`). The bound adds up the steps each child can take before it draws another ticket, counts a
strip or leaves, 7 for each ticket left, 3 for each transfer that can still fail, and a round of a
consumer with all its wake-ups for each strip not counted. `IInv` gives the tickets left
(`TicketsAccounted`), the failures left (each costs a slot, `SlotsAccounted`), and that a consumer which
finds the stack empty leaves instead of going round again (`TokensAccounted`); `RunInv` bounds the
wake-ups. Sums over processes are sizes of sets of pairs, so that a step of one process changes one part
of the set (`SumMoves`).

*`PasterProofs`.* `IInv` adds to the types: `LockHeld` (mutual exclusion), `HalfSavedIsLocked`,
`Saving` (a thread that copies has an empty slot to itself), `FullIsTrue` (a result of
`is_full` stays true after the unlock because saved fragments are never taken away) and
`Leaving` (a thread that has filled its return value leaves at the next loop condition). From
it follow the invariants of the run and the step property `SavedOnce`.

*`TransferProofs`.* `IInv` adds to the properties of the run: `FixedArray` (paster2's array never
changes its size), `SentIsPart` and `Numbered` (how `sent`, `seq` and the phase go together),
`KeptEarlier` (records are of earlier transfers, whose answers are final), `Family` (how child and
parent go together), `Holding` (who holds a buffer when) and `NoneOpen` (a file is left open only by
the last step of a program). The heart is three lemmas about the
write callback: a grown buffer has room for the block and the 0 (`GrownFits`), `realloc` keeps the
prefix (`ReallocKeeps`), and `memcpy` extends it by the block (`CopyExtends`). A short write is a front
of what was received, so `FrontIsOneAnswer` serves both. For `paster2`
`InBounds` follows from the assumption that a strip is smaller than the array; for the programs
that grow or check their buffer it needs no assumption.

*`Paster2ExactProofs`.* That each strip is handled exactly once is false of the program in general
(finding 1), so the theorems say when it is true. `RetrySpec` is `Spec` with the condition
`LastTicketRetried` on its steps: a transfer fails only while its ticket is the last one drawn.
`Lossless` says that no consumer has died of a strip or copied a garbled one so far. The inductive
invariant `XInv` adds to `IInv`: `StripInv` (a strip is in at most one place:
with a process, in the stack or in the pixels; only if its ticket is drawn, and always then while
nothing was lost), `PlacedInv` (the counter
and the consumers about to count make up the strips copied and the garbled ones) and `ParentInv`
(the parent builds the image when all children have gone). `NothingLostOrDoubled`, `CounterHonest`
and `ImageComplete` follow from it: when a consumer has quit, `QuitMeansDone` leaves no strip but in
the pixels. `CounterHonest` needs only that no garbled strip was copied. With one producer
`LoneProducerRetries` shows that the condition is kept by every step, because nobody else draws a
ticket between its ticket and its failed transfer; `LoneProducerExact` and `LoneProducerComplete` are
therefore theorems about `Spec` itself.

The second half of the module is the safety half of termination. `NoStandstill` says that of the
children that live one does not wait, once all are forked, as long as fewer transfers have failed than
there are slots and no consumer has died. It does without ENABLED, which the prover does not handle:
`Blocked` says for each label at which a child can wait for what. `RoundInv` adds to `XInv` what the
proof needs: who has the lock is in the critical section (`HolderInside`); once all strips are
processed there is a wake-up, or a consumer that is about to make one (`WakeUpKept`); when a producer
leaves the tickets are gone (`TicketsGone`, which needs `RetrySpec`); producers are at labels of
producers (`ProducerPlaces`). The argument (`SomeoneGoesOn`): if all wait, nobody is in the critical
section, so the lock is free and everybody waits for a semaphore. If strips are left to process, the
account of tokens gives each strip on the stack a token, so with waiting consumers the stack is empty;
then the account of slots gives a free slot, so no producer waits, all have left, and the tickets are
gone; but then the account of tickets leaves no strip to process. If none is left, the stack is empty,
no producer waits, and `WakeUpKept` has a wake-up for the consumer that does. `NeverAllWaiting` is
about `RetrySpec` for the reason in finding 1; `LoneProducerGoesOn` is the same from `Spec` for one
producer. Together with `EveryStepCounts` this is the core of `Finishes`: the children cannot go on for
ever, and under these conditions they stop only when all have left, after which the parent has three
steps. What is not proved is the step from "not `Blocked`" to ENABLED and the use of fairness.

*`Paster2AssemblyProofs`.* `StepsImplementAssembly`: as long as nothing is lost, the initial states
of `Paster2` are initial states of `StripAssembly` under the mapping of `Paster2Assembly`, and each
step is one of its steps or a stutter. `LoneProducerImplements` is the same from `Spec` for one
producer. The fairness of the abstract specification is in `ImplementsAssembly` only, with TLC.

*`PngCommandsProofs`.* `CommandsInv` has three parts. `FindInv` says what has become of
the entries of each opened directory: those that `readdir` has not returned yet are neither opened nor
printed, and an entry is of one directory, so that nothing is met twice (`FilesPrintedOnce`); those
that it has returned are opened or printed, unless the directory was given up, and a directory with
entries left is on the stack (`NoFileSkipped`). `CatInv` relates what is allocated and open, the files
checked and the pieces copied to where `catpng` is (`ImageFromAll`, `AllReleased`). `SizeInv` keeps
`new_height` equal to the sum of the heights read, as long as that is an `unsigned int`, and the fill
of the buffer to the sum of the scan lines copied (`ScanLinesFit`, `HeaderTrue`). Sums are recursive
functions; what holds of all their values is shown by looking at the least index where it would fail.

*`CrcProofs`.* `TableDivides`: for every message the checksum by table is `Division`, the
remainder of the division of polynomials that defines it. `Division` takes the message bit by bit from
the highest exponent down; what is left to divide after each exponent is a function over the
exponents (`Rests`). The loop invariant (`ByteDivided`, `StatesAreRests`): when `update_crc` has
taken `n` bytes, what is left is its word shifted up to the exponents that follow, plus the bytes to
come. Each of the `ByteBits` rounds of `make_crc_table` is one `TakeAway` of the divisor
(`TakeAwayIsRound`), and the bytes to come do not disturb it (`BitsBefore`). `OneByteSeen`: of two messages of one length that
differ in one byte the checksums
differ. A round of `make_crc_table` can be undone, because the top bit of the polynomial tells
whether it was added; rounds are linear, so that the step with the table is the same as `ByteBits`
rounds on the whole word; the step is therefore injective in the word and in the byte, and what
follows the changed byte never brings the two words together again. This is why `CrcAssumption`
asks for the top bit of `Poly`, which 0xedb88320 has.

*`PngCodecProofs`.* The first part is about numbers, words and bytes: `htonl` and `ntohl` undo each
other, and what `write_chunk` puts in a file `get_chunk` gets out of it (`ChunkBack`), from a file or
from memory. `ChecksumIsDivision` says of every checksum written or recomputed what `TableDivides` says
of all messages. `CodecInv` follows the program: `DeflateInv` (what `mem_def` has written), `FileInv`
(the layout of the file and where a damaged byte falls), `ReadInv` and `IhdrInv` (what the reader has),
`ReportInv` (which checksums have been reported). With `OneByteSeen` it gives `DamageReported`.
`InflateInv` is the loop invariant of `mem_inf`: whole blocks of the output are in `dest` and the
last code says whether there is more. `ImageComesBack` combines both. `InflateHonest` is about
whatever bytes a damaged file has, and needs `ZlibTotal`: zlib's `inflate` gives to any bytes some
output and a verdict, as its manual says; TLC cannot evaluate that for all sequences, so it is a
hypothesis of the theorem and not an assumption of the module. The instance of the run satisfies it
for the bytes it meets.

**Only model-checked:** the liveness properties (`Finishes`, `Ends`, the fairness in
`ImplementsAssembly`), which are out of the prover's reach. Every invariant and step property that a
passing run checks is also a theorem, some under a hypothesis that the paragraphs above name
(`RetrySpec` or one producer; `ZlibTotal`). That the division with the constants of `crc.c` gives the
published check value is an assumption TLC evaluates, not a theorem.

## 5. Findings

See "findings" in `PROJECT.json` for the quoted lines.

1. `paster2.c:265`: the rollback of the ticket counter by a decrement, with several producers,
   repeats one strip and loses another; the image has a hole. If the strip lost is the last one and
   the ticket repeated is the first one too many, both producers leave instead, and everybody else
   waits for ever although there are slots: with `NoStandstill` in place of `WrittenImageComplete`
   TLC finds this in the same instance. It is why `NeverAllWaiting` is about `RetrySpec`.
2. `paster2.c:267`: a failed transfer keeps its slot; after `b` failures everything waits.
3. `paster2.c:462`: the parent does not see that a consumer died; if all consumers die it
   writes an image without their strips, otherwise the others wait for ever.
4. `paster.c:239`: a thread may return without having set its return value, which `main` frees.
5. `paster.c:226`: a response without a fragment header makes -1 an array index.
6. `paster.c:216`: a transfer that breaks off is saved like a whole one, and kept.

Noticed while modelling, and in the models, but not runs of their own: a consumer on its way out
unlocks a mutex it does not hold (`paster2.c:306`), which lets two consumers into the critical
section; `RingExclusive`, proved, says that by then nobody changes the stack. `catpng` does not
look at bit depth, colour type or interlace: `HeaderTells` and `InfFits` hold for 8-bit RGBA only.
`def_IDAT_buffer` has the size of the inflated data, and the deflated data of very small images
is longer (`overrun` in `Catpng`). `paster` and the cURL examples leave their buffer or segment
behind when `curl_easy_init` or `fork` fails or `main` aborts (see `Released`). A short `fwrite`
leaves a front of the data behind: `write_file` of the examples keeps the file open and its result is
not looked at, and `catpng` prints "Concatenated strips into all.png" all the same.

Some hazards are listed without a property, each with its reason: a thread that was not created, the
size of `def_IDAT_buffer`, the orphans and segments after a failed `fork` of `paster2`, its strips
larger than the array, and its index -1. The code has nothing against the last four, so there is no
promise of it to check; the models have the second and the third, and exclude or stop before the others.

## 6. Plan

Done: `Paster2` with `StripStack`, `StripAssembly` and the refinement; `Paster`; `Transfer`;
`FindPng`, `Catpng` and their composition; `Crc`, `ZUtil`, `PngCodec`; proofs of all their
invariants and step properties, and of the steps of the refinement. What could follow:

1. An abstract specification of `paster` like `StripAssembly`: a set of fragments that grows by any
   fragment at a time and is concatenated when it is full.
2. `Transfer` as the refinement of what `Paster` and `Paster2` take a request for; today the two
   views are related by their properties only.
3. Liveness, should a prover for it be at hand: for `Paster2`, `EveryStepCounts` and `NeverAllWaiting`
   are its ingredients.

### Not modelled

* The interior of libcurl, zlib, the C library and the system: they are taken as the code uses
  them. The number of bytes zlib writes per call is open, the contents of its streams a constant.
* Arguments (`getopt`, `atoi` of `argv`), messages, timing. `paster2` reads `argv[1..5]` before it
  looks at `argc`, which any call without arguments shows.
* Symbolic links: `stat` follows them, so `findpng` may descend along a link to a directory
  above until a path is too long.
* Lengths in `int`: `mem_def` and `mem_inf` count in `int`, which matters beyond 2 GB.
* Threads that `pthread_create` failed to create (its result is ignored, and `pthread_join` gets
  an uninitialised argument: undefined).
* The demonstration programs of the utility directories, the course examples other than the cURL
  ones (system calls, one each, no shared state with the tools), scripts and sample images.
