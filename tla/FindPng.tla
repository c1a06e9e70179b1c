-------------------------------- MODULE FindPng --------------------------------
(***************************************************************************)
(* v1/findpng.c: print the path of every PNG file in a directory and its   *)
(* subdirectories.  The recursion is a stack of directories; readdir gives *)
(* the entries in any order.                                               *)
(***************************************************************************)
EXTENDS PngFile, Sequences

CONSTANTS
  Root,     \* argv[1]
  Dirs,     \* the directories, Root among them
  Files,    \* the other files
  Parent,   \* the directory each of them is an entry of
  Contents, \* what a file may contain
  MaxFaults \* how many faults of each kind the environment may inject

(* "opendir", "closedir": the call fails.  "fopen": fopen or malloc fails,  *)
(* for a directory after stat has failed, or full_path cuts the path off.  *)
FindFaults == {"opendir", "closedir", "fopen"}

(* PngCommands assumes it. *)
TreeAssumption ==
  /\ Root \in Dirs
  /\ Dirs \cap Files = {}
  /\ Parent \in [(Dirs \ {Root}) \cup Files -> Dirs]
  /\ \A c \in Contents : IsContents(c)
  /\ MaxFaults \in [FindFaults -> Nat]

VARIABLES
  disk,    \* the contents of each file
  find,    \* where main is
  stack,   \* the directories whose loop is running, the innermost last
  left,    \* the entries each opened directory has not returned yet
  gave_up, \* the directories whose loop was left by return 1
  printed, \* the paths on standard output
  none,    \* "No PNG file found" was printed
  failed   \* faults injected so far

vars == <<disk, find, stack, left, gave_up, printed, none, failed>>

Entries(d) == {e \in DOMAIN Parent : Parent[e] = d}

(* The directories that have been opened. *)
Opened == DOMAIN left

Top == stack[Len(stack)]

Printed == {printed[j] : j \in 1 .. Len(printed)}

Init ==
  /\ disk \in [Files -> Contents]
  /\ find = "start"
  /\ stack = <<>>
  /\ left = [d \in {} |-> {}]
  /\ gave_up = {}
  /\ printed = <<>>
  /\ none = FALSE
  /\ failed = [k \in FindFaults |-> 0]

Inject(k) ==
  /\ failed[k] < MaxFaults[k]
  /\ failed' = [failed EXCEPT ![k] = @ + 1]

(* readdir returns entry e of the innermost directory. *)
Readdir(e) ==
  /\ find = "walk"
  /\ stack # <<>>
  /\ e \in left[Top]

(* The entries of the loops that are running, when e is taken from one. *)
Without(e) == [left EXCEPT ![Top] = @ \ {e}]

(* opendir: d is the innermost directory now. *)
Opendir(d, rest) ==
  /\ stack' = Append(stack, d)
  /\ left' = [x \in DOMAIN rest \cup {d} |-> IF x = d THEN Entries(d) ELSE rest[x]]

(* main calls findpng(argv[1], &png_count_result). *)
OpenRoot ==
  /\ find = "start"
  /\ find' = "walk"
  /\ Opendir(Root, left)
  /\ UNCHANGED <<disk, gave_up, printed, none, failed>>

(* mutant: a directory is looked at like a file *)
NoRecursion(e) == left' = Without(e) /\ UNCHANGED stack

(* findpng(full_path, png_count) *)
Recursion(e) == Opendir(e, Without(e))

EnterDir(e) ==
  /\ e \in Dirs
  /\ Readdir(e)
  /\ Recursion(e)
  /\ UNCHANGED <<disk, find, gave_up, printed, none, failed>>

(* exit(2), however deep the recursion is *)
OpendirFails ==
  /\ Inject("opendir")
  /\ find = "start" \/ \E e \in Dirs : Readdir(e)
  /\ find' = "exited"
  /\ UNCHANGED <<disk, stack, left, gave_up, printed, none>>

(* mutant: path instead of full_path *)
PrintPath(e) == printed' = Append(printed, Top)

(* mutant: what was read is printed, PNG or not *)
PrintAny(e) == printed' = Append(printed, e)

PrintIfPng(e) ==
  \E b \in is_png(disk[e]) : printed' = IF b THEN Append(printed, e) ELSE printed

ReadFile(e) ==
  /\ e \in Files
  /\ Readdir(e)
  /\ left' = Without(e)
  /\ PrintIfPng(e)
  /\ UNCHANGED <<disk, find, stack, gave_up, none, failed>>

(* return 1: the caller does not look at it and goes on; p_dir stays open. *)
(* A directory stat knows nothing of is opened like a file.                *)
GiveUp == stack' = SubSeq(stack, 1, Len(stack) - 1)

FopenFails(e) ==
  /\ Inject("fopen")
  /\ Readdir(e)
  /\ left' = Without(e)
  /\ gave_up' = gave_up \cup {Top}
  /\ GiveUp
  /\ UNCHANGED <<disk, find, printed, none>>

(* mutant: the loop is not left *)
StayInLoop == UNCHANGED stack

(* return 0 *)
LeaveLoop == stack' = SubSeq(stack, 1, Len(stack) - 1)

(* readdir returns NULL. *)
LoopEnds ==
  /\ find = "walk"
  /\ stack # <<>>
  /\ left[Top] = {}

Closedir ==
  /\ LoopEnds
  /\ LeaveLoop
  /\ UNCHANGED <<disk, find, left, gave_up, printed, none, failed>>

(* exit(3) *)
ClosedirFails ==
  /\ Inject("closedir")
  /\ LoopEnds
  /\ find' = "exited"
  /\ UNCHANGED <<disk, stack, left, gave_up, printed, none>>

findpng ==
  \/ OpendirFails
  \/ \E e \in DOMAIN Parent : EnterDir(e) \/ ReadFile(e) \/ FopenFails(e)
  \/ Closedir \/ ClosedirFails

(* The end of main. *)
Report ==
  /\ find = "walk"
  /\ stack = <<>>
  /\ find' = "returned"
  /\ none' = (printed = <<>>)
  /\ UNCHANGED <<disk, stack, left, gave_up, printed, failed>>

FindEnded == find \in {"returned", "exited"}

Next == OpenRoot \/ findpng \/ Report

Spec == Init /\ [][Next]_vars /\ WF_vars(Next /\ UNCHANGED failed)

-----------------------------------------------------------------------------
(* Properties; disk does not change while findpng runs *)

TypeOK ==
  /\ disk \in [Files -> Contents]
  /\ find \in {"start", "walk", "returned", "exited"}
  /\ stack \in Seq(Dirs)
  /\ Opened \subseteq Dirs
  /\ \A d \in Opened : left[d] \subseteq Entries(d)
  /\ gave_up \subseteq Opened
  /\ printed \in Seq(Files)
  /\ none \in BOOLEAN

(* No path is printed twice, however the directories are nested, and none  *)
(* of a file that has 8 bytes other than the signature.                    *)
PrintedOnce ==
  /\ \A j, k \in 1 .. Len(printed) : printed[j] = printed[k] => j = k
  /\ \A f \in Printed : disk[f].signature # "other"

(* When main returns, nothing was passed over: a directory that was opened *)
(* and not given up has had each PNG file of it printed and each directory *)
(* in it opened; "No PNG file found" means that none was printed.          *)
NothingSkipped ==
  find = "returned" =>
    /\ Root \in Opened
    /\ \A d \in Opened \ gave_up : \A e \in Entries(d) :
         /\ e \in Dirs => e \in Opened
         /\ e \in Files /\ disk[e].signature = "png" => e \in Printed
    /\ none <=> Printed = {}

(* The walk ends. *)
FindFinishes == <>FindEnded

=============================================================================
