------------------------------ MODULE PngCommands ------------------------------
(***************************************************************************)
(* The commands together.  Version 1: findpng prints the PNG files below a *)
(* directory, and catpng is called with what it printed; the files may     *)
(* change from then on.  Version 2: catpng gets the fragments paster has   *)
(* in memory.                                                              *)
(***************************************************************************)
EXTENDS Catpng

CONSTANTS
  Root, Dirs, Parent, MaxFaults,  \* of FindPng; its files are Names
  Fragments,   \* the fragments in the order of their numbers
  MaxChanges   \* how many times a file may change

ASSUME CommandsAssumption ==
  /\ Fragments \in Seq(Names)
  /\ Fragments # <<>>
  /\ MaxChanges \in Nat

VARIABLES find, stack, left, gave_up, printed, none, failed, changes

findvars == <<find, stack, left, gave_up, printed, none, failed>>

vars == <<catvars, findvars, changes>>

F == INSTANCE FindPng WITH Files <- Names

ASSUME FindAssumption == F!TreeAssumption

Init ==
  /\ F!Init
  /\ CatInit
  /\ changes = 0

FindStep ==
  /\ version = 1
  /\ F!Next
  /\ UNCHANGED <<catvars, changes>>

(* Version 1: the user passes on what findpng printed. *)
CallFiles ==
  /\ version = 1
  /\ find = "returned"
  /\ Call(printed)
  /\ UNCHANGED <<findvars, changes>>

CallFragments ==
  /\ version = 2
  /\ Call(Fragments)
  /\ UNCHANGED <<findvars, changes>>

CatStep == catpng /\ UNCHANGED <<findvars, changes>>

(* Somebody writes to a file. *)
Change(f, c) ==
  /\ version = 1
  /\ find = "returned"
  /\ cat \in {"idle", "check", "append"}
  /\ changes < MaxChanges
  /\ changes' = changes + 1
  /\ disk' = [disk EXCEPT ![f] = c]
  /\ UNCHANGED <<version, cat, args, i, width, new_height, checked, size, inf, inf_len,
                 overrun, held, image, ret, cat_failed, findvars>>

Work == FindStep \/ CallFiles \/ CallFragments \/ CatStep

Ended == CatEnded \/ (version = 1 /\ find = "exited")

Over == Ended /\ UNCHANGED vars

Next == Work \/ (\E f \in Names, c \in Contents : Change(f, c)) \/ Over

(* The commands go on while they can; that something fails is never due. *)
Spec == Init /\ [][Next]_vars /\ WF_vars(Work /\ UNCHANGED <<failed, cat_failed>>)

-----------------------------------------------------------------------------
(* Properties *)

TypeOK == CatTypeOK /\ F!TypeOK /\ changes \in 0 .. MaxChanges

(* findpng prints no path twice and none of a file with another signature, *)
(* whatever faults it meets.                                               *)
PrintedOnce == changes = 0 => F!PrintedOnce

(* When findpng returns, every directory it did not give up has had all    *)
(* its PNG files printed and its directories opened.                       *)
NothingSkipped == changes = 0 => F!NothingSkipped

(* The sum of the first n numbers of h, for each n. *)
Sums(h) == LET t[n \in 0 .. Len(h)] == IF n = 0 THEN 0 ELSE t[n - 1] + h[n] IN t

Total(h) == Sums(h)[Len(h)]

Heights(s) == [j \in 1 .. Len(s) |-> s[j].height]
ScanLines(s) == [j \in 1 .. Len(s) |-> Inflated(s[j])]
Segments(rows) == [j \in 1 .. Len(rows) |-> rows[j].contents]

(* 8-bit RGBA images of the same width *)
AllRgba(s) ==
  \A j \in 1 .. Len(s) : s[j].ihdr /\ s[j].pixel = 4 /\ s[j].width = s[1].width

(* ... whose scan lines together can be counted in an unsigned int *)
Rgba8(s) == AllRgba(s) /\ Total(ScanLines(s)) < U32

(* What the second loop reads is what the first one read. *)
NotChanged ==
  changes = 0 /\ cat \notin {"idle", "check"}

(* The scan lines of such images fit in inf_IDAT_buffer: it is allocated   *)
(* from the headers the first loop read, and filled by mem_inf, which does *)
(* not know its size, in the second.                                       *)
InfFits == NotChanged /\ Rgba8(checked) => "inf" \notin overrun

(* The header of an image made of such files describes its data: height    *)
(* lines of width pixels with 4 bytes each and a filter byte.  An image    *)
(* cut by a short write has the same header and fewer lines.               *)
HeaderTells ==
  NotChanged /\ Rgba8(checked) /\ image # NoImage =>
    /\ image.height = Total(Heights(checked))
    /\ image.complete => Total(ScanLines(Segments(image.rows))) = image.height * (image.width * image.pixel + 1)

(* Both commands come to an end. *)
Finishes == <>Ended

=============================================================================
