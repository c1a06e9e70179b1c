-------------------------- MODULE PngCommandsProofs --------------------------
(***************************************************************************)
(* Theorems about PngCommands: what findpng prints and what catpng makes   *)
(* of it, for any tree, any contents, any number of faults and changes.    *)
(*                                                                         *)
(* FindInv says what has become of the entries of each opened directory:   *)
(* those it has not returned yet are neither opened nor printed, those it  *)
(* has returned are, unless it was given up; since an entry is of one      *)
(* directory it is met once.  CatInv says what the two loops of catpng     *)
(* have read, copied and allocated when they are at i; SizeInv, how the    *)
(* sums they keep in 32 bits go together with what they read: the sizes    *)
(* are those of the data if the files are the same for both loops.         *)
(***************************************************************************)
EXTENDS PngCommands, SequenceTheorems, WellFoundedInduction, TLAPS

-----------------------------------------------------------------------------
(* findpng *)

(* Where main, the loops and their directories are. *)
FindLoops ==
  /\ find = "start" => F!Opened = {} /\ stack = <<>> /\ printed = <<>>
  /\ find \in {"walk", "returned"} => Root \in F!Opened
  /\ find = "returned" => stack = <<>> /\ (none <=> printed = <<>>)
  /\ \A k \in 1 .. Len(stack) : stack[k] \in F!Opened
  /\ \A d \in F!Opened :
       left[d] = {} \/ d \in gave_up \/ \E k \in 1 .. Len(stack) : stack[k] = d

(* What was opened or printed was returned by readdir before. *)
MetOnce ==
  /\ \A e \in DOMAIN Parent : e \in F!Opened \cup F!Printed =>
       Parent[e] \in F!Opened /\ e \notin left[Parent[e]]
  /\ \A j, k \in 1 .. Len(printed) : printed[j] = printed[k] => j = k

(* What was returned by readdir was opened, or printed if it is a PNG. *)
Followed ==
  \A d \in F!Opened \ gave_up : \A e \in F!Entries(d) \ left[d] :
    /\ e \in Dirs => e \in F!Opened
    /\ e \in Names /\ changes = 0 /\ disk[e].signature = "png" => e \in F!Printed

NoOther == changes = 0 => \A f \in F!Printed : disk[f].signature # "other"

FindInv == F!TypeOK /\ changes \in Nat /\ FindLoops /\ MetOnce /\ Followed /\ NoOther

(* The tree is that of FindPng. *)
LEMMA Tree ==
  /\ Root \in Dirs /\ Root \notin DOMAIN Parent
  /\ \A e \in DOMAIN Parent : Parent[e] \in Dirs /\ (e \in Dirs \/ e \in Names)
  /\ \A e : e \in Dirs => e \notin Names
  BY FindAssumption DEF F!TreeAssumption

(* An entry that readdir returns is new. *)
LEMMA Fresh ==
  ASSUME FindInv, NEW e, F!Readdir(e)
  PROVE  /\ stack \in Seq(Dirs) /\ Len(stack) \in Nat /\ Len(stack) >= 1
         /\ F!Top \in F!Opened /\ F!Top \in Dirs
         /\ e \in DOMAIN Parent /\ Parent[e] = F!Top /\ e \in left[F!Top]
         /\ e \notin F!Opened /\ e \notin F!Printed
<1>1. stack \in Seq(Dirs) /\ stack # <<>>
  BY DEF FindInv, F!TypeOK, F!Readdir
<1>2. Len(stack) \in Nat /\ Len(stack) >= 1
  BY <1>1, EmptySeq
<1>3. F!Top \in F!Opened /\ F!Top \in Dirs
  BY <1>1, <1>2 DEF F!Top, FindInv, FindLoops, F!TypeOK
<1>4. e \in F!Entries(F!Top) /\ e \in left[F!Top]
  BY <1>3 DEF F!Readdir, FindInv, F!TypeOK
<1>5. e \in DOMAIN Parent /\ Parent[e] = F!Top
  BY <1>4 DEF F!Entries
<1> QED BY <1>1, <1>2, <1>3, <1>4, <1>5 DEF FindInv, MetOnce

(* The entry is taken from the innermost directory, and from no other. *)
LEMMA TakenFrom ==
  ASSUME FindInv, NEW e, F!Readdir(e)
  PROVE  LET rest == F!Without(e) IN
         /\ DOMAIN rest = F!Opened
         /\ \A d \in F!Opened : rest[d] = IF d = F!Top THEN left[d] \ {e} ELSE left[d]
BY Fresh DEF F!Without, F!Opened

(* A directory is opened whose entries nobody has met. *)
LEMMA OpendirInv ==
  ASSUME FindInv, NEW d \in Dirs, NEW rest, F!Opendir(d, rest),
         DOMAIN rest = F!Opened,
         d \notin F!Opened,
         \A x \in F!Opened :
           rest[x] = left[x] \/ (d \in DOMAIN Parent /\ Parent[d] = x /\ rest[x] = left[x] \ {d}),
         d = Root \/ (d \in DOMAIN Parent /\ Parent[d] \in F!Opened /\ d \notin rest[Parent[d]]),
         find' = "walk", d = Root \/ Root \in F!Opened,
         UNCHANGED <<disk, gave_up, printed, none, changes>>
  PROVE  FindInv'
<1>1. /\ stack \in Seq(Dirs) /\ stack' = Append(stack, d) /\ stack' \in Seq(Dirs)
      /\ Len(stack') = Len(stack) + 1 /\ Len(stack) \in Nat
      /\ \A k \in 1 .. Len(stack) : stack'[k] = stack[k]
      /\ stack'[Len(stack) + 1] = d
  BY DEF FindInv, F!TypeOK, F!Opendir
<1>2. /\ F!Opened' = F!Opened \cup {d}
      /\ left'[d] = F!Entries(d)
      /\ \A x \in F!Opened : left'[x] = rest[x] /\ left'[x] \subseteq left[x]
  BY DEF F!Opendir, F!Opened
<1>3. F!Printed' = F!Printed
  BY DEF F!Printed
<1>4. F!TypeOK'
  BY <1>1, <1>2 DEF FindInv, F!TypeOK, F!Opened
<1>5. FindLoops'
  <2>1. \A k \in 1 .. Len(stack') : stack'[k] \in F!Opened'
    BY <1>1, <1>2 DEF FindInv, FindLoops
  <2>2. ASSUME NEW x \in F!Opened'
        PROVE  left'[x] = {} \/ x \in gave_up' \/ \E k \in 1 .. Len(stack') : stack'[k] = x
    <3>1. CASE x = d
      BY <1>1, <3>1
    <3>2. CASE x # d
      <4>1. x \in F!Opened /\ (left[x] = {} => left'[x] = {})
        BY <1>2, <3>2
      <4> QED BY <1>1, <4>1 DEF FindInv, FindLoops
    <3> QED BY <3>1, <3>2
  <2>3. Root \in F!Opened'
    BY <1>2
  <2> QED BY <2>1, <2>2, <2>3 DEF FindLoops
<1>6. MetOnce'
  <2> SUFFICES ASSUME NEW e \in DOMAIN Parent, e \in F!Opened' \cup F!Printed'
               PROVE  Parent[e] \in F!Opened' /\ e \notin left'[Parent[e]]
    BY DEF MetOnce, FindInv
  <2>1. CASE e = d
    BY <1>2, <2>1, Tree
  <2>2. CASE e # d
    BY <1>2, <1>3, <2>2 DEF MetOnce, FindInv
  <2> QED BY <2>1, <2>2
<1>7. Followed'
  <2> SUFFICES ASSUME NEW x \in F!Opened' \ gave_up, NEW e \in F!Entries(x) \ left'[x]
               PROVE  /\ e \in Dirs => e \in F!Opened'
                      /\ e \in Names /\ changes = 0 /\ disk[e].signature = "png" =>
                           e \in F!Printed'
    BY DEF Followed, F!Entries
  <2>1. x # d /\ x \in F!Opened
    BY <1>2
  <2>2. CASE e = d
    BY <1>2, <2>2, Tree
  <2>3. CASE e # d
    BY <1>2, <1>3, <2>1, <2>3 DEF Followed, FindInv
  <2> QED BY <2>2, <2>3
<1>8. NoOther'
  BY <1>3 DEF NoOther, FindInv
<1> QED BY <1>4, <1>5, <1>6, <1>7, <1>8 DEF FindInv

(* main opens the root. *)
LEMMA OpenRootInv ==
  ASSUME FindInv, F!OpenRoot, UNCHANGED changes
  PROVE  FindInv'
<1>1. F!Opened = {} /\ Root \in Dirs
  BY Tree DEF FindInv, FindLoops, F!OpenRoot
<1> QED BY <1>1, OpendirInv DEF F!OpenRoot, F!Opened

(* findpng opens a directory it has met. *)
LEMMA EnterDirInv ==
  ASSUME FindInv, NEW e, F!EnterDir(e), UNCHANGED changes
  PROVE  FindInv'
<1>1. e \in Dirs /\ F!Readdir(e) /\ find = "walk" /\ find' = "walk"
  BY DEF F!EnterDir, F!Readdir
<1> DEFINE rest == F!Without(e)
<1>2. /\ DOMAIN rest = F!Opened
      /\ \A d \in F!Opened : rest[d] = IF d = F!Top THEN left[d] \ {e} ELSE left[d]
  BY <1>1, TakenFrom
<1>3. F!Opendir(e, rest)
  BY DEF F!EnterDir, F!Recursion
<1>4. Root \in F!Opened
  BY <1>1 DEF FindInv, FindLoops
<1> HIDE DEF rest
<1>5. e \in DOMAIN Parent /\ Parent[e] = F!Top /\ F!Top \in F!Opened /\ e \notin F!Opened
  BY <1>1, Fresh
<1> QED BY <1>1, <1>2, <1>3, <1>4, <1>5, OpendirInv DEF F!EnterDir

(* A file is taken from its directory, and printed or passed over. *)
LEMMA ReadFileInv ==
  ASSUME FindInv, NEW e, F!ReadFile(e), UNCHANGED changes
  PROVE  FindInv'
<1>1. /\ e \in Names /\ F!Readdir(e) /\ left' = F!Without(e)
      /\ UNCHANGED <<disk, find, stack, gave_up, none, changes>>
      /\ find = "walk"
  BY DEF F!ReadFile, F!Readdir
<1>2. /\ F!Opened' = F!Opened
      /\ \A d \in F!Opened : left'[d] = IF d = F!Top THEN left[d] \ {e} ELSE left[d]
  BY <1>1, TakenFrom DEF F!Opened
<1>3. /\ e \in DOMAIN Parent /\ Parent[e] = F!Top /\ F!Top \in F!Opened
      /\ e \notin F!Opened /\ e \notin F!Printed
      /\ stack \in Seq(Dirs) /\ Len(stack) \in Nat /\ Len(stack) >= 1
  BY <1>1, Fresh
<1>4. PICK b \in F!is_png(disk[e]) : printed' = IF b THEN Append(printed, e) ELSE printed
  BY DEF F!ReadFile, F!PrintIfPng
<1>5. /\ disk[e].signature = "png" => b = TRUE
      /\ disk[e].signature = "other" => b = FALSE
  BY <1>4 DEF F!is_png
<1>6. /\ printed \in Seq(Names) /\ Len(printed) \in Nat
      /\ \A j \in 1 .. Len(printed) : printed[j] \in F!Printed
  BY DEF FindInv, F!TypeOK, F!Printed
<1>7. /\ printed' \in Seq(Names)
      /\ F!Printed' = F!Printed \cup (IF b THEN {e} ELSE {})
      /\ \A j, k \in 1 .. Len(printed') : printed'[j] = printed'[k] => j = k
  <2>1. CASE b
    <3>1. /\ printed' \in Seq(Names) /\ Len(printed') = Len(printed) + 1
          /\ \A j \in 1 .. Len(printed) : printed'[j] = printed[j]
          /\ printed'[Len(printed) + 1] = e
      <4>1. printed' = Append(printed, e) /\ e \in Names /\ printed \in Seq(Names)
        BY <1>1, <1>4, <1>6, <2>1
      <4> QED BY <4>1, AppendProperties
    <3>2. F!Printed' = F!Printed \cup {e}
      BY <1>6, <3>1 DEF F!Printed
    <3>3. \A j, k \in 1 .. Len(printed') : printed'[j] = printed'[k] => j = k
      BY <1>3, <1>6, <3>1 DEF FindInv, MetOnce
    <3> QED BY <2>1, <3>1, <3>2, <3>3
  <2>2. CASE ~b
    BY <1>4, <1>6, <2>2 DEF F!Printed, FindInv, MetOnce
  <2> QED BY <2>1, <2>2
<1>8. F!TypeOK'
  BY <1>1, <1>2, <1>7 DEF FindInv, F!TypeOK
<1>9. FindLoops'
  BY <1>1, <1>2 DEF FindInv, FindLoops
<1>10. MetOnce'
  BY <1>2, <1>3, <1>7 DEF FindInv, MetOnce
<1>11. Followed'
  <2> SUFFICES ASSUME NEW d \in F!Opened \ gave_up, NEW x \in F!Entries(d) \ left'[d]
               PROVE  /\ x \in Dirs => x \in F!Opened
                      /\ x \in Names /\ changes = 0 /\ disk[x].signature = "png" =>
                           x \in F!Printed'
    BY <1>1, <1>2 DEF Followed, F!Entries
  <2>1. CASE x = e
    BY <1>1, <1>5, <1>7, <2>1, Tree
  <2>2. CASE x # e
    BY <1>2, <1>7, <2>2 DEF Followed, FindInv
  <2> QED BY <2>1, <2>2
<1>12. NoOther'
  BY <1>1, <1>5, <1>7 DEF NoOther, FindInv
<1> QED BY <1>1, <1>8, <1>9, <1>10, <1>11, <1>12 DEF FindInv

(* A loop that is left. *)
LEMMA Popped ==
  ASSUME FindInv, stack # <<>>, stack' = SubSeq(stack, 1, Len(stack) - 1)
  PROVE  /\ stack' \in Seq(Dirs)
         /\ \A k \in 1 .. Len(stack') : stack'[k] \in F!Opened
         /\ \A d : (\E k \in 1 .. Len(stack) : stack[k] = d)
                     => d = F!Top \/ \E k \in 1 .. Len(stack') : stack'[k] = d
<1>1. stack \in Seq(Dirs) /\ Len(stack) \in Nat /\ Len(stack) >= 1
  BY EmptySeq DEF FindInv, F!TypeOK
<1>2. PICK n \in Nat : n + 1 = Len(stack)
  BY <1>1
<1>3. stack' = SubSeq(stack, 1, n)
  BY <1>2
<1>4. /\ stack' \in Seq(Dirs) /\ Len(stack') = n
      /\ \A k \in 1 .. n : stack'[k] = stack[k]
  <2>1. \A k \in 1 .. n : stack[k] \in Dirs
    BY <1>1, <1>2, ElementOfSeq
  <2>2. /\ SubSeq(stack, 1, n) \in Seq(Dirs)
        /\ Len(SubSeq(stack, 1, n)) = IF 1 <= n THEN n - 1 + 1 ELSE 0
        /\ \A k \in 1 .. n - 1 + 1 : SubSeq(stack, 1, n)[k] = stack[1 + k - 1]
    BY <2>1, SubSeqProperties
  <2>3. n = IF 1 <= n THEN n - 1 + 1 ELSE 0
    OBVIOUS
  <2> QED BY <1>3, <2>2, <2>3
<1>5. \A k \in 1 .. Len(stack) : k = Len(stack) \/ k \in 1 .. n
  BY <1>2
<1> QED BY <1>1, <1>2, <1>4, <1>5 DEF F!Top, FindInv, FindLoops

(* readdir returned NULL: nothing is left of the directory. *)
LEMMA ClosedirInv ==
  ASSUME FindInv, F!Closedir, UNCHANGED changes
  PROVE  FindInv'
<1>1. /\ stack # <<>> /\ left[F!Top] = {} /\ find = "walk"
      /\ stack' = SubSeq(stack, 1, Len(stack) - 1)
      /\ UNCHANGED <<disk, find, left, gave_up, printed, none, changes>>
  BY DEF F!Closedir, F!LoopEnds, F!LeaveLoop
<1>2. F!Opened' = F!Opened /\ F!Printed' = F!Printed
  BY <1>1 DEF F!Opened, F!Printed
<1>3. F!TypeOK'
  BY <1>1, <1>2, Popped DEF FindInv, F!TypeOK
<1>4. FindLoops'
  BY <1>1, <1>2, Popped DEF FindInv, FindLoops
<1>5. MetOnce' /\ Followed' /\ NoOther'
  BY <1>1, <1>2 DEF FindInv, MetOnce, Followed, NoOther, F!Entries
<1> QED BY <1>1, <1>3, <1>4, <1>5 DEF FindInv

(* The loop is left early, and its directory has been given up. *)
LEMMA FopenFailsInv ==
  ASSUME FindInv, NEW e, F!FopenFails(e), UNCHANGED changes
  PROVE  FindInv'
<1>1. /\ F!Readdir(e) /\ left' = F!Without(e)
      /\ gave_up' = gave_up \cup {F!Top} /\ find = "walk"
      /\ stack # <<>> /\ stack' = SubSeq(stack, 1, Len(stack) - 1)
      /\ UNCHANGED <<disk, find, printed, none, changes>>
  BY DEF F!FopenFails, F!GiveUp, F!Readdir
<1>2. /\ F!Opened' = F!Opened /\ F!Printed' = F!Printed
      /\ \A d \in F!Opened : left'[d] = IF d = F!Top THEN left[d] \ {e} ELSE left[d]
  BY <1>1, TakenFrom DEF F!Opened, F!Printed
<1>3. F!Top \in F!Opened
  BY <1>1, Fresh
<1>4. F!TypeOK'
  BY <1>1, <1>2, <1>3, Popped DEF FindInv, F!TypeOK
<1>5. FindLoops'
  BY <1>1, <1>2, Popped DEF FindInv, FindLoops
<1>6. MetOnce' /\ NoOther'
  BY <1>1, <1>2 DEF FindInv, MetOnce, NoOther
<1>7. Followed'
  <2> SUFFICES ASSUME NEW d \in F!Opened \ gave_up', NEW x \in F!Entries(d) \ left'[d]
               PROVE  /\ x \in Dirs => x \in F!Opened
                      /\ x \in Names /\ changes = 0 /\ disk[x].signature = "png" =>
                           x \in F!Printed
    BY <1>1, <1>2 DEF Followed, F!Entries
  <2>1. d # F!Top /\ d \in F!Opened \ gave_up
    BY <1>1
  <2> QED BY <1>2, <2>1 DEF Followed, FindInv
<1> QED BY <1>1, <1>4, <1>5, <1>6, <1>7 DEF FindInv

(* The steps that change what is printed or left of no directory. *)
LEMMA FindRests ==
  ASSUME FindInv, UNCHANGED <<stack, left, gave_up, printed>>,
         disk' \in [Names -> Contents], changes' \in Nat,
         changes' = 0 => changes = 0 /\ disk' = disk,
         \/ UNCHANGED <<find, none>>
         \/ find' = "exited" /\ none' = none
         \/ /\ find = "walk" /\ find' = "returned" /\ stack = <<>>
            /\ none' = (printed = <<>>)
  PROVE  FindInv'
<1>1. F!Opened' = F!Opened /\ F!Printed' = F!Printed
  BY DEF F!Opened, F!Printed
<1>2. F!TypeOK'
  BY <1>1 DEF FindInv, F!TypeOK
<1>3. FindLoops'
  <2>1. find' = "returned" => stack' = <<>>
    BY DEF FindInv, FindLoops
  <2>2. find' = "returned" => (none' <=> printed' = <<>>)
    <3>1. CASE UNCHANGED <<find, none>>
      BY <3>1, Zenon DEF FindInv, FindLoops
    <3>2. CASE find' = "exited"
      BY <3>2
    <3>3. CASE none' = (printed = <<>>)
      BY <3>3, Zenon
    <3> QED BY <3>1, <3>2, <3>3
  <2>3. find' = "start" => find = "start"
    OBVIOUS
  <2>4. find' \in {"walk", "returned"} => find \in {"walk", "returned"}
    OBVIOUS
  <2>5. /\ find' = "start" => F!Opened' = {} /\ stack' = <<>> /\ printed' = <<>>
        /\ find' \in {"walk", "returned"} => Root \in F!Opened'
    BY <1>1, <2>3, <2>4 DEF FindInv, FindLoops
  <2>6. /\ \A k \in 1 .. Len(stack') : stack'[k] \in F!Opened'
        /\ \A d \in F!Opened' :
             left'[d] = {} \/ d \in gave_up' \/ \E k \in 1 .. Len(stack') : stack'[k] = d
    BY <1>1 DEF FindInv, FindLoops
  <2> QED BY <2>1, <2>2, <2>5, <2>6, Zenon DEF FindLoops
<1>4. MetOnce'
  BY <1>1 DEF FindInv, MetOnce
<1>5. Followed'
  BY <1>1 DEF FindInv, Followed, F!Entries
<1>6. NoOther'
  BY <1>1 DEF FindInv, NoOther
<1> QED BY <1>2, <1>3, <1>4, <1>5, <1>6 DEF FindInv

-----------------------------------------------------------------------------
(* catpng *)

(* What is allocated and open between the steps. *)
HeldAt ==
  /\ cat \in {"idle", "check", "returned"} => held = {}
  /\ cat = "append" => held \subseteq {"inf", "def"}
  /\ cat \in {"deflate", "write", "free"} => held \subseteq {"inf", "def"} \cup Chunks

(* What the first loop has read. *)
CheckedAt ==
  /\ cat = "idle" => args = <<>> /\ checked = <<>> /\ i = 1 /\ new_height = 0
  /\ cat = "check" => Len(checked) = i - 1
  /\ cat \in {"append", "deflate", "write", "free"} => Len(checked) = Len(args)
  /\ cat \notin {"idle", "returned", "crashed"} => args # <<>>
  /\ version = 1 => \A j \in 1 .. Len(checked) :
       checked[j].signature # "other" /\ checked[j].width = width
  /\ version = 2 /\ checked # <<>> /\ checked[1].ihdr => width = checked[1].width

(* The data of each of the arguments that the second loop has been at. *)
CopiedAll ==
  \A j \in 1 .. Len(inf) : inf[j].name = args[j] /\ inf[j].contents.whole

CopiedAt ==
  /\ cat \in {"idle", "check"} => inf = <<>> /\ inf_len = 0 /\ overrun = {}
  /\ cat = "append" => Len(inf) = i - 1 /\ CopiedAll
  /\ cat \in {"deflate", "write", "free"} => Len(inf) = Len(args) /\ CopiedAll

(* all.png is written last and from everything. *)
ImageAt ==
  image # NoImage =>
    /\ cat \in {"free", "returned", "crashed"}
    /\ \/ image = Image(inf, TRUE)
       \/ \E n \in 0 .. Len(inf) : image = Image(SubSeq(inf, 1, n), FALSE)
    /\ Len(checked) = Len(args) /\ args # <<>> /\ Len(inf) = Len(args) /\ CopiedAll

(* As long as no file has changed, both loops have read the same. *)
ReadSame ==
  changes = 0 =>
    /\ \A j \in 1 .. Len(checked) : checked[j] = disk[args[j]]
    /\ \A j \in 1 .. Len(inf) : inf[j].contents = disk[args[j]]

(* What the first loop has added up, and what that says of the scan lines. *)
HeightSum ==
  AllRgba(checked) =>
    /\ Total(Heights(checked)) < U32 => new_height = Total(Heights(checked))
    /\ Total(ScanLines(checked)) = Total(Heights(checked)) * (4 * width + 1)

(* The buffer has room for all the scan lines, and is filled up to those   *)
(* of the images that the second loop has been at.                         *)
Filled ==
  /\ cat = "append" /\ Rgba8(checked) => size = Total(ScanLines(checked))
  /\ cat = "append" /\ changes = 0 => inf_len = Sums(ScanLines(checked))[Len(inf)]
  /\ changes = 0 /\ Rgba8(checked) => "inf" \notin overrun

CatInv == CatTypeOK /\ HeldAt /\ CheckedAt /\ CopiedAt /\ ImageAt

SizeInv == ReadSame /\ HeightSum /\ Filled

(* The front of a sequence. *)
LEMMA FrontIs ==
  ASSUME NEW S, NEW s \in Seq(S), NEW n \in 0 .. Len(s)
  PROVE  /\ Len(SubSeq(s, 1, n)) = n
         /\ \A j \in 1 .. n : j \in 1 .. Len(s) /\ SubSeq(s, 1, n)[j] = s[j]
<1>1. \A j \in 1 .. n : s[j] \in S
  BY ElementOfSeq
<1>2. /\ Len(SubSeq(s, 1, n)) = IF 1 <= n THEN n - 1 + 1 ELSE 0
      /\ \A j \in 1 .. n - 1 + 1 : SubSeq(s, 1, n)[j] = s[1 + j - 1]
  BY <1>1, SubSeqProperties
<1> QED BY <1>2

(* The argument at i. *)
LEMMA FileTyped ==
  ASSUME CatTypeOK, i <= Len(args)
  PROVE  /\ args[i] \in Names /\ File \in Contents
         /\ File.signature \in Signatures /\ File.ihdr \in BOOLEAN /\ File.whole \in BOOLEAN
         /\ File.width \in Nat /\ File.height \in Nat /\ File.pixel \in Nat
         /\ Inflated(File) \in Nat
<1>1. i \in 1 .. Len(args) /\ args \in Seq(Names)
  BY DEF CatTypeOK
<1>2. args[i] \in Names
  BY <1>1, ElementOfSeq
<1>3. File \in Contents
  BY <1>2 DEF CatTypeOK, File
<1>4. IsContents(File)
  BY <1>3, CatpngAssumption
<1>5. \A h, q, w \in Nat : h * (q * w + 1) \in Nat
  OBVIOUS
<1>6. Inflated(File) \in Nat
  BY <1>4, <1>5 DEF IsContents, Inflated
<1> QED BY <1>2, <1>3, <1>4, <1>6 DEF IsContents

(* unsigned int wraps. *)
LEMMA Wraps == \A n \in Nat : n % U32 \in 0 .. U32 - 1 /\ (n < U32 => n % U32 = n)
  BY CatpngAssumption

(* main, or paster, calls catpng. *)
LEMMA CallInv ==
  ASSUME CatInv, NEW a \in Seq(Names), version = 2 => a # <<>>, Call(a)
  PROVE  CatInv'
<1>1. /\ cat = "idle" /\ args' = a
      /\ UNCHANGED <<version, disk, i, width, new_height, checked, size, inf, inf_len,
                     overrun, image, cat_failed>>
      /\ held = {} /\ checked = <<>> /\ inf = <<>> /\ i = 1 /\ image = NoImage
  BY DEF Call, CatInv, HeldAt, CheckedAt, CopiedAt, ImageAt
<1>2. \/ cat' = "returned" /\ ret' = "fails" /\ held' = held
      \/ cat' = "check" /\ ret' = ret /\ held' = held /\ a # <<>>
  BY DEF Call, Return, CatInv, CatTypeOK
<1>3. Len(a) \in Nat
  BY LenProperties
<1>4. CatTypeOK'
  BY <1>1, <1>2, <1>3 DEF CatInv, CatTypeOK
<1>5. HeldAt'
  BY <1>1, <1>2 DEF HeldAt
<1>6. CheckedAt'
  BY <1>1, <1>2 DEF CatInv, CheckedAt
<1>7. CopiedAt'
  BY <1>1, <1>2 DEF CatInv, CopiedAt
<1>8. ImageAt'
  BY <1>1 DEF ImageAt
<1> QED BY <1>4, <1>5, <1>6, <1>7, <1>8 DEF CatInv

(* An image is counted by the first loop. *)
LEMMA CountInv ==
  ASSUME CatInv, Checks, NEW w \in Nat, NEW h \in Nat, CountImage(w, h),
         \/ version = 1 /\ File.signature # "other" /\ SameWidth /\ w = File.width
         \/ version = 2 /\ (File.ihdr => w = File.width)
  PROVE  CatInv'
<1>1. /\ cat = "check" /\ i \in 1 .. Len(args) /\ File \in Contents
      /\ UNCHANGED <<version, disk, cat, args, size, inf, inf_len, overrun, held, image,
                     ret, cat_failed>>
      /\ i' = i + 1 /\ width' = (IF i = 1 THEN w ELSE width)
      /\ new_height' = (new_height + h) % U32
  BY FileTyped DEF Checks, CountImage, AddHeight, CatInv, CatTypeOK
<1>2. /\ checked \in Seq(Contents) /\ checked' = Append(checked, File)
      /\ Len(checked) = i - 1 /\ i \in Nat
  BY <1>1 DEF CountImage, CatInv, CatTypeOK, CheckedAt
<1>3. /\ checked' \in Seq(Contents) /\ Len(checked') = i
      /\ \A j \in 1 .. i - 1 : checked'[j] = checked[j]
      /\ checked'[i] = File
  BY <1>1, <1>2
<1>4. CatTypeOK'
  <2>1. new_height + h \in Nat
    BY CatpngAssumption DEF CatInv, CatTypeOK
  <2>2. new_height' \in 0 .. U32 - 1
    BY <1>1, <2>1, Wraps
  <2>3. width' \in Nat /\ i' \in 1 .. Len(args) + 1
    BY <1>1, <1>2 DEF CatInv, CatTypeOK
  <2> QED BY <1>1, <1>3, <2>2, <2>3 DEF CatInv, CatTypeOK
<1>5. HeldAt'
  BY <1>1 DEF CatInv, HeldAt
<1>6. CheckedAt'
  <2>1. version' = 1 => \A j \in 1 .. Len(checked') :
          checked'[j].signature # "other" /\ checked'[j].width = width'
    BY <1>1, <1>2, <1>3 DEF CatInv, CheckedAt, SameWidth
  <2>2. version' = 2 /\ checked' # <<>> /\ checked'[1].ihdr => width' = checked'[1].width
    BY <1>1, <1>2, <1>3 DEF CatInv, CheckedAt
  <2> QED BY <1>1, <1>3, <2>1, <2>2 DEF CatInv, CheckedAt
<1>7. CopiedAt' /\ ImageAt'
  BY <1>1 DEF CatInv, CopiedAt, ImageAt
<1> QED BY <1>4, <1>5, <1>6, <1>7 DEF CatInv

(* Faults are counted. *)
LEMMA FaultTyped ==
  ASSUME CatInv, NoFault \/ CatInject("fopen") \/ CatInject("malloc") \/ CatInject("fwrite")
  PROVE  cat_failed' \in [CatFaults -> Nat]
BY DEF NoFault, CatInject, CatInv, CatTypeOK, CatFaults

(* The first loop is left. *)
LEMMA CheckFailsInv ==
  ASSUME CatInv, CheckFails
  PROVE  CatInv'
<1>1. /\ cat = "check" /\ cat' = "returned" /\ ret' = "fails" /\ held' = held
      /\ UNCHANGED <<version, disk, args, i, width, new_height, checked, size, inf,
                     inf_len, overrun, image>>
      /\ NoFault \/ CatInject("fopen") \/ CatInject("malloc")
  BY DEF CheckFails, Checks, Return
<1>2. CatTypeOK'
  BY <1>1, FaultTyped DEF CatInv, CatTypeOK
<1>3. HeldAt' /\ CheckedAt' /\ CopiedAt' /\ ImageAt'
  BY <1>1 DEF CatInv, HeldAt, CheckedAt, CopiedAt, ImageAt
<1> QED BY <1>2, <1>3 DEF CatInv

(* The first loop is at its end. *)
LEMMA AllocInv ==
  ASSUME CatInv, AllocBuffers
  PROVE  CatInv'
<1>1. /\ cat = "check" /\ i > Len(args) /\ cat' = "append" /\ i' = 1
      /\ size' = BufferSize /\ held' \subseteq {"inf", "def"}
      /\ UNCHANGED <<version, disk, args, width, new_height, checked, inf, inf_len, overrun,
                     image, ret>>
      /\ cat_failed' \in [CatFaults -> Nat]
  BY DEF AllocBuffers, CatInject, NoFault, CatInv, CatTypeOK, CatFaults
<1>2. size' \in 0 .. U32 - 1
  <2>1. \A h, w \in Nat : h * (w * 4 + 1) \in Nat
    OBVIOUS
  <2>2. new_height \in Nat /\ width \in Nat
    BY CatpngAssumption DEF CatInv, CatTypeOK
  <2> QED BY <1>1, <2>1, <2>2, Wraps DEF BufferSize
<1>3. Len(args) \in Nat /\ i = Len(args) + 1 /\ Len(checked) = Len(args) /\ inf = <<>>
      /\ inf \in Seq([name : Names, contents : Contents])
  BY <1>1, LenProperties DEF CatInv, CatTypeOK, CheckedAt, CopiedAt
<1>4. CatTypeOK'
  BY <1>1, <1>2, <1>3 DEF CatInv, CatTypeOK
<1>5. HeldAt' /\ CheckedAt' /\ ImageAt'
  BY <1>1, <1>3 DEF CatInv, HeldAt, CheckedAt, ImageAt
<1>6. CopiedAt'
  <2>1. Len(inf) = 0
    BY <1>3, EmptySeq
  <2> QED BY <1>1, <1>3, <2>1 DEF CatInv, CopiedAt, CopiedAll
<1> QED BY <1>4, <1>5, <1>6 DEF CatInv

(* mem_inf appends a segment, complete or not. *)
LEMMA CopyTyped ==
  ASSUME CatInv, Appends, CopyToInf
  PROVE  /\ inf' \in Seq([name : Names, contents : Contents])
         /\ Len(inf') = i
         /\ \A j \in 1 .. i - 1 : inf'[j] = inf[j]
         /\ inf'[i].name = args[i] /\ inf'[i].contents = File
         /\ overrun' \subseteq {"inf", "def"}
<1>1. args[i] \in Names /\ File \in Contents
  BY FileTyped DEF CatInv, Appends
<1>2. PICK x \in [name : Names, contents : Contents] :
        x.name = args[i] /\ x.contents = File /\ inf' = Append(inf, x)
  BY <1>1 DEF CopyToInf
<1>3. inf \in Seq([name : Names, contents : Contents]) /\ Len(inf) = i - 1 /\ i \in Nat
  BY DEF CatInv, CatTypeOK, CopiedAt, Appends
<1>4. /\ inf' \in Seq([name : Names, contents : Contents])
      /\ Len(inf') = i
      /\ \A j \in 1 .. i - 1 : inf'[j] = inf[j]
      /\ inf'[i] = x
  BY <1>2, <1>3
<1>5. overrun' \subseteq {"inf", "def"}
  BY DEF CopyToInf, CatInv, CatTypeOK
<1> QED BY <1>2, <1>4, <1>5

(* The second loop goes on. *)
LEMMA AppendImageInv ==
  ASSUME CatInv, AppendImage
  PROVE  CatInv'
<1>1. /\ Appends /\ CopyToInf /\ File.whole /\ cat = "append"
      /\ i' = i + 1 /\ inf_len' = inf_len + Inflated(File)
      /\ held' \subseteq {"inf", "def"}
      /\ UNCHANGED <<version, disk, cat, args, width, new_height, checked, size, image, ret,
                     cat_failed>>
  BY DEF AppendImage, Appends, Curr, CatInv, HeldAt
<1>2. i \in 1 .. Len(args) /\ Inflated(File) \in Nat
  BY <1>1, FileTyped DEF CatInv, CatTypeOK, Appends
<1>3. CatTypeOK'
  BY <1>1, <1>2, CopyTyped DEF CatInv, CatTypeOK
<1>4. HeldAt' /\ CheckedAt' /\ ImageAt'
  BY <1>1 DEF CatInv, HeldAt, CheckedAt, ImageAt
<1>5. CopiedAt'
  <2>1. \A j \in 1 .. i - 1 : inf[j].name = args[j] /\ inf[j].contents.whole
    BY <1>1 DEF CatInv, CopiedAt, CopiedAll
  <2>2. \A j \in 1 .. i : inf'[j].name = args[j] /\ inf'[j].contents.whole
    BY <1>1, <1>2, <2>1, CopyTyped
  <2> QED BY <1>1, <1>2, <2>2, CopyTyped DEF CopiedAt, CopiedAll
<1> QED BY <1>3, <1>4, <1>5 DEF CatInv

(* The second loop is left. *)
LEMMA AppendEndsInv ==
  ASSUME CatInv, AppendFails \/ AppendStopped
  PROVE  CatInv'
<1>1. /\ Appends /\ cat = "append" /\ cat' = "returned" /\ ret' = "fails" /\ held' = {}
      /\ UNCHANGED <<version, disk, args, i, width, new_height, checked, size, inf_len, image>>
      /\ NoFault \/ CatInject("fopen") \/ CatInject("malloc")
      /\ CopyToInf \/ UNCHANGED <<inf, overrun>>
  <2>1. CASE AppendFails
    <3>1. (held \cup Curr) \ {"inf", "def", "curr", "file"} = {}
      BY <2>1 DEF AppendFails, Appends, Curr, CatInv, HeldAt
    <3> QED BY <2>1, <3>1 DEF AppendFails, GiveUpImage, Appends, Return, NoFault
  <2>2. CASE AppendStopped
    <3>1. held \ {"inf", "def"} = {}
      BY <2>2 DEF AppendStopped, Appends, CatInv, HeldAt
    <3> QED BY <2>2, <3>1 DEF AppendStopped, Appends, Return
  <2> QED BY <2>1, <2>2
<1>2. CatTypeOK'
  <2>1. inf' \in Seq([name : Names, contents : Contents]) /\ overrun' \subseteq {"inf", "def"}
    BY <1>1, CopyTyped DEF CatInv, CatTypeOK
  <2> QED BY <1>1, <2>1, FaultTyped DEF CatInv, CatTypeOK
<1>3. HeldAt' /\ CheckedAt' /\ CopiedAt'
  BY <1>1 DEF CatInv, HeldAt, CheckedAt, CopiedAt
<1>4. ImageAt'
  BY <1>1 DEF CatInv, ImageAt
<1> QED BY <1>2, <1>3, <1>4 DEF CatInv

(* Between the loops and the end. *)
LEMMA BuildInv ==
  ASSUME CatInv, MakeChunks \/ Deflate
  PROVE  CatInv'
<1>1. /\ \/ cat = "append" /\ cat' = "deflate" /\ i > Len(args)
         \/ cat = "deflate" /\ cat' = "write"
      /\ held' \subseteq {"inf", "def"} \cup Chunks
      /\ overrun' \subseteq {"inf", "def"}
      /\ UNCHANGED <<version, disk, args, i, width, new_height, checked, size, inf, inf_len,
                     image, ret, cat_failed>>
  BY DEF MakeChunks, Deflate, CatInv, CatTypeOK, HeldAt
<1>2. CatTypeOK'
  BY <1>1 DEF CatInv, CatTypeOK, Chunks
<1>3. cat = "append" => Len(inf) = Len(args)
  <2>1. Len(args) \in Nat
    BY LenProperties DEF CatInv, CatTypeOK
  <2> QED BY <1>1, <2>1 DEF CatInv, CatTypeOK, CopiedAt
<1>4. HeldAt' /\ CheckedAt' /\ ImageAt'
  BY <1>1 DEF CatInv, HeldAt, CheckedAt, ImageAt
<1>5. CopiedAt'
  BY <1>1, <1>3 DEF CatInv, CopiedAt, CopiedAll
<1> QED BY <1>2, <1>4, <1>5 DEF CatInv

(* all.png is written, or not all of it, or could not be opened. *)
LEMMA WriteInv ==
  ASSUME CatInv, WriteImage
  PROVE  CatInv'
<1>1. /\ cat = "write" /\ cat' = "free"
      /\ \/ image' = Image(inf, TRUE)
         \/ image' = image
         \/ \E n \in 0 .. Len(inf) : image' = Image(SubSeq(inf, 1, n), FALSE)
      /\ NoFault \/ CatInject("fopen") \/ CatInject("malloc") \/ CatInject("fwrite")
      /\ UNCHANGED <<version, disk, args, i, width, new_height, checked, size, inf, inf_len,
                     overrun, held, ret>>
  BY DEF WriteImage
<1>2. CatTypeOK'
  BY <1>1, FaultTyped DEF CatInv, CatTypeOK
<1>3. HeldAt' /\ CheckedAt' /\ CopiedAt'
  BY <1>1 DEF CatInv, HeldAt, CheckedAt, CopiedAt, CopiedAll
<1>4. ImageAt'
  BY <1>1 DEF CatInv, CheckedAt, CopiedAt, ImageAt, Image, CopiedAll
<1> QED BY <1>2, <1>3, <1>4 DEF CatInv

(* catpng ends: with everything freed, or in a crash. *)
LEMMA EndInv ==
  ASSUME CatInv, BuildFails \/ FreeAll \/ Crash
  PROVE  CatInv'
<1>1. /\ cat # "idle" /\ cat # "check"
      /\ \/ cat' = "returned" /\ held' = {} /\ ret' \in {"ok", "fails"}
         \/ cat' = "crashed" /\ held' = held /\ ret' = ret
      /\ NoFault \/ CatInject("fopen") \/ CatInject("malloc")
      /\ UNCHANGED <<version, disk, args, i, width, new_height, checked, size, inf, inf_len,
                     overrun, image>>
  <2>1. CASE BuildFails
    <3>1. held \ ({"inf", "def"} \cup Chunks) = {}
      BY <2>1 DEF BuildFails, CatInv, HeldAt
    <3> QED BY <2>1, <3>1 DEF BuildFails, Return
  <2>2. CASE FreeAll
    <3>1. held \ ({"inf", "def"} \cup Chunks) = {}
      BY <2>2 DEF FreeAll, CatInv, HeldAt
    <3>2. \E r \in {"ok", "fails"} : Return(r, {})
      BY <2>2, <3>1 DEF FreeAll
    <3> QED BY <2>2, <3>2 DEF FreeAll, Return, NoFault
  <2>3. CASE Crash
    BY <2>3 DEF Crash, Appends
  <2> QED BY <2>1, <2>2, <2>3
<1>2. CatTypeOK'
  BY <1>1, FaultTyped DEF CatInv, CatTypeOK
<1>3. HeldAt' /\ CheckedAt' /\ CopiedAt'
  BY <1>1 DEF CatInv, HeldAt, CheckedAt, CopiedAt
<1>4. ImageAt'
  BY <1>1 DEF CatInv, ImageAt, Image, CopiedAll
<1> QED BY <1>2, <1>3, <1>4 DEF CatInv

(* Every step of catpng. *)
LEMMA CatpngInv ==
  ASSUME CatInv, catpng
  PROVE  CatInv'
<1>1. CASE CheckFile
  <2>1. Checks /\ version = 1 /\ SameWidth /\ CountImage(File.width, File.height)
        /\ TRUE \in is_png(File)
    BY <1>1 DEF CheckFile
  <2>2. File.width \in Nat /\ File.height \in Nat
    BY <2>1, FileTyped DEF CatInv, Checks
  <2>3. File.signature # "other"
    BY <2>1 DEF is_png
  <2> QED BY <2>1, <2>2, <2>3, CountInv
<1>2. CASE ReadIhdr
  <2>1. Checks /\ version = 2
    BY <1>2 DEF ReadIhdr
  <2>2. PICK wh \in MemoryIhdr(File) : CountImage(wh[1], wh[2])
    BY <1>2 DEF ReadIhdr
  <2>3. wh[1] \in Nat /\ wh[2] \in Nat /\ (File.ihdr => wh[1] = File.width)
    <3>1. File.width \in Nat /\ File.height \in Nat
      BY <2>1, FileTyped DEF CatInv, Checks
    <3>2. \A d \in Contents : d.width \in Nat /\ d.height \in Nat
      BY CatpngAssumption DEF IsContents
    <3> QED BY <3>1, <3>2 DEF MemoryIhdr
  <2> QED BY <2>1, <2>2, <2>3, CountInv
<1> QED
  BY <1>1, <1>2, CheckFailsInv, AllocInv, AppendImageInv, AppendEndsInv, BuildInv, WriteInv,
     EndInv DEF catpng

(* catpng reads the files and does not change them. *)
LEMMA CatpngReads ==
  ASSUME catpng
  PROVE  UNCHANGED disk
BY DEF catpng, CheckFile, CheckFails, ReadIhdr, CountImage, AllocBuffers, AppendImage,
       AppendFails, AppendStopped, MakeChunks, Deflate, BuildFails, WriteImage, FreeAll, Crash

(* What another command does leaves catpng's state alone, but for the files. *)
LEMMA CatRests ==
  ASSUME CatInv, disk' \in [Names -> Contents],
         UNCHANGED <<version, cat, args, i, width, new_height, checked, size, inf, inf_len,
                     overrun, held, image, ret, cat_failed>>
  PROVE  CatInv'
BY DEF CatInv, CatTypeOK, HeldAt, CheckedAt, CopiedAt, CopiedAll, ImageAt, Image

-----------------------------------------------------------------------------
(* Sums of sequences of numbers *)

(* Induction: a set of numbers that is not empty has a least one. *)
LEMMA NatMin ==
  ASSUME NEW T, T \subseteq Nat, T # {}
  PROVE \E x \in T : \A y \in T : x <= y
<1> DEFINE R == OpToRel(<, Nat)
<1>1. IsWellFoundedOn(R, Nat)
  BY NatLessThanWellFounded, Zenon
<1> HIDE DEF R
<1>2. PICK x \in T : \A y \in T : ~ (<<y, x>> \in R)
  BY <1>1, WFMin
<1>3. ASSUME NEW y \in T PROVE x <= y
  <2>1. x \in Nat /\ y \in Nat
    OBVIOUS
  <2>2. <<y, x>> \in Nat \X Nat
    BY <2>1
  <2>3. <<y, x>> \in R <=> y < x
    BY <2>2, Zenon DEF R, OpToRel
  <2> QED BY <1>2, <2>1, <2>3
<1> QED BY <1>3

(* The recursion of Sums has a solution. *)
LEMMA SumsExist ==
  ASSUME NEW h \in Seq(Nat)
  PROVE  \E t \in [0 .. Len(h) -> Nat] :
           t[0] = 0 /\ \A n \in 1 .. Len(h) : t[n] = t[n - 1] + h[n]
<1>1. Len(h) \in Nat /\ \A n \in 1 .. Len(h) : h[n] \in Nat
  BY LenProperties, ElementOfSeq
<1> DEFINE T == {m \in 0 .. Len(h) :
                   ~ \E t \in [0 .. m -> Nat] :
                       t[0] = 0 /\ \A n \in 1 .. m : t[n] = t[n - 1] + h[n]}
<1>2. SUFFICES T = {}
  <2>1. Len(h) \in 0 .. Len(h)
    BY <1>1
  <2> QED BY <2>1, Zenon
<1>3. SUFFICES ASSUME T # {} PROVE FALSE
  OBVIOUS
<1>4. T \subseteq Nat
  OBVIOUS
<1>5. PICK m \in T : \A k \in T : m <= k
  BY <1>3, <1>4, NatMin
<1>6. m \in 0 .. Len(h) /\ m \in Nat
  BY <1>1
<1>7. CASE m = 0
  <2>1. [k \in 0 .. 0 |-> 0] \in [0 .. m -> Nat]
    BY <1>7
  <2>2. [k \in 0 .. 0 |-> 0][0] = 0
    OBVIOUS
  <2>3. \A n \in 1 .. m : FALSE
    BY <1>7
  <2> QED BY <1>5, <2>1, <2>2, <2>3
<1>8. CASE m # 0
  <2>1. m - 1 \in 0 .. Len(h) /\ m - 1 \in Nat /\ ~(m <= m - 1)
    BY <1>6, <1>8
  <2>2. m - 1 \notin T
    BY <1>5, <2>1
  <2>3. PICK t \in [0 .. m - 1 -> Nat] :
          t[0] = 0 /\ \A n \in 1 .. m - 1 : t[n] = t[n - 1] + h[n]
    BY <2>1, <2>2
  <2> DEFINE u == [k \in 0 .. m |-> IF k = m THEN t[m - 1] + h[m] ELSE t[k]]
  <2>4. u \in [0 .. m -> Nat]
    <3> SUFFICES ASSUME NEW k \in 0 .. m PROVE u[k] \in Nat
      OBVIOUS
    <3>1. m - 1 \in 0 .. m - 1 /\ m \in 1 .. Len(h)
      BY <1>6, <1>8
    <3>2. t[m - 1] \in Nat /\ h[m] \in Nat
      BY <1>1, <3>1
    <3>3. k # m => k \in 0 .. m - 1
      BY <1>6, <1>8
    <3> QED BY <3>2, <3>3
  <2>5. u[0] = 0
    BY <1>6, <1>8, <2>3
  <2>6. \A n \in 1 .. m : u[n] = u[n - 1] + h[n]
    <3> SUFFICES ASSUME NEW n \in 1 .. m PROVE u[n] = u[n - 1] + h[n]
      OBVIOUS
    <3>1. n \in 0 .. m /\ n - 1 \in 0 .. m /\ n - 1 # m
      BY <1>6
    <3>2. u[n - 1] = t[n - 1]
      BY <3>1
    <3>3. CASE n = m
      BY <3>1, <3>2, <3>3
    <3>4. CASE n # m
      <4>1. n \in 1 .. m - 1
        BY <1>6, <3>4
      <4> QED BY <2>3, <3>1, <3>2, <3>4, <4>1
    <3> QED BY <3>3, <3>4
  <2> HIDE DEF u
  <2> QED BY <1>5, <2>4, <2>5, <2>6
<1> QED BY <1>7, <1>8

(* Sums is a solution of its recursion. *)
LEMMA SumsDef ==
  ASSUME NEW h \in Seq(Nat)
  PROVE  Sums(h) = [n \in 0 .. Len(h) |-> IF n = 0 THEN 0 ELSE Sums(h)[n - 1] + h[n]]
<1>1. PICK t \in [0 .. Len(h) -> Nat] :
        t[0] = 0 /\ \A n \in 1 .. Len(h) : t[n] = t[n - 1] + h[n]
  BY SumsExist
<1>2. t = [n \in 0 .. Len(h) |-> IF n = 0 THEN 0 ELSE t[n - 1] + h[n]]
  <2>0. Len(h) \in Nat
    BY LenProperties
  <2>1. \A n \in 0 .. Len(h) : t[n] = IF n = 0 THEN 0 ELSE t[n - 1] + h[n]
    BY <1>1, <2>0
  <2> QED BY <1>1, <2>1
<1>3. Sums(h) = CHOOSE s : s = [n \in 0 .. Len(h) |-> IF n = 0 THEN 0 ELSE s[n - 1] + h[n]]
  BY DEF Sums
<1> QED BY <1>2, <1>3, Zenon

(* The recursion of Sums, step by step. *)
LEMMA SumsStep ==
  ASSUME NEW h \in Seq(Nat)
  PROVE  /\ Sums(h)[0] = 0
         /\ \A n \in 1 .. Len(h) : Sums(h)[n] = Sums(h)[n - 1] + h[n]
         /\ \A n \in 0 .. Len(h) : Sums(h)[n] \in Nat
<1>1. Len(h) \in Nat /\ \A n \in 1 .. Len(h) : h[n] \in Nat
  BY LenProperties, ElementOfSeq
<1>2. PICK s : s = Sums(h)
  OBVIOUS
<1>3. s = [n \in 0 .. Len(h) |-> IF n = 0 THEN 0 ELSE s[n - 1] + h[n]]
  BY <1>2, SumsDef
<1>4. s[0] = 0 /\ \A n \in 1 .. Len(h) : s[n] = s[n - 1] + h[n]
  <2>1. 0 \in 0 .. Len(h) /\ \A n \in 1 .. Len(h) : n \in 0 .. Len(h) /\ n # 0
    BY <1>1
  <2>2. \A n \in 0 .. Len(h) : s[n] = IF n = 0 THEN 0 ELSE s[n - 1] + h[n]
    BY <1>3
  <2> QED BY <2>1, <2>2
<1>5. \A n \in 0 .. Len(h) : s[n] \in Nat
  <2> DEFINE T == {n \in 0 .. Len(h) : s[n] \notin Nat}
  <2> SUFFICES ASSUME T # {} PROVE FALSE
    OBVIOUS
  <2>1. T \subseteq Nat
    OBVIOUS
  <2>2. PICK n \in T : \A k \in T : n <= k
    BY <2>1, NatMin
  <2>3. n \in 0 .. Len(h) /\ n \in Nat /\ s[n] \notin Nat
    OBVIOUS
  <2>4. n # 0
    BY <1>4, <2>3
  <2>5. n \in 1 .. Len(h) /\ n - 1 \in 0 .. Len(h) /\ ~(n <= n - 1)
    BY <1>1, <2>3, <2>4
  <2>6. n - 1 \notin T
    BY <2>2, <2>5
  <2>7. s[n - 1] \in Nat
    BY <2>5, <2>6
  <2>8. s[n] = s[n - 1] + h[n] /\ h[n] \in Nat
    BY <1>1, <1>4, <2>5
  <2> QED BY <2>3, <2>7, <2>8
<1> QED BY <1>2, <1>4, <1>5

(* The sums of a prefix. *)
LEMMA SumsPrefix ==
  ASSUME NEW h \in Seq(Nat), NEW g \in Seq(Nat), Len(h) <= Len(g),
         \A n \in 1 .. Len(h) : g[n] = h[n]
  PROVE  \A n \in 0 .. Len(h) : Sums(g)[n] = Sums(h)[n]
<1>1. Len(h) \in Nat /\ Len(g) \in Nat
  BY LenProperties
<1> DEFINE T == {n \in 0 .. Len(h) : Sums(g)[n] # Sums(h)[n]}
<1> SUFFICES ASSUME T # {} PROVE FALSE
  OBVIOUS
<1>2. T \subseteq Nat
  OBVIOUS
<1>3. PICK n \in T : \A k \in T : n <= k
  BY <1>2, NatMin
<1>4. n \in 0 .. Len(h) /\ n \in Nat /\ Sums(g)[n] # Sums(h)[n]
  OBVIOUS
<1>5. n # 0
  BY <1>4, SumsStep
<1>6. n \in 1 .. Len(h) /\ n \in 1 .. Len(g) /\ n - 1 \in 0 .. Len(h) /\ ~(n <= n - 1)
  BY <1>1, <1>4, <1>5
<1>7. n - 1 \notin T
  BY <1>3, <1>6
<1>8. Sums(g)[n - 1] = Sums(h)[n - 1]
  BY <1>6, <1>7
<1> QED BY <1>4, <1>6, <1>8, SumsStep

(* One more number. *)
LEMMA TotalAppend ==
  ASSUME NEW h \in Seq(Nat), NEW g \in Seq(Nat), Len(g) = Len(h) + 1,
         \A n \in 1 .. Len(h) : g[n] = h[n]
  PROVE  Total(g) = Total(h) + g[Len(g)] /\ Total(h) \in Nat /\ g[Len(g)] \in Nat
<1>1. Len(h) \in Nat /\ Len(g) \in Nat /\ Len(g) \in 1 .. Len(g)
  BY LenProperties
<1>2. Sums(g)[Len(g)] = Sums(g)[Len(g) - 1] + g[Len(g)]
  BY <1>1, SumsStep
<1>3. Sums(g)[Len(h)] = Sums(h)[Len(h)]
  BY <1>1, SumsPrefix
<1>4. g[Len(g)] \in Nat
  BY <1>1, ElementOfSeq
<1>5. Sums(h)[Len(h)] \in Nat
  BY <1>1, SumsStep
<1> QED BY <1>1, <1>2, <1>3, <1>4, <1>5 DEF Total

(* A part of the numbers does not add up to more than all of them. *)
LEMMA SumsBounded ==
  ASSUME NEW h \in Seq(Nat), NEW n \in 0 .. Len(h)
  PROVE  Sums(h)[n] <= Total(h)
<1>1. Len(h) \in Nat
  BY LenProperties
<1> DEFINE T == {k \in 0 .. Len(h) : ~(Sums(h)[Len(h) - k] <= Total(h))}
<1>2. SUFFICES T = {}
  <2>1. Len(h) - n \in 0 .. Len(h) /\ Len(h) - (Len(h) - n) = n
    BY <1>1
  <2>2. Len(h) - n \notin T
    BY <1>2
  <2>3. Sums(h)[Len(h) - (Len(h) - n)] <= Total(h)
    BY <2>1, <2>2
  <2> QED BY <2>1, <2>3
<1>3. SUFFICES ASSUME T # {} PROVE FALSE
  OBVIOUS
<1>4. T \subseteq Nat
  OBVIOUS
<1>5. PICK k \in T : \A x \in T : k <= x
  BY <1>3, <1>4, NatMin
<1>6. k \in 0 .. Len(h) /\ k \in Nat /\ ~(Sums(h)[Len(h) - k] <= Total(h))
  OBVIOUS
<1>7. Total(h) \in Nat
  BY <1>1, SumsStep DEF Total
<1>8. k # 0
  BY <1>1, <1>6, <1>7 DEF Total
<1>9. k - 1 \in 0 .. Len(h) /\ ~(k <= k - 1)
  BY <1>1, <1>6, <1>8
<1>10. k - 1 \notin T
  BY <1>5, <1>9
<1>11. Sums(h)[Len(h) - (k - 1)] <= Total(h)
  BY <1>9, <1>10
<1> DEFINE m == Len(h) - (k - 1)
<1>12. m \in 1 .. Len(h) /\ m = Len(h) - (k - 1)
  BY <1>1, <1>6, <1>8
<1> HIDE DEF m
<1>13. m - 1 = Len(h) - k /\ m - 1 \in 0 .. Len(h) /\ m \in 0 .. Len(h)
  BY <1>1, <1>6, <1>12
<1>14. /\ Sums(h)[m] = Sums(h)[m - 1] + h[m]
       /\ Sums(h)[m] \in Nat /\ Sums(h)[m - 1] \in Nat
  BY <1>13, SumsStep
<1>15. h[m] \in Nat
  BY <1>12, ElementOfSeq
<1>16. Sums(h)[m] <= Total(h)
  BY <1>11, <1>12
<1>17. Sums(h)[m - 1] <= Total(h)
  BY <1>7, <1>14, <1>15, <1>16
<1> QED BY <1>6, <1>13, <1>17

-----------------------------------------------------------------------------
(* The sizes in catpng *)

(* The heights and the scan lines of images are numbers. *)
LEMMA ImageNumbers ==
  ASSUME NEW s \in Seq(Contents)
  PROVE  /\ Heights(s) \in Seq(Nat) /\ Len(Heights(s)) = Len(s)
         /\ ScanLines(s) \in Seq(Nat) /\ Len(ScanLines(s)) = Len(s)
         /\ \A j \in 1 .. Len(s) :
              Heights(s)[j] = s[j].height /\ ScanLines(s)[j] = Inflated(s[j])
<1>1. Len(s) \in Nat /\ \A j \in 1 .. Len(s) : s[j] \in Contents
  BY LenProperties, ElementOfSeq
<1>2. \A h, q, w \in Nat : h * (q * w + 1) \in Nat
  OBVIOUS
<1>3. \A c \in Contents : c.height \in Nat /\ Inflated(c) \in Nat
  BY <1>2, CatpngAssumption DEF IsContents, Inflated
<1>4. \A j \in 1 .. Len(s) : s[j].height \in Nat /\ Inflated(s[j]) \in Nat
  BY <1>1, <1>3
<1>5. Heights(s) \in [1 .. Len(s) -> Nat] /\ ScanLines(s) \in [1 .. Len(s) -> Nat]
  BY <1>4 DEF Heights, ScanLines
<1>6. \A f : f \in [1 .. Len(s) -> Nat] => f \in Seq(Nat) /\ Len(f) = Len(s)
  BY <1>1
<1> QED BY <1>5, <1>6 DEF Heights, ScanLines

(* One more image. *)
LEMMA OneMoreImage ==
  ASSUME NEW s \in Seq(Contents), NEW c \in Contents, NEW t, t = Append(s, c)
  PROVE  /\ Total(Heights(t)) = Total(Heights(s)) + c.height
         /\ Total(ScanLines(t)) = Total(ScanLines(s)) + Inflated(c)
         /\ Total(Heights(s)) \in Nat /\ Total(ScanLines(s)) \in Nat
<1>1. /\ t \in Seq(Contents) /\ Len(t) = Len(s) + 1 /\ Len(s) \in Nat
      /\ \A j \in 1 .. Len(s) : t[j] = s[j]
      /\ t[Len(t)] = c
  OBVIOUS
<1>2. \A j \in 1 .. Len(s) : j \in 1 .. Len(t)
  BY <1>1
<1>3. Len(t) \in 1 .. Len(t)
  BY <1>1
<1>4. /\ Heights(s) \in Seq(Nat) /\ Len(Heights(s)) = Len(s)
      /\ ScanLines(s) \in Seq(Nat) /\ Len(ScanLines(s)) = Len(s)
      /\ \A j \in 1 .. Len(s) :
            Heights(s)[j] = s[j].height /\ ScanLines(s)[j] = Inflated(s[j])
  BY ImageNumbers
<1>5. /\ Heights(t) \in Seq(Nat) /\ Len(Heights(t)) = Len(t)
      /\ ScanLines(t) \in Seq(Nat) /\ Len(ScanLines(t)) = Len(t)
      /\ \A j \in 1 .. Len(t) :
            Heights(t)[j] = t[j].height /\ ScanLines(t)[j] = Inflated(t[j])
  BY <1>1, ImageNumbers
<1>6. Total(Heights(t)) = Total(Heights(s)) + c.height /\ Total(Heights(s)) \in Nat
  <2>1. /\ Heights(s) \in Seq(Nat) /\ Heights(t) \in Seq(Nat)
        /\ Len(Heights(t)) = Len(Heights(s)) + 1 /\ Heights(t)[Len(Heights(t))] = c.height
        /\ \A j \in 1 .. Len(Heights(s)) : Heights(t)[j] = Heights(s)[j]
    BY <1>1, <1>2, <1>3, <1>4, <1>5
  <2> QED BY <2>1, TotalAppend
<1>7. Total(ScanLines(t)) = Total(ScanLines(s)) + Inflated(c) /\ Total(ScanLines(s)) \in Nat
  <2>1. /\ ScanLines(s) \in Seq(Nat) /\ ScanLines(t) \in Seq(Nat)
        /\ Len(ScanLines(t)) = Len(ScanLines(s)) + 1
        /\ ScanLines(t)[Len(ScanLines(t))] = Inflated(c)
        /\ \A j \in 1 .. Len(ScanLines(s)) : ScanLines(t)[j] = ScanLines(s)[j]
    BY <1>1, <1>2, <1>3, <1>4, <1>5
  <2> QED BY <2>1, TotalAppend
<1> QED BY <1>6, <1>7

(* No image has no lines. *)
LEMMA NoImages ==
  ASSUME NEW s, s = <<>>
  PROVE  Total(Heights(s)) = 0 /\ Total(ScanLines(s)) = 0
<1>1. s \in Seq(Contents) /\ Len(s) = 0
  OBVIOUS
<1>2. /\ Heights(s) \in Seq(Nat) /\ Len(Heights(s)) = 0
      /\ ScanLines(s) \in Seq(Nat) /\ Len(ScanLines(s)) = 0
  BY <1>1, ImageNumbers
<1> QED BY <1>2, SumsStep DEF Total

(* The height and the scan lines of an image are added to the others'. *)
LEMMA CountSize ==
  ASSUME CatInv, SizeInv, CatInv', Checks, NEW w \in Nat, NEW h \in Nat, CountImage(w, h),
         File.ihdr => h = File.height,
         UNCHANGED changes
  PROVE  SizeInv'
<1>1. /\ cat = "check" /\ cat' = "check" /\ i \in 1 .. Len(args) /\ File \in Contents
      /\ UNCHANGED <<version, disk, args, size, inf, inf_len, overrun>>
      /\ width' = (IF i = 1 THEN w ELSE width)
      /\ new_height' = (new_height + h) % U32
      /\ inf = <<>> /\ overrun = {}
  BY FileTyped DEF Checks, CountImage, AddHeight, CatInv, CatTypeOK, CopiedAt
<1>2. /\ checked \in Seq(Contents) /\ checked' = Append(checked, File)
      /\ Len(checked) = i - 1 /\ i \in Nat
  BY <1>1 DEF CountImage, CatInv, CatTypeOK, CheckedAt
<1>3. /\ checked' \in Seq(Contents) /\ Len(checked') = i
      /\ \A j \in 1 .. i - 1 : checked'[j] = checked[j]
      /\ checked'[i] = File
  <2>1. Len(checked) + 1 = i
    BY <1>2
  <2> QED BY <1>1, <1>2, <2>1, AppendProperties
<1>4. ReadSame'
  <2>1. ASSUME changes = 0, NEW j \in 1 .. Len(checked')
        PROVE  checked'[j] = disk[args[j]]
    <3>1. j = i \/ j \in 1 .. Len(checked)
      BY <1>2, <1>3
    <3> QED BY <1>2, <1>3, <2>1, <3>1 DEF SizeInv, ReadSame, File
  <2>2. Len(inf) = 0
    BY <1>1, EmptySeq
  <2> QED BY <1>1, <2>1, <2>2 DEF ReadSame
<1>5. HeightSum'
  <2> SUFFICES ASSUME AllRgba(checked')
               PROVE  /\ Total(Heights(checked')) < U32 => new_height' = Total(Heights(checked'))
                      /\ Total(ScanLines(checked')) = Total(Heights(checked')) * (4 * width' + 1)
    BY DEF HeightSum
  <2>1. /\ File.ihdr /\ File.pixel = 4 /\ File.width = checked'[1].width
        /\ \A j \in 1 .. i - 1 : checked'[j].ihdr /\ checked'[j].pixel = 4
                                 /\ checked'[j].width = checked'[1].width
    BY <1>1, <1>3 DEF AllRgba
  <2>2. AllRgba(checked)
    BY <1>1, <1>2, <1>3, <2>1 DEF AllRgba
  <2>3. File.width = width'
    <3>1. checked'[1].ihdr /\ checked' # <<>>
      BY <1>1, <1>3, <2>1
    <3>2. 1 \in 1 .. Len(checked')
      BY <1>1, <1>3
    <3>3. checked'[1].width = width'
      BY <3>1, <3>2 DEF CatInv, CatTypeOK, CheckedAt
    <3> QED BY <2>1, <3>3
  <2>4. /\ Total(Heights(checked')) = Total(Heights(checked)) + File.height
        /\ Total(ScanLines(checked')) = Total(ScanLines(checked)) + Inflated(File)
        /\ Total(Heights(checked)) \in Nat /\ Total(ScanLines(checked)) \in Nat
    BY <1>1, <1>2, OneMoreImage
  <2>5. /\ File.height \in Nat /\ File.width \in Nat /\ h = File.height
        /\ Inflated(File) = File.height * (4 * File.width + 1)
    BY <1>1, <2>1, FileTyped DEF CatInv, Inflated
  <2>6. /\ Total(Heights(checked)) < U32 => new_height = Total(Heights(checked))
        /\ Total(ScanLines(checked)) = Total(Heights(checked)) * (4 * width + 1)
    BY <2>2 DEF SizeInv, HeightSum
  <2>7. Total(Heights(checked')) < U32 => new_height' = Total(Heights(checked'))
    <3> SUFFICES ASSUME Total(Heights(checked')) < U32
                 PROVE  new_height' = Total(Heights(checked'))
      OBVIOUS
    <3>1. new_height + h = Total(Heights(checked'))
      BY <2>4, <2>5, <2>6, CatpngAssumption
    <3>2. new_height' = Total(Heights(checked')) % U32
      BY <1>1, <3>1
    <3>3. Total(Heights(checked')) \in Nat
      BY <2>4, <2>5
    <3> QED BY <3>2, <3>3, Wraps
  <2>8. Total(ScanLines(checked)) = Total(Heights(checked)) * (4 * File.width + 1)
    <3>1. CASE i = 1
      <4>1. checked = <<>>
        BY <1>2, <3>1, EmptySeq
      <4>2. Total(Heights(checked)) = 0 /\ Total(ScanLines(checked)) = 0
        BY <4>1, NoImages
      <4> QED BY <2>5, <4>2
    <3>2. CASE i # 1
      BY <1>1, <2>3, <2>6, <3>2
    <3> QED BY <3>1, <3>2
  <2>9. \A a, b, c \in Nat : a * c + b * c = (a + b) * c
    OBVIOUS
  <2>10. Total(ScanLines(checked')) = Total(Heights(checked')) * (4 * width' + 1)
    <3>1. 4 * File.width + 1 \in Nat
      BY <2>5
    <3> QED BY <2>3, <2>4, <2>5, <2>8, <2>9, <3>1
  <2> QED BY <2>7, <2>10
<1>6. Filled'
  BY <1>1 DEF Filled
<1> QED BY <1>4, <1>5, <1>6 DEF SizeInv

(* unsigned int is wide enough for new_height and the buffer's size if it  *)
(* is for the scan lines.                                                  *)
LEMMA BufferFits ==
  ASSUME CatInv, SizeInv, Rgba8(checked)
  PROVE  BufferSize = Total(ScanLines(checked))
<1>1. /\ checked \in Seq(Contents) /\ width \in Nat
  BY DEF CatInv, CatTypeOK
<1> DEFINE hs == Total(Heights(checked))
           ls == Total(ScanLines(checked))
<1>2. hs \in Nat /\ ls \in Nat
  <2>1. /\ Heights(checked) \in Seq(Nat) /\ ScanLines(checked) \in Seq(Nat)
    BY <1>1, ImageNumbers
  <2>2. \A x \in Seq(Nat) : Len(x) \in 0 .. Len(x)
    OBVIOUS
  <2> QED BY <2>1, <2>2, SumsStep DEF Total
<1>3. /\ ls < U32 /\ ls = hs * (4 * width + 1)
      /\ hs < U32 => new_height = hs
  BY DEF Rgba8, SizeInv, HeightSum
<1> HIDE DEF hs, ls
<1>4. \A a, b \in Nat : a <= a * (4 * b + 1)
  OBVIOUS
<1>5. new_height = hs
  BY <1>1, <1>2, <1>3, <1>4, CatpngAssumption
<1>6. BufferSize = ls % U32
  BY <1>1, <1>3, <1>5 DEF BufferSize
<1> QED BY <1>2, <1>3, <1>6, Wraps DEF ls

(* inf_IDAT_buffer is allocated, and empty. *)
LEMMA AllocSize ==
  ASSUME CatInv, SizeInv, AllocBuffers, UNCHANGED changes
  PROVE  SizeInv'
<1>1. /\ cat = "check" /\ cat' = "append" /\ size' = BufferSize
      /\ UNCHANGED <<disk, args, width, new_height, checked, inf, inf_len, overrun>>
      /\ inf = <<>> /\ inf_len = 0 /\ overrun = {}
  BY DEF AllocBuffers, CatInv, CopiedAt
<1>2. ReadSame' /\ HeightSum'
  BY <1>1 DEF SizeInv, ReadSame, HeightSum
<1>3. Sums(ScanLines(checked))[Len(inf)] = 0
  <2>1. ScanLines(checked) \in Seq(Nat) /\ Len(inf) = 0
    BY <1>1, ImageNumbers, EmptySeq DEF CatInv, CatTypeOK
  <2> QED BY <2>1, SumsStep
<1>4. Filled'
  BY <1>1, <1>3, BufferFits DEF Filled
<1> QED BY <1>2, <1>4 DEF SizeInv

(* What mem_inf copies is what was counted, and there is room for it. *)
LEMMA CopyFits ==
  ASSUME CatInv, SizeInv, Appends, CopyToInf, changes = 0
  PROVE  /\ inf_len + Inflated(File) = Sums(ScanLines(checked))[i]
         /\ Rgba8(checked) => "inf" \notin overrun'
<1>1. /\ cat = "append" /\ i \in 1 .. Len(args) /\ Len(checked) = Len(args)
      /\ checked \in Seq(Contents) /\ Len(inf) = i - 1
      /\ size \in Nat
  BY CatpngAssumption DEF Appends, CatInv, CatTypeOK, CheckedAt, CopiedAt
<1>2. File = checked[i]
  BY <1>1 DEF SizeInv, ReadSame, File
<1>3. /\ ScanLines(checked) \in Seq(Nat) /\ Len(ScanLines(checked)) = Len(checked)
      /\ ScanLines(checked)[i] = Inflated(checked[i])
  BY <1>1, ImageNumbers
<1>4. inf_len + Inflated(File) = Sums(ScanLines(checked))[i]
  <2>1. inf_len = Sums(ScanLines(checked))[i - 1]
    BY <1>1 DEF SizeInv, Filled
  <2>2. Sums(ScanLines(checked))[i] = Sums(ScanLines(checked))[i - 1] + ScanLines(checked)[i]
    BY <1>1, <1>3, SumsStep
  <2> QED BY <1>2, <1>3, <2>1, <2>2
<1>5. Rgba8(checked) => "inf" \notin overrun'
  <2> SUFFICES ASSUME Rgba8(checked) PROVE "inf" \notin overrun'
    OBVIOUS
  <2>1. size = Total(ScanLines(checked))
    BY <1>1 DEF SizeInv, Filled
  <2>2. i \in 0 .. Len(ScanLines(checked))
    BY <1>1, <1>3
  <2>3. Sums(ScanLines(checked))[i] <= Total(ScanLines(checked))
    BY <1>3, <2>2, SumsBounded
  <2>4. Sums(ScanLines(checked))[i] \in Nat
    BY <1>3, <2>2, SumsStep
  <2>5. ~(inf_len + Inflated(File) > size)
    BY <1>1, <1>4, <2>1, <2>3, <2>4
  <2> QED BY <2>5 DEF CopyToInf, SizeInv, Filled
<1> QED BY <1>4, <1>5

(* An image's data is appended, complete or as far as its damage. *)
LEMMA CopySize ==
  ASSUME CatInv, SizeInv, Appends, CopyToInf,
         \/ cat' = "append" /\ inf_len' = inf_len + Inflated(File)
         \/ cat' = "returned",
         UNCHANGED <<disk, args, width, new_height, checked, size, changes>>
  PROVE  SizeInv'
<1>1. /\ Len(inf') = i /\ i \in 1 .. Len(args) /\ Len(inf) = i - 1
      /\ \A j \in 1 .. i - 1 : inf'[j] = inf[j]
      /\ inf'[i].contents = File /\ cat = "append"
  BY CopyTyped DEF CatInv, CatTypeOK, CopiedAt, Appends
<1>2. ReadSame'
  <2>1. ASSUME changes = 0, NEW j \in 1 .. Len(inf')
        PROVE  inf'[j].contents = disk[args[j]]
    <3>1. j = i \/ j \in 1 .. Len(inf)
      BY <1>1
    <3> QED BY <1>1, <2>1, <3>1 DEF SizeInv, ReadSame, File
  <2> QED BY <2>1 DEF SizeInv, ReadSame
<1>3. HeightSum'
  BY DEF SizeInv, HeightSum
<1>4. Filled'
  <2>1. cat' = "append" /\ Rgba8(checked') => size' = Total(ScanLines(checked'))
    BY <1>1 DEF SizeInv, Filled
  <2>2. cat' = "append" /\ changes' = 0 => inf_len' = Sums(ScanLines(checked'))[Len(inf')]
    BY <1>1, CopyFits
  <2>3. changes' = 0 /\ Rgba8(checked') => "inf" \notin overrun'
    BY CopyFits
  <2> QED BY <2>1, <2>2, <2>3 DEF Filled
<1> QED BY <1>2, <1>3, <1>4 DEF SizeInv

(* The steps that read, count and copy nothing. *)
LEMMA SizeRests ==
  ASSUME SizeInv, cat' = cat \/ cat' # "append",
         UNCHANGED <<disk, args, width, new_height, checked, size, inf, inf_len, changes>>,
         "inf" \in overrun' => "inf" \in overrun
  PROVE  SizeInv'
BY DEF SizeInv, ReadSame, HeightSum, Filled

(* Every step of catpng. *)
LEMMA CatpngSize ==
  ASSUME CatInv, SizeInv, CatInv', catpng, UNCHANGED changes
  PROVE  SizeInv'
<1>1. CASE CheckFile
  <2>1. Checks /\ CountImage(File.width, File.height)
    BY <1>1 DEF CheckFile
  <2>2. File.width \in Nat /\ File.height \in Nat
    BY <2>1, FileTyped DEF CatInv, Checks
  <2> QED BY <2>1, <2>2, CountSize
<1>2. CASE ReadIhdr
  <2>1. Checks
    BY <1>2 DEF ReadIhdr
  <2>2. PICK wh \in MemoryIhdr(File) : CountImage(wh[1], wh[2])
    BY <1>2 DEF ReadIhdr
  <2>3. wh[1] \in Nat /\ wh[2] \in Nat /\ (File.ihdr => wh[2] = File.height)
    <3>1. File.width \in Nat /\ File.height \in Nat
      BY <2>1, FileTyped DEF CatInv, Checks
    <3>2. \A d \in Contents : d.width \in Nat /\ d.height \in Nat
      BY CatpngAssumption DEF IsContents
    <3> QED BY <3>1, <3>2 DEF MemoryIhdr
  <2> QED BY <2>1, <2>2, <2>3, CountSize
<1>3. CASE AllocBuffers
  BY <1>3, AllocSize
<1>4. CASE AppendImage
  <2>1. /\ Appends /\ CopyToInf /\ cat' = "append" /\ inf_len' = inf_len + Inflated(File)
        /\ UNCHANGED <<disk, args, width, new_height, checked, size, changes>>
    BY <1>4 DEF AppendImage, Appends
  <2> QED BY <2>1, CopySize
<1>5. CASE AppendFails
  <2>1. /\ Appends /\ cat' = "returned"
        /\ CopyToInf \/ UNCHANGED <<inf, overrun>>
        /\ UNCHANGED <<disk, args, width, new_height, checked, size, inf_len, changes>>
    BY <1>5 DEF AppendFails, GiveUpImage, Return
  <2> QED BY <2>1, CopySize, SizeRests
<1>6. CASE CheckFails \/ AppendStopped \/ BuildFails
  <2>1. /\ cat' = "returned"
        /\ UNCHANGED <<disk, args, width, new_height, checked, size, inf, inf_len, overrun>>
    BY <1>6 DEF CheckFails, AppendStopped, BuildFails, Return
  <2> QED BY <2>1, SizeRests
<1>7. CASE MakeChunks \/ WriteImage \/ FreeAll \/ Crash
  <2>1. /\ cat' # "append"
        /\ UNCHANGED <<disk, args, width, new_height, checked, size, inf, inf_len, overrun>>
    BY <1>7 DEF MakeChunks, WriteImage, FreeAll, Crash, Return
  <2> QED BY <2>1, SizeRests
<1>8. CASE Deflate
  <2>1. /\ cat' # "append" /\ ("inf" \in overrun' => "inf" \in overrun)
        /\ UNCHANGED <<disk, args, width, new_height, checked, size, inf, inf_len>>
    BY <1>8 DEF Deflate
  <2> QED BY <2>1, SizeRests
<1> QED BY <1>1, <1>2, <1>3, <1>4, <1>5, <1>6, <1>7, <1>8 DEF catpng

(* catpng is called before it has read anything. *)
LEMMA CallSize ==
  ASSUME CatInv, SizeInv, NEW a, Call(a), UNCHANGED changes
  PROVE  SizeInv'
<1>1. /\ cat' \in {"check", "returned"} /\ checked = <<>> /\ inf = <<>>
      /\ UNCHANGED <<disk, width, new_height, checked, size, inf, inf_len, overrun>>
  BY DEF Call, Return, CatInv, CheckedAt, CopiedAt
<1>2. Len(checked) = 0 /\ Len(inf) = 0
  BY <1>1, EmptySeq
<1> QED BY <1>1, <1>2 DEF SizeInv, ReadSame, HeightSum, Filled

-----------------------------------------------------------------------------
(* The commands *)

CommandsInv == FindInv /\ CatInv /\ SizeInv /\ changes \in 0 .. MaxChanges

(* Nothing is opened, printed, read or allocated yet. *)
LEMMA CommandsInit ==
  ASSUME Init
  PROVE  CommandsInv
<1>1. /\ disk \in [Names -> Contents] /\ find = "start" /\ stack = <<>>
      /\ left = [d \in {} |-> {}] /\ gave_up = {} /\ printed = <<>> /\ none = FALSE
      /\ changes = 0
  BY DEF Init, F!Init
<1>2. F!Opened = {} /\ F!Printed = {} /\ Len(stack) = 0 /\ Len(printed) = 0
  BY <1>1 DEF F!Opened, F!Printed
<1>3. F!TypeOK
  <2>1. stack \in Seq(Dirs) /\ printed \in Seq(Names)
    BY <1>1
  <2>3. none \in BOOLEAN
    BY <1>1, Zenon
  <2>2. /\ F!Opened \subseteq Dirs /\ gave_up \subseteq F!Opened
        /\ \A d \in F!Opened : left[d] \subseteq F!Entries(d)
    BY <1>1, <1>2
  <2> QED BY <1>1, <2>1, <2>2, <2>3, Zenon DEF F!TypeOK
<1>4. FindLoops /\ MetOnce /\ Followed /\ NoOther
  BY <1>1, <1>2 DEF FindLoops, MetOnce, Followed, NoOther
<1>5. CatTypeOK
  <2>1. 0 \in 0 .. U32 - 1
    BY CatpngAssumption
  <2> QED BY <1>1, <2>1 DEF Init, CatInit, CatTypeOK, CatFaults
<1>6. HeldAt /\ CheckedAt /\ CopiedAt /\ ImageAt
  BY DEF Init, CatInit, HeldAt, CheckedAt, CopiedAt, ImageAt
<1>7. SizeInv
  <2>1. checked = <<>> /\ inf = <<>> /\ new_height = 0 /\ overrun = {} /\ cat = "idle" /\ width = 0
    BY DEF Init, CatInit
  <2>2. Len(checked) = 0 /\ Len(inf) = 0
    BY <2>1, EmptySeq
  <2>3. Total(Heights(checked)) = 0 /\ Total(ScanLines(checked)) = 0
    BY <2>1, NoImages
  <2> QED BY <2>1, <2>2, <2>3 DEF SizeInv, ReadSame, HeightSum, Filled
<1> QED
  BY <1>1, <1>3, <1>4, <1>5, <1>6, <1>7, CommandsAssumption DEF CommandsInv, FindInv, CatInv

(* Every step of findpng. *)
LEMMA FindpngInv ==
  ASSUME FindInv, F!Next, UNCHANGED changes
  PROVE  FindInv' /\ disk' = disk
<1>1. CASE F!OpenRoot
  BY <1>1, OpenRootInv DEF F!OpenRoot
<1>2. CASE F!OpendirFails \/ F!ClosedirFails \/ F!Report
  <2>1. /\ UNCHANGED <<stack, left, gave_up, printed, disk>>
        /\ \/ find' = "exited" /\ none' = none
           \/ /\ find = "walk" /\ find' = "returned" /\ stack = <<>>
              /\ none' = (printed = <<>>)
    BY <1>2, Zenon DEF F!OpendirFails, F!ClosedirFails, F!Report
  <2>2. disk \in [Names -> Contents] /\ changes \in Nat
    BY DEF FindInv, F!TypeOK
  <2> QED BY <2>1, <2>2, FindRests, Zenon
<1>3. CASE F!Closedir
  BY <1>3, ClosedirInv DEF F!Closedir
<1>4. CASE \E e \in DOMAIN Parent : F!EnterDir(e) \/ F!ReadFile(e) \/ F!FopenFails(e)
  BY <1>4, EnterDirInv, ReadFileInv, FopenFailsInv DEF F!EnterDir, F!ReadFile, F!FopenFails
<1> QED BY <1>1, <1>2, <1>3, <1>4 DEF F!Next, F!findpng

(* Every step of the commands. *)
LEMMA CommandsStep ==
  ASSUME CommandsInv, [Next]_vars
  PROVE  CommandsInv'
<1> USE DEF CommandsInv
<1>1. disk \in [Names -> Contents] /\ changes \in Nat /\ printed \in Seq(Names)
  BY DEF FindInv, F!TypeOK
<1>2. CASE FindStep
  <2>1. F!Next /\ UNCHANGED <<catvars, changes>>
    BY <1>2 DEF FindStep
  <2>2. CatInv'
    BY <1>1, <2>1, CatRests DEF catvars
  <2>3. SizeInv'
    BY <2>1, SizeRests DEF catvars
  <2> QED BY <2>1, <2>2, <2>3, FindpngInv
<1>3. ASSUME UNCHANGED <<findvars, changes>>, disk' = disk
      PROVE  FindInv' /\ changes' \in 0 .. MaxChanges
  <2>1. UNCHANGED <<stack, left, gave_up, printed, find, none>>
    BY <1>3 DEF findvars
  <2> QED BY <1>1, <1>3, <2>1, FindRests
<1>4. CASE CallFiles \/ CallFragments
  <2>1. \E a \in Seq(Names) : (version = 2 => a # <<>>) /\ Call(a)
    BY <1>1, <1>4, CommandsAssumption DEF CallFiles, CallFragments
  <2>2. CatInv' /\ disk' = disk
    BY <2>1, CallInv DEF Call
  <2>3. SizeInv'
    BY <1>4, <2>1, CallSize DEF CallFiles, CallFragments
  <2> QED BY <1>3, <1>4, <2>2, <2>3 DEF CallFiles, CallFragments
<1>5. CASE CatStep
  BY <1>3, <1>5, CatpngInv, CatpngReads, CatpngSize DEF CatStep
<1>6. CASE \E f \in Names, c \in Contents : Change(f, c)
  <2>1. PICK f \in Names, c \in Contents : Change(f, c)
    BY <1>6
  <2>2. /\ changes' = changes + 1 /\ changes < MaxChanges
        /\ disk' = [disk EXCEPT ![f] = c]
        /\ UNCHANGED <<stack, left, gave_up, printed, find, none>>
        /\ UNCHANGED <<version, cat, args, i, width, new_height, checked, size, inf, inf_len,
                       overrun, held, image, ret, cat_failed>>
    BY <2>1 DEF Change, findvars
  <2>3. disk' \in [Names -> Contents]
    BY <1>1, <2>2
  <2>4. CatInv'
    BY <2>2, <2>3, CatRests
  <2>5. changes' \in Nat /\ changes' # 0 /\ changes' \in 0 .. MaxChanges
    BY <1>1, <2>2, CommandsAssumption
  <2>6. FindInv'
    BY <2>2, <2>3, <2>5, FindRests
  <2>7. SizeInv'
    BY <2>2, <2>5 DEF SizeInv, ReadSame, HeightSum, Filled
  <2> QED BY <2>4, <2>5, <2>6, <2>7
<1>7. CASE UNCHANGED vars
  <2>1. UNCHANGED <<catvars, findvars, changes>>
    BY <1>7 DEF vars
  <2>2. CatInv' /\ disk' = disk
    BY <1>1, <2>1, CatRests DEF catvars
  <2>3. SizeInv'
    BY <2>1, SizeRests DEF catvars
  <2> QED BY <1>3, <2>1, <2>2, <2>3
<1> QED BY <1>2, <1>4, <1>5, <1>6, <1>7 DEF Next, Work, Over

(* The inductive invariant, for any tree, contents, faults and changes. *)
THEOREM CommandsInvariance == Spec => []CommandsInv
<1>1. Init => CommandsInv
  BY CommandsInit
<1>2. CommandsInv /\ [Next]_vars => CommandsInv'
  BY CommandsStep
<1> QED BY <1>1, <1>2, PTL DEF Spec

(* The variables have their types; readdir's entries are those of their    *)
(* directory, and new_height and the buffers' size are unsigned ints.      *)
THEOREM CommandsTyped == Spec => []TypeOK
<1>1. CommandsInv => TypeOK
  BY DEF CommandsInv, FindInv, CatInv, TypeOK
<1> QED BY <1>1, CommandsInvariance, PTL

(* findpng prints no path twice and no file with another signature,        *)
(* however the directories are nested and whatever faults it meets.        *)
THEOREM FilesPrintedOnce == Spec => []PrintedOnce
<1>1. CommandsInv => PrintedOnce
  BY DEF CommandsInv, FindInv, MetOnce, NoOther, PrintedOnce, F!PrintedOnce
<1> QED BY <1>1, CommandsInvariance, PTL

(* When findpng has returned, every directory that it opened and did not   *)
(* give up has had its PNG files printed and its directories opened.       *)
THEOREM NoFileSkipped == Spec => []NothingSkipped
<1>1. ASSUME CommandsInv, changes = 0, find = "returned"
      PROVE  /\ Root \in F!Opened
             /\ \A d \in F!Opened \ gave_up : \A e \in F!Entries(d) :
                  /\ e \in Dirs => e \in F!Opened
                  /\ e \in Names /\ disk[e].signature = "png" => e \in F!Printed
             /\ none <=> F!Printed = {}
  <2>1. /\ FindInv /\ FindLoops /\ Followed /\ stack = <<>> /\ printed \in Seq(Names)
        /\ Root \in F!Opened
    BY <1>1 DEF CommandsInv, FindInv, FindLoops, F!TypeOK
  <2>2. \A d \in F!Opened \ gave_up : left[d] = {}
    BY <2>1 DEF FindLoops
  <2>3. none <=> printed = <<>>
    BY <1>1, <2>1, Zenon DEF FindLoops
  <2>4. printed = <<>> <=> F!Printed = {}
    <3>1. Len(printed) \in Nat /\ (printed = <<>> <=> Len(printed) = 0)
      BY <2>1, EmptySeq, LenProperties
    <3>2. CASE Len(printed) = 0
      <4>1. 1 .. Len(printed) = {}
        BY <3>2
      <4> QED BY <3>1, <3>2, <4>1, Zenon DEF F!Printed
    <3>3. CASE Len(printed) # 0
      <4>1. 1 \in 1 .. Len(printed)
        BY <3>1, <3>3
      <4> QED BY <3>1, <3>3, <4>1, Zenon DEF F!Printed
    <3> QED BY <3>2, <3>3
  <2>5. none <=> F!Printed = {}
    BY <2>3, <2>4, Zenon
  <2>6. \A d \in F!Opened \ gave_up : \A e \in F!Entries(d) :
          /\ e \in Dirs => e \in F!Opened
          /\ e \in Names /\ disk[e].signature = "png" => e \in F!Printed
    BY <1>1, <2>1, <2>2 DEF Followed
  <2> QED BY <2>1, <2>5, <2>6, Zenon
<1>2. CommandsInv => NothingSkipped
  BY <1>1, Zenon DEF NothingSkipped, F!NothingSkipped
<1> QED BY <1>2, CommandsInvariance, PTL

(* A complete all.png has the data of each argument, in order, and the     *)
(* width that the first loop found; never of a part of them.  What a short *)
(* write leaves has the data of the first ones.                            *)
THEOREM ImageFromAll == Spec => []WrittenFromAll
<1>1. ASSUME CommandsInv, image # NoImage
      PROVE  WrittenFromAll
  <2>1. /\ \/ image = Image(inf, TRUE)
           \/ \E n \in 0 .. Len(inf) : image = Image(SubSeq(inf, 1, n), FALSE)
        /\ inf \in Seq([name : Names, contents : Contents])
        /\ Len(checked) = Len(args) /\ args # <<>> /\ Len(inf) = Len(args) /\ CopiedAll
        /\ args \in Seq(Names) /\ checked \in Seq(Contents)
    BY <1>1 DEF CommandsInv, CatInv, ImageAt, CatTypeOK
  <2>2. checked # <<>>
    <3>1. Len(args) # 0
      BY <2>1, EmptySeq
    <3> QED BY <2>1, <3>1
  <2>3. /\ version = 1 => \A j \in 1 .. Len(checked) :
             checked[j].signature # "other" /\ checked[j].width = width
        /\ version = 2 /\ checked # <<>> /\ checked[1].ihdr => width = checked[1].width
    BY <1>1 DEF CommandsInv, CatInv, CheckedAt
  <2>4. /\ image.width = width /\ (image.complete => Len(image.rows) = Len(args))
        /\ \A j \in 1 .. Len(image.rows) : j \in 1 .. Len(args) /\ image.rows[j] = inf[j]
    <3>1. CASE image = Image(inf, TRUE)
      BY <2>1, <3>1 DEF Image
    <3>2. ASSUME NEW n \in 0 .. Len(inf), image = Image(SubSeq(inf, 1, n), FALSE)
          PROVE  /\ image.width = width /\ (image.complete => Len(image.rows) = Len(args))
                 /\ \A j \in 1 .. Len(image.rows) : j \in 1 .. Len(args) /\ image.rows[j] = inf[j]
      BY <2>1, <3>2, FrontIs DEF Image
    <3> QED BY <2>1, <3>1, <3>2
  <2>5. \A j \in 1 .. Len(image.rows) :
          image.rows[j].name = args[j] /\ image.rows[j].contents.whole
    BY <2>1, <2>4 DEF CopiedAll
  <2> QED BY <2>1, <2>2, <2>3, <2>4, <2>5 DEF WrittenFromAll
<1>2. CommandsInv => WrittenFromAll
  BY <1>1 DEF WrittenFromAll
<1> QED BY <1>2, CommandsInvariance, PTL

(* catpng returns with all its memory freed and all its files closed,      *)
(* whichever call failed on the way.                                       *)
THEOREM AllReleased == Spec => []Released
<1>1. CommandsInv => Released
  BY DEF CommandsInv, CatInv, HeldAt, Released
<1> QED BY <1>1, CommandsInvariance, PTL

(* mem_inf never writes behind inf_IDAT_buffer, whose size it does not     *)
(* know, if the files are 8-bit RGBA images of one width and do not change *)
(* between the loops: however many they are and however they are damaged.  *)
THEOREM ScanLinesFit == Spec => []InfFits
<1>1. CommandsInv => InfFits
  BY DEF CommandsInv, SizeInv, Filled, InfFits, NotChanged
<1> QED BY <1>1, CommandsInvariance, PTL

(* The header written tells how much data follows it: the sum of the       *)
(* heights is not wrapped, and each line has width pixels and a filter.    *)
THEOREM HeaderTrue == Spec => []HeaderTells
<1>1. ASSUME CommandsInv, NotChanged, Rgba8(checked), image # NoImage
      PROVE  /\ image.height = Total(Heights(checked))
             /\ image.complete =>
                  Total(ScanLines(Segments(image.rows)))
                    = image.height * (image.width * image.pixel + 1)
  <2>1. /\ image.width = width /\ image.height = new_height /\ image.pixel = 4
        /\ (image.complete => image.rows = inf) /\ Len(checked) = Len(args) /\ Len(inf) = Len(args)
        /\ checked \in Seq(Contents) /\ width \in Nat
        /\ inf \in Seq([name : Names, contents : Contents])
    BY <1>1 DEF CommandsInv, CatInv, ImageAt, CatTypeOK, Image
  <2>2. \A j \in 1 .. Len(inf) : inf[j].contents = checked[j]
    BY <1>1, <2>1 DEF NotChanged, CommandsInv, SizeInv, ReadSame
  <2>3. image.complete => Segments(image.rows) = checked
    <3>1. checked = [j \in 1 .. Len(checked) |-> checked[j]]
      BY <2>1
    <3>2. Segments(inf) = [j \in 1 .. Len(checked) |-> checked[j]]
      BY <2>1, <2>2 DEF Segments
    <3> QED BY <2>1, <3>1, <3>2
  <2> DEFINE hs == Total(Heights(checked))
             ls == Total(ScanLines(checked))
  <2>4. ls < U32 /\ ls = hs * (4 * width + 1) /\ (hs < U32 => new_height = hs)
    BY <1>1 DEF Rgba8, CommandsInv, SizeInv, HeightSum
  <2>5. hs \in Nat
    <3>1. Heights(checked) \in Seq(Nat)
      BY <2>1, ImageNumbers
    <3>2. Len(Heights(checked)) \in 0 .. Len(Heights(checked))
      BY <3>1, LenProperties
    <3> QED BY <3>1, <3>2, SumsStep DEF Total
  <2> HIDE DEF hs, ls
  <2>6. \A a, b \in Nat : a <= a * (4 * b + 1) /\ a * (4 * b + 1) \in Nat
                          /\ a * (4 * b + 1) = a * (b * 4 + 1)
    OBVIOUS
  <2>7. new_height = hs
    BY <2>1, <2>4, <2>5, <2>6, CatpngAssumption
  <2> QED BY <2>1, <2>3, <2>4, <2>5, <2>6, <2>7 DEF hs, ls
<1>2. CommandsInv => HeaderTells
  BY <1>1 DEF HeaderTells
<1> QED BY <1>2, CommandsInvariance, PTL

=============================================================================
