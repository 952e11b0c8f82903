------------------------------ MODULE CfgFile ------------------------------
(***************************************************************************)
(* A configuration file and its copy in memory, src/xpl/cfgfile.c.  The    *)
(* program may crash at any time, also while it writes the file, and the   *)
(* file may refuse to be opened or to take what is written: XplCFGFlush    *)
(* asks for neither, and takes its settings for saved.                     *)
(*                                                                         *)
(* A line is a section, an item, a comment or blank; names and values are  *)
(* clean, and lines fit the buffer they are read into.  Unnamed names the  *)
(* section without a name, which has to come first: nothing in the file    *)
(* tells where it begins.                                                  *)
(***************************************************************************)
EXTENDS Integers, Sequences
LOCAL INSTANCE SequencesExt

CONSTANTS
  Sections, Items, Values,
  Unnamed,       \* the section without a name
  NoCfg,
  MaxLines       \* bound on the lines of the file

VARIABLES
  cfg,           \* the sections in memory and whether they changed, or NoCfg
  disk,          \* the lines of the file
  toWrite,       \* what a flush still has to write
  then,          \* what it is part of
  unsaved        \* history: the last flush with changes did not write them all

cfgVars == <<cfg, disk, toWrite, then, unsaved>>

Item(n, v)  == [kind |-> "item", name |-> n, value |-> v]
Comment     == [kind |-> "comment"]
Junk        == [kind |-> "junk"]      \* a name that no '=' follows
Cut         == "cut"                  \* the beginning of a value
Header(s)   == [kind |-> "section", name |-> s]
NewSection(s) == [name |-> s, itemList |-> <<>>]

CfgInit == cfg = NoCfg /\ disk = <<>> /\ toWrite = <<>> /\ then = "idle" /\ unsaved = FALSE
-----------------------------------------------------------------------------
(* The lists *)

FindSection(list, s) == SelectInSeq(list, LAMBDA c : c.name = s)
FindItem(section, n) == SelectInSeq(section.itemList, LAMBDA i : i.kind = "item" /\ i.name = n)
AddItem(list, k, i)  == [list EXCEPT ![k].itemList = Append(@, i)]

\* Lines of a section that was read before go to the section before them, and
\* an item that was read before is left out, as is what is no item.
ReadLine(file, line) ==
  LET list == IF file.at = 0 /\ line.kind # "section" THEN <<NewSection(Unnamed)>> ELSE file.list
      at   == IF file.at = 0 /\ line.kind # "section" THEN 1 ELSE file.at
  IN  IF line.kind = "section"
      THEN IF FindSection(list, line.name) # 0 THEN file
           ELSE [list |-> Append(list, NewSection(line.name)), at |-> Len(list) + 1]
      ELSE IF line.kind = "junk" \/ (line.kind = "item" /\ FindItem(list[at], line.name) # 0)
      THEN [list |-> list, at |-> at]
      ELSE [list |-> AddItem(list, at, line), at |-> at]

Parsed(lines) == FoldLeft(ReadLine, [list |-> <<>>, at |-> 0], lines).list

Lines(list) ==
  FoldLeft(LAMBDA out, s : out \o (IF s.name = Unnamed THEN <<>> ELSE <<Header(s.name)>>) \o s.itemList,
           <<>>, list)

\* XplCFGGetValue, for every section and name.
Setting(list, s, n) ==
  LET k == FindSection(list, s)
      i == IF k = 0 THEN 0 ELSE FindItem(list[k], n)
  IN  IF i = 0 THEN <<>> ELSE <<list[k].itemList[i].value>>
-----------------------------------------------------------------------------
(* The operations *)

Open ==
  /\ cfg = NoCfg
  /\ cfg' = [list |-> Parsed(disk), changed |-> FALSE] /\ unsaved' = FALSE
  /\ UNCHANGED <<disk, toWrite, then>>

Create ==
  /\ cfg = NoCfg /\ disk' = <<>>
  /\ cfg' = [list |-> <<>>, changed |-> FALSE] /\ unsaved' = FALSE
  /\ UNCHANGED <<toWrite, then>>

\* Mutant: a value that is replaced does not count as a change.
ReplacedQuietly(c, k, i, v) == [c EXCEPT !.list[k].itemList[i].value = v]

Replaced(c, k, i, v) == [c EXCEPT !.list[k].itemList[i].value = v, !.changed = TRUE]

WithSection(c, s) ==
  IF FindSection(c.list, s) # 0 THEN c
  ELSE [list |-> Append(c.list, NewSection(s)), changed |-> TRUE]

\* A comment does not count as a change.
SetValue ==
  /\ cfg # NoCfg /\ then = "idle"
  /\ \E s \in Sections :
       LET c == WithSection(cfg, s)
           k == FindSection(c.list, s)
       IN  /\ s = Unnamed => k = 1
           /\ \/ \E n \in Items, v \in Values :
                   LET i == FindItem(c.list[k], n) IN
                   IF i # 0 THEN cfg' = Replaced(c, k, i, v)
                   ELSE /\ Len(Lines(c.list)) < MaxLines
                        /\ cfg' = [list |-> AddItem(c.list, k, Item(n, v)), changed |-> TRUE]
              \/ /\ Len(Lines(c.list)) < MaxLines
                 /\ cfg' = [c EXCEPT !.list = AddItem(@, k, Comment)]
  /\ UNCHANGED <<disk, toWrite, then, unsaved>>

\* Flush, by itself or to close, truncates the file and writes it; a file that
\* cannot be opened keeps what it said.
BeginFlush ==
  /\ cfg # NoCfg /\ then = "idle" /\ then' \in {"flush", "close"}
  /\ \/ cfg.changed /\ disk' = <<>> /\ toWrite' = Lines(cfg.list) /\ unsaved' = FALSE
     \/ cfg.changed /\ unsaved' = TRUE /\ UNCHANGED <<disk, toWrite>>
     \/ ~cfg.changed /\ UNCHANGED <<disk, toWrite, unsaved>>
  /\ UNCHANGED cfg

WriteLine ==
  /\ then # "idle" /\ toWrite # <<>>
  /\ disk' = Append(disk, Head(toWrite)) /\ toWrite' = Tail(toWrite)
  /\ UNCHANGED <<cfg, then, unsaved>>

\* The blocks of the buffered file end anywhere in a line; a part of a header or
\* of a comment is read as nothing or as a comment.
Torn(line) == IF line.kind = "item" THEN {Junk, Item(line.name, Cut)} ELSE {}

Left == {disk} \cup IF toWrite = <<>> THEN {} ELSE {Append(disk, l) : l \in Torn(Head(toWrite))}

\* No more reaches the file, and what fprintf and fclose return is not looked at.
DiskFull ==
  /\ then # "idle" /\ toWrite # <<>> /\ toWrite' = <<>> /\ disk' \in Left /\ unsaved' = TRUE
  /\ UNCHANGED <<cfg, then>>

\* Whatever was written or not, the settings count as saved.
EndFlush ==
  /\ then # "idle" /\ toWrite = <<>> /\ then' = "idle"
  /\ cfg' = IF then = "close" THEN NoCfg ELSE [cfg EXCEPT !.changed = FALSE]
  /\ unsaved' = (unsaved /\ then = "flush")
  /\ UNCHANGED <<disk, toWrite>>

Crash ==
  /\ cfg # NoCfg /\ cfg' = NoCfg /\ toWrite' = <<>> /\ then' = "idle" /\ disk' \in Left
  /\ unsaved' = FALSE

CfgNext == Open \/ Create \/ SetValue \/ BeginFlush \/ WriteLine \/ DiskFull \/ EndFlush \/ Crash
-----------------------------------------------------------------------------
(* Property *)

\* Without changes the file says what the copy in memory says, if the flush
\* could write it.  A file that is being written says nothing that was not set,
\* whenever a crash ends it, but for the value of one item: the one whose line
\* was torn, which is the last of the file (cfgfile.c:330-382, 453-504).
CfgSound ==
  cfg # NoCfg /\ ~unsaved =>
    \A s \in Sections, n \in Items :
      LET memory == Setting(cfg.list, s, n) IN
      /\ ~cfg.changed => Setting(Parsed(disk), s, n) = memory
      /\ then # "idle" => \A left \in Left :
           LET file == Setting(Parsed(left), s, n) IN
           \/ file \in {<<>>, memory}
           \/ file = <<Cut>> /\ Last(left) = Item(n, Cut)
=============================================================================
