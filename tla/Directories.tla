----------------------------- MODULE Directories -----------------------------
(***************************************************************************)
(* Listing a directory while its files come and go, src/xpl/dir.c: the     *)
(* listing by pattern, which reads all and hands out later, and the two    *)
(* that read as they go.  readdir is the system's: it returns every file   *)
(* that stays, and perhaps those that come or go.                          *)
(*                                                                         *)
(* A name stands for its entry: a file that has gone does not come back    *)
(* while an entry has its name.  The data of an entry is the name of the   *)
(* file it was read from.                                                  *)
(***************************************************************************)
EXTENDS Integers, Sequences, Functions

CONSTANTS
  Names, Matching,  \* the files, and those that match the pattern
  NoName

Kinds == {"matchUnix", "matchWindows", "plain", "x"}

VARIABLES
  kind, place,      \* the kind of listing, and where it is
  present, stayed,  \* the files, and those that were there all the time
  unread, entry,    \* what readdir has to return, the name it returned last
  spare,            \* an entry is allocated and has no name
  chain, base,      \* parent->next and parent->base
  heap,             \* the entries that are allocated
  starved,          \* an allocation failed, and the listing stopped there
  shown             \* name and data of the entry shown last

dirVars == <<kind, place, present, stayed, unread, entry, spare, chain, base,
             heap, starved, shown>>

Nothing == [name |-> NoName, data |-> NoName]

DirInit ==
  /\ kind \in Kinds /\ place = "closed" /\ present \in SUBSET Names /\ stayed = {}
  /\ unread = {} /\ entry = NoName /\ spare = FALSE /\ chain = <<>> /\ base = <<>>
  /\ heap = {} /\ starved = FALSE /\ shown = Nothing

ByPattern == kind \in {"matchUnix", "matchWindows"}

Moves(from, to) == place = from /\ place' = to

ListUnchanged == UNCHANGED <<spare, chain, base, heap, starved>>
DiskUnchanged == UNCHANGED <<kind, present, stayed>>
-----------------------------------------------------------------------------
(* The directory *)

Create(n) ==
  /\ n \notin present /\ (place = "closed" \/ n \notin stayed \cup heap \cup {entry, shown.name})
  /\ present' = present \cup {n} /\ unread' \in {unread, unread \cup {n}}
  /\ UNCHANGED <<kind, place, stayed, entry, shown>> /\ ListUnchanged

Vanish(n) ==
  /\ n \in present /\ present' = present \ {n} /\ stayed' = stayed \ {n}
  /\ unread' \in {unread, unread \ {n}}
  /\ UNCHANGED <<kind, place, entry, shown>> /\ ListUnchanged

Ended == unread \cap stayed = {}
-----------------------------------------------------------------------------
(* Opening.  Windows hands out the first file with the handle, and an       *)
(* empty listing when there is none.                                        *)

Open ==
  /\ place = "closed" /\ heap = {}
  /\ place' \in {"closed", IF kind = "matchWindows" /\ present \cap Matching = {} THEN "listed" ELSE "reading"}
  /\ unread' = present /\ stayed' = present /\ starved' = FALSE /\ shown' = Nothing
  /\ UNCHANGED <<kind, present, entry, spare, chain, base, heap>>

ReadEntry ==
  /\ Moves("reading", "stat")
  /\ \E n \in unread : unread' = unread \ {n} /\ entry' = n
  /\ UNCHANGED shown /\ DiskUnchanged /\ ListUnchanged

\* The name is skipped, or its file has gone: an entry allocated for it is kept.
Skip ==
  /\ ByPattern /\ Moves("stat", "reading")
  /\ \/ entry \notin Matching /\ UNCHANGED spare
     \/ kind = "matchUnix" /\ entry \in Matching \ present /\ spare' = TRUE
  /\ UNCHANGED <<unread, entry, chain, base, heap, starved, shown>> /\ DiskUnchanged

Linked(n) == <<n>> \o chain

\* Windows has the data with the name.
Link ==
  /\ ByPattern /\ Moves("stat", "reading") /\ entry \in Matching
  /\ kind = "matchUnix" => entry \in present
  /\ chain' = Linked(entry) /\ heap' = heap \cup {entry} /\ spare' = FALSE
  /\ UNCHANGED <<unread, entry, base, starved, shown>> /\ DiskUnchanged

\* An allocation fails: Unix hands out what it has, Windows frees it.
Starve ==
  /\ ByPattern /\ entry \in Matching /\ starved' = TRUE
  /\ IF kind = "matchUnix"
     THEN Moves("stat", "listed") /\ spare' \in {spare, TRUE} /\ UNCHANGED <<chain, heap>>
     ELSE Moves("stat", "closed") /\ spare' = FALSE /\ chain' = <<>> /\ heap' = {}
  /\ UNCHANGED <<unread, entry, base, shown>> /\ DiskUnchanged

\* Only Windows keeps the first entry for the close.
Finish ==
  /\ ByPattern /\ Moves("reading", "listed") /\ Ended
  /\ base' = IF kind = "matchWindows" THEN chain ELSE <<>>
  /\ UNCHANGED <<unread, entry, spare, chain, heap, starved, shown>> /\ DiskUnchanged

ReadDirMatch ==
  /\ place = "listed" /\ chain # <<>> /\ chain' = Tail(chain)
  /\ shown' = [name |-> Head(chain), data |-> Head(chain)]
  /\ UNCHANGED <<place, unread, entry, spare, base, heap, starved>> /\ DiskUnchanged

\* Mutant: what has been handed out is not freed.
FreedUnread == Range(chain)

Freed == Range(base)

CloseDirMatch ==
  /\ Moves("listed", "closed") /\ heap' = heap \ Freed
  /\ chain' = <<>> /\ base' = <<>> /\ spare' = FALSE /\ shown' = Nothing
  /\ UNCHANGED <<unread, entry, starved>> /\ DiskUnchanged
-----------------------------------------------------------------------------
(* XplReadDir and XReadDir: the first shows no data of a file that has gone,*)
(* the other the data of the entry before                                   *)

ShownData == IF entry \in present THEN entry ELSE IF kind = "plain" THEN NoName ELSE shown.data

Show ==
  /\ ~ByPattern /\ Moves("stat", "reading")
  /\ shown' = IF kind = "x" /\ entry \notin Matching THEN shown ELSE [name |-> entry, data |-> ShownData]
  /\ UNCHANGED <<unread, entry>> /\ DiskUnchanged /\ ListUnchanged

CloseDir ==
  /\ ~ByPattern /\ Moves("reading", "closed") /\ shown' = Nothing
  /\ UNCHANGED <<unread, entry>> /\ DiskUnchanged /\ ListUnchanged

DirNext ==
  \/ \E n \in Names : Create(n) \/ Vanish(n)
  \/ Open \/ ReadEntry \/ Skip \/ Link \/ Starve \/ Finish \/ ReadDirMatch \/ CloseDirMatch
  \/ Show \/ CloseDir
-----------------------------------------------------------------------------
(* Properties *)

\* A listing by pattern holds every matching file that stayed, once, unless an
\* allocation failed, and closing it frees it, on Windows.
MatchSound ==
  ByPattern =>
    /\ IsInjective(chain) /\ Range(chain) \subseteq Matching
    /\ place = "listed" /\ ~starved /\ shown = Nothing => stayed \cap Matching \subseteq Range(chain)
    /\ kind = "matchWindows" => (place = "closed" => heap = {}) /\ Range(chain) \subseteq heap

\* A file that is still there is shown with its own data.
ShownSound == shown.name \in stayed => shown.data = shown.name

\* Both (dir.c:206-283, 420-561, 662-699).
DirSound == MatchSound /\ ShownSound
=============================================================================
