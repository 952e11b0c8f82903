------------------------------ MODULE WinAgent ------------------------------
(***************************************************************************)
(* An agent on Windows, src/xpl/process.c: XplReadProcess peeks at the     *)
(* pipe of its child before it reads, as a read of an empty pipe blocks.   *)
(* The pipe has no end, since the parent keeps a handle to write to it.    *)
(*                                                                         *)
(* Output is bytes, of which some end a line.  Numbers have Width bits.    *)
(***************************************************************************)
EXTENDS Integers, Sequences, SequencesExt

CONSTANTS
  Width,       \* of a DWORD
  BufferSize,  \* 1024 in the code
  MaxOutput    \* bound on what the child writes

VARIABLES
  pipe, written, running,      \* the child's output, all of it, and the child
  reader, left, used, buffer,  \* XplReadProcess
  lines                        \* what the callback was given

agentVars == <<pipe, written, running, reader, left, used, buffer, lines>>

AgentInit ==
  /\ pipe = <<>> /\ written = <<>> /\ running = TRUE
  /\ reader = "peek" /\ left = 0 /\ used = 0 /\ buffer = <<>> /\ lines = <<>>

ReaderUnchanged == UNCHANGED <<reader, left, used, buffer, lines>>
ChildUnchanged  == UNCHANGED <<written, running>>

ChildWrites ==
  /\ running /\ Len(written) < MaxOutput
  /\ \E c \in {"byte", "newline"} : pipe' = Append(pipe, c) /\ written' = Append(written, c)
  /\ UNCHANGED running /\ ReaderUnchanged

\* It exits, or XplSignalProcess ends it.
ChildEnds == running /\ running' = FALSE /\ UNCHANGED <<pipe, written>> /\ ReaderUnchanged

\* All that is in the pipe is added, though left may count it already.
Peek ==
  LET l == (left + Len(pipe)) % 2^Width IN
  /\ reader = "peek" /\ left' = l
  /\ reader' = IF l # 0 THEN "read" ELSE "exited"
  /\ UNCHANGED <<pipe, used, buffer, lines>> /\ ChildUnchanged

\* GetExitCodeProcess: what is left in the buffer is a line, too.
Exited ==
  /\ reader = "exited" /\ reader' = IF running THEN "peek" ELSE "done"
  /\ lines' = IF ~running /\ used > 0 THEN Append(lines, SubSeq(buffer, 1, used)) ELSE lines
  /\ used' = IF running THEN used ELSE 0
  /\ UNCHANGED <<pipe, left, buffer>> /\ ChildUnchanged

EndOf(s) == SelectLastInSeq(s, LAMBDA c : c = "newline")

\* ReadFile waits for a byte.  The whole lines go to the callback; used keeps
\* its value unless a part of a line stays.
ReadOutput ==
  /\ reader = "read" /\ pipe # <<>>
  /\ LET n    == Min({Len(pipe), BufferSize - 1 - used})
         all  == SubSeq(buffer, 1, used) \o SubSeq(pipe, 1, n)
         e    == EndOf(all)
         rest == SubSeq(all, e + 1, Len(all))
     IN  /\ pipe' = SubSeq(pipe, n + 1, Len(pipe))
         /\ left' = (left - n) % 2^Width
         /\ lines' = IF e = 0 THEN lines ELSE Append(lines, SubSeq(all, 1, e))
         /\ used' = IF rest = <<>> THEN used ELSE Len(rest)
         /\ buffer' = IF rest = <<>> THEN all ELSE rest
  /\ reader' = "peek" /\ ChildUnchanged

AgentNext == ChildWrites \/ ChildEnds \/ Peek \/ Exited \/ ReadOutput

AgentSpec == AgentInit /\ [][AgentNext]_agentVars
-----------------------------------------------------------------------------
(* Property *)

\* No read is asked for of a pipe that is empty and stays so, since the child has
\* ended: it would block for ever (comment process.c:631-636).
ReadFinds == reader = "read" /\ ~running => pipe # <<>>
=============================================================================
