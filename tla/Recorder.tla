------------------------------ MODULE Recorder ------------------------------
(***************************************************************************)
(* The telemetry recorder of internal/recorder/recorder.go: lines go       *)
(* through a bufio.Writer into a file that is rotated to one backup, while *)
(* a ticker flushes and the disk may fill up at any time.                  *)
(*                                                                         *)
(* Lines are numbered in the order Record is called.  A failed flush       *)
(* writes some of the buffer, and from then on the writer returns its      *)
(* error for everything.                                                   *)
(***************************************************************************)
EXTENDS Integers, Sequences, SequencesExt

CONSTANTS
  BufLines,  \* lines that fit into the bufio.Writer
  FileLines, \* lines that make the file exceed maxBytes
  MaxLines   \* bound on calls of Record

RecorderAssumption ==
  /\ {BufLines, FileLines} \subseteq Nat \ {0}
  /\ MaxLines \in Nat

VARIABLES
  mu,       \* "free", or what rotate does next while Record holds r.mu
  buffer,   \* r.w: lines not yet written
  sticky,   \* r.w: has it met an error?
  open,     \* r.f is open
  size,     \* r.size
  failing,  \* r.failing
  closed,   \* r.closed
  offered,  \* calls of Record
  exists,   \* is there a file at path?
  file,     \* the lines of the file at path
  backup,   \* the file at path.1
  full,     \* is the disk full?
  taken,    \* history: lines Record put into the buffer
  written,  \* history: lines that have reached a file
  lastWord  \* history: Close reported that its flush failed

recorder == <<mu, buffer, sticky, open, size, failing, closed>>
disk     == <<exists, file, backup, full>>
history  == <<taken, written, lastWord>>
vars     == <<recorder, offered, disk, history>>

\* New, with an empty file.
Init ==
  /\ mu = "free"
  /\ buffer = <<>>
  /\ sticky = FALSE
  /\ open = TRUE
  /\ size = 0
  /\ failing = FALSE
  /\ closed = FALSE
  /\ offered = 0
  /\ exists = TRUE
  /\ file = <<>>
  /\ backup = <<>>
  /\ full = FALSE
  /\ taken = {}
  /\ written = {}
  /\ lastWord = FALSE

\* Space on the disk runs out, or is freed.
DiskChanges ==
  /\ full' = ~full
  /\ UNCHANGED <<recorder, offered, exists, file, backup, history>>

-----------------------------------------------------------------------------
\* The bufio.Writer.

\* Write the first n lines of the buffer to the file and keep the rest.
WriteOut(n) ==
  /\ file' = IF n = 0 THEN file ELSE file \o SubSeq(buffer, 1, n)
  /\ written' = written \cup ToSet(SubSeq(buffer, 1, n))

\* Broken: the buffer is written and not emptied.
FlushAgain ==
  /\ ~sticky
  /\ buffer = <<>> \/ (open /\ ~full)
  /\ WriteOut(Len(buffer))
  /\ UNCHANGED <<buffer, sticky>>

\* The flush succeeds.
FlushOK ==
  /\ ~sticky
  /\ buffer = <<>> \/ (open /\ ~full)
  /\ WriteOut(Len(buffer))
  /\ buffer' = <<>>
  /\ UNCHANGED sticky

\* The flush fails: there is an old error, or a new one after some lines.
FlushError ==
  \/ /\ sticky
     /\ UNCHANGED <<file, written, buffer, sticky>>
  \/ /\ ~sticky /\ buffer # <<>> /\ ~(open /\ ~full)
     /\ \E n \in 0..(Len(buffer) - 1) :
           /\ open \/ n = 0
           /\ WriteOut(n)
           /\ buffer' = SubSeq(buffer, n + 1, Len(buffer))
     /\ sticky' = TRUE

\* A write that succeeds: the buffer has room for the line, or is flushed first.
Put(line) ==
  \/ /\ Len(buffer) < BufLines
     /\ buffer' = Append(buffer, line)
     /\ UNCHANGED <<file, written>>
  \/ /\ Len(buffer) = BufLines
     /\ open /\ ~full
     /\ WriteOut(BufLines)
     /\ buffer' = <<line>>

\* note: remember whether the last operation failed.
note(ok) == failing' = ~ok

-----------------------------------------------------------------------------
\* Record, when the writer takes the line: into the buffer, which is flushed
\* when it is full. A file that is long enough is rotated under the same lock.
Record ==
  /\ mu = "free" /\ ~closed /\ ~sticky
  /\ offered < MaxLines
  /\ offered' = offered + 1
  /\ Put(offered')
  /\ taken' = taken \cup {offered'}
  /\ note(TRUE)
  /\ size' = size + 1
  /\ mu' = IF size' >= FileLines THEN "rotate" ELSE "free"
  /\ UNCHANGED <<sticky, open, closed, exists, backup, full, lastWord>>

\* Record, when the writer returns an error and the line is dropped.
RecordFails ==
  /\ mu = "free" /\ ~closed
  /\ offered < MaxLines
  /\ offered' = offered + 1
  /\ sticky \/ Len(buffer) = BufLines
  /\ FlushError
  /\ note(FALSE)
  /\ UNCHANGED <<mu, open, size, closed, exists, backup, full, taken, lastWord>>

\* Record after Close does nothing.
RecordClosed ==
  /\ closed
  /\ offered < MaxLines
  /\ offered' = offered + 1
  /\ UNCHANGED <<recorder, disk, history>>

\* Broken: the buffer is not flushed before the rotation.
RotateNoFlush ==
  /\ mu = "rotate"
  /\ mu' = "reopen"
  /\ UNCHANGED <<buffer, sticky, open, size, failing, closed, offered, disk, history>>

\* rotate: flush the old file, and say so if that fails.
RotateFlush ==
  /\ mu = "rotate"
  /\ \/ FlushOK /\ note(TRUE)
     \/ FlushError /\ note(FALSE)
  /\ mu' = "reopen"
  /\ UNCHANGED <<open, size, closed, offered, exists, backup, full, taken, lastWord>>

\* rotate: close, rename, and open a fresh file. An error of the rename is
\* ignored, and O_TRUNC empties whatever is at path.
RotateReopen ==
  /\ mu = "reopen"
  /\ \E renamed, opened \in BOOLEAN :
        /\ renamed => exists
        /\ backup' = IF renamed THEN file ELSE backup
        /\ exists' = (opened \/ (exists /\ ~renamed))
        /\ open' = opened
        /\ IF opened
           THEN /\ file' = <<>>
                /\ buffer' = <<>>
                /\ sticky' = FALSE
                /\ size' = 0
                /\ failing' = FALSE
           ELSE /\ file' = IF renamed THEN <<>> ELSE file
                /\ UNCHANGED <<buffer, sticky, size, failing>>
  /\ mu' = "free"
  /\ UNCHANGED <<closed, offered, full, history>>

\* flushLoop, every two seconds until Close.
FlushTick ==
  /\ mu = "free" /\ ~closed
  /\ \/ FlushOK /\ note(TRUE)
     \/ FlushError /\ note(FALSE)
  /\ UNCHANGED <<mu, open, size, closed, offered, exists, backup, full, taken, lastWord>>

\* Close: the last flush, whose error is reported whatever was reported before.
Close ==
  /\ mu = "free" /\ ~closed
  /\ closed' = TRUE
  /\ open' = FALSE
  /\ \/ FlushOK /\ UNCHANGED lastWord
     \/ FlushError /\ lastWord' = TRUE
  /\ UNCHANGED <<mu, size, failing, offered, exists, backup, full, taken>>

Next ==
  \/ DiskChanges
  \/ Record \/ RecordFails \/ RecordClosed
  \/ RotateFlush \/ RotateReopen
  \/ FlushTick \/ Close

\* The ticker ticks, a rotation that has begun goes on, and lines keep coming.
Fairness ==
  /\ WF_vars(FlushTick)
  /\ WF_vars(RotateFlush \/ RotateReopen)
  /\ WF_vars(Record \/ RecordFails)

Spec     == Init /\ [][Next]_vars
FairSpec == Spec /\ Fairness

-----------------------------------------------------------------------------
TypeOK ==
  /\ mu \in {"free", "rotate", "reopen"}
  /\ {buffer, backup, file} \subseteq Seq(1..MaxLines)
  /\ Len(buffer) <= BufLines
  /\ {sticky, open, failing, closed, exists, full, lastWord} \subseteq BOOLEAN
  /\ size \in 0..MaxLines
  /\ offered \in 0..MaxLines
  /\ taken \cup written \subseteq 1..offered

\* Lines Record took that never reached a file and never will.
Lost == taken \ (written \cup (IF closed THEN {} ELSE ToSet(buffer)))

\* Nothing is lost in silence: when lines are, the recorder had said that it is
\* failing, or Close says it (recorder.go:118-120 and 162-164).
LossIsReported == [][Lost' # Lost => failing \/ lastWord']_vars

\* What there is to read later is in the order it was recorded, without a line
\* twice, across a rotation, a partial write and a reopened file.
LinesInOrder ==
  LET all == backup \o file \o buffer
  IN  \A i, j \in 1..Len(all) : i < j => all[i] < all[j]

\* recorder.go:55-56: the file is rotated to path.1, so no rotation destroys it.
RotationKeepsBackup ==
  [][ToSet(file) \subseteq ToSet(file') \cup ToSet(backup')]_vars

\* recorder.go:27-33: recording recovers, once the disk has space again.
RecordingRecovers ==
  [](failing /\ ~full => <>(~failing \/ full \/ closed))
=============================================================================
