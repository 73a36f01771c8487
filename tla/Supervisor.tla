------------------------------ MODULE Supervisor ------------------------------
(***************************************************************************)
(* internal/supervisor/supervisor.go, for one supervised process: the      *)
(* restart loop with its backoff, the child, the goroutine that forwards   *)
(* one of its two output streams, and the kill timer of terminate.         *)
(*                                                                         *)
(* The child is external: it writes lines, may ignore SIGTERM and may exit *)
(* at any time.  A write blocks while the pipe is full.                    *)
(***************************************************************************)
EXTENDS Integers, Sequences, SequencesExt, FiniteSetsExt

CONSTANTS
  MinBackoff, MaxBackoff, \* seconds
  PipeLines,              \* lines that fit into the pipe
  LineKinds,              \* "short", and "long" for one above the scanner's limit
  MaxWritten              \* bound on the lines a run of the child writes

SupervisorAssumption ==
  /\ {MinBackoff, MaxBackoff, PipeLines} \subseteq Nat \ {0}
  /\ MinBackoff <= MaxBackoff
  /\ LineKinds \subseteq {"short", "long"}
  /\ MaxWritten \in Nat

VARIABLES
  ctx,      \* "live" or "done"
  loop,     \* where supervise, with runOnce, is
  backoff,  \* supervise's backoff
  child,    \* "none", "up" or "exited"
  reader,   \* pipe: "off", "scanning" or "gaveUp"
  pipe,     \* lines written and not yet read
  pipeOpen, \* the gateway still holds the read end
  killAt,   \* terminate's SIGKILL is pending
  written,  \* history: lines this run of the child has written
  logged    \* history: lines of this run in the gateway's log

vars == <<ctx, loop, backoff, child, reader, pipe, pipeOpen, killAt,
          written, logged>>

Init ==
  /\ ctx = "live"
  /\ loop = "check"
  /\ backoff = MinBackoff
  /\ child = "none"
  /\ reader = "off"
  /\ pipe = <<>>
  /\ pipeOpen = FALSE
  /\ killAt = FALSE
  /\ written = 0
  /\ logged = 0

\* A signal stops the gateway.
Cancel ==
  /\ ctx = "live"
  /\ ctx' = "done"
  /\ UNCHANGED <<loop, backoff, child, reader, pipe, pipeOpen, killAt, written, logged>>

-----------------------------------------------------------------------------
\* supervise at the head of its loop, the context being done.
SeesCancel ==
  /\ loop = "check" /\ ctx = "done"
  /\ loop' = "returned"
  /\ UNCHANGED <<ctx, backoff, child, reader, pipe, pipeOpen, killAt, written, logged>>

\* supervise looks at the context and then starts the child, which may be
\* cancelled in between; a child that cannot be started is a run that failed.
Begin ==
  /\ loop = "check" /\ ctx = "live"
  /\ loop' = "start"
  /\ UNCHANGED <<ctx, backoff, child, reader, pipe, pipeOpen, killAt, written, logged>>

StartChild ==
  /\ loop = "start"
  /\ written' = 0 /\ logged' = 0
  /\ \/ /\ loop' = "run"
        /\ child' = "up"
        /\ reader' = "scanning"
        /\ pipeOpen' = TRUE
     \/ /\ loop' = "refused"
        /\ UNCHANGED <<child, reader, pipeOpen>>
  /\ UNCHANGED <<ctx, backoff, pipe, killAt>>

\* Broken: the termination is asked for and not enforced.
TerminateAsks ==
  /\ loop = "run" /\ ctx = "done"
  /\ loop' = "stopping"
  /\ UNCHANGED <<ctx, backoff, child, reader, pipe, pipeOpen, killAt, written, logged>>

\* runOnce sees the cancellation: SIGTERM, and a SIGKILL after the grace period.
Terminate ==
  /\ loop = "run" /\ ctx = "done"
  /\ loop' = "stopping"
  /\ killAt' = TRUE
  /\ UNCHANGED <<ctx, backoff, child, reader, pipe, pipeOpen, written, logged>>

Kill ==
  /\ killAt
  /\ killAt' = FALSE
  /\ child' = IF child = "up" THEN "exited" ELSE child
  /\ UNCHANGED <<ctx, loop, backoff, reader, pipe, pipeOpen, written, logged>>

\* Broken: on a cancellation runOnce does not wait for the child.
ReapsEagerly ==
  /\ loop = "stopping" \/ (loop = "run" /\ child = "exited")
  /\ loop' = "drain"
  /\ child' = IF child = "exited" THEN "none" ELSE child
  /\ pipeOpen' = FALSE
  /\ pipe' = <<>>
  /\ UNCHANGED <<ctx, backoff, reader, killAt, written, logged>>

\* Broken: the read end stays open.
ReapsKeepsPipe ==
  /\ loop \in {"run", "stopping"} /\ child = "exited"
  /\ loop' = "drain"
  /\ child' = "none"
  /\ UNCHANGED <<ctx, backoff, reader, pipe, pipeOpen, killAt, written, logged>>

\* cmd.Wait sees the exit and closes the read end, with whatever is unread.
Reaps ==
  /\ loop \in {"run", "stopping"} /\ child = "exited"
  /\ loop' = "drain"
  /\ child' = "none"
  /\ pipeOpen' = FALSE
  /\ pipe' = <<>>
  /\ UNCHANGED <<ctx, backoff, reader, killAt, written, logged>>

\* outWG.Wait, and runOnce returns.
Drained ==
  /\ loop = "drain" /\ reader # "scanning"
  /\ loop' = "ran"
  /\ reader' = "off"
  /\ UNCHANGED <<ctx, backoff, child, pipe, pipeOpen, killAt, written, logged>>

\* The backoff after a run, which is reset when the run was a long one.
Base(healthy) == IF healthy THEN MinBackoff ELSE backoff

\* supervise after runOnce: it returns if cancelled, else it begins to wait.
\* A child that could not be started has not stayed up.
AfterRun ==
  /\ loop \in {"ran", "refused"}
  /\ IF ctx = "done"
     THEN /\ loop' = "returned"
          /\ UNCHANGED backoff
     ELSE \E healthy \in BOOLEAN :
          /\ loop = "refused" => ~healthy
          /\ loop' = "wait"
          /\ backoff' = Base(healthy)
  /\ UNCHANGED <<ctx, child, reader, pipe, pipeOpen, killAt, written, logged>>

\* The wait ends by cancellation, or by its timer, after which it is doubled.
Waited ==
  /\ loop = "wait"
  /\ \/ /\ ctx = "done"
        /\ loop' = "returned"
        /\ UNCHANGED backoff
     \/ /\ loop' = "check"
        /\ backoff' = Min({2 * backoff, MaxBackoff})
  /\ UNCHANGED <<ctx, child, reader, pipe, pipeOpen, killAt, written, logged>>

-----------------------------------------------------------------------------
\* pipe: the scanner logs a line; it gives up at one above its limit, or at the
\* closed pipe.
Forward ==
  /\ reader = "scanning" /\ pipe # <<>>
  /\ pipe' = Tail(pipe)
  /\ IF Head(pipe) = "short"
     THEN logged' = logged + 1 /\ UNCHANGED reader
     ELSE reader' = "gaveUp" /\ UNCHANGED logged
  /\ UNCHANGED <<ctx, loop, backoff, child, pipeOpen, killAt, written>>

StreamEnds ==
  /\ reader = "scanning" /\ ~pipeOpen
  /\ reader' = "gaveUp"
  /\ UNCHANGED <<ctx, loop, backoff, child, pipe, pipeOpen, killAt, written, logged>>

\* The child (external).
ChildWrites ==
  /\ child = "up" /\ Len(pipe) < PipeLines /\ written < MaxWritten
  /\ written' = written + 1
  /\ \E kind \in LineKinds : pipe' = Append(pipe, kind)
  /\ UNCHANGED <<ctx, loop, backoff, child, reader, pipeOpen, killAt, logged>>

ChildExits ==
  /\ child = "up"
  /\ child' = "exited"
  /\ UNCHANGED <<ctx, loop, backoff, reader, pipe, pipeOpen, killAt, written, logged>>

Supervise == \/ SeesCancel \/ Begin \/ StartChild \/ Terminate
             \/ Reaps \/ Drained \/ AfterRun \/ Waited

Next ==
  \/ Cancel
  \/ SeesCancel \/ Begin \/ StartChild \/ Terminate
  \/ Reaps \/ Drained \/ AfterRun \/ Waited
  \/ Kill
  \/ Forward \/ StreamEnds
  \/ ChildWrites \/ ChildExits

\* Goroutines and timers run; the child owes nothing. Starting the child is
\* tried again and again, and does not fail forever.
Fairness ==
  /\ WF_vars(Supervise)
  /\ SF_vars(StartChild /\ child' = "up")
  /\ WF_vars(Kill)
  /\ WF_vars(Forward \/ StreamEnds)

Spec     == Init /\ [][Next]_vars
FairSpec == Spec /\ Fairness

-----------------------------------------------------------------------------
TypeOK ==
  /\ ctx \in {"live", "done"}
  /\ loop \in {"check", "start", "run", "stopping", "drain", "ran", "refused", "wait", "returned"}
  /\ backoff \in MinBackoff..MaxBackoff
  /\ child \in {"none", "up", "exited"}
  /\ reader \in {"off", "scanning", "gaveUp"}
  /\ pipe \in Seq(LineKinds) /\ Len(pipe) <= PipeLines
  /\ {pipeOpen, killAt} \subseteq BOOLEAN
  /\ written \in 0..MaxWritten /\ logged \in 0..written

\* Wait returns only when nothing runs: no child outlives the gateway, whichever
\* of the two exits first and wherever the cancellation arrives.
NoOrphan == loop = "returned" => child = "none" /\ ~pipeOpen

\* supervisor.go:1-6: a child that exited is started again, unless the gateway
\* stops.
CrashIsRestarted == child = "exited" ~> child = "up" \/ ctx = "done"

\* A cancellation ends the loop even when the child ignores SIGTERM or is
\* blocked on a full pipe nobody reads.
ShutdownCompletes == ctx = "done" ~> loop = "returned"

\* supervisor.go:4-5: the gateway streams the output of a child to its log, so
\* somebody reads it as long as the child runs.
OutputHasReader == child = "up" => reader = "scanning"

\* The same sentence: what a child wrote before it exited is in the log when the
\* run is over.
LastWordsLogged == loop = "ran" => logged = written
=============================================================================
