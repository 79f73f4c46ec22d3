---------------------------- MODULE ParentLiveness ---------------------------
(***************************************************************************)
(* The watcher of the parent process (runtime/session/liveness.rs) and its *)
(* use in `run` (runtime/session.rs).  A thread of its own watches stdin,  *)
(* the pipe from the parent, and reports its end through a oneshot         *)
(* channel; `run` races the session against that report and then drops the *)
(* watcher.                                                                *)
(*                                                                         *)
(* On Unix the thread polls with a timeout, looks at the stop flag in      *)
(* between, and drop joins it.  Elsewhere it blocks in read and drop       *)
(* detaches it.  Each access to the flag, each system call and each use of *)
(* the channel is a step.  The pipe is external: a read of an empty pipe   *)
(* blocks while the parent has it open, and poll reports it as ready when  *)
(* a read would not block.                                                 *)
(***************************************************************************)
EXTENDS Naturals

CONSTANT MaxBytes    \* bound: the bytes the parent writes

ASSUME MaxBytesAssumption == MaxBytes \in Nat

VARIABLES
    unix,     \* which of the two implementations is compiled
    written,  \* the bytes the parent has written into the pipe
    unread,   \* those that have not been read yet
    parent,   \* the parent has the pipe open
    watcher,  \* where the watching thread is
    found,    \* the result of watching
    closed,   \* the oneshot channel
    stop,     \* the stop flag
    run,      \* where `run` is
    outcome   \* what `run` returns

vars == <<unix, written, unread, parent, watcher, found, closed, stop, run, outcome>>

pipeVars    == <<unix, written, unread, parent>>
watcherVars == <<watcher, found>>
runVars     == <<run, outcome>>

TypeOK ==
    /\ unix \in BOOLEAN
    /\ written \in 0..MaxBytes
    /\ unread \in 0..MaxBytes
    /\ parent \in BOOLEAN
    /\ watcher \in {"loop", "polling", "ready", "reading", "report", "sending", "ended"}
    /\ found \in {"none", "Ok", "Err"}
    /\ closed \in {"empty", "Ok", "Err", "dropped"}
    /\ stop \in BOOLEAN
    /\ run \in {"select", "drop", "join", "returned"}
    /\ outcome \in {"none", "session", "Ok", "Err", "lost"}

Init ==
    /\ unix \in BOOLEAN
    /\ written = 0 /\ unread = 0 /\ parent = TRUE
    /\ watcher = "loop" /\ found = "none"
    /\ closed = "empty" /\ stop = FALSE
    /\ run = "select" /\ outcome = "none"

-----------------------------------------------------------------------------
(* Helpers.                                                                *)

\* A read would return at once.
Readable == unread > 0 \/ ~parent

\* The thread goes from one place to another.
Go(from, to) ==
    /\ watcher = from
    /\ watcher' = to
    /\ UNCHANGED <<found, closed, stop>>
    /\ UNCHANGED runVars

\* Watching ends with a result.
WatchReturns(from, r) ==
    /\ watcher = from
    /\ watcher' = "report"
    /\ found' = r
    /\ UNCHANGED <<closed, stop>>
    /\ UNCHANGED runVars

-----------------------------------------------------------------------------
(* Mistakes this code could have made; each is caught by a property below. *)

\* watch_descriptor does not go back when poll timed out.
PollTimesOutFallingThrough ==
    /\ Go("polling", "ready")
    /\ ~Readable
    /\ UNCHANGED pipeVars

\* A byte from the parent is taken for the end of the pipe.
ReadByteEnding ==
    /\ unread > 0
    /\ unread' = unread - 1
    /\ WatchReturns("reading", "Ok")
    /\ UNCHANGED <<unix, written, parent>>

\* The end of the pipe is treated like an empty read.
ReadEndIgnored ==
    /\ unread = 0
    /\ ~parent
    /\ Go("reading", "loop")
    /\ UNCHANGED pipeVars

\* drop joins the thread without setting the flag.
StoreStopNever ==
    /\ run = "drop"
    /\ run' = "join"
    /\ UNCHANGED <<pipeVars, watcherVars, closed, stop, outcome>>

-----------------------------------------------------------------------------
(* watch_descriptor, and the loop of the portable watch_stdin.             *)

\* The head of the loop: on with the system call, or stopped.
LoopContinues ==
    /\ ~stop
    /\ Go("loop", IF unix THEN "polling" ELSE "reading")
    /\ UNCHANGED pipeVars

LoopStopped ==
    /\ stop
    /\ WatchReturns("loop", "Ok")
    /\ UNCHANGED pipeVars

\* poll returns 0.
PollTimesOut ==
    /\ Go("polling", "loop")
    /\ ~Readable
    /\ UNCHANGED pipeVars

PollReady ==
    /\ Go("polling", "ready")
    /\ Readable
    /\ UNCHANGED pipeVars

PollInterrupted ==
    /\ Go("polling", "loop")
    /\ UNCHANGED pipeVars

PollFails ==
    /\ WatchReturns("polling", "Err")
    /\ UNCHANGED pipeVars

\* The flag is looked at again before the read.
ReadyContinues ==
    /\ ~stop
    /\ Go("ready", "reading")
    /\ UNCHANGED pipeVars

ReadyStopped ==
    /\ stop
    /\ WatchReturns("ready", "Ok")
    /\ UNCHANGED pipeVars

\* read returns 1: what the parent writes is ignored.
ReadByte ==
    /\ unread > 0
    /\ unread' = unread - 1
    /\ Go("reading", "loop")
    /\ UNCHANGED <<unix, written, parent>>

\* read returns 0.
ReadEnd ==
    /\ unread = 0
    /\ ~parent
    /\ WatchReturns("reading", "Ok")
    /\ UNCHANGED pipeVars

\* Interrupted, or, on Unix, WouldBlock.
ReadInterrupted ==
    /\ Go("reading", "loop")
    /\ UNCHANGED pipeVars

ReadFails ==
    /\ WatchReturns("reading", "Err")
    /\ UNCHANGED pipeVars

-----------------------------------------------------------------------------
(* watch_stdin.                                                            *)

\* The result is sent unless drop has begun; then the channel is dropped.
ReportStopped ==
    /\ watcher = "report"
    /\ stop
    /\ watcher' = "ended"
    /\ closed' = "dropped"
    /\ UNCHANGED <<pipeVars, found, stop, runVars>>

ReportContinues ==
    /\ ~stop
    /\ Go("report", "sending")
    /\ UNCHANGED pipeVars

Send ==
    /\ watcher = "sending"
    /\ watcher' = "ended"
    /\ closed' = found
    /\ UNCHANGED <<pipeVars, found, stop, runVars>>

-----------------------------------------------------------------------------
(* run, ParentLiveness::wait and ::drop.                                   *)

\* One branch of the select! is taken and the other future dropped.
Select(r) ==
    /\ run = "select"
    /\ run' = "drop"
    /\ outcome' = r
    /\ UNCHANGED <<pipeVars, watcherVars, closed, stop>>

SessionEnds == Select("session")

\* wait has the report of the watcher, or finds that it is gone without one.
WaitReturns ==
    /\ closed # "empty"
    /\ Select(IF closed = "dropped" THEN "lost" ELSE closed)

StoreStop ==
    /\ run = "drop"
    /\ stop' = TRUE
    /\ run' = "join"
    /\ UNCHANGED <<pipeVars, watcherVars, closed, outcome>>

\* Join the thread, or detach it.
Join ==
    /\ run = "join"
    /\ unix => watcher = "ended"
    /\ run' = "returned"
    /\ UNCHANGED <<pipeVars, watcherVars, closed, stop, outcome>>

-----------------------------------------------------------------------------
(* The parent.                                                             *)

ParentWrites ==
    /\ parent
    /\ written < MaxBytes
    /\ written' = written + 1
    /\ unread' = unread + 1
    /\ UNCHANGED <<unix, parent, watcherVars, closed, stop, runVars>>

ParentExits ==
    /\ parent
    /\ parent' = FALSE
    /\ UNCHANGED <<unix, written, unread, watcherVars, closed, stop, runVars>>

\* `run` has returned and its process may exit.
Done ==
    /\ run = "returned"
    /\ UNCHANGED vars

-----------------------------------------------------------------------------

Watch ==
    \/ LoopContinues \/ LoopStopped
    \/ PollTimesOut \/ PollReady \/ PollInterrupted \/ PollFails
    \/ ReadyContinues \/ ReadyStopped
    \/ ReadByte \/ ReadEnd \/ ReadInterrupted \/ ReadFails
    \/ ReportStopped \/ ReportContinues \/ Send

\* The part of `run` that needs nobody else.
Leave == StoreStop \/ Join

Next ==
    \/ Watch
    \/ SessionEnds \/ WaitReturns
    \/ Leave
    \/ ParentWrites \/ ParentExits
    \/ Done

Spec == Init /\ [][Next]_vars

\* What the thread does without being interrupted.  A read of an empty pipe is
\* not among it while the parent has the pipe open.
Uninterrupted ==
    \/ LoopContinues \/ LoopStopped
    \/ PollTimesOut
    \/ ReadyContinues \/ ReadyStopped
    \/ ReportStopped \/ ReportContinues \/ Send

\* The thread is scheduled and poll returns after its interval; a system call
\* that is repeated is not interrupted every time; `run` is polled.
Fairness ==
    /\ WF_vars(Uninterrupted)
    /\ SF_vars(PollReady)
    /\ SF_vars(ReadByte \/ ReadEnd)
    /\ WF_vars(WaitReturns)
    /\ WF_vars(Leave)

FairSpec == Spec /\ Fairness

-----------------------------------------------------------------------------
(* Properties.                                                             *)

\* With poll the thread never enters a read that would block, so drop can rely
\* on its looking at the flag (liveness.rs 127-153).
ReadNeverBlocks == unix /\ watcher \in {"ready", "reading"} => Readable

\* `run` says that the parent has gone only if it has, and everything it wrote
\* was read; and wait never finds the channel without a report, whatever the
\* order of the flag, the channel and the end of the session is
\* (liveness.rs 35-40, 61-63).
ReportsTrue ==
    /\ outcome = "Ok" => ~parent /\ unread = 0
    /\ outcome # "lost"

\* Once the parent has gone, `run` returns.
ParentNoticed == ~parent ~> run = "returned"

\* Dropping the watcher ends, also while the parent lives on and is silent.
DropReturns == (run = "drop") ~> (run = "returned")
=============================================================================
