------------------------ MODULE ParentLivenessProofs -------------------------
(***************************************************************************)
(* Proofs about ParentLiveness on both platforms and for any number of     *)
(* bytes.                                                                  *)
(***************************************************************************)
EXTENDS ParentLiveness, TLAPS

-----------------------------------------------------------------------------
(* The inductive invariant.                                                *)

\* The pipe holds no more than what was written.
PipeInv == unread <= written

\* The flag is set by drop only, when the select! is decided.
StopInv == stop => run \in {"join", "returned"}

\* The channel is dropped without a report only after the flag was set.
ChannelInv == closed = "dropped" => stop

\* A watcher that was not stopped has found the end of the pipe, or failed.
FoundInv ==
    /\ watcher \in {"report", "sending"} /\ found = "Ok" => stop \/ (~parent /\ unread = 0)
    /\ watcher \in {"report", "sending"} => found # "none"
    /\ closed = "Ok" /\ run = "select" => ~parent /\ unread = 0

\* It has done so for good: an ended thread reads nothing more.
EndedInv == closed # "empty" => watcher = "ended"

IndInv ==
    /\ TypeOK
    /\ PipeInv
    /\ StopInv
    /\ ChannelInv
    /\ FoundInv
    /\ EndedInv
    /\ ReadNeverBlocks
    /\ ReportsTrue

-----------------------------------------------------------------------------

LEMMA InitInd == Init => IndInv
<1> SUFFICES ASSUME Init PROVE IndInv
  OBVIOUS
<1> USE DEF Init
<1>1. TypeOK /\ PipeInv
  <2>1. unix \in BOOLEAN /\ parent \in BOOLEAN /\ stop \in BOOLEAN
    BY Zenon
  <2>2. /\ written = 0 /\ unread = 0 /\ watcher = "loop" /\ found = "none"
        /\ closed = "empty" /\ run = "select" /\ outcome = "none"
    BY Zenon
  <2> HIDE DEF Init
  <2> QED
    BY <2>1, <2>2, MaxBytesAssumption DEF TypeOK, PipeInv
<1>2. StopInv /\ ChannelInv /\ FoundInv /\ EndedInv
  BY DEF StopInv, ChannelInv, FoundInv, EndedInv
<1>3. ReadNeverBlocks /\ ReportsTrue
  BY DEF ReadNeverBlocks, ReportsTrue
<1> QED
  BY <1>1, <1>2, <1>3 DEF IndInv

\* Every step keeps the invariant.
LEMMA IndStep == ASSUME IndInv, [Next]_vars PROVE IndInv'
<1> USE MaxBytesAssumption
    DEF IndInv, TypeOK, PipeInv, StopInv, ChannelInv, FoundInv, EndedInv, ReadNeverBlocks,
        ReportsTrue, Readable, pipeVars, watcherVars, runVars, Go, WatchReturns, Select
<1>1. CASE LoopContinues
  BY <1>1 DEF LoopContinues
<1>2. CASE LoopStopped
  BY <1>2 DEF LoopStopped
<1>3. CASE PollTimesOut \/ PollReady \/ PollInterrupted \/ PollFails
  BY <1>3 DEF PollTimesOut, PollReady, PollInterrupted, PollFails
<1>4. CASE ReadyContinues \/ ReadyStopped
  BY <1>4 DEF ReadyContinues, ReadyStopped
<1>5. CASE ReadByte
  BY <1>5 DEF ReadByte
<1>6. CASE ReadEnd \/ ReadInterrupted \/ ReadFails
  BY <1>6 DEF ReadEnd, ReadInterrupted, ReadFails
<1>7. CASE ReportStopped \/ ReportContinues
  BY <1>7 DEF ReportStopped, ReportContinues
<1>8. CASE Send
  BY <1>8 DEF Send
<1>9. CASE SessionEnds
  BY <1>9 DEF SessionEnds
<1>10. CASE WaitReturns
  <2>1. closed # "dropped"
    BY <1>10 DEF WaitReturns
  <2>2. closed \in {"Ok", "Err"} /\ Select(closed)
    BY <2>1, <1>10 DEF WaitReturns
  <2> QED
    BY <2>2
<1>11. CASE StoreStop
  <2>1. stop' \in BOOLEAN /\ stop'
    BY <1>11, Zenon DEF StoreStop
  <2>2. run = "drop" /\ run' = "join" /\ UNCHANGED <<pipeVars, watcherVars, closed, outcome>>
    BY <1>11, Zenon DEF StoreStop
  <2> QED
    BY <2>1, <2>2
<1>12. CASE Join
  BY <1>12 DEF Join
<1>13. CASE ParentWrites
  BY <1>13 DEF ParentWrites
<1>14. CASE ParentExits
  BY <1>14 DEF ParentExits
<1>15. CASE UNCHANGED vars
  BY <1>15 DEF vars
<1> QED
  BY <1>1, <1>2, <1>3, <1>4, <1>5, <1>6, <1>7, <1>8, <1>9, <1>10, <1>11,
     <1>12, <1>13, <1>14, <1>15
     DEF Next, Watch, Leave, Done

\* The invariant holds in every reachable state.
THEOREM Inductive == Spec => []IndInv
<1>1. IndInv /\ [Next]_vars => IndInv'
  BY IndStep
<1> QED
  BY InitInd, <1>1, PTL DEF Spec

\* The thread that polls never blocks in read (liveness.rs, watch_descriptor).
THEOREM ReadsReturn == Spec => []ReadNeverBlocks
<1>1. IndInv => ReadNeverBlocks
  BY DEF IndInv
<1> QED
  BY Inductive, <1>1, PTL

\* `run` reports the end of the parent only when it is true, and wait never
\* fails for lack of a report (liveness.rs, wait and watch_stdin).
THEOREM ReportsAlwaysTrue == Spec => []ReportsTrue
<1>1. IndInv => ReportsTrue
  BY DEF IndInv
<1> QED
  BY Inductive, <1>1, PTL
=============================================================================
