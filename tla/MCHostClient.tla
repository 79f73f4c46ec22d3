---------------------------- MODULE MCHostClient -----------------------------
(***************************************************************************)
(* HostClient for TLC.  Two callers with their own traces: a response can  *)
(* carry the trace of the other request, and the requests of one caller,   *)
(* the dropped ones included, have the same trace.                         *)
(***************************************************************************)
EXTENDS HostClient, TLC

CONSTANTS c1, c2, t1, t2

MCTraceOf == c1 :> t1 @@ c2 :> t2
=============================================================================
