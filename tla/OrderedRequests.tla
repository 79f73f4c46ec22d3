--------------------------- MODULE OrderedRequests ---------------------------
(***************************************************************************)
(* What SessionSender and HostClient promise together, as one atomic       *)
(* object: an envelope takes its message ID, registers its routing entry   *)
(* and enters the ordered output stream in one step, so a request is       *)
(* outstanding from the moment it is sent until the host answers it, and a *)
(* host that answers correctly never makes the session fail.               *)
(*                                                                         *)
(* HostClient.tla shows that the code, which allocates, registers and      *)
(* enqueues at different moments and may be cancelled in between,          *)
(* implements this.                                                        *)
(***************************************************************************)
EXTENDS Naturals, Sequences

CONSTANTS Ids, Traces, Kinds

VARIABLES
    sent,         \* the envelopes put on the output stream, in order
    outstanding,  \* the IDs of the requests that wait for their response
    trusted,      \* the host has only answered what it was asked
    failed        \* a response was refused, which ends the session

vars == <<sent, outstanding, trusted, failed>>

Envelopes == [id : Ids, kind : Kinds, trace : Traces]

Init ==
    /\ sent = <<>>
    /\ outstanding = {}
    /\ trusted = TRUE
    /\ failed = FALSE

\* An envelope enters the stream.  Its ID is larger than every earlier one.
\* The entry of a request can be missing only if the host answered it early.
Send ==
    \E e \in Envelopes :
        /\ \A k \in 1..Len(sent) : sent[k].id < e.id
        /\ sent' = Append(sent, e)
        /\ \/ outstanding' = outstanding \cup {i \in {e.id} : e.kind = "request"}
           \/ ~trusted /\ outstanding' = outstanding
        /\ UNCHANGED <<trusted, failed>>

\* The host answers an outstanding request.
Answer ==
    /\ \E i \in outstanding : outstanding' = outstanding \ {i}
    /\ UNCHANGED <<sent, trusted, failed>>

\* The host answers what it was not asked: only this may fail the session.
Misbehave ==
    /\ trusted' = FALSE
    /\ outstanding' \in SUBSET outstanding
    /\ failed' \in BOOLEAN
    /\ UNCHANGED sent

Next == Send \/ Answer \/ Misbehave

Spec == Init /\ [][Next]_vars
=============================================================================
