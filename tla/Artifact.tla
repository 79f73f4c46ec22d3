------------------------------ MODULE Artifact -------------------------------
(***************************************************************************)
(* One call of ActionContext::store_artifact (runtime/host.rs) with        *)
(* validate_source and artifact_plan (runtime/host/artifact.rs).           *)
(*                                                                         *)
(* The call notes where its source stands, reads it to the end to validate *)
(* it, seeks back, announces a number of chunks, reads the source again    *)
(* and sends the chunks, and asks the host to store the result.            *)
(*                                                                         *)
(* The source belongs to the caller, who may have read from it before; it  *)
(* may change during the call.  The job may be cancelled or finish at any  *)
(* time.                                                                   *)
(*                                                                         *)
(* Every await is in a biased `select!` that looks at the token first.     *)
(* That look and what follows in the same poll are not atomic: `mid` says  *)
(* that the call had looked when the token ended.  A send is one step, and *)
(* a request is answered only after it was sent, by HostClient.tla.  The   *)
(* content of a source is "described" if what is left of it has the size   *)
(* and the digest of the descriptor, and "other" if not.                   *)
(***************************************************************************)
EXTENDS Naturals, Sequences, FiniteSetsExt

CONSTANTS
    Sizes,              \* the sizes descriptors announce
    Lengths,            \* the lengths a changed or wrong source may have
    Starts,             \* where a source may stand when it is handed over
    Maxima,             \* values of maximum_artifact_chunk_bytes
    BufferBytes,        \* ARTIFACT_IO_BUFFER_BYTES
    MaxU32, MaxU64      \* the widths of chunk_count and size_bytes

ASSUME SizesAssumption ==
    Sizes \subseteq 0..MaxU64 /\ Lengths \subseteq Nat /\ Starts \subseteq Nat
ASSUME MaximaAssumption == Maxima \subseteq Nat \ {0}
\* As 2^64 - 1 is larger than 2^32 * 64 Ki.
ASSUME WidthAssumption ==
    /\ BufferBytes \in Nat \ {0} /\ MaxU32 \in Nat
    /\ MaxU64 \in Nat /\ MaxU64 >= (MaxU32 + 1) * BufferBytes

VARIABLES
    maximum,    \* HostHello::maximum_artifact_chunk_bytes
    token,      \* the cancellation token of the job
    mid,        \* the current poll has not seen the end of the token
    pc,         \* where the call is suspended
    size,       \* descriptor.size_bytes
    source,     \* the length and content of the source
    position,   \* the position of the source
    start,      \* the position that validation goes back to
    counted,    \* the bytes the validation has read
    digest,     \* the validation has read nothing but the described content
    plan,       \* the chunk_count of the plan
    index,      \* the index of the next chunk
    remaining,  \* the bytes that have not been sent
    modified,   \* history: the source was changed during the call
    reply,      \* the response of the host to the last request
    outcome,    \* what the call returned
    wire        \* the envelopes of the transfer, in order

sourceVars == <<source, position, modified>>
checkVars  == <<start, counted, digest>>
sendVars   == <<plan, index, remaining>>
hostVars   == <<reply, wire>>

vars == <<maximum, token, mid, pc, size, sourceVars, checkVars, sendVars, outcome, hostVars>>

Awaiting == {"locating", "validating", "rewinding", "starting", "accepting", "reading",
             "sending", "completing", "storing"}

Outcomes == {"none", "overflow", "mismatch", "too_many", "refused", "truncated", "failed",
             "cancelled", "stored"}

Contents == {"described", "other"}

\* Among the types, no number leaves its width.
TypeOK ==
    /\ maximum \in Maxima
    /\ token \in {"ACTIVE", "ENDED"}
    /\ mid \in BOOLEAN
    /\ pc \in Awaiting \cup {"idle", "returned"}
    /\ size \in 0..MaxU64
    /\ source \in [length : Nat, content : Contents]
    /\ position \in Nat
    /\ start \in Nat
    /\ counted \in 0..MaxU64
    /\ digest \in BOOLEAN
    /\ plan \in 0..MaxU32
    /\ index \in 0..MaxU32
    /\ remaining \in 0..MaxU64
    /\ modified \in BOOLEAN
    /\ reply \in {"none", "same", "other"}
    /\ outcome \in Outcomes
    /\ wire \in Seq([kind : {"Start", "Chunk", "Complete"},
                     number : 0..MaxU32, length : 0..BufferBytes])

Init ==
    /\ maximum \in Maxima
    /\ token = "ACTIVE" /\ mid = FALSE
    /\ pc = "idle" /\ size = 0
    /\ source = [length |-> 0, content |-> "described"] /\ position = 0 /\ modified = FALSE
    /\ start = 0 /\ counted = 0 /\ digest = TRUE
    /\ plan = 0 /\ index = 0 /\ remaining = 0
    /\ reply = "none" /\ wire = <<>>
    /\ outcome = "none"

-----------------------------------------------------------------------------
(* artifact_plan.                                                          *)

ChunkBytes == Min({maximum, BufferBytes})

\* The number of chunks is rounded down.
CountRoundedDown(n) == n \div ChunkBytes

\* The rounding adds one byte too many.
CountRoundedUpTwice(n) == (n + ChunkBytes) \div ChunkBytes

Count(n) == IF n = 0 THEN 0 ELSE (n + ChunkBytes - 1) \div ChunkBytes

\* The count is truncated instead of checked.
PlannableUnchecked(n) == n > 0 => n + ChunkBytes - 1 <= MaxU64

\* checked_add and try_from succeed.
Plannable(n) ==
    /\ n > 0 => n + ChunkBytes - 1 <= MaxU64
    /\ Count(n) <= MaxU32

-----------------------------------------------------------------------------
(* Helpers.                                                                *)

\* A poll proceeds from an await: its look at the token was early enough.
Proceed(from, to) ==
    /\ pc = from
    /\ token = "ACTIVE" \/ mid
    /\ pc' = to
    /\ mid' = FALSE
    /\ UNCHANGED <<maximum, token, size>>

\* The call returns from there.
ProceedReturning(from, r) ==
    /\ Proceed(from, "returned")
    /\ outcome' = r
    /\ UNCHANGED <<sourceVars, checkVars, sendVars, hostVars>>

-----------------------------------------------------------------------------
(* Mistakes this code could have made; each is caught by a property below. *)

\* The validated source is not rewound.
RewindNot ==
    /\ counted = size /\ digest
    /\ Plannable(size)
    /\ Proceed("rewinding", "starting")
    /\ plan' = Count(size) /\ index' = 0 /\ remaining' = size
    /\ UNCHANGED <<sourceVars, checkVars, outcome, hostVars>>

\* The validated source is rewound to its very beginning.
RewindToZero ==
    /\ counted = size /\ digest
    /\ Plannable(size)
    /\ Proceed("rewinding", "starting")
    /\ position' = 0
    /\ plan' = Count(size) /\ index' = 0 /\ remaining' = size
    /\ UNCHANGED <<source, modified, checkVars, outcome, hostVars>>

\* A request that waits for its response does not look at the token.
CancelledUnlessRequesting ==
    /\ pc \in Awaiting
    /\ token # "ACTIVE"
    /\ ~mid
    /\ IF pc \in {"accepting", "storing"}
       THEN mid' = TRUE /\ UNCHANGED <<pc, outcome>>
       ELSE pc' = "returned" /\ outcome' = "cancelled" /\ UNCHANGED mid
    /\ UNCHANGED <<maximum, token, size, sourceVars, checkVars, sendVars, hostVars>>

-----------------------------------------------------------------------------
(* store_artifact: validation.                                             *)

\* The descriptor passes validate_descriptor; the source stands at position p.
Store(n, s, p) ==
    /\ pc = "idle"
    /\ token = "ACTIVE"
    /\ pc' = "locating"
    /\ size' = n
    /\ source' = s
    /\ position' = p
    /\ UNCHANGED <<maximum, token, mid, modified, checkVars, sendVars, outcome, hostVars>>

\* validate_source asks for the position of the source.
Locate ==
    /\ Proceed("locating", "validating")
    /\ start' = position
    /\ UNCHANGED <<sourceVars, counted, digest, sendVars, outcome, hostVars>>

\* validate_source reads up to a buffer of bytes.
ReadSome(n) ==
    /\ position + n <= source.length
    /\ counted + n <= MaxU64
    /\ Proceed("validating", "validating")
    /\ position' = position + n
    /\ counted' = counted + n
    /\ digest' = (digest /\ source.content = "described")
    /\ UNCHANGED <<source, modified, start, sendVars, outcome, hostVars>>

\* checked_add of the size overflows.
ReadOverflow(n) ==
    /\ position + n <= source.length
    /\ counted + n > MaxU64
    /\ ProceedReturning("validating", "overflow")

\* validate_source reads nothing more.
ReadEnd ==
    /\ position >= source.length
    /\ Proceed("validating", "rewinding")
    /\ UNCHANGED <<sourceVars, checkVars, sendVars, outcome, hostVars>>

\* The source is back where it stood and fits its descriptor, and the transfer is
\* planned.
Rewind ==
    /\ counted = size /\ digest
    /\ Plannable(size)
    /\ Proceed("rewinding", "starting")
    /\ position' = start
    /\ plan' = Count(size) /\ index' = 0 /\ remaining' = size
    /\ UNCHANGED <<source, modified, checkVars, outcome, hostVars>>

\* The source differs from its descriptor.
Mismatch ==
    /\ ~(counted = size /\ digest)
    /\ ProceedReturning("rewinding", "mismatch")

\* artifact_plan fails.
TooMany ==
    /\ counted = size /\ digest
    /\ ~Plannable(size)
    /\ ProceedReturning("rewinding", "too_many")

-----------------------------------------------------------------------------
(* store_artifact: transfer.                                               *)

\* ArtifactStart, ArtifactChunk or ArtifactComplete is put on the wire.
Put(k, n, l) ==
    /\ wire' = Append(wire, [kind |-> k, number |-> n, length |-> l])
    /\ UNCHANGED <<sourceVars, checkVars, outcome, reply>>

SendStart ==
    /\ Proceed("starting", "accepting")
    /\ Put("Start", plan, 0)
    /\ UNCHANGED sendVars

\* What the loop over the chunks does next.
NextChunk(i) == IF i < plan THEN "reading" ELSE "completing"

\* The host has accepted this artifact.
Accepted ==
    /\ reply = "same"
    /\ Proceed("accepting", NextChunk(0))
    /\ reply' = "none"
    /\ UNCHANGED <<sourceVars, checkVars, sendVars, outcome, wire>>

\* The host has answered otherwise, to either request: with an error, another kind
\* of payload or another artifact.  Results.tla tells these apart.
Refused(from) ==
    /\ reply = "other"
    /\ ProceedReturning(from, "refused")

ChunkLength == Min({remaining, ChunkBytes})

\* read_exact has filled the buffer.
ReadChunk ==
    /\ position + ChunkLength <= source.length
    /\ Proceed("reading", "sending")
    /\ position' = position + ChunkLength
    /\ UNCHANGED <<source, modified, checkVars, sendVars, outcome, hostVars>>

\* read_exact has met the end of the source.
Truncated ==
    /\ position + ChunkLength > source.length
    /\ ProceedReturning("reading", "truncated")

SendChunk ==
    /\ Proceed("sending", NextChunk(index + 1))
    /\ Put("Chunk", index, ChunkLength)
    /\ index' = index + 1
    /\ remaining' = remaining - ChunkLength
    /\ UNCHANGED plan

SendComplete ==
    /\ Proceed("completing", "storing")
    /\ Put("Complete", 0, 0)
    /\ UNCHANGED sendVars

\* The host has stored this artifact.
Stored ==
    /\ reply = "same"
    /\ ProceedReturning("storing", "stored")

\* A read, a seek or a send fails.
Fail ==
    /\ pc \in Awaiting
    /\ ProceedReturning(pc, "failed")

\* A poll finds that the token has ended.
Cancelled ==
    /\ pc \in Awaiting
    /\ token # "ACTIVE"
    /\ ~mid
    /\ pc' = "returned"
    /\ outcome' = "cancelled"
    /\ UNCHANGED <<maximum, token, mid, size, sourceVars, checkVars, sendVars, hostVars>>

\* A poll ends without progress.
Suspend ==
    /\ mid
    /\ mid' = FALSE
    /\ UNCHANGED <<maximum, token, pc, size, sourceVars, checkVars, sendVars, outcome,
                   hostVars>>

-----------------------------------------------------------------------------
(* The job, the owner of the source and the host.                          *)

\* The token is cancelled or finished; the call may be in a poll that has looked.
EndToken ==
    /\ token = "ACTIVE"
    /\ token' = "ENDED"
    /\ mid' \in BOOLEAN
    /\ mid' => pc \in Awaiting
    /\ UNCHANGED <<maximum, pc, size, sourceVars, checkVars, sendVars, outcome, hostVars>>

Modify(l) ==
    /\ pc \in Awaiting
    /\ ~modified
    /\ modified' = TRUE
    /\ source' = [length |-> l, content |-> "other"]
    /\ UNCHANGED <<maximum, token, mid, pc, size, position, checkVars, sendVars, outcome,
                   hostVars>>

\* The host answers an open request; "same" is ArtifactAccepted or
\* ArtifactStored for the artifact ID of the request.
Respond(r) ==
    /\ pc \in {"accepting", "storing"}
    /\ reply = "none"
    /\ reply' = r
    /\ UNCHANGED <<maximum, token, mid, pc, size, sourceVars, checkVars, sendVars, outcome,
                   wire>>

\* The call has returned, or the job has ended without one.
Done ==
    /\ pc = "returned" \/ (pc = "idle" /\ token # "ACTIVE")
    /\ UNCHANGED vars

-----------------------------------------------------------------------------

Sources(n, p) ==
    {[length |-> p + n, content |-> "described"]} \cup [length : Lengths, content : {"other"}]

Step ==
    \/ \E n \in 1..BufferBytes : ReadSome(n) \/ ReadOverflow(n)
    \/ Locate \/ ReadEnd \/ Rewind \/ Mismatch \/ TooMany
    \/ SendStart \/ Accepted \/ ReadChunk \/ Truncated \/ SendChunk
    \/ SendComplete \/ Stored
    \/ \E from \in {"accepting", "storing"} : Refused(from)

Next ==
    \/ \E n \in Sizes, p \in Starts : \E s \in Sources(n, p) : Store(n, s, p)
    \/ Step \/ Fail \/ Cancelled \/ Suspend
    \/ EndToken
    \/ \E l \in Lengths : Modify(l)
    \/ \E r \in {"same", "other"} : Respond(r)
    \/ Done

Spec == Init /\ [][Next]_vars

\* A call whose token has ended is polled: that wakes it, see Cancellation.tla.
\* Nothing is assumed of the host or of the source.
Fairness == WF_vars(Cancelled \/ Suspend)

FairSpec == Spec /\ Fairness

-----------------------------------------------------------------------------
(* Properties.                                                             *)

\* The envelopes of a kind, by position.
Of(k) == {i \in 1..Len(wire) : wire[i].kind = k}

\* When a call asks the host to complete, it has sent as many chunks as it has
\* announced, numbered from 0, none empty or above the limit of the host, and
\* they add up to the announced size: also when the source has changed since,
\* and with sizes of zero, exact multiples and the largest (host.rs 305-332,
\* artifact.rs 97-124).
ChunksExact ==
    Of("Complete") # {} =>
        LET chunks == Of("Chunk")
        IN  /\ \A s \in Of("Start") : Cardinality(chunks) = wire[s].number
            /\ \A i \in chunks :
                  /\ wire[i].number = Cardinality({k \in chunks : k < i})
                  /\ wire[i].length \in 1..maximum
            /\ MapThenSumSet(LAMBDA i : wire[i].length, chunks) = size

\* A source that fits its descriptor and is left alone is never found too short
\* in the second pass, wherever it stood (artifact.rs 83-88, host.rs 310-316).
StableSourceSuffices == outcome = "truncated" => modified

\* The bytes that a completed transfer of a source left alone has sent are those
\* the descriptor is about: as many as described, by ChunksExact, and the last
\* ones of the source.  Those before the position at which the caller has handed
\* it over are not sent (artifact.rs 59-64, 83-88, host.rs 310-316).
DescribedBytesSent ==
    Of("Complete") # {} /\ size > 0 /\ ~modified => position = source.length

\* An artifact is refused for its number of chunks only if that does not fit
\* into 32 bits, however the addition before overflows (artifact.rs 109-122).
TooManyOnlyIfNeeded == outcome = "too_many" => size > MaxU32 * ChunkBytes

\* Once the token of its job has ended a call returns, whether or not the host
\* ever answers.
CancelledCallsEnd == (token # "ACTIVE" /\ pc # "idle") ~> (pc = "returned")
=============================================================================
