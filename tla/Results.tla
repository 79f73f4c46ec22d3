------------------------------- MODULE Results -------------------------------
(***************************************************************************)
(* What one action exchanges with the host, by payload: raw host calls     *)
(* with their checks in both directions (ActionContext::host_call,         *)
(* HostCallKind and HostClient::call in runtime/host/), log records, the   *)
(* action's result and the terminal update made of it (ActionResult and    *)
(* terminal_update), with the errors on their way from the host through    *)
(* the action and back (runtime/error.rs, outbound_error).                 *)
(*                                                                         *)
(* The host and the action are arbitrary: the host answers with any        *)
(* payload, and the action passes on the error of a call, makes up one of  *)
(* its own, or attaches artifacts it got from other actions.  Sending and  *)
(* routing are in HostClient.tla, depth and identity of the envelopes in   *)
(* Session.tla, cancellation in Serve.tla.                                 *)
(***************************************************************************)
EXTENDS ConfigValue

CONSTANTS
    Values,        \* configuration values
    Artifacts,     \* artifact IDs
    None,
    MaxAttached    \* bound: artifacts attached to a result

ASSUME MaxAttachedAssumption == MaxAttached \in Nat
\* A value is a tree, as every decoded or constructed ConfigValue is.
ASSUME ValuesAssumption == \A v \in Values : IsTree(v)

VARIABLES
    session,    \* "serving" until a payload makes serve return an error
    call,       \* the kind of the host call in progress
    answer,     \* history: the error the host gave to the last call
    failure,    \* the SdkError the last call returned
    confirmed,  \* the artifact IDs the host has confirmed to this job
    crossing,   \* history: the last value that was checked at the boundary
    output,     \* what the action returned
    update      \* the terminal JobUpdate

vars == <<session, call, answer, failure, confirmed, crossing, output, update>>

\* HostCallKind; the kinds of calls without a value are alike.
Kinds == {"ReadDocument", "ListDirectory", "GetConfig", "InvokeConfigFunction"}

Codes == {"UNSPECIFIED", "INVALID_ARGUMENT", "UNAVAILABLE", "FAILED_PRECONDITION", "INTERNAL",
          "CANCELLED"}

\* A ProtocolError; `message` says that it is not empty.
ProtocolErrors == [code : Codes, message : BOOLEAN, retryable : BOOLEAN]

\* Those of the host and those an action makes up.
GivenErrors == [code : {"UNSPECIFIED", "UNAVAILABLE"}, message : BOOLEAN, retryable : BOOLEAN]

Variants == {"Environment", "InvalidArgument", "Transport", "Protocol", "Action", "Cancelled",
             "Runtime", "Host"}

\* An SdkError; `host` is the error of the variant Host.
Error(variant, message) == [variant |-> variant, message |-> message, host |-> None]
HostError(e) == [variant |-> "Host", message |-> FALSE, host |-> e]
SdkErrors == {Error(x, t) : x \in Variants \ {"Host"}, t \in BOOLEAN}
                 \cup {HostError(e) : e \in GivenErrors}

\* A StoredArtifact is the job's own or another job's.  The code compares job IDs,
\* of which the host makes a new one for every job (oll/common.proto).
StoredArtifacts == [own : BOOLEAN, id : Artifacts]

Updates ==
    [state : {"Succeeded"}, value : Values \cup {None}, error : {None},
     artifacts : Seq(StoredArtifacts)]
        \cup [state : {"Failed"}, value : {None}, error : ProtocolErrors, artifacts : {<<>>}]

TypeOK ==
    /\ session \in {"serving", "ended"}
    /\ call \in Kinds \cup {None}
    /\ answer \in GivenErrors \cup {None}
    /\ failure \in SdkErrors \cup {None}
    /\ confirmed \subseteq Artifacts
    /\ crossing = None \/ crossing \in [value : Values, bound : BOOLEAN, base : {2, 3},
                                        accepted : BOOLEAN]
    /\ output = None \/ output \in [error : SdkErrors \cup {None}, value : Values \cup {None},
                                    artifacts : Seq(StoredArtifacts)]
    /\ update = None \/ update \in Updates

Init ==
    /\ session = "serving"
    /\ call = None /\ answer = None /\ failure = None
    /\ confirmed = {}
    /\ crossing = None
    /\ output = None /\ update = None

-----------------------------------------------------------------------------
(* Errors.                                                                 *)

\* validation::protocol_error.
ErrorValid(e) == e.code # "UNSPECIFIED" /\ e.message

\* Display for SdkError: is the text not empty?
Text(e) == e.variant \in {"Cancelled", "Runtime"} \/ e.message

Retryable(e) == e.variant \in {"Environment", "Transport", "Runtime"}

\* Every error of the action is reported as its own failure.
ProtocolErrorInternal(e) == [code |-> "INTERNAL", message |-> TRUE, retryable |-> FALSE]

\* SdkError::protocol_error.
ProtocolError(e) ==
    IF e.variant = "Host" THEN e.host
    ELSE [code |-> CASE e.variant = "InvalidArgument" -> "INVALID_ARGUMENT"
                     [] Retryable(e) -> "UNAVAILABLE"
                     [] e.variant = "Protocol" -> "FAILED_PRECONDITION"
                     [] e.variant = "Action" -> "INTERNAL"
                     [] e.variant = "Cancelled" -> "CANCELLED",
          message |-> Text(e),
          retryable |-> Retryable(e)]

\* The error of an action is sent as it is.
OutboundErrorUnchecked(e) == ProtocolError(e)

OutboundError(e) ==
    IF ErrorValid(ProtocolError(e)) THEN ProtocolError(e)
    ELSE [code |-> "INTERNAL", message |-> TRUE, retryable |-> FALSE]

-----------------------------------------------------------------------------
(* Helpers.                                                                *)

Running == session = "serving" /\ output = None

\* Bound: calls and their values come before artifacts, with which they share
\* nothing, and a value is looked at before the next.
Free == Running /\ call = None /\ confirmed = {} /\ crossing = None

\* A value is checked where it would leave or enter the plugin.
Check(v, b, base) ==
    crossing' = [value |-> v, bound |-> b, base |-> base, accepted |-> Validate(v, b) = {}]

\* host_call returns an error.
CallFails(e) ==
    /\ call' = None
    /\ failure' = e

\* into_wire does not look at the job of an artifact.
IntoWireOfAnyJob(v, s) ==
    /\ v # None => Validate(v, FALSE) = {}
    /\ \A a, b \in 1..Len(s) : a # b => s[a].id # s[b].id

\* ActionResult::into_wire accepts a value, checked once more, and the attached
\* artifacts; all its errors are InvalidArgument.
IntoWire(v, s) ==
    /\ v # None => Validate(v, FALSE) = {}
    /\ \A a \in 1..Len(s) : s[a].own
    /\ \A a, b \in 1..Len(s) : a # b => s[a].id # s[b].id

-----------------------------------------------------------------------------
(* Host calls.                                                             *)

\* A call without a value: HostCallKind::validate accepts it.
Call(k) ==
    /\ Free
    /\ k # "InvokeConfigFunction"
    /\ call' = k
    /\ answer' = None /\ failure' = None /\ crossing' = None
    /\ UNCHANGED <<session, confirmed, output, update>>

\* A configuration path with an empty segment, or a function that is missing,
\* foreign or has no ID, is refused.
CallRefused ==
    /\ Free
    /\ CallFails(Error("InvalidArgument", TRUE))
    /\ answer' = None /\ crossing' = None
    /\ UNCHANGED <<session, confirmed, output, update>>

\* invoke_config_function checks its argument.
Invoke(v) ==
    /\ Free
    /\ Check(v, TRUE, 3)
    /\ answer' = None
    /\ IF Validate(v, TRUE) = {}
       THEN call' = "InvokeConfigFunction" /\ failure' = None
       ELSE \E x \in Validate(v, TRUE) : CallFails(Error(x, TRUE))
    /\ UNCHANGED <<session, confirmed, output, update>>

\* The host answers with a value of its kind; prost has to decode it first.
RespondValue(v) ==
    /\ Running /\ call \in {"GetConfig", "InvokeConfigFunction"}
    /\ Decodable(v, 3)
    /\ Check(v, TRUE, 3)
    /\ IF Validate(v, TRUE) = {}
       THEN call' = None /\ UNCHANGED failure
       ELSE \E x \in Validate(v, TRUE) : CallFails(Error(x, TRUE))
    /\ UNCHANGED <<session, answer, confirmed, output, update>>

\* Another result of its kind.
RespondPlain ==
    /\ Running /\ call # None
    /\ call' = None
    /\ crossing' = None
    /\ UNCHANGED <<session, answer, failure, confirmed, output, update>>

\* Another kind of result or payload, or no result.
RespondOther ==
    /\ Running /\ call # None
    /\ CallFails(Error("Protocol", TRUE))
    /\ crossing' = None
    /\ UNCHANGED <<session, answer, confirmed, output, update>>

\* The error in a HostCallResponse is checked by HostClient::call.
RespondError(e) ==
    /\ Running /\ call # None
    /\ answer' = e
    /\ CallFails(IF ErrorValid(e) THEN HostError(e) ELSE Error("Protocol", TRUE))
    /\ crossing' = None
    /\ UNCHANGED <<session, confirmed, output, update>>

\* A ProtocolError in its place is checked by serve.
RespondProtocolError(e) ==
    /\ Running /\ call # None
    /\ answer' = e
    /\ IF ErrorValid(e) THEN CallFails(HostError(e)) /\ UNCHANGED session
                        ELSE session' = "ended" /\ UNCHANGED <<call, failure>>
    /\ crossing' = None
    /\ UNCHANGED <<confirmed, output, update>>

\* The call is cancelled, finds the depth limit, its send fails, or the session
\* drops its entry.
Interrupted(x) ==
    /\ Running /\ call # None
    /\ CallFails(Error(x, TRUE))
    /\ crossing' = None
    /\ UNCHANGED <<session, answer, confirmed, output, update>>

\* The session breaks off.
End ==
    /\ session = "serving"
    /\ session' = "ended"
    /\ crossing' = None
    /\ UNCHANGED <<call, answer, failure, confirmed, output, update>>

-----------------------------------------------------------------------------
(* Log records, artifacts and the result.                                  *)

\* A field of a log record is checked.
Log(v) ==
    /\ Free
    /\ Check(v, FALSE, 3)
    /\ UNCHANGED <<session, call, answer, failure, confirmed, output, update>>

\* store_artifact returns an artifact when the host confirms the announced ID,
\* and an error when it confirms another; see Artifact.tla.
StoreArtifact(a, same) ==
    /\ Running /\ call = None
    /\ confirmed' = IF same THEN confirmed \cup {a} ELSE confirmed
    /\ failure' = IF same THEN None ELSE Error("Protocol", TRUE)
    /\ answer' = None /\ crossing' = None
    /\ UNCHANGED <<session, call, output, update>>

\* The host answers a request of store_artifact with a ProtocolError, which serve
\* checks; HostClient::request makes it an error of the host.
StoreError(e) ==
    /\ Running /\ call = None
    /\ answer' = e
    /\ IF ErrorValid(e) THEN failure' = HostError(e) /\ UNCHANGED session
                        ELSE failure' = None /\ session' = "ended"
    /\ crossing' = None
    /\ UNCHANGED <<call, confirmed, output, update>>

\* The action returns an error, or an empty or structured result.
Return(e, v, s) ==
    /\ Running
    /\ output' = [error |-> e, value |-> v, artifacts |-> s]
    /\ call' = None
    /\ crossing' = None
    /\ UNCHANGED <<session, answer, failure, confirmed, update>>

\* ActionResult::value checks a result when it is made.
MakeResult(v) ==
    /\ Running /\ call = None /\ crossing = None
    /\ Check(v, FALSE, 2)
    /\ UNCHANGED <<session, call, answer, failure, confirmed, output, update>>

\* A failed update keeps the artifacts of the result.
UpdateKeepingArtifacts ==
    /\ session = "serving"
    /\ output # None /\ update = None
    /\ LET e == IF output.error # None THEN output.error ELSE Error("InvalidArgument", TRUE)
           ok == output.error = None /\ IntoWire(output.value, output.artifacts)
       IN  update' = [state |-> IF ok THEN "Succeeded" ELSE "Failed",
                      value |-> IF ok THEN output.value ELSE None,
                      error |-> IF ok THEN None ELSE OutboundError(e),
                      artifacts |-> output.artifacts]
    /\ crossing' = None
    /\ UNCHANGED <<session, call, answer, failure, confirmed, output>>

\* terminal_update.
Update ==
    /\ session = "serving"
    /\ output # None /\ update = None
    /\ LET e == IF output.error # None THEN output.error ELSE Error("InvalidArgument", TRUE)
       IN  update' = IF output.error = None /\ IntoWire(output.value, output.artifacts)
                     THEN [state |-> "Succeeded", value |-> output.value, error |-> None,
                           artifacts |-> output.artifacts]
                     ELSE [state |-> "Failed", value |-> None, error |-> OutboundError(e),
                           artifacts |-> <<>>]
    /\ crossing' = None
    /\ UNCHANGED <<session, call, answer, failure, confirmed, output>>

Done ==
    /\ session = "ended" \/ update # None
    /\ UNCHANGED vars

-----------------------------------------------------------------------------

\* The action attaches its own StoredArtifacts and any that other jobs hand over.
Attached ==
    LET own == [own : {TRUE}, id : confirmed]
        foreign == [own : {FALSE}, id : Artifacts]
    IN  UNION {[1..n -> own \cup foreign] : n \in 0..MaxAttached}

\* No value, or that of the result MakeResult has just made.
Made == {None} \cup (IF crossing # None /\ crossing.base = 2 /\ crossing.accepted
                     THEN {crossing.value} ELSE {})

Next ==
    \/ \E k \in Kinds : Call(k)
    \/ CallRefused \/ RespondPlain \/ RespondOther
    \/ \E v \in Values : Invoke(v) \/ RespondValue(v) \/ Log(v) \/ MakeResult(v)
    \/ \E e \in GivenErrors : RespondError(e) \/ RespondProtocolError(e) \/ StoreError(e)
    \/ \E x \in {"Cancelled", "Protocol", "Transport", "Runtime"} : Interrupted(x)
    \/ \E a \in Artifacts, same \in BOOLEAN : StoreArtifact(a, same)
    \/ \E e \in SdkErrors \cup ({failure} \ {None}) : Return(e, None, <<>>)
    \/ \E v \in Made, s \in Attached : Return(None, v, s)
    \/ Update
    \/ End
    \/ Done

Spec == Init /\ [][Next]_vars

-----------------------------------------------------------------------------
(* Properties.                                                             *)

\* A value leaves the plugin or reaches an action exactly if it is sound: no
\* node deeper than the limit, through lists and maps alike, no function but
\* those of this session where a session is at hand, nothing malformed, and
\* times in their only representation (value.rs 14-97); and so is the value of the
\* terminal update, which no function may be part of (host.rs 43-50, 72-74).
ValuesSound ==
    /\ crossing # None => (crossing.accepted <=> Sound(crossing.value, crossing.bound))
    /\ update # None /\ update.value # None => Sound(update.value, FALSE)

\* A failed job has an error with a code and a message, whatever the action
\* returned, made up or passed on, and whatever was wrong with its artifacts;
\* and only a failed one (jobs.rs 307-320, error.rs 43-66).
ErrorsWellFormed ==
    update # None => IF update.state = "Failed" THEN ErrorValid(update.error)
                                                ELSE output.error = None

\* An error of the host that an action passes on comes back to the host
\* unchanged, whether it came in a HostCallResponse or as the answer to a host
\* call or to a request of an artifact transfer (error.rs 44-46, client.rs 66-69,
\* 125-128).
HostErrorKept ==
    update # None /\ output.error # None /\ output.error = failure
        /\ failure.variant = "Host"
        => update.error = answer

\* A successful update names only artifacts that the host has confirmed to this
\* very job, and none twice, whatever StoredArtifacts the actions exchange
\* (host.rs 75-92).
ReferencesStored ==
    update # None /\ update.state = "Succeeded" =>
        LET ids == {update.artifacts[a].id : a \in 1..Len(update.artifacts)}
        IN  /\ ids \subseteq confirmed
            /\ Cardinality(ids) = Len(update.artifacts)

\* A comment of value.rs (5-7): values up to the limit are safe on the wire,
\* whatever their shape.  What the plugin accepts, prost can decode.
ValuesDecodable ==
    crossing # None /\ crossing.accepted => Decodable(crossing.value, crossing.base)
=============================================================================
