------------------------------- MODULE Session -------------------------------
(***************************************************************************)
(* The envelopes of a plugin session: the handshake of run_session, the    *)
(* checks every later envelope of the host passes (validate_envelope,      *)
(* runtime/session.rs, with runtime/validation.rs), and the identity and   *)
(* the trace of every envelope the plugin sends, those of host calls       *)
(* included (ActionContext::host_call, runtime/host.rs).                   *)
(*                                                                         *)
(* The host is arbitrary: any header may come at any time.  What a payload *)
(* does to the jobs is in Serve.tla and Results.tla; here a message of an  *)
(* established session starts a job, is answered with its own trace, or is *)
(* absorbed.  NoTrace stands for a trace that is missing or has an empty   *)
(* correlation ID.  A send is one step, by HostClient.tla.                 *)
(***************************************************************************)
EXTENDS Naturals, Sequences

CONSTANTS
    Sessions, Instances,  \* session and plugin instance IDs
    Empty,                \* an ID the host has left empty
    NoTrace,
    MaxU32,               \* the width of the depths
    MaxID,                \* bound: message IDs of the host
    MaxSent,              \* bound: envelopes of the plugin
    MaxJobs               \* bound: jobs started

ASSUME EmptyAssumption == Empty \notin Sessions \cup Instances
ASSUME BoundsAssumption ==
    MaxU32 \in Nat \ {0} /\ MaxID \in Nat /\ MaxSent \in Nat /\ MaxJobs \in Nat

VARIABLES
    phase,            \* where run_session is
    session,          \* SessionState
    handshake_trace,
    maximum,          \* HostClient::maximum_call_depth
    contexts,         \* the ActionContexts: trace, parent_call_id, and whether a host
                      \* call was refused for its depth
    sent,             \* the envelopes of the plugin
    greeting,         \* history: the header and the limits of the HostHello
    confirmation      \* history: the header of the host's SessionReady

vars == <<phase, session, handshake_trace, maximum, contexts, sent, greeting, confirmation>>

U32 == 0..MaxU32
Depths == [call_depth : U32, causal_depth : U32]

Headers == [message_id : 0..MaxID, session_id : Sessions \cup {Empty},
            instance_id : Instances \cup {Empty}, trace : Depths \cup {NoTrace},
            reply_to : BOOLEAN]

\* A HostHello; `expected` says that it names a node and this plugin.
Hellos == [expected : BOOLEAN, maximum_call_depth : U32, maximum_causal_depth : U32,
           maximum_artifact_chunk_bytes : {0, 1}]

Envelopes == [kind : {"PluginHello", "Ready", "JobAccepted", "Answer", "Output", "HostCall"},
              session_id : Sessions, instance_id : Instances, trace : Depths,
              parent_call_id : 0..MaxID]

NoHeader == [message_id |-> 0, session_id |-> Empty, instance_id |-> Empty,
             trace |-> NoTrace, reply_to |-> FALSE]

TypeOK ==
    /\ phase \in {"hello", "greet", "ready", "confirm", "serving", "ended"}
    /\ session \in [session_id : Sessions \cup {Empty}, instance_id : Instances \cup {Empty},
                    last_host_message_id : 0..MaxID,
                    maximum_call_depth : U32, maximum_causal_depth : U32]
    /\ handshake_trace \in Depths \cup {NoTrace}
    /\ maximum \in U32
    /\ contexts \in Seq([trace : Depths, parent_call_id : 1..MaxID, refused : BOOLEAN])
    /\ sent \in Seq(Envelopes)
    /\ greeting \in [header : Headers, call : U32, causal : U32]
    /\ confirmation \in Headers

Init ==
    /\ phase = "hello"
    /\ session = [session_id |-> Empty, instance_id |-> Empty, last_host_message_id |-> 0,
                  maximum_call_depth |-> 0, maximum_causal_depth |-> 0]
    /\ handshake_trace = NoTrace
    /\ maximum = 0
    /\ contexts = <<>>
    /\ sent = <<>>
    /\ greeting = [header |-> NoHeader, call |-> 0, causal |-> 0]
    /\ confirmation = NoHeader

-----------------------------------------------------------------------------
(* The checks.                                                             *)

\* Only the session ID is looked at.
IdentifiedBySession(h) == h.session_id # Empty

Identified(h) == h.session_id # Empty /\ h.instance_id # Empty

\* validation::host_hello.
HelloValid(hello) ==
    /\ hello.expected
    /\ hello.maximum_call_depth # 0
    /\ hello.maximum_causal_depth # 0
    /\ hello.maximum_artifact_chunk_bytes # 0

\* validation::trace.
TraceValid(h, call, causal) ==
    /\ h.trace # NoTrace
    /\ h.trace.call_depth <= call
    /\ h.trace.causal_depth <= causal

\* validate_envelope.
EnvelopeValid(h) ==
    /\ h.message_id # 0 /\ h.message_id > session.last_host_message_id
    /\ h.session_id = session.session_id /\ h.instance_id = session.instance_id
    /\ TraceValid(h, session.maximum_call_depth, session.maximum_causal_depth)

\* The ID of an accepted envelope is not recorded.
AcceptNothing(h) == UNCHANGED session

\* What validate_envelope records.
Accept(h) == session' = [session EXCEPT !.last_host_message_id = h.message_id]

\* SessionSender stamps an envelope with the identity of the session.
Send(k, t, p) ==
    /\ Len(sent) < MaxSent
    /\ sent' = Append(sent, [kind |-> k, session_id |-> session.session_id,
                             instance_id |-> session.instance_id, trace |-> t,
                             parent_call_id |-> p])

-----------------------------------------------------------------------------
(* Mistakes this code could have made; each is caught by a property below. *)

\* SessionReady may have any trace.
HostReadyAnyTrace(h) ==
    /\ phase = "ready"
    /\ EnvelopeValid(h)
    /\ ~h.reply_to
    /\ Accept(h)
    /\ confirmation' = h
    /\ phase' = "confirm"
    /\ UNCHANGED <<handshake_trace, maximum, contexts, sent, greeting>>

\* SessionReady may be a response.
HostReadyAnyReply(h) ==
    /\ phase = "ready"
    /\ EnvelopeValid(h)
    /\ h.trace = handshake_trace
    /\ Accept(h)
    /\ confirmation' = h
    /\ phase' = "confirm"
    /\ UNCHANGED <<handshake_trace, maximum, contexts, sent, greeting>>

\* HostClient::new gets the causal limit for the call depth.
SendReadySwapped ==
    /\ phase = "confirm"
    /\ Send("Ready", handshake_trace, 0)
    /\ maximum' = session.maximum_causal_depth
    /\ phase' = "serving"
    /\ UNCHANGED <<session, handshake_trace, contexts, greeting, confirmation>>

\* The depth of a host call wraps around.
CallDepthsWrapping(d) == {(d + 1) % (MaxU32 + 1)} \cap 0..maximum

-----------------------------------------------------------------------------
(* run_session up to serve.                                                *)

HostHello(h) ==
    /\ phase = "hello"
    /\ h.message_id # 0
    /\ Identified(h)
    /\ ~h.reply_to
    /\ \E hello \in Hellos :
          /\ HelloValid(hello)
          /\ TraceValid(h, hello.maximum_call_depth, hello.maximum_causal_depth)
          /\ session' = [session_id |-> h.session_id, instance_id |-> h.instance_id,
                         last_host_message_id |-> h.message_id,
                         maximum_call_depth |-> hello.maximum_call_depth,
                         maximum_causal_depth |-> hello.maximum_causal_depth]
          /\ greeting' = [header |-> h, call |-> hello.maximum_call_depth,
                          causal |-> hello.maximum_causal_depth]
    /\ handshake_trace' = h.trace
    /\ phase' = "greet"
    /\ UNCHANGED <<maximum, contexts, sent, confirmation>>

SendPluginHello ==
    /\ phase = "greet"
    /\ Send("PluginHello", handshake_trace, 0)
    /\ phase' = "ready"
    /\ UNCHANGED <<session, handshake_trace, maximum, contexts, greeting, confirmation>>

HostReady(h) ==
    /\ phase = "ready"
    /\ EnvelopeValid(h)
    /\ ~h.reply_to
    /\ h.trace = handshake_trace
    /\ Accept(h)
    /\ confirmation' = h
    /\ phase' = "confirm"
    /\ UNCHANGED <<handshake_trace, maximum, contexts, sent, greeting>>

\* The session is established and HostClient::new gets its limits.
SendReady ==
    /\ phase = "confirm"
    /\ Send("Ready", handshake_trace, 0)
    /\ maximum' = session.maximum_call_depth
    /\ phase' = "serving"
    /\ UNCHANGED <<session, handshake_trace, contexts, greeting, confirmation>>

-----------------------------------------------------------------------------
(* serve.                                                                  *)

\* The loop takes an envelope that passes validate_envelope.
Receive(h) ==
    /\ phase = "serving"
    /\ EnvelopeValid(h)
    /\ Accept(h)
    /\ UNCHANGED <<phase, handshake_trace, maximum, greeting, confirmation>>

\* JobManager::start accepts the job and gives its context the trace and the ID
\* of the request.
StartJob(h) ==
    /\ ~h.reply_to
    /\ Len(contexts) < MaxJobs
    /\ contexts' = Append(contexts, [trace |-> h.trace, parent_call_id |-> h.message_id,
                                     refused |-> FALSE])
    /\ Send("JobAccepted", h.trace, 0)

\* A heartbeat, a cancellation, a rejected start.  The acknowledgement that waits
\* for the end of a job is no other envelope than one that is sent at once.
Answer(h) ==
    /\ ~h.reply_to
    /\ Send("Answer", h.trace, 0)
    /\ UNCHANGED contexts

\* A response is routed.
Absorb(h) == UNCHANGED <<contexts, sent>>

\* A shutdown, or a check fails, or a stream ends: run_session returns.
End ==
    /\ phase # "ended"
    /\ phase' = "ended"
    /\ UNCHANGED <<session, handshake_trace, maximum, contexts, sent, greeting, confirmation>>

Done == phase = "ended" /\ UNCHANGED vars

-----------------------------------------------------------------------------
(* ActionContext.                                                          *)

\* The depth of a host call of a job at depth d, if checked_add and the limit
\* allow one.
CallDepths(d) == {d + 1} \cap U32 \cap 0..maximum

ActionVars == <<phase, session, handshake_trace, maximum, greeting, confirmation>>

HostCall(c) ==
    /\ phase = "serving"
    /\ LET depths == CallDepths(contexts[c].trace.call_depth)
       IN  \/ /\ \E d \in depths :
                    Send("HostCall", [contexts[c].trace EXCEPT !.call_depth = d],
                         contexts[c].parent_call_id)
              /\ UNCHANGED contexts
           \/ /\ depths = {}
              /\ contexts' = [contexts EXCEPT ![c].refused = TRUE]
              /\ UNCHANGED sent
    /\ UNCHANGED ActionVars

\* A log record, an artifact transfer or the terminal update of the job.
Output(c) ==
    /\ phase = "serving"
    /\ Send("Output", contexts[c].trace, 0)
    /\ UNCHANGED contexts
    /\ UNCHANGED ActionVars

-----------------------------------------------------------------------------

Next ==
    \/ \E h \in Headers :
          \/ HostHello(h) \/ HostReady(h)
          \/ Receive(h) /\ (StartJob(h) \/ Answer(h) \/ Absorb(h))
    \/ SendPluginHello \/ SendReady
    \/ \E c \in 1..Len(contexts) : HostCall(c) \/ Output(c)
    \/ End
    \/ Done

Spec == Init /\ [][Next]_vars

-----------------------------------------------------------------------------
(* Properties.                                                             *)

\* Every envelope the plugin sends bears the identity of the HostHello it has
\* accepted and keeps the depth limits announced there, host calls of jobs at
\* any depth included; and a host call is refused only at the very limit.
WithinLimits ==
    /\ \A i \in 1..Len(sent) :
          /\ sent[i].session_id = greeting.header.session_id
          /\ sent[i].instance_id = greeting.header.instance_id
          /\ sent[i].trace.call_depth <= greeting.call
          /\ sent[i].trace.causal_depth <= greeting.causal
    /\ \A c \in 1..Len(contexts) :
          contexts[c].refused => contexts[c].trace.call_depth = greeting.call

\* A host call is one level below exactly one job, the one whose start it names:
\* however the host repeats or reorders its messages, and at the largest depth,
\* no two jobs share an ID and no depth wraps around.
CallsAttributable ==
    \A i \in 1..Len(sent) : sent[i].kind = "HostCall" =>
        \E c \in 1..Len(contexts) :
            /\ \A d \in 1..Len(contexts) :
                  contexts[d].parent_call_id = sent[i].parent_call_id <=> d = c
            /\ sent[i].trace =
                  [contexts[c].trace EXCEPT !.call_depth = contexts[c].trace.call_depth + 1]

\* The plugin greets first and then confirms, both with the trace of the
\* HostHello, and does nothing else before; it confirms only what the host has
\* confirmed, later than its greeting, in the same session and trace, and takes
\* neither message of the host for one if it is a response (session.rs 46-113).
HandshakeFirst ==
    /\ \A i \in 1..Len(sent) :
          /\ sent[i].kind = "PluginHello" <=> i = 1
          /\ sent[i].kind = "Ready" <=> i = 2
          /\ i <= 2 => sent[i].trace = greeting.header.trace
    /\ Len(sent) >= 2 =>
          /\ confirmation.message_id > greeting.header.message_id
          /\ confirmation.session_id = greeting.header.session_id
          /\ confirmation.trace = greeting.header.trace
          /\ ~greeting.header.reply_to /\ ~confirmation.reply_to
    /\ contexts # <<>> => Len(sent) > 2
=============================================================================
