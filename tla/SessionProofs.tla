---------------------------- MODULE SessionProofs ----------------------------
(***************************************************************************)
(* The properties of Session.tla hold for every set of identities, every   *)
(* width and every bound.                                                  *)
(***************************************************************************)
EXTENDS Session, TLAPS

\* The plugin's copy of the greeting is true.
CopyInv ==
    /\ session.session_id = greeting.header.session_id
    /\ session.instance_id = greeting.header.instance_id
    /\ session.maximum_call_depth = greeting.call
    /\ session.maximum_causal_depth = greeting.causal
    /\ session.last_host_message_id >= greeting.header.message_id
    /\ handshake_trace = greeting.header.trace
    /\ ~greeting.header.reply_to

\* What the phases after the greeting may rely on.
GreetedInv ==
    phase \in {"greet", "ready", "confirm", "serving"} =>
        /\ session.session_id \in Sessions
        /\ session.instance_id \in Instances
        /\ handshake_trace \in Depths
        /\ handshake_trace.call_depth <= greeting.call
        /\ handshake_trace.causal_depth <= greeting.causal

\* What has been sent when.
PhaseInv ==
    /\ phase \in {"hello", "greet"} => Len(sent) = 0
    /\ phase \in {"ready", "confirm"} => Len(sent) = 1
    /\ phase = "serving" => Len(sent) >= 2 /\ maximum = session.maximum_call_depth
    /\ phase \in {"hello", "greet", "ready", "confirm"} => Len(contexts) = 0

\* The host has confirmed what it announced.
Confirmed ==
    /\ confirmation.message_id > greeting.header.message_id
    /\ confirmation.session_id = greeting.header.session_id
    /\ confirmation.trace = greeting.header.trace
    /\ ~greeting.header.reply_to /\ ~confirmation.reply_to

ConfirmedInv == phase \in {"confirm", "serving"} \/ Len(sent) >= 2 => Confirmed

\* The contexts keep the limits, too.
ContextLimits ==
    \A c \in 1..Len(contexts) :
        /\ contexts[c].trace.call_depth <= greeting.call
        /\ contexts[c].trace.causal_depth <= greeting.causal

\* Every context has an ID of its own, not above the last one accepted.
DistinctInv ==
    /\ \A c \in 1..Len(contexts) :
          contexts[c].parent_call_id <= session.last_host_message_id
    /\ \A c, d \in 1..Len(contexts) :
          contexts[c].parent_call_id = contexts[d].parent_call_id => c = d

\* Every host call is one level below the job it names.
CallsInv ==
    \A i \in 1..Len(sent) : sent[i].kind = "HostCall" =>
        \E c \in 1..Len(contexts) :
            /\ contexts[c].parent_call_id = sent[i].parent_call_id
            /\ sent[i].trace =
                  [contexts[c].trace EXCEPT !.call_depth = contexts[c].trace.call_depth + 1]

IndInv ==
    /\ TypeOK
    /\ CopyInv /\ GreetedInv /\ PhaseInv /\ ConfirmedInv
    /\ ContextLimits /\ WithinLimits
    /\ HandshakeFirst
    /\ DistinctInv /\ CallsInv

USE EmptyAssumption, BoundsAssumption

-----------------------------------------------------------------------------

\* Every initial state satisfies the invariant.
LEMMA InitInv == Init => IndInv
<1>1. ASSUME Init PROVE TypeOK
  BY <1>1 DEF Init, TypeOK, Headers, NoHeader, U32, Depths
<1>2. ASSUME Init PROVE CopyInv /\ GreetedInv /\ PhaseInv
  BY <1>2 DEF Init, CopyInv, GreetedInv, PhaseInv, NoHeader
<1>3. ASSUME Init PROVE ConfirmedInv /\ ContextLimits /\ WithinLimits /\ HandshakeFirst
                        /\ DistinctInv /\ CallsInv
  BY <1>3 DEF Init, ConfirmedInv, ContextLimits, WithinLimits, HandshakeFirst, DistinctInv, CallsInv
<1> QED BY <1>1, <1>2, <1>3 DEF IndInv

\* An ActionContext.
Contexts == [trace : Depths, parent_call_id : 1..MaxID, refused : BOOLEAN]

\* The fields of a context.
LEMMA ContextType ==
    ASSUME TypeOK, NEW c \in 1..Len(contexts)
    PROVE  /\ contexts \in Seq(Contexts) /\ contexts[c] \in Contexts
           /\ contexts[c].trace \in Depths
           /\ contexts[c].parent_call_id \in 1..MaxID
<1>1. contexts \in Seq(Contexts) BY DEF TypeOK, Contexts
<1>2. contexts[c] \in Contexts BY <1>1
<1> QED BY <1>1, <1>2 DEF Contexts

\* What a send adds to the stream.
LEMMA SendAppends ==
    ASSUME TypeOK, NEW k \in {"PluginHello", "Ready", "JobAccepted", "Answer", "Output", "HostCall"},
           NEW t \in Depths, NEW p \in 0..MaxID, Send(k, t, p),
           session.session_id \in Sessions, session.instance_id \in Instances
    PROVE  /\ sent' \in Seq(Envelopes)
           /\ Len(sent') = Len(sent) + 1
           /\ \A i \in 1..Len(sent) : sent'[i] = sent[i]
           /\ sent'[Len(sent) + 1] = [kind |-> k, session_id |-> session.session_id,
                                      instance_id |-> session.instance_id, trace |-> t,
                                      parent_call_id |-> p]
<1> DEFINE e == [kind |-> k, session_id |-> session.session_id,
                 instance_id |-> session.instance_id, trace |-> t, parent_call_id |-> p]
<1>1. e \in Envelopes BY DEF Envelopes
<1>2. sent' = Append(sent, e) /\ sent \in Seq(Envelopes) BY DEF Send, TypeOK
<1> HIDE DEF e
<1>3. /\ sent' \in Seq(Envelopes)
      /\ Len(sent') = Len(sent) + 1
      /\ \A i \in 1..Len(sent) : sent'[i] = sent[i]
      /\ sent'[Len(sent) + 1] = e
  BY <1>1, <1>2
<1> QED BY <1>3 DEF e

\* The handshake: nothing but the greeting itself has been sent and no job started.
LEMMA HostHelloInv == ASSUME IndInv, NEW h \in Headers, HostHello(h) PROVE IndInv'
<1> USE DEF IndInv
<1>1. PICK hello \in Hellos :
          /\ HelloValid(hello)
          /\ TraceValid(h, hello.maximum_call_depth, hello.maximum_causal_depth)
          /\ session' = [session_id |-> h.session_id, instance_id |-> h.instance_id,
                         last_host_message_id |-> h.message_id,
                         maximum_call_depth |-> hello.maximum_call_depth,
                         maximum_causal_depth |-> hello.maximum_causal_depth]
          /\ greeting' = [header |-> h, call |-> hello.maximum_call_depth,
                          causal |-> hello.maximum_causal_depth]
  BY DEF HostHello
<1>2. /\ phase = "hello" /\ phase' = "greet" /\ handshake_trace' = h.trace
      /\ UNCHANGED <<maximum, contexts, sent, confirmation>>
      /\ Identified(h) /\ ~h.reply_to
  BY DEF HostHello
<1>3. hello.maximum_call_depth \in U32 /\ hello.maximum_causal_depth \in U32
  BY DEF Hellos
<1>4. /\ h.message_id \in 0..MaxID
      /\ h.session_id \in Sessions /\ h.instance_id \in Instances
      /\ h.trace \in Depths
      /\ h.trace.call_depth <= hello.maximum_call_depth
      /\ h.trace.causal_depth <= hello.maximum_causal_depth
  BY <1>1, <1>2 DEF Headers, Identified, TraceValid
<1>5. Len(sent) = 0 /\ Len(contexts) = 0 BY <1>2 DEF PhaseInv
<1>6. TypeOK' BY <1>1, <1>2, <1>3, <1>4 DEF TypeOK
<1>7. CopyInv' /\ GreetedInv' BY <1>1, <1>2, <1>4 DEF CopyInv, GreetedInv
<1>8. PhaseInv' /\ ConfirmedInv' BY <1>2, <1>5 DEF PhaseInv, ConfirmedInv
<1>9. ContextLimits' /\ WithinLimits' /\ HandshakeFirst' /\ DistinctInv' /\ CallsInv'
  BY <1>2, <1>5 DEF ContextLimits, WithinLimits, HandshakeFirst, DistinctInv, CallsInv, TypeOK
<1> QED BY <1>6, <1>7, <1>8, <1>9

\* The first envelope bears the trace of the greeting.
LEMMA SendPluginHelloInv == ASSUME IndInv, SendPluginHello PROVE IndInv'
<1> USE DEF IndInv
<1>1. /\ phase = "greet" /\ phase' = "ready" /\ Send("PluginHello", handshake_trace, 0)
      /\ UNCHANGED <<session, handshake_trace, maximum, contexts, greeting, confirmation>>
  BY DEF SendPluginHello
<1>2. /\ handshake_trace \in Depths /\ session.session_id \in Sessions
      /\ session.instance_id \in Instances
  BY <1>1 DEF GreetedInv
<1>3. /\ sent' \in Seq(Envelopes) /\ Len(sent') = Len(sent) + 1
      /\ \A i \in 1..Len(sent) : sent'[i] = sent[i]
      /\ sent'[Len(sent) + 1] = [kind |-> "PluginHello", session_id |-> session.session_id,
                                 instance_id |-> session.instance_id,
                                 trace |-> handshake_trace, parent_call_id |-> 0]
  BY <1>1, <1>2, SendAppends
<1>4. Len(sent) = 0 /\ Len(contexts) = 0 BY <1>1 DEF PhaseInv
<1>5. TypeOK' BY <1>1, <1>3 DEF TypeOK
<1>6. CopyInv' /\ GreetedInv' BY <1>1 DEF CopyInv, GreetedInv
<1>7. PhaseInv' /\ ConfirmedInv' BY <1>1, <1>3, <1>4 DEF PhaseInv, ConfirmedInv
<1>8. ContextLimits' /\ DistinctInv' BY <1>1 DEF ContextLimits, DistinctInv
<1>9. WithinLimits' BY <1>1, <1>3, <1>4 DEF WithinLimits, CopyInv, GreetedInv
<1>10. HandshakeFirst' BY <1>1, <1>3, <1>4 DEF HandshakeFirst, CopyInv, TypeOK
<1>11. CallsInv' BY <1>1, <1>3, <1>4 DEF CallsInv
<1> QED BY <1>5, <1>6, <1>7, <1>8, <1>9, <1>10, <1>11

\* The confirmation is later than the greeting since its ID is above the last one.
LEMMA HostReadyInv == ASSUME IndInv, NEW h \in Headers, HostReady(h) PROVE IndInv'
<1> USE DEF IndInv
<1>1. /\ phase = "ready" /\ phase' = "confirm"
      /\ EnvelopeValid(h) /\ Accept(h)
      /\ h.trace = handshake_trace /\ ~h.reply_to /\ confirmation' = h
      /\ UNCHANGED <<handshake_trace, maximum, contexts, sent, greeting>>
  BY DEF HostReady
<1>2. h.message_id \in 0..MaxID BY DEF Headers
<1>3. /\ session' = [session EXCEPT !.last_host_message_id = h.message_id]
      /\ h.message_id > session.last_host_message_id
      /\ h.session_id = session.session_id
  BY <1>1 DEF Accept, EnvelopeValid
<1>4. Len(sent) = 1 /\ Len(contexts) = 0 BY <1>1 DEF PhaseInv
<1>5. TypeOK' BY <1>1, <1>2, <1>3 DEF TypeOK
<1>6. /\ greeting.header.message_id \in 0..MaxID
      /\ session.last_host_message_id \in 0..MaxID
  BY DEF TypeOK, Headers
<1>7. CopyInv' /\ GreetedInv' BY <1>1, <1>2, <1>3, <1>6 DEF CopyInv, GreetedInv, TypeOK
<1>8. PhaseInv' BY <1>1, <1>4 DEF PhaseInv
<1>9. Confirmed' BY <1>1, <1>2, <1>3, <1>6 DEF Confirmed, CopyInv
<1>10. ConfirmedInv' BY <1>9 DEF ConfirmedInv
<1>11. ContextLimits' /\ WithinLimits' /\ CallsInv'
  BY <1>1 DEF ContextLimits, WithinLimits, CallsInv
<1>12. HandshakeFirst' BY <1>1, <1>4 DEF HandshakeFirst
<1>13. DistinctInv' BY <1>1, <1>4 DEF DistinctInv
<1> QED BY <1>5, <1>7, <1>8, <1>10, <1>11, <1>12, <1>13

\* The second envelope, and the limit HostClient gets.
LEMMA SendReadyInv == ASSUME IndInv, SendReady PROVE IndInv'
<1> USE DEF IndInv
<1>1. /\ phase = "confirm" /\ phase' = "serving" /\ Send("Ready", handshake_trace, 0)
      /\ maximum' = session.maximum_call_depth
      /\ UNCHANGED <<session, handshake_trace, contexts, greeting, confirmation>>
  BY DEF SendReady
<1>2. /\ handshake_trace \in Depths /\ session.session_id \in Sessions
      /\ session.instance_id \in Instances
  BY <1>1 DEF GreetedInv
<1>3. /\ sent' \in Seq(Envelopes) /\ Len(sent') = Len(sent) + 1
      /\ \A i \in 1..Len(sent) : sent'[i] = sent[i]
      /\ sent'[Len(sent) + 1] = [kind |-> "Ready", session_id |-> session.session_id,
                                 instance_id |-> session.instance_id,
                                 trace |-> handshake_trace, parent_call_id |-> 0]
  BY <1>1, <1>2, SendAppends
<1>4. Len(sent) = 1 /\ Len(contexts) = 0 BY <1>1 DEF PhaseInv
<1>5. TypeOK' BY <1>1, <1>3 DEF TypeOK
<1>6. CopyInv' /\ GreetedInv' BY <1>1 DEF CopyInv, GreetedInv
<1>7. PhaseInv' BY <1>1, <1>3, <1>4 DEF PhaseInv
<1>8. Confirmed /\ Confirmed' /\ ConfirmedInv' BY <1>1 DEF ConfirmedInv, Confirmed
<1>9. ContextLimits' /\ DistinctInv' BY <1>1 DEF ContextLimits, DistinctInv
<1>10. WithinLimits' BY <1>1, <1>3, <1>4 DEF WithinLimits, CopyInv, GreetedInv
<1>11. HandshakeFirst'
  BY <1>1, <1>3, <1>4, <1>8 DEF HandshakeFirst, CopyInv, Confirmed, TypeOK
<1>12. CallsInv' BY <1>1, <1>3, <1>4 DEF CallsInv
<1> QED BY <1>5, <1>6, <1>7, <1>8, <1>9, <1>10, <1>11, <1>12

-----------------------------------------------------------------------------

\* An envelope that is sent in an established session.
LEMMA ServingSend ==
    ASSUME IndInv, phase = "serving", UNCHANGED <<greeting, confirmation>>,
           NEW k \in {"JobAccepted", "Answer", "Output", "HostCall"},
           NEW t \in Depths, NEW p \in 0..MaxID, Send(k, t, p),
           t.call_depth <= greeting.call, t.causal_depth <= greeting.causal
    PROVE  /\ sent' \in Seq(Envelopes)
           /\ Len(sent') = Len(sent) + 1 /\ Len(sent) >= 2
           /\ \A i \in 1..Len(sent) : sent'[i] = sent[i]
           /\ sent'[Len(sent) + 1].kind = k
           /\ sent'[Len(sent) + 1].trace = t
           /\ sent'[Len(sent) + 1].parent_call_id = p
           /\ \A i \in 1..Len(sent') :
                 /\ sent'[i].session_id = greeting.header.session_id
                 /\ sent'[i].instance_id = greeting.header.instance_id
                 /\ sent'[i].trace.call_depth <= greeting.call
                 /\ sent'[i].trace.causal_depth <= greeting.causal
           /\ HandshakeFirst'
<1> USE DEF IndInv
<1>1. session.session_id \in Sessions /\ session.instance_id \in Instances
  BY DEF GreetedInv
<1>2. /\ sent' \in Seq(Envelopes) /\ Len(sent') = Len(sent) + 1
      /\ \A i \in 1..Len(sent) : sent'[i] = sent[i]
      /\ sent'[Len(sent) + 1] = [kind |-> k, session_id |-> session.session_id,
                                 instance_id |-> session.instance_id, trace |-> t,
                                 parent_call_id |-> p]
  BY <1>1, SendAppends
<1>3. Len(sent) >= 2 BY DEF PhaseInv
<1>4. Len(sent) \in Nat BY DEF TypeOK
<1>5. \A i \in 1..Len(sent') :
          /\ sent'[i].session_id = greeting.header.session_id
          /\ sent'[i].instance_id = greeting.header.instance_id
          /\ sent'[i].trace.call_depth <= greeting.call
          /\ sent'[i].trace.causal_depth <= greeting.causal
  BY <1>2, <1>4 DEF WithinLimits, CopyInv
<1>6. HandshakeFirst'
  <2>1. \A i \in 1..Len(sent') :
            /\ sent'[i].kind = "PluginHello" <=> i = 1
            /\ sent'[i].kind = "Ready" <=> i = 2
            /\ i <= 2 => sent'[i].trace = greeting'.header.trace
    BY <1>2, <1>3, <1>4 DEF HandshakeFirst
  <2>2. /\ confirmation'.message_id > greeting'.header.message_id
        /\ confirmation'.session_id = greeting'.header.session_id
        /\ confirmation'.trace = greeting'.header.trace
        /\ ~greeting'.header.reply_to /\ ~confirmation'.reply_to
    BY <1>3 DEF HandshakeFirst
  <2>3. Len(sent') > 2 BY <1>2, <1>3, <1>4
  <2> QED BY <2>1, <2>2, <2>3 DEF HandshakeFirst
<1> QED BY <1>2, <1>3, <1>5, <1>6

\* What an accepted envelope guarantees, whatever it is for.
LEMMA Accepted ==
    ASSUME IndInv, NEW h \in Headers, Receive(h)
    PROVE  /\ session' = [session EXCEPT !.last_host_message_id = h.message_id]
           /\ h.message_id \in 1..MaxID /\ h.message_id > session.last_host_message_id
           /\ h.trace \in Depths
           /\ h.trace.call_depth <= greeting.call /\ h.trace.causal_depth <= greeting.causal
           /\ session' \in [session_id : Sessions \cup {Empty}, instance_id : Instances \cup {Empty},
                            last_host_message_id : 0..MaxID,
                            maximum_call_depth : U32, maximum_causal_depth : U32]
           /\ CopyInv' /\ GreetedInv'
<1> USE DEF IndInv
<1>0. session \in [session_id : Sessions \cup {Empty}, instance_id : Instances \cup {Empty},
                   last_host_message_id : 0..MaxID,
                   maximum_call_depth : U32, maximum_causal_depth : U32]
  BY DEF TypeOK
<1>1. /\ phase = "serving" /\ EnvelopeValid(h) /\ Accept(h)
      /\ UNCHANGED <<phase, handshake_trace, maximum, greeting, confirmation>>
  BY DEF Receive
<1>2. /\ session' = [session EXCEPT !.last_host_message_id = h.message_id]
      /\ h.message_id > session.last_host_message_id
      /\ h.message_id # 0
  BY <1>1 DEF Accept, EnvelopeValid
<1>3. h.message_id \in 1..MaxID BY <1>2 DEF Headers
<1>4. /\ h.trace \in Depths
      /\ h.trace.call_depth <= greeting.call /\ h.trace.causal_depth <= greeting.causal
  BY <1>1 DEF Headers, EnvelopeValid, TraceValid, CopyInv
<1>5. session' \in [session_id : Sessions \cup {Empty}, instance_id : Instances \cup {Empty},
                    last_host_message_id : 0..MaxID,
                    maximum_call_depth : U32, maximum_causal_depth : U32]
  BY ONLY <1>2, <1>3, <1>0
<1>6. /\ greeting.header.message_id \in 0..MaxID
      /\ session.last_host_message_id \in 0..MaxID
  BY DEF TypeOK, Headers
<1>7. CopyInv' /\ GreetedInv' BY <1>1, <1>2, <1>3, <1>6 DEF CopyInv, GreetedInv, TypeOK
<1> QED BY <1>2, <1>3, <1>4, <1>5, <1>7

\* The accepted ID is above that of every context.
LEMMA OlderIDs ==
    ASSUME IndInv, NEW h \in Headers, Receive(h)
    PROVE  /\ session'.last_host_message_id = h.message_id
           /\ h.message_id \in Nat
           /\ \A c \in 1..Len(contexts) : /\ contexts[c].parent_call_id \in Nat
                                          /\ contexts[c].parent_call_id < h.message_id
<1> USE DEF IndInv
<1>1. /\ session' = [session EXCEPT !.last_host_message_id = h.message_id]
      /\ h.message_id \in 1..MaxID /\ h.message_id > session.last_host_message_id
  BY Accepted
<1>2. session'.last_host_message_id = h.message_id /\ session.last_host_message_id \in 0..MaxID
  BY <1>1 DEF TypeOK
<1>3. ASSUME NEW c \in 1..Len(contexts)
      PROVE  contexts[c].parent_call_id \in Nat /\ contexts[c].parent_call_id < h.message_id
  <2>1. contexts[c].parent_call_id \in 1..MaxID BY ContextType
  <2>2. contexts[c].parent_call_id <= session.last_host_message_id BY DEF DistinctInv
  <2> QED BY <1>1, <1>2, <2>1, <2>2
<1> QED BY <1>1, <1>2, <1>3

\* Host calls stay attributed while contexts are kept and only others are sent.
LEMMA CallsKept ==
    ASSUME CallsInv, Len(contexts) \in Nat, Len(contexts') \in Nat, Len(contexts') >= Len(contexts),
           \A c \in 1..Len(contexts) : /\ contexts'[c].trace = contexts[c].trace
                                       /\ contexts'[c].parent_call_id = contexts[c].parent_call_id,
           Len(sent) \in Nat, Len(sent') \in {Len(sent), Len(sent) + 1},
           \A i \in 1..Len(sent) : sent'[i] = sent[i],
           Len(sent') = Len(sent) + 1 => sent'[Len(sent) + 1].kind # "HostCall"
    PROVE  CallsInv'
<1> SUFFICES ASSUME NEW i \in 1..Len(sent'), sent'[i].kind = "HostCall"
             PROVE  \E c \in 1..Len(contexts') :
                       /\ contexts'[c].parent_call_id = sent'[i].parent_call_id
                       /\ sent'[i].trace = [contexts'[c].trace EXCEPT
                                               !.call_depth = contexts'[c].trace.call_depth + 1]
  BY DEF CallsInv
<1>1. i \in 1..Len(sent) /\ sent'[i] = sent[i] OBVIOUS
<1>2. PICK c \in 1..Len(contexts) :
          /\ contexts[c].parent_call_id = sent[i].parent_call_id
          /\ sent[i].trace =
                [contexts[c].trace EXCEPT !.call_depth = contexts[c].trace.call_depth + 1]
  BY <1>1 DEF CallsInv
<1>3. c \in 1..Len(contexts') OBVIOUS
<1> QED BY <1>1, <1>2, <1>3

\* A job gets the fresh ID of its start; no earlier context has it.
LEMMA StartJobInv ==
    ASSUME IndInv, NEW h \in Headers, Receive(h), StartJob(h) PROVE IndInv'
<1> USE DEF IndInv
<1> DEFINE new == [trace |-> h.trace, parent_call_id |-> h.message_id, refused |-> FALSE]
<1>1. /\ phase = "serving"
      /\ UNCHANGED <<phase, handshake_trace, maximum, greeting, confirmation>>
  BY DEF Receive
<1>2. /\ contexts' = Append(contexts, new) /\ Send("JobAccepted", h.trace, 0)
  BY DEF StartJob
<1>3. /\ session' = [session EXCEPT !.last_host_message_id = h.message_id]
      /\ h.message_id \in 1..MaxID /\ h.message_id > session.last_host_message_id
      /\ h.trace \in Depths
      /\ h.trace.call_depth <= greeting.call /\ h.trace.causal_depth <= greeting.causal
      /\ CopyInv' /\ GreetedInv'
  BY Accepted
<1>5. /\ sent' \in Seq(Envelopes)
      /\ Len(sent') = Len(sent) + 1 /\ Len(sent) >= 2
      /\ \A i \in 1..Len(sent) : sent'[i] = sent[i]
      /\ sent'[Len(sent) + 1].kind = "JobAccepted"
      /\ \A i \in 1..Len(sent') :
            /\ sent'[i].session_id = greeting.header.session_id
            /\ sent'[i].instance_id = greeting.header.instance_id
            /\ sent'[i].trace.call_depth <= greeting.call
            /\ sent'[i].trace.causal_depth <= greeting.causal
      /\ HandshakeFirst'
  BY <1>1, <1>2, <1>3, ServingSend, SMTT(20)
<1>6. new \in [trace : Depths, parent_call_id : 1..MaxID, refused : BOOLEAN] BY <1>3
<1>7. contexts \in Seq([trace : Depths, parent_call_id : 1..MaxID, refused : BOOLEAN])
  BY DEF TypeOK
<1>8. /\ new.trace = h.trace /\ new.parent_call_id = h.message_id /\ new.refused = FALSE
  OBVIOUS
<1> HIDE DEF new
<1>9. /\ contexts' \in Seq([trace : Depths, parent_call_id : 1..MaxID, refused : BOOLEAN])
      /\ Len(contexts') = Len(contexts) + 1 /\ Len(contexts) \in Nat
      /\ \A c \in 1..Len(contexts) : contexts'[c] = contexts[c]
      /\ contexts'[Len(contexts) + 1] = new
  BY <1>2, <1>6, <1>7
<1>10. TypeOK'
  <2>1. session' \in [session_id : Sessions \cup {Empty}, instance_id : Instances \cup {Empty},
                      last_host_message_id : 0..MaxID,
                      maximum_call_depth : U32, maximum_causal_depth : U32]
    BY Accepted
  <2> QED BY <1>1, <1>5, <1>9, <2>1 DEF TypeOK
<1>11. PhaseInv' BY <1>1, <1>3, <1>5 DEF PhaseInv, TypeOK
<1>12. ConfirmedInv' BY <1>1 DEF ConfirmedInv, Confirmed
<1>13. ContextLimits' BY <1>1, <1>3, <1>8, <1>9 DEF ContextLimits
<1>14. WithinLimits'
  <2>1. \A c \in 1..Len(contexts') :
            contexts'[c].refused => contexts'[c].trace.call_depth = greeting.call
    BY <1>8, <1>9 DEF WithinLimits
  <2> QED BY <1>1, <1>5, <2>1 DEF WithinLimits
<1>15. DistinctInv'
  <2>1. /\ session'.last_host_message_id = h.message_id
        /\ h.message_id \in Nat
        /\ \A c \in 1..Len(contexts) : /\ contexts[c].parent_call_id \in Nat
                                       /\ contexts[c].parent_call_id < h.message_id
    BY OlderIDs
  <2>2. ASSUME NEW c \in 1..Len(contexts')
        PROVE  contexts'[c].parent_call_id <= h.message_id
    <3>1. c \in 1..Len(contexts) \/ c = Len(contexts) + 1 BY <1>9
    <3>2. CASE c \in 1..Len(contexts)
      <4>1. contexts'[c].parent_call_id = contexts[c].parent_call_id BY <1>9, <3>2
      <4> QED BY <2>1, <3>2, <4>1
    <3>3. CASE c = Len(contexts) + 1
      <4>1. contexts'[c].parent_call_id = h.message_id BY <1>8, <1>9, <3>3
      <4> QED BY <2>1, <4>1
    <3> QED BY <3>1, <3>2, <3>3
  <2>3. ASSUME NEW c \in 1..Len(contexts'), NEW d \in 1..Len(contexts'),
               contexts'[c].parent_call_id = contexts'[d].parent_call_id
        PROVE  c = d
    <3>1. \A e \in 1..Len(contexts) :
              contexts'[e].parent_call_id # contexts'[Len(contexts) + 1].parent_call_id
      BY <1>8, <1>9, <2>1
    <3>2. c \in 1..Len(contexts) \/ c = Len(contexts) + 1 BY <1>9
    <3>3. d \in 1..Len(contexts) \/ d = Len(contexts) + 1 BY <1>9
    <3>4. CASE c \in 1..Len(contexts) /\ d \in 1..Len(contexts)
      <4>1. contexts'[c] = contexts[c] /\ contexts'[d] = contexts[d] BY <1>9, <3>4
      <4> QED BY <2>3, <3>4, <4>1 DEF DistinctInv
    <3> QED BY <2>3, <3>1, <3>2, <3>3, <3>4
  <2> QED BY <2>1, <2>2, <2>3 DEF DistinctInv
<1>16. CallsInv'
  <2>1. Len(sent) \in Nat BY DEF TypeOK
  <2> QED BY <1>5, <1>9, <2>1, CallsKept
<1> QED BY <1>3, <1>5, <1>10, <1>11, <1>12, <1>13, <1>14, <1>15, <1>16

\* An answer changes nothing but the stream and the last ID.
LEMMA AnswerInv ==
    ASSUME IndInv, NEW h \in Headers, Receive(h), Answer(h) PROVE IndInv'
<1> USE DEF IndInv
<1>1. /\ phase = "serving"
      /\ UNCHANGED <<phase, handshake_trace, maximum, greeting, confirmation>>
      /\ UNCHANGED contexts /\ Send("Answer", h.trace, 0)
  BY DEF Receive, Answer
<1>2. /\ session' = [session EXCEPT !.last_host_message_id = h.message_id]
      /\ h.message_id \in 1..MaxID /\ h.message_id > session.last_host_message_id
      /\ h.trace \in Depths
      /\ h.trace.call_depth <= greeting.call /\ h.trace.causal_depth <= greeting.causal
      /\ CopyInv' /\ GreetedInv'
  BY Accepted
<1>4. /\ sent' \in Seq(Envelopes)
      /\ Len(sent') = Len(sent) + 1 /\ Len(sent) >= 2
      /\ \A i \in 1..Len(sent) : sent'[i] = sent[i]
      /\ sent'[Len(sent) + 1].kind = "Answer"
      /\ \A i \in 1..Len(sent') :
            /\ sent'[i].session_id = greeting.header.session_id
            /\ sent'[i].instance_id = greeting.header.instance_id
            /\ sent'[i].trace.call_depth <= greeting.call
            /\ sent'[i].trace.causal_depth <= greeting.causal
      /\ HandshakeFirst'
  BY <1>1, <1>2, ServingSend
<1>5. TypeOK'
  <2>1. session' \in [session_id : Sessions \cup {Empty}, instance_id : Instances \cup {Empty},
                      last_host_message_id : 0..MaxID,
                      maximum_call_depth : U32, maximum_causal_depth : U32]
    BY Accepted
  <2> QED BY <1>1, <1>4, <2>1 DEF TypeOK
<1>6. PhaseInv' BY <1>1, <1>2, <1>4 DEF PhaseInv, TypeOK
<1>7. ConfirmedInv' BY <1>1 DEF ConfirmedInv, Confirmed
<1>8. ContextLimits' /\ WithinLimits' BY <1>1, <1>4 DEF ContextLimits, WithinLimits
<1>9. DistinctInv'
  <2>1. /\ session'.last_host_message_id = h.message_id
        /\ h.message_id \in Nat
        /\ \A c \in 1..Len(contexts) : /\ contexts[c].parent_call_id \in Nat
                                       /\ contexts[c].parent_call_id < h.message_id
    BY OlderIDs
  <2> QED BY <1>1, <2>1 DEF DistinctInv
<1>10. CallsInv'
  <2>1. Len(sent) \in Nat /\ Len(contexts) \in Nat BY DEF TypeOK
  <2> QED BY <1>1, <1>4, <2>1, CallsKept
<1> QED BY <1>2, <1>4, <1>5, <1>6, <1>7, <1>8, <1>9, <1>10

\* Nor does an envelope that is not answered.
LEMMA AbsorbInv ==
    ASSUME IndInv, NEW h \in Headers, Receive(h), Absorb(h) PROVE IndInv'
<1> USE DEF IndInv
<1>1. /\ phase = "serving"
      /\ UNCHANGED <<phase, handshake_trace, maximum, greeting, confirmation, contexts, sent>>
  BY DEF Receive, Absorb
<1>2. /\ session' = [session EXCEPT !.last_host_message_id = h.message_id]
      /\ h.message_id \in 1..MaxID /\ h.message_id > session.last_host_message_id
      /\ session' \in [session_id : Sessions \cup {Empty}, instance_id : Instances \cup {Empty},
                       last_host_message_id : 0..MaxID,
                       maximum_call_depth : U32, maximum_causal_depth : U32]
      /\ CopyInv' /\ GreetedInv'
  BY Accepted
<1>4. TypeOK' BY <1>1, <1>2 DEF TypeOK
<1>5. PhaseInv' BY <1>1, <1>2 DEF PhaseInv, TypeOK
<1>6. ConfirmedInv' BY <1>1 DEF ConfirmedInv, Confirmed
<1>7. ContextLimits' /\ WithinLimits' /\ HandshakeFirst' /\ CallsInv'
  BY <1>1 DEF ContextLimits, WithinLimits, HandshakeFirst, CallsInv
<1>8. DistinctInv'
  <2>1. /\ session'.last_host_message_id = h.message_id
        /\ h.message_id \in Nat
        /\ \A c \in 1..Len(contexts) : /\ contexts[c].parent_call_id \in Nat
                                       /\ contexts[c].parent_call_id < h.message_id
    BY OlderIDs
  <2> QED BY <1>1, <2>1 DEF DistinctInv
<1> QED BY <1>2, <1>4, <1>5, <1>6, <1>7, <1>8

-----------------------------------------------------------------------------

\* A host call is one level below its job: below the limit where it is sent, and
\* refused where the job is at the limit.
LEMMA HostCallInv ==
    ASSUME IndInv, NEW c \in 1..Len(contexts), HostCall(c) PROVE IndInv'
<1> USE DEF IndInv
<1>1. phase = "serving" /\ UNCHANGED ActionVars BY DEF HostCall
<1>2. /\ UNCHANGED <<phase, session, handshake_trace, maximum, greeting, confirmation>>
      /\ CopyInv' /\ GreetedInv' /\ ConfirmedInv'
  BY <1>1 DEF ActionVars, CopyInv, GreetedInv, ConfirmedInv, Confirmed
<1>3. /\ contexts \in Seq(Contexts) /\ contexts[c] \in Contexts
      /\ contexts[c].trace \in Depths /\ contexts[c].parent_call_id \in 1..MaxID
  BY ContextType
<1>4. /\ contexts[c].trace.call_depth \in U32 /\ contexts[c].trace.causal_depth \in U32
      /\ contexts[c].trace.call_depth <= greeting.call
      /\ contexts[c].trace.causal_depth <= greeting.causal
      /\ maximum = greeting.call /\ greeting.call \in U32
  <2>1. maximum = greeting.call /\ greeting.call \in U32
    BY <1>1 DEF PhaseInv, CopyInv, TypeOK
  <2> QED BY <1>3, <2>1 DEF Depths, ContextLimits
<1>5. CASE /\ UNCHANGED contexts
           /\ \E d \in CallDepths(contexts[c].trace.call_depth) :
                 Send("HostCall", [contexts[c].trace EXCEPT !.call_depth = d],
                      contexts[c].parent_call_id)
  <2>1. PICK d \in CallDepths(contexts[c].trace.call_depth) :
            Send("HostCall", [contexts[c].trace EXCEPT !.call_depth = d],
                 contexts[c].parent_call_id)
    BY <1>5
  <2> DEFINE t == [contexts[c].trace EXCEPT !.call_depth = d]
  <2>2. /\ d = contexts[c].trace.call_depth + 1 /\ d \in U32 /\ d <= greeting.call
    BY <1>4, <2>1 DEF CallDepths
  <2>3. /\ t \in Depths /\ t.call_depth = d
        /\ t.causal_depth = contexts[c].trace.causal_depth
        /\ t = [contexts[c].trace EXCEPT !.call_depth = contexts[c].trace.call_depth + 1]
    BY <1>3, <2>2 DEF Depths
  <2>4. Send("HostCall", t, contexts[c].parent_call_id) BY <2>1
  <2> HIDE DEF t
  <2>5. contexts[c].parent_call_id \in 0..MaxID BY <1>3
  <2>6. t.call_depth <= greeting.call /\ t.causal_depth <= greeting.causal
    BY <1>4, <2>2, <2>3
  <2>7. /\ sent' \in Seq(Envelopes)
        /\ Len(sent') = Len(sent) + 1 /\ Len(sent) >= 2
        /\ \A i \in 1..Len(sent) : sent'[i] = sent[i]
        /\ sent'[Len(sent) + 1].kind = "HostCall"
        /\ sent'[Len(sent) + 1].trace = t
        /\ sent'[Len(sent) + 1].parent_call_id = contexts[c].parent_call_id
        /\ \A i \in 1..Len(sent') :
              /\ sent'[i].session_id = greeting.header.session_id
              /\ sent'[i].instance_id = greeting.header.instance_id
              /\ sent'[i].trace.call_depth <= greeting.call
              /\ sent'[i].trace.causal_depth <= greeting.causal
        /\ HandshakeFirst'
    <3>1. t \in Depths /\ UNCHANGED <<greeting, confirmation>> BY <1>2, <2>3
    <3> HIDE DEF IndInv
    <3> QED BY <1>1, <2>4, <2>5, <2>6, <3>1, ServingSend
  <2>8. TypeOK' BY <1>2, <1>5, <2>7 DEF TypeOK
  <2>9. PhaseInv' BY <1>1, <1>2, <1>5, <2>7 DEF PhaseInv, TypeOK
  <2>10. ContextLimits' /\ DistinctInv' BY <1>2, <1>5 DEF ContextLimits, DistinctInv
  <2>11. WithinLimits' BY <1>2, <1>5, <2>7 DEF WithinLimits
  <2>12. CallsInv'
    <3> SUFFICES ASSUME NEW i \in 1..Len(sent'), sent'[i].kind = "HostCall"
                 PROVE  \E e \in 1..Len(contexts) :
                           /\ contexts[e].parent_call_id = sent'[i].parent_call_id
                           /\ sent'[i].trace = [contexts[e].trace EXCEPT
                                                   !.call_depth = contexts[e].trace.call_depth + 1]
      BY <1>5 DEF CallsInv
    <3>1. CASE i = Len(sent) + 1 BY <2>3, <2>7, <3>1, SMTT(20)
    <3>2. CASE i \in 1..Len(sent)
      <4>1. sent'[i] = sent[i] BY <2>7, <3>2
      <4> QED BY <3>2, <4>1 DEF CallsInv
    <3>3. Len(sent) \in Nat BY DEF TypeOK
    <3>4. i = Len(sent) + 1 \/ i \in 1..Len(sent) BY <2>7, <3>3
    <3> QED BY <3>1, <3>2, <3>4
  <2> QED BY <1>2, <2>7, <2>8, <2>9, <2>10, <2>11, <2>12
<1>6. CASE /\ CallDepths(contexts[c].trace.call_depth) = {}
           /\ contexts' = [contexts EXCEPT ![c].refused = TRUE]
           /\ UNCHANGED sent
  <2>1. contexts[c].trace.call_depth = greeting.call
    <3>1. contexts[c].trace.call_depth + 1 \notin U32 \cap 0..maximum
      BY <1>6 DEF CallDepths
    <3> QED BY <1>4, <3>1 DEF U32
  <2>2. [contexts[c] EXCEPT !.refused = TRUE] \in Contexts BY <1>3 DEF Contexts
  <2>3. /\ contexts' \in Seq(Contexts) /\ Len(contexts') = Len(contexts)
        /\ contexts'[c] = [contexts[c] EXCEPT !.refused = TRUE]
        /\ \A e \in 1..Len(contexts) : e # c => contexts'[e] = contexts[e]
    <3> DEFINE new == [contexts[c] EXCEPT !.refused = TRUE]
    <3>1. contexts' = [contexts EXCEPT ![c] = new] /\ new \in Contexts BY <1>6, <2>2
    <3> HIDE DEF new
    <3>2. /\ contexts' \in Seq(Contexts) /\ Len(contexts') = Len(contexts)
          /\ contexts'[c] = new
          /\ \A e \in 1..Len(contexts) : e # c => contexts'[e] = contexts[e]
      BY <1>3, <3>1
    <3> QED BY <3>2 DEF new
  <2>4. /\ contexts'[c].trace = contexts[c].trace
        /\ contexts'[c].parent_call_id = contexts[c].parent_call_id
    BY <1>3, <2>3 DEF Contexts
  <2>5. /\ Len(contexts') = Len(contexts) /\ Len(contexts) \in Nat
        /\ \A e \in 1..Len(contexts) :
              /\ contexts'[e].trace = contexts[e].trace
              /\ contexts'[e].parent_call_id = contexts[e].parent_call_id
              /\ e # c => contexts'[e].refused = contexts[e].refused
    <3>1. ASSUME NEW e \in 1..Len(contexts)
          PROVE  /\ contexts'[e].trace = contexts[e].trace
                 /\ contexts'[e].parent_call_id = contexts[e].parent_call_id
                 /\ e # c => contexts'[e].refused = contexts[e].refused
      <4>1. CASE e = c BY <2>4, <4>1
      <4>2. CASE e # c BY <2>3, <4>2
      <4> QED BY <4>1, <4>2
    <3> QED BY <1>3, <2>3, <3>1
  <2>6. TypeOK' BY <1>2, <1>6, <2>3 DEF TypeOK, Contexts
  <2>7. PhaseInv' BY <1>1, <1>2, <1>6 DEF PhaseInv
  <2>8. ContextLimits' BY <1>2, <2>5 DEF ContextLimits
  <2>9. WithinLimits'
    <3>1. \A e \in 1..Len(contexts') :
              contexts'[e].refused => contexts'[e].trace.call_depth = greeting'.call
      BY <1>2, <2>1, <2>5 DEF WithinLimits
    <3> QED BY <1>2, <1>6, <3>1 DEF WithinLimits
  <2>10. HandshakeFirst'
    <3>1. Len(sent) > 2 BY <1>3 DEF HandshakeFirst
    <3> QED BY <1>2, <1>6, <3>1 DEF HandshakeFirst
  <2>11. DistinctInv' BY <1>2, <2>5 DEF DistinctInv
  <2>12. CallsInv'
    <3>1. Len(sent) \in Nat BY DEF TypeOK
    <3> QED BY <1>6, <2>5, <3>1, CallsKept
  <2> QED BY <1>2, <2>6, <2>7, <2>8, <2>9, <2>10, <2>11, <2>12
<1> QED BY <1>5, <1>6 DEF HostCall

\* Other output of a job bears the trace of the job.
LEMMA OutputInv ==
    ASSUME IndInv, NEW c \in 1..Len(contexts), Output(c) PROVE IndInv'
<1> USE DEF IndInv
<1>1. /\ phase = "serving" /\ UNCHANGED ActionVars /\ UNCHANGED contexts
      /\ Send("Output", contexts[c].trace, 0)
  BY DEF Output
<1>2. /\ UNCHANGED <<phase, session, handshake_trace, maximum, greeting, confirmation>>
      /\ CopyInv' /\ GreetedInv' /\ ConfirmedInv'
  BY <1>1 DEF ActionVars, CopyInv, GreetedInv, ConfirmedInv, Confirmed
<1>3. /\ contexts[c].trace \in Depths
      /\ contexts[c].trace.call_depth <= greeting.call
      /\ contexts[c].trace.causal_depth <= greeting.causal
  BY ContextType DEF ContextLimits
<1>4. /\ sent' \in Seq(Envelopes)
      /\ Len(sent') = Len(sent) + 1 /\ Len(sent) >= 2
      /\ \A i \in 1..Len(sent) : sent'[i] = sent[i]
      /\ sent'[Len(sent) + 1].kind = "Output"
      /\ \A i \in 1..Len(sent') :
            /\ sent'[i].session_id = greeting.header.session_id
            /\ sent'[i].instance_id = greeting.header.instance_id
            /\ sent'[i].trace.call_depth <= greeting.call
            /\ sent'[i].trace.causal_depth <= greeting.causal
      /\ HandshakeFirst'
  BY <1>1, <1>2, <1>3, ServingSend
<1>5. TypeOK' BY <1>1, <1>2, <1>4 DEF TypeOK
<1>6. PhaseInv' BY <1>1, <1>2, <1>4 DEF PhaseInv, TypeOK
<1>7. ContextLimits' /\ DistinctInv' BY <1>1, <1>2 DEF ContextLimits, DistinctInv
<1>8. WithinLimits' BY <1>1, <1>2, <1>4 DEF WithinLimits
<1>9. CallsInv'
  <2>1. Len(sent) \in Nat /\ Len(contexts) \in Nat BY DEF TypeOK
  <2> QED BY <1>1, <1>4, <2>1, CallsKept
<1> QED BY <1>2, <1>4, <1>5, <1>6, <1>7, <1>8, <1>9

\* The end of the session changes only the phase.
LEMMA EndInv == ASSUME IndInv, End PROVE IndInv'
<1> USE DEF IndInv
<1>1. /\ phase' = "ended"
      /\ UNCHANGED <<session, handshake_trace, maximum, contexts, sent, greeting, confirmation>>
  BY DEF End
<1>2. TypeOK' BY <1>1 DEF TypeOK
<1>3. CopyInv' /\ GreetedInv' /\ PhaseInv' /\ ConfirmedInv'
  BY <1>1 DEF CopyInv, GreetedInv, PhaseInv, ConfirmedInv, Confirmed
<1>4. ContextLimits' /\ WithinLimits' /\ HandshakeFirst' /\ DistinctInv' /\ CallsInv'
  BY <1>1 DEF ContextLimits, WithinLimits, HandshakeFirst, DistinctInv, CallsInv
<1> QED BY <1>2, <1>3, <1>4

\* A stuttering step, that of Done included, keeps the invariant.
LEMMA StutterInv == ASSUME IndInv, UNCHANGED vars PROVE IndInv'
<1> USE DEF IndInv, vars
<1>1. TypeOK' /\ CopyInv' /\ GreetedInv' /\ PhaseInv' /\ ConfirmedInv'
  BY DEF TypeOK, CopyInv, GreetedInv, PhaseInv, ConfirmedInv, Confirmed
<1>2. ContextLimits' /\ WithinLimits' /\ HandshakeFirst' /\ DistinctInv' /\ CallsInv'
  BY DEF ContextLimits, WithinLimits, HandshakeFirst, DistinctInv, CallsInv
<1> QED BY <1>1, <1>2

\* Every step keeps the invariant.
LEMMA NextInv == IndInv /\ [Next]_vars => IndInv'
<1> SUFFICES ASSUME IndInv, [Next]_vars PROVE IndInv' OBVIOUS
<1>1. ASSUME NEW h \in Headers, HostHello(h) PROVE IndInv' BY <1>1, HostHelloInv
<1>2. ASSUME NEW h \in Headers, HostReady(h) PROVE IndInv' BY <1>2, HostReadyInv
<1>3. ASSUME NEW h \in Headers, Receive(h), StartJob(h) \/ Answer(h) \/ Absorb(h)
      PROVE  IndInv'
  BY <1>3, StartJobInv, AnswerInv, AbsorbInv
<1>4. CASE SendPluginHello BY <1>4, SendPluginHelloInv
<1>5. CASE SendReady BY <1>5, SendReadyInv
<1>6. ASSUME NEW c \in 1..Len(contexts), HostCall(c) \/ Output(c) PROVE IndInv'
  BY <1>6, HostCallInv, OutputInv
<1>7. CASE End BY <1>7, EndInv
<1>8. CASE UNCHANGED vars BY <1>8, StutterInv
<1> QED BY <1>1, <1>2, <1>3, <1>4, <1>5, <1>6, <1>7, <1>8 DEF Next, Done

-----------------------------------------------------------------------------

\* The state of a session is well typed: no envelope leaves without an identity,
\* and no depth is outside its width.
THEOREM TypeCorrect == Spec => []TypeOK
<1>1. IndInv => TypeOK BY DEF IndInv
<1> QED BY <1>1, InitInv, NextInv, PTL DEF Spec

\* Every envelope of the plugin bears the identity and keeps the limits that the
\* host has announced, and a host call is refused only at the limit.
THEOREM LimitsKept == Spec => []WithinLimits
<1>1. IndInv => WithinLimits BY DEF IndInv
<1> QED BY <1>1, InitInv, NextInv, PTL DEF Spec

\* The handshake comes first and is the one the host has confirmed.
THEOREM HandshakeIsFirst == Spec => []HandshakeFirst
<1>1. IndInv => HandshakeFirst BY DEF IndInv
<1> QED BY <1>1, InitInv, NextInv, PTL DEF Spec

\* Every host call belongs to exactly one job, one level below it.
THEOREM CallsAttributed == Spec => []CallsAttributable
<1>1. IndInv => CallsAttributable
  <2> SUFFICES ASSUME IndInv, NEW i \in 1..Len(sent), sent[i].kind = "HostCall"
               PROVE  \E c \in 1..Len(contexts) :
                         /\ \A d \in 1..Len(contexts) :
                               contexts[d].parent_call_id = sent[i].parent_call_id <=> d = c
                         /\ sent[i].trace = [contexts[c].trace EXCEPT
                                                !.call_depth = contexts[c].trace.call_depth + 1]
    BY DEF CallsAttributable
  <2>1. PICK c \in 1..Len(contexts) :
            /\ contexts[c].parent_call_id = sent[i].parent_call_id
            /\ sent[i].trace =
                  [contexts[c].trace EXCEPT !.call_depth = contexts[c].trace.call_depth + 1]
    BY DEF IndInv, CallsInv
  <2>2. \A d \in 1..Len(contexts) :
            contexts[d].parent_call_id = sent[i].parent_call_id <=> d = c
    BY <2>1 DEF IndInv, DistinctInv
  <2> QED BY <2>1, <2>2
<1> QED BY <1>1, InitInv, NextInv, PTL DEF Spec
=============================================================================
