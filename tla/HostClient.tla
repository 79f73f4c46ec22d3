----------------------------- MODULE HostClient ------------------------------
(***************************************************************************)
(* The output side of a plugin session: SessionSender (runtime/sender.rs)  *)
(* and HostClient (runtime/host/client.rs).  Every task of the plugin, the *)
(* session loop, the actions and the work they spawn, shares one sender.   *)
(* A caller locks the sender state, takes the next message ID, registers   *)
(* its routing entry if it expects a response, and waits, still holding    *)
(* the lock, for room in the bounded output channel.  Its future may be    *)
(* dropped at any await.  The session loop routes the responses.           *)
(*                                                                         *)
(* Tokio's Mutex is fair, so the lock is a FIFO queue: ahead[c] is the set *)
(* of callers that joined before c and are still queued; the caller with   *)
(* nobody ahead has the lock.  The std Mutex around the routing table is   *)
(* held only for single map operations, so each is one step, and it cannot *)
(* be poisoned because none of them panics.                                *)
(***************************************************************************)
EXTENDS Naturals, Sequences, Functions

CONSTANTS
    Callers,       \* the futures that use the sender at one time
    Traces,        \* trace contexts
    TraceOf,       \* the trace context a caller sends with
    Capacity,      \* OUTGOING_CAPACITY, the size of the output channel
    MaxMessageId   \* u64::MAX: the ID whose successor overflows

ASSUME TraceAssumption == TraceOf \in [Callers -> Traces]
ASSUME CapacityAssumption == Capacity \in Nat \ {0}
ASSUME MaxMessageIdAssumption == MaxMessageId \in Nat \ {0}

VARIABLES
    next_message_id,  \* SenderState::next_message_id
    pc,               \* where each caller is suspended
    kind,             \* which operation of the sender each caller runs
    id,               \* the message ID each caller took, 0 before it has one
    ahead,            \* the queue of the sender's lock
    wire,             \* every envelope ever put into the output channel
    consumed,         \* how many of them the transport has taken out
    open,             \* the receiving end of the output channel exists
    pending,          \* HostClient::pending, message ID -> expected_trace
    delivered,        \* oneshot channels that hold a response, by message ID
    answered,         \* history: the IDs the host has sent a response to
    hostFaulty,       \* history: the host sent a response nobody asked for
    session           \* "open", "failed" by route, or "lost" with the stream

vars == <<next_message_id, pc, kind, id, ahead, wire, consumed, open, pending,
          delivered, answered, hostFaulty, session>>

senderVars == <<next_message_id, ahead>>
callVars   == <<pc, kind, id>>
wireVars   == <<wire, consumed, open>>
hostVars   == <<answered, hostFaulty, session>>

Ids   == 1..(MaxMessageId - 1)
Kinds == {"send", "request", "deliver"}

Envelopes == [id : Ids, kind : Kinds, trace : Traces]

TypeOK ==
    /\ next_message_id \in 1..MaxMessageId
    /\ pc \in [Callers -> {"idle", "locking", "enqueueing", "receiving", "consuming"}]
    /\ kind \in [Callers -> Kinds \cup {"none"}]
    /\ id \in [Callers -> Ids \cup {0}]
    /\ ahead \in [Callers -> SUBSET Callers]
    /\ wire \in Seq(Envelopes)
    /\ consumed \in 0..Len(wire)
    /\ open \in BOOLEAN
    /\ DOMAIN pending \subseteq Ids
    /\ \A i \in DOMAIN pending : pending[i] \in Traces
    /\ delivered \subseteq Ids
    /\ answered \subseteq 0..MaxMessageId
    /\ hostFaulty \in BOOLEAN
    /\ session \in {"open", "failed", "lost"}

Init ==
    /\ next_message_id = 1
    /\ pc = [c \in Callers |-> "idle"]
    /\ kind = [c \in Callers |-> "none"]
    /\ id = [c \in Callers |-> 0]
    /\ ahead = [c \in Callers |-> {}]
    /\ wire = <<>>
    /\ consumed = 0
    /\ open = TRUE
    /\ pending = <<>>
    /\ delivered = {}
    /\ answered = {}
    /\ hostFaulty = FALSE
    /\ session = "open"

-----------------------------------------------------------------------------
(* The lock of the sender state.                                           *)

Queued == {c \in Callers : pc[c] \in {"locking", "enqueueing"}}

JoinLock(c) == ahead' = [ahead EXCEPT ![c] = Queued]

\* The lock goes to the next caller in the queue; a waiter that gives up just
\* leaves the queue.
LeaveLock(c) ==
    ahead' = [d \in Callers |-> IF d = c THEN {} ELSE ahead[d] \ {c}]

(* The routing table.                                                      *)

Without(i) == Restrict(pending, DOMAIN pending \ {i})

\* The receiver of the oneshot channel of request i still exists.
HasReceiver(i) ==
    \E c \in Callers :
        /\ pc[c] \in {"enqueueing", "receiving"}
        /\ kind[c] = "request"
        /\ id[c] = i

\* The caller's future completes or is dropped.
Return(c) ==
    /\ pc' = [pc EXCEPT ![c] = "idle"]
    /\ kind' = [kind EXCEPT ![c] = "none"]
    /\ id' = [id EXCEPT ![c] = 0]

-----------------------------------------------------------------------------
(* Mistakes this code could have made; each is caught by a property below. *)

\* enqueue releases the lock before it waits for room in the channel.
AllocateReleasingLock(c) ==
    /\ pc[c] = "locking"
    /\ ahead[c] = {}
    /\ next_message_id < MaxMessageId
    /\ next_message_id' = next_message_id + 1
    /\ pc' = [pc EXCEPT ![c] = "enqueueing"]
    /\ id' = [id EXCEPT ![c] = next_message_id]
    /\ pending' = IF kind[c] = "request"
                  THEN [i \in DOMAIN pending \cup {next_message_id} |->
                           IF i = next_message_id THEN TraceOf[c] ELSE pending[i]]
                  ELSE pending
    /\ LeaveLock(c)
    /\ UNCHANGED <<kind, delivered>>
    /\ UNCHANGED <<wireVars, hostVars>>

\* next_message_id wraps around instead of failing.
ExhaustWrapping(c) ==
    /\ pc[c] = "locking"
    /\ ahead[c] = {}
    /\ next_message_id = MaxMessageId
    /\ next_message_id' = 0
    /\ Return(c)
    /\ LeaveLock(c)
    /\ UNCHANGED <<pending, delivered>>
    /\ UNCHANGED <<wireVars, hostVars>>

\* The failed caller keeps the lock.
ExhaustKeepingLock(c) ==
    /\ pc[c] = "locking"
    /\ ahead[c] = {}
    /\ next_message_id = MaxMessageId
    /\ Return(c)
    /\ UNCHANGED <<next_message_id, ahead, pending, delivered>>
    /\ UNCHANGED <<wireVars, hostVars>>

\* There is no PendingGuard: a send dropped early leaves its entry behind.
UnregisterNothing(c) ==
    /\ UNCHANGED pending
    /\ delivered' = delivered \ {id[c]}

\* PendingGuard never learns that the envelope was sent.
DropWaitingUnregisters(c) ==
    /\ pc[c] \in {"receiving", "consuming"}
    /\ pending' = Without(id[c])
    /\ delivered' = delivered \ {id[c]}
    /\ Return(c)
    /\ UNCHANGED <<senderVars, wireVars, hostVars>>

-----------------------------------------------------------------------------
(* SessionSender::enqueue and the operations built on it.                  *)

\* send, request (through send_registered) or send_and_wait_for_consumption
\* starts to wait for the lock.
Begin(c, k) ==
    /\ pc[c] = "idle"
    /\ pc' = [pc EXCEPT ![c] = "locking"]
    /\ kind' = [kind EXCEPT ![c] = k]
    /\ JoinLock(c)
    /\ UNCHANGED <<next_message_id, id, pending, delivered>>
    /\ UNCHANGED <<wireVars, hostVars>>

\* With the lock: take an ID and run `register`, which refuses an occupied
\* entry.  Nothing is awaited in between.
Allocate(c) ==
    /\ pc[c] = "locking"
    /\ ahead[c] = {}
    /\ next_message_id < MaxMessageId
    /\ next_message_id' = next_message_id + 1
    /\ IF kind[c] = "request" /\ next_message_id \in DOMAIN pending
       THEN /\ Return(c)
            /\ LeaveLock(c)
            /\ UNCHANGED pending
       ELSE /\ pc' = [pc EXCEPT ![c] = "enqueueing"]
            /\ id' = [id EXCEPT ![c] = next_message_id]
            /\ pending' = IF kind[c] = "request"
                          THEN [i \in DOMAIN pending \cup {next_message_id} |->
                                   IF i = next_message_id THEN TraceOf[c]
                                                          ELSE pending[i]]
                          ELSE pending
            /\ UNCHANGED <<kind, ahead>>
    /\ UNCHANGED delivered
    /\ UNCHANGED <<wireVars, hostVars>>

\* checked_add overflows: the caller fails and the counter stays.
Exhaust(c) ==
    /\ pc[c] = "locking"
    /\ ahead[c] = {}
    /\ next_message_id = MaxMessageId
    /\ Return(c)
    /\ LeaveLock(c)
    /\ UNCHANGED <<next_message_id, pending, delivered>>
    /\ UNCHANGED <<wireVars, hostVars>>

\* Where a caller goes once its envelope is in the channel.
AfterEnqueue(k) == CASE k = "send"    -> "idle"
                     [] k = "request" -> "receiving"
                     [] k = "deliver" -> "consuming"

\* The channel has room: the envelope enters it, the lock is released, and a
\* request marks its guard as sent and waits for the response.
Enqueue(c) ==
    /\ pc[c] = "enqueueing"
    /\ open
    /\ Len(wire) - consumed < Capacity
    /\ wire' = Append(wire, [id |-> id[c], kind |-> kind[c], trace |-> TraceOf[c]])
    /\ IF kind[c] = "send"
       THEN Return(c)
       ELSE /\ pc' = [pc EXCEPT ![c] = AfterEnqueue(kind[c])]
            /\ UNCHANGED <<kind, id>>
    /\ LeaveLock(c)
    /\ UNCHANGED <<next_message_id, consumed, open, pending, delivered>>
    /\ UNCHANGED hostVars

\* PendingGuard::drop before the envelope was sent, and the receiver with it.
Unregister(c) ==
    /\ pending' = IF kind[c] = "request" THEN Without(id[c]) ELSE pending
    /\ delivered' = delivered \ {id[c]}

\* The channel is closed: the registered entry is removed again.
EnqueueClosed(c) ==
    /\ pc[c] = "enqueueing"
    /\ ~open
    /\ Unregister(c)
    /\ Return(c)
    /\ LeaveLock(c)
    /\ UNCHANGED next_message_id
    /\ UNCHANGED <<wireVars, hostVars>>

\* request: the response arrived.
Receive(c) ==
    /\ pc[c] = "receiving"
    /\ id[c] \in delivered
    /\ delivered' = delivered \ {id[c]}
    /\ Return(c)
    /\ UNCHANGED pending
    /\ UNCHANGED <<senderVars, wireVars, hostVars>>

\* request: the sending half of the oneshot channel was dropped unused.
ReceiveFailed(c) ==
    /\ pc[c] = "receiving"
    /\ id[c] \notin delivered
    /\ id[c] \notin DOMAIN pending
    /\ Return(c)
    /\ UNCHANGED <<pending, delivered>>
    /\ UNCHANGED <<senderVars, wireVars, hostVars>>

\* The transport took the envelope with this ID out of the channel.
IsConsumed(i) == \E k \in 1..consumed : wire[k].id = i

\* send_and_wait_for_consumption: the envelope was consumed, or dropped with
\* the channel.
Consumed(c) ==
    /\ pc[c] = "consuming"
    /\ IsConsumed(id[c]) \/ ~open
    /\ Return(c)
    /\ UNCHANGED <<pending, delivered>>
    /\ UNCHANGED <<senderVars, wireVars, hostVars>>

\* A future is dropped while it waits for the lock.
DropLocking(c) ==
    /\ pc[c] = "locking"
    /\ Return(c)
    /\ LeaveLock(c)
    /\ UNCHANGED <<next_message_id, pending, delivered>>
    /\ UNCHANGED <<wireVars, hostVars>>

\* A future is dropped while it holds the lock and waits for room: its guard
\* removes the entry, its ID is never used.
DropEnqueueing(c) ==
    /\ pc[c] = "enqueueing"
    /\ Unregister(c)
    /\ Return(c)
    /\ LeaveLock(c)
    /\ UNCHANGED next_message_id
    /\ UNCHANGED <<wireVars, hostVars>>

\* A future is dropped after its envelope was sent: the entry stays.
DropWaiting(c) ==
    /\ pc[c] \in {"receiving", "consuming"}
    /\ delivered' = delivered \ {id[c]}
    /\ Return(c)
    /\ UNCHANGED pending
    /\ UNCHANGED <<senderVars, wireVars, hostVars>>

-----------------------------------------------------------------------------
(* The transport and the host.                                             *)

\* OutboundEnvelope::consume on the stream handed to tonic.
Consume ==
    /\ open
    /\ consumed < Len(wire)
    /\ consumed' = consumed + 1
    /\ UNCHANGED <<wire, open, pending, delivered>>
    /\ UNCHANGED <<senderVars, callVars, hostVars>>

\* The transport drops the receiving end: the connection broke, or the session
\* is over and its stream was dropped.
CloseWire ==
    /\ open
    /\ open' = FALSE
    /\ UNCHANGED <<wire, consumed, pending, delivered>>
    /\ UNCHANGED <<senderVars, callVars, hostVars>>

\* The session loop sees that the stream has ended.
LoseSession ==
    /\ ~open
    /\ session = "open"
    /\ session' = "lost"
    /\ UNCHANGED <<answered, hostFaulty, pending, delivered>>
    /\ UNCHANGED <<senderVars, callVars, wireVars>>

\* A response the protocol allows: to a request the host has received and not
\* yet answered, with the trace of that request.
Genuine(i, t) ==
    /\ \E k \in 1..consumed : wire[k] = [id |-> i, kind |-> "request", trace |-> t]
    /\ i \notin answered

\* The host may send any response; the history records whether it was genuine.
Respond(i, t) ==
    /\ session = "open"
    /\ answered' = answered \cup {i}
    /\ hostFaulty' = (hostFaulty \/ ~Genuine(i, t))
    /\ UNCHANGED <<senderVars, callVars, wireVars>>

\* HostClient::route hands the response over; it is discarded if the request
\* was dropped in the meantime.
Route(i, t) ==
    /\ Respond(i, t)
    /\ i \in DOMAIN pending
    /\ pending[i] = t
    /\ pending' = Without(i)
    /\ delivered' = IF HasReceiver(i) THEN delivered \cup {i} ELSE delivered
    /\ UNCHANGED session

\* HostClient::route: the trace differs.  The entry is gone all the same.
RouteMismatch(i, t) ==
    /\ Respond(i, t)
    /\ i \in DOMAIN pending
    /\ pending[i] # t
    /\ pending' = Without(i)
    /\ session' = "failed"
    /\ UNCHANGED delivered

\* HostClient::route: no such entry.
RouteUnknown(i, t) ==
    /\ Respond(i, t)
    /\ i \notin DOMAIN pending
    /\ session' = "failed"
    /\ UNCHANGED <<pending, delivered>>

-----------------------------------------------------------------------------

\* What the caller's own task does when it is polled.
Step(c) ==
    \/ Allocate(c)
    \/ Exhaust(c)
    \/ Enqueue(c)
    \/ EnqueueClosed(c)
    \/ Receive(c)
    \/ ReceiveFailed(c)
    \/ Consumed(c)

Drop(c) == DropLocking(c) \/ DropEnqueueing(c) \/ DropWaiting(c)

Next ==
    \/ \E c \in Callers :
          \/ \E k \in Kinds : Begin(c, k)
          \/ Step(c)
          \/ Drop(c)
    \/ Consume
    \/ CloseWire
    \/ LoseSession
    \/ \E i \in 0..MaxMessageId, t \in Traces :
          Route(i, t) \/ RouteMismatch(i, t) \/ RouteUnknown(i, t)

Spec == Init /\ [][Next]_vars

\* Futures that were started are polled; the transport drains the channel; the
\* host answers what it was asked; once the session is over its stream and its
\* tasks are dropped with it.
Fairness ==
    /\ \A c \in Callers : WF_vars(Step(c))
    /\ \A c \in Callers : WF_vars(session # "open" /\ Drop(c))
    /\ WF_vars(Consume)
    /\ WF_vars(session # "open" /\ CloseWire)
    /\ WF_vars(LoseSession)
    /\ WF_vars(\E i \in Ids, t \in Traces : Genuine(i, t) /\ Route(i, t))

FairSpec == Spec /\ Fairness

-----------------------------------------------------------------------------
(* Properties.                                                             *)

\* Message IDs on the output stream are strictly increasing, whoever is
\* dropped between taking an ID and enqueueing, and however the counter ends
\* (sender.rs, enqueue).
EnvelopesInOrder ==
    \A j, k \in 1..Len(wire) : j < k => wire[j].id < wire[k].id

\* The requests that were sent and not answered.
Unanswered ==
    {k \in 1..Len(wire) : wire[k].kind = "request" /\ wire[k].id \notin answered}

\* The request that waits for room while it holds the lock.
Enqueueing ==
    {c \in Callers : pc[c] = "enqueueing" /\ kind[c] = "request"}

\* As long as the host only answers what it was asked, the routing table holds
\* exactly the requests on the wire that have no response yet, and the one
\* being enqueued, each with its own trace: a dropped send leaves no entry
\* behind, a dropped wait loses none (sender.rs 71-74, client.rs 119-121).
PendingExact ==
    ~hostFaulty =>
        /\ DOMAIN pending = {wire[k].id : k \in Unanswered} \cup {id[c] : c \in Enqueueing}
        /\ \A k \in Unanswered : pending[wire[k].id] = wire[k].trace

\* Only a response nobody asked for fails the session in route: neither a
\* cancelled caller nor a lost envelope does (client.rs 131-154).
FailsOnlyIfFaulty == session = "failed" => hostFaulty

\* Seen from outside, ID allocation, registration and enqueue are one step.
Requests == INSTANCE OrderedRequests WITH
    sent        <- wire,
    outstanding <- DOMAIN pending \ {id[c] : c \in Enqueueing},
    trusted     <- ~hostFaulty,
    failed      <- (session = "failed")

RequestsSpec == Requests!Spec

\* Every call on the sender returns, also when the channel is full, the IDs are
\* exhausted, callers are dropped or the stream ends.
CallsReturn ==
    \A c \in Callers : (pc[c] # "idle") ~> (pc[c] = "idle")
=============================================================================
