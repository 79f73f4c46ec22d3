-------------------------- MODULE HostClientProofs ---------------------------
(***************************************************************************)
(* Proofs about HostClient for any set of callers, any channel capacity    *)
(* and any bound on the message IDs.                                       *)
(***************************************************************************)
EXTENDS HostClient, TLAPS

-----------------------------------------------------------------------------
(* The inductive invariant.                                                *)

\* Of two callers in the lock's queue one is ahead of the other.
LockInv ==
    \A c, d \in Queued : c # d => (c \in ahead[d] \/ d \in ahead[c])

\* A caller that waits for the lock or for room knows what it sends.
KindInv == \A c \in Queued : kind[c] \in Kinds

\* The caller that waits for room has the lock, and an ID that was handed out
\* and is larger than every ID on the wire.
HolderInv ==
    \A c \in Callers : pc[c] = "enqueueing" =>
        /\ ahead[c] = {}
        /\ id[c] \in Ids
        /\ id[c] < next_message_id
        /\ \A k \in 1..Len(wire) : wire[k].id < id[c]

\* The IDs on the wire were handed out.
WireInv == \A k \in 1..Len(wire) : wire[k].id < next_message_id

\* A host that only answers what it was asked has answered nothing but
\* requests it received.
AnsweredInv ==
    ~hostFaulty => \A i \in answered : \E k \in 1..consumed : wire[k].id = i

\* The request that waits for room is registered under its own trace.
EntryInv == ~hostFaulty => \A c \in Enqueueing : pending[id[c]] = TraceOf[c]

IndInv ==
    /\ TypeOK
    /\ LockInv
    /\ KindInv
    /\ HolderInv
    /\ WireInv
    /\ EnvelopesInOrder
    /\ AnsweredInv
    /\ EntryInv
    /\ PendingExact
    /\ FailsOnlyIfFaulty

-----------------------------------------------------------------------------
(* Lemmas.                                                                 *)

USE DEF Ids, Kinds, Envelopes

\* What appending an envelope does to the stream of output envelopes.
LEMMA AppendEnvelope ==
    ASSUME wire \in Seq(Envelopes), NEW e \in Envelopes
    PROVE  /\ Append(wire, e) \in Seq(Envelopes)
           /\ Len(Append(wire, e)) = Len(wire) + 1
           /\ Len(wire) \in Nat
           /\ \A k \in 1..Len(wire) : Append(wire, e)[k] = wire[k]
           /\ Append(wire, e)[Len(wire) + 1] = e
  OBVIOUS

LEMMA SeqElements ==
    ASSUME NEW S, NEW s \in Seq(S)
    PROVE  Len(s) \in Nat /\ \A k \in 1..Len(s) : s[k] \in S
  OBVIOUS

\* The envelopes on the stream and their IDs.
LEMMA WireEnvelopes ==
    ASSUME wire \in Seq(Envelopes)
    PROVE  /\ Len(wire) \in Nat
           /\ \A k \in 1..Len(wire) :
                 wire[k] \in Envelopes /\ wire[k].id \in Ids /\ wire[k].id \in Nat
<1>1. Len(wire) \in Nat /\ \A k \in 1..Len(wire) : wire[k] \in Envelopes
  BY SeqElements
<1>2. \A e \in Envelopes : e.id \in Ids /\ e.id \in Nat
  BY MaxMessageIdAssumption
<1> QED
  BY <1>1, <1>2

\* Removing an entry from the routing table.
LEMMA WithoutEntry ==
    ASSUME NEW i
    PROVE  /\ DOMAIN Without(i) = DOMAIN pending \ {i}
           /\ \A j \in DOMAIN pending \ {i} : Without(i)[j] = pending[j]
  BY DEF Without, Restrict

\* Only one caller has the lock.
LEMMA OneHolder ==
    ASSUME TypeOK, LockInv, HolderInv,
           NEW c \in Queued, ahead[c] = {},
           NEW d \in Callers, pc[d] = "enqueueing"
    PROVE  c = d
  BY DEF TypeOK, LockInv, HolderInv, Queued

\* The envelope a caller with the lock puts on the wire.
LEMMA OwnEnvelope ==
    ASSUME TypeOK, KindInv, HolderInv, NEW c \in Callers, pc[c] = "enqueueing"
    PROVE  [id |-> id[c], kind |-> kind[c], trace |-> TraceOf[c]] \in Envelopes
  BY TraceAssumption DEF TypeOK, KindInv, HolderInv, Queued

-----------------------------------------------------------------------------
(* The type invariant.                                                     *)

LEMMA InitInd == Init => IndInv
<1> SUFFICES ASSUME Init PROVE IndInv
  OBVIOUS
<1> USE DEF Init
<1>1. TypeOK
  <2>1. wire \in Seq(Envelopes) /\ consumed \in 0..Len(wire)
    OBVIOUS
  <2>2. DOMAIN pending = {}
    OBVIOUS
  <2>3. next_message_id \in 1..MaxMessageId
    BY MaxMessageIdAssumption
  <2> QED
    BY <2>1, <2>2, <2>3 DEF TypeOK
<1>2. Len(wire) = 0 /\ Queued = {} /\ Enqueueing = {} /\ Unanswered = {}
  BY DEF Queued, Enqueueing, Unanswered
<1>3. PendingExact
  BY <1>2 DEF PendingExact
<1> QED
  BY <1>1, <1>2, <1>3
  DEF IndInv, LockInv, KindInv, HolderInv, WireInv, EnvelopesInOrder, AnsweredInv,
      EntryInv, FailsOnlyIfFaulty

\* A caller that returns, and one that leaves the lock's queue.
LEMMA ReturnType ==
    ASSUME TypeOK, NEW c \in Callers, Return(c)
    PROVE  /\ pc' \in [Callers -> {"idle", "locking", "enqueueing", "receiving", "consuming"}]
           /\ kind' \in [Callers -> Kinds \cup {"none"}]
           /\ id' \in [Callers -> Ids \cup {0}]
  BY DEF TypeOK, Return

LEMMA LeaveLockType ==
    ASSUME TypeOK, NEW c \in Callers, LeaveLock(c)
    PROVE  ahead' \in [Callers -> SUBSET Callers]
  BY DEF TypeOK, LeaveLock

\* The routing table stays well typed when an entry is removed.
LEMMA WithoutType ==
    ASSUME TypeOK, NEW i, pending' \in {pending, Without(i)}
    PROVE  /\ DOMAIN pending' \subseteq Ids
           /\ \A j \in DOMAIN pending' : pending'[j] \in Traces
<1>1. CASE pending' = pending
  BY <1>1 DEF TypeOK
<1>2. CASE pending' = Without(i)
  BY <1>2, WithoutEntry DEF TypeOK
<1> QED
  BY <1>1, <1>2

\* Every step keeps the state well typed.
LEMMA TypeStep == ASSUME IndInv, [Next]_vars PROVE TypeOK'
<1> USE DEF senderVars, callVars, wireVars, hostVars
<1>0. TypeOK /\ KindInv /\ HolderInv
  BY DEF IndInv
<1>1. ASSUME NEW c \in Callers, NEW k \in Kinds, Begin(c, k) PROVE TypeOK'
  BY <1>0, <1>1 DEF Begin, Queued, TypeOK, JoinLock
<1>2. ASSUME NEW c \in Callers, Allocate(c) PROVE TypeOK'
  <2>1. next_message_id \in Ids /\ next_message_id' \in 1..MaxMessageId
    BY <1>0, <1>2, MaxMessageIdAssumption DEF Allocate, TypeOK
  <2>2. CASE kind[c] = "request" /\ next_message_id \in DOMAIN pending
    BY <1>0, <1>2, <2>1, <2>2, ReturnType, LeaveLockType DEF Allocate, TypeOK
  <2>3. CASE ~(kind[c] = "request" /\ next_message_id \in DOMAIN pending)
    <3>1. DOMAIN pending' \subseteq Ids /\ \A i \in DOMAIN pending' : pending'[i] \in Traces
      BY <1>0, <1>2, <2>1, <2>3, TraceAssumption DEF Allocate, TypeOK
    <3> QED
      BY <1>0, <1>2, <2>1, <2>3, <3>1 DEF Allocate, TypeOK
  <2> QED
    BY <2>2, <2>3
<1>3. ASSUME NEW c \in Callers, Exhaust(c) PROVE TypeOK'
  BY <1>0, <1>3, ReturnType, LeaveLockType DEF Exhaust, TypeOK
<1>4. ASSUME NEW c \in Callers, Enqueue(c) PROVE TypeOK'
  <2>1. [id |-> id[c], kind |-> kind[c], trace |-> TraceOf[c]] \in Envelopes
    BY <1>0, <1>4, OwnEnvelope DEF Enqueue
  <2>2. wire' \in Seq(Envelopes) /\ consumed' \in 0..Len(wire')
    BY <1>0, <1>4, <2>1, AppendEnvelope DEF Enqueue, TypeOK
  <2>3. /\ pc' \in [Callers -> {"idle", "locking", "enqueueing", "receiving", "consuming"}]
        /\ kind' \in [Callers -> Kinds \cup {"none"}]
        /\ id' \in [Callers -> Ids \cup {0}]
    <3>1. CASE kind[c] = "send"
      BY <1>0, <1>4, <3>1, ReturnType DEF Enqueue
    <3>2. CASE kind[c] # "send"
      <4>1. AfterEnqueue(kind[c]) \in {"receiving", "consuming"}
        BY <1>0, <1>4, <3>2 DEF Enqueue, AfterEnqueue, KindInv, Queued
      <4> QED
        BY <1>0, <1>4, <3>2, <4>1 DEF Enqueue, TypeOK
    <3> QED
      BY <3>1, <3>2
  <2> QED
    BY <1>0, <1>4, <2>2, <2>3, LeaveLockType DEF Enqueue, TypeOK
<1>5. ASSUME NEW c \in Callers, EnqueueClosed(c) \/ DropEnqueueing(c) PROVE TypeOK'
  <2>1. pending' \in {pending, Without(id[c])} /\ delivered' \subseteq delivered
    BY <1>5 DEF EnqueueClosed, DropEnqueueing, Unregister
  <2>2. Return(c) /\ LeaveLock(c) /\ UNCHANGED <<next_message_id, wireVars, hostVars>>
    BY <1>5 DEF EnqueueClosed, DropEnqueueing
  <2> QED
    BY <1>0, <2>1, <2>2, ReturnType, LeaveLockType, WithoutType DEF TypeOK
<1>6. ASSUME NEW c \in Callers,
             Receive(c) \/ ReceiveFailed(c) \/ Consumed(c) \/ DropWaiting(c)
      PROVE  TypeOK'
  <2>1. pending' = pending /\ delivered' \subseteq delivered
    BY <1>6 DEF Receive, ReceiveFailed, Consumed, DropWaiting
  <2>2. Return(c) /\ UNCHANGED <<senderVars, wireVars, hostVars>>
    BY <1>6 DEF Receive, ReceiveFailed, Consumed, DropWaiting
  <2> QED
    BY <1>0, <2>1, <2>2, ReturnType DEF TypeOK
<1>7. ASSUME NEW c \in Callers, DropLocking(c) PROVE TypeOK'
  BY <1>0, <1>7, ReturnType, LeaveLockType DEF DropLocking, TypeOK
<1>8. CASE Consume
  BY <1>0, <1>8 DEF Consume, TypeOK
<1>9. CASE CloseWire \/ LoseSession
  BY <1>0, <1>9 DEF CloseWire, LoseSession, TypeOK
<1>10. ASSUME NEW i \in 0..MaxMessageId, NEW t \in Traces,
              Route(i, t) \/ RouteMismatch(i, t) \/ RouteUnknown(i, t)
       PROVE  TypeOK'
  <2>1. pending' \in {pending, Without(i)}
    BY <1>10 DEF Route, RouteMismatch, RouteUnknown
  <2>2. delivered' \subseteq Ids /\ session' \in {"open", "failed", "lost"}
    BY <1>0, <1>10 DEF Route, RouteMismatch, RouteUnknown, TypeOK
  <2>3. Respond(i, t)
    BY <1>10 DEF Route, RouteMismatch, RouteUnknown
  <2>4. answered' \subseteq 0..MaxMessageId /\ hostFaulty' \in BOOLEAN
    BY <1>0, <2>3 DEF Respond, TypeOK
  <2> QED
    BY <1>0, <2>1, <2>2, <2>3, <2>4, WithoutType DEF Respond, TypeOK
<1>11. CASE UNCHANGED vars
  BY <1>0, <1>11 DEF vars, TypeOK
<1> QED
  BY <1>1, <1>2, <1>3, <1>4, <1>5, <1>6, <1>7, <1>8, <1>9, <1>10, <1>11
  DEF Next, Step, Drop

-----------------------------------------------------------------------------
(* The lock and the order of the envelopes.                                *)

\* A step that takes caller c, and nobody else, out of the lock's queue, and
\* one that concerns only callers outside the queue.
LEMMA QueueStep ==
    ASSUME TypeOK, LockInv, KindInv, NEW c \in Callers,
           \/ LeaveLock(c) /\ pc'[c] \notin {"locking", "enqueueing"}
           \/ ahead' = ahead /\ (c \in Queued' => c \in Queued),
           \A d \in Callers : d # c => pc'[d] = pc[d] /\ kind'[d] = kind[d],
           c \in Queued' => kind'[c] = kind[c]
    PROVE  LockInv' /\ KindInv'
<1>1. Queued' \subseteq Queued
  BY DEF Queued
<1>2. KindInv'
  BY <1>1 DEF KindInv, Queued
<1>3. CASE ahead' = ahead
  BY <1>1, <1>2, <1>3 DEF LockInv
<1>4. CASE LeaveLock(c) /\ pc'[c] \notin {"locking", "enqueueing"}
  <2>1. c \notin Queued'
    BY <1>4 DEF Queued
  <2>2. \A d, e \in Queued' : d \in ahead[e] => d \in ahead'[e]
    BY <1>4, <2>1 DEF LeaveLock, Queued, TypeOK
  <2> QED
    BY <1>1, <1>2, <2>2 DEF LockInv
<1> QED
  BY <1>2, <1>3, <1>4

\* The lock's queue stays a total order of callers with something to send.
LEMMA LockStep == ASSUME IndInv, [Next]_vars PROVE LockInv' /\ KindInv'
<1> USE DEF senderVars, callVars, wireVars, hostVars
<1>0. TypeOK /\ LockInv /\ KindInv
  BY DEF IndInv
<1>1. ASSUME NEW c \in Callers, NEW k \in Kinds, Begin(c, k) PROVE LockInv' /\ KindInv'
  <2>1. Queued' = Queued \cup {c} /\ c \notin Queued
    BY <1>0, <1>1 DEF Begin, Queued, TypeOK
  <2>2. ahead'[c] = Queued /\ \A d \in Callers \ {c} : ahead'[d] = ahead[d]
    BY <1>0, <1>1 DEF Begin, JoinLock, TypeOK
  <2>3. LockInv'
    BY <1>0, <2>1, <2>2 DEF LockInv, Queued
  <2>4. KindInv'
    BY <1>0, <1>1, <2>1 DEF Begin, KindInv, Queued, TypeOK
  <2> QED
    BY <2>3, <2>4
<1>2. ASSUME NEW c \in Callers, Step(c) \/ Drop(c) PROVE LockInv' /\ KindInv'
  <2>1. \A d \in Callers : d # c => pc'[d] = pc[d] /\ kind'[d] = kind[d]
    BY <1>0, <1>2
    DEF Step, Drop, Allocate, Exhaust, Enqueue, EnqueueClosed, Receive, ReceiveFailed,
        Consumed, DropLocking, DropEnqueueing, DropWaiting, Return, TypeOK
  <2>2. c \in Queued' => kind'[c] = kind[c]
    BY <1>0, <1>2
    DEF Step, Drop, Allocate, Exhaust, Enqueue, EnqueueClosed, Receive, ReceiveFailed,
        Consumed, DropLocking, DropEnqueueing, DropWaiting, Return, TypeOK, Queued
  <2>3. \/ LeaveLock(c) /\ pc'[c] \notin {"locking", "enqueueing"}
        \/ ahead' = ahead /\ (c \in Queued' => c \in Queued)
    <3>1. CASE Allocate(c)
      BY <1>0, <3>1 DEF Allocate, Return, TypeOK, Queued
    <3>2. CASE Enqueue(c)
      BY <1>0, <3>2 DEF Enqueue, AfterEnqueue, Return, TypeOK, KindInv, Queued
    <3>3. CASE Exhaust(c) \/ EnqueueClosed(c) \/ DropLocking(c) \/ DropEnqueueing(c)
      BY <1>0, <3>3 DEF Exhaust, EnqueueClosed, DropLocking, DropEnqueueing, Return, TypeOK
    <3>4. CASE Receive(c) \/ ReceiveFailed(c) \/ Consumed(c) \/ DropWaiting(c)
      BY <1>0, <3>4 DEF Receive, ReceiveFailed, Consumed, DropWaiting, Return, TypeOK, Queued
    <3> QED
      BY <1>2, <3>1, <3>2, <3>3, <3>4 DEF Step, Drop
  <2> QED
    BY <1>0, <2>1, <2>2, <2>3, QueueStep
<1>3. CASE UNCHANGED <<ahead, callVars>>
  BY <1>0, <1>3 DEF LockInv, KindInv, Queued
<1> QED
  BY <1>1, <1>2, <1>3
  DEF Next, Consume, CloseWire, LoseSession, Route, RouteMismatch, RouteUnknown,
      Respond, vars

\* An envelope enters the stream behind all smaller IDs, because its sender
\* still has the lock it took the ID under.
LEMMA OrderStep ==
    ASSUME IndInv, [Next]_vars PROVE HolderInv' /\ WireInv' /\ EnvelopesInOrder'
<1> USE DEF senderVars, callVars, wireVars, hostVars
<1> DEFINE Goal == HolderInv' /\ WireInv' /\ EnvelopesInOrder'
<1>0. /\ TypeOK /\ LockInv /\ KindInv /\ HolderInv /\ WireInv /\ EnvelopesInOrder
      /\ TypeOK'
  BY TypeStep DEF IndInv
<1>1. ASSUME NEW c \in Callers, NEW k \in Kinds, Begin(c, k) PROVE Goal
  BY <1>0, <1>1 DEF Begin, JoinLock, HolderInv, WireInv, EnvelopesInOrder, TypeOK
<1>2. ASSUME NEW c \in Callers, Allocate(c) PROVE Goal
  <2>1. next_message_id \in Ids /\ next_message_id' = next_message_id + 1 /\ wire' = wire
    BY <1>0, <1>2, MaxMessageIdAssumption DEF Allocate, TypeOK
  <2>2. Len(wire) \in Nat /\ \A k \in 1..Len(wire) : wire[k].id \in Nat
    BY <1>0, WireEnvelopes DEF TypeOK
  <2>3. WireInv' /\ EnvelopesInOrder'
    BY <1>0, <2>1, <2>2 DEF WireInv, EnvelopesInOrder
  <2>4. \A d \in Callers : pc'[d] = "enqueueing" =>
             /\ ahead'[d] = {}
             /\ d = c => id'[d] = next_message_id
             /\ d # c => pc[d] = "enqueueing" /\ id'[d] = id[d]
    BY <1>0, <1>2 DEF Allocate, Return, LeaveLock, TypeOK, HolderInv
  <2>5. HolderInv'
    BY <1>0, <2>1, <2>2, <2>4, MaxMessageIdAssumption DEF HolderInv, WireInv
  <2> QED
    BY <2>3, <2>5
<1>3. ASSUME NEW c \in Callers, Enqueue(c) PROVE Goal
  <2> DEFINE e == [id |-> id[c], kind |-> kind[c], trace |-> TraceOf[c]]
  <2>1. e \in Envelopes /\ wire' = Append(wire, e) /\ next_message_id' = next_message_id
    BY <1>0, <1>3, OwnEnvelope DEF Enqueue
  <2>2. /\ Len(wire') = Len(wire) + 1 /\ Len(wire) \in Nat
        /\ \A k \in 1..Len(wire) : wire'[k] = wire[k] /\ wire[k].id \in Nat
        /\ wire'[Len(wire) + 1].id = id[c]
    BY <1>0, <2>1, AppendEnvelope, WireEnvelopes DEF TypeOK
  <2>3. /\ id[c] < next_message_id /\ id[c] \in Nat
        /\ \A k \in 1..Len(wire) : wire[k].id < id[c]
    BY <1>0, <1>3, MaxMessageIdAssumption DEF Enqueue, HolderInv
  <2>4. WireInv'
    BY <1>0, <2>1, <2>2, <2>3 DEF WireInv
  <2>5. EnvelopesInOrder'
    <3> SUFFICES ASSUME NEW j \in 1..Len(wire'), NEW k \in 1..Len(wire'), j < k
                 PROVE  wire'[j].id < wire'[k].id
      BY DEF EnvelopesInOrder
    <3>1. CASE k = Len(wire) + 1
      BY <2>2, <2>3, <3>1
    <3>2. CASE k \in 1..Len(wire)
      BY <1>0, <2>2, <3>2 DEF EnvelopesInOrder
    <3> QED
      BY <2>2, <3>1, <3>2
  <2>6. \A d \in Callers : pc'[d] # "enqueueing"
    <3>1. c \in Queued /\ ahead[c] = {}
      BY <1>0, <1>3 DEF Enqueue, HolderInv, Queued
    <3>2. \A d \in Callers : pc[d] = "enqueueing" => d = c
      BY <1>0, <3>1, OneHolder
    <3>3. pc'[c] # "enqueueing"
      BY <1>0, <1>3 DEF Enqueue, AfterEnqueue, Return, TypeOK, KindInv, Queued
    <3>4. \A d \in Callers : d # c => pc'[d] = pc[d]
      BY <1>0, <1>3 DEF Enqueue, Return, TypeOK
    <3> QED
      BY <3>2, <3>3, <3>4
  <2> QED
    BY <2>4, <2>5, <2>6 DEF HolderInv
<1>4. ASSUME NEW c \in Callers,
             \/ Exhaust(c) \/ EnqueueClosed(c) \/ Receive(c) \/ ReceiveFailed(c)
             \/ Consumed(c) \/ Drop(c)
      PROVE  Goal
  <2>1. UNCHANGED <<next_message_id, wire>>
    BY <1>4
    DEF Exhaust, EnqueueClosed, Receive, ReceiveFailed, Consumed, Drop, DropLocking,
        DropEnqueueing, DropWaiting
  <2>2. Return(c) /\ (LeaveLock(c) \/ ahead' = ahead)
    BY <1>4
    DEF Exhaust, EnqueueClosed, Receive, ReceiveFailed, Consumed, Drop, DropLocking,
        DropEnqueueing, DropWaiting
  <2>3. \A d \in Callers : pc'[d] = "enqueueing" =>
             pc[d] = "enqueueing" /\ id'[d] = id[d] /\ ahead'[d] \subseteq ahead[d]
    BY <1>0, <2>2 DEF Return, LeaveLock, TypeOK
  <2> QED
    BY <1>0, <2>1, <2>3 DEF HolderInv, WireInv, EnvelopesInOrder
<1>5. CASE UNCHANGED <<senderVars, callVars, wire>>
  BY <1>0, <1>5 DEF HolderInv, WireInv, EnvelopesInOrder
<1> QED
  BY <1>1, <1>2, <1>3, <1>4, <1>5
  DEF Next, Step, Consume, CloseWire, LoseSession, Route, RouteMismatch, RouteUnknown,
      Respond, vars

-----------------------------------------------------------------------------
(* The routing table.                                                      *)

\* What the host has answered was on the wire.
LEMMA AnsweredStep == ASSUME IndInv, [Next]_vars PROVE AnsweredInv'
<1> USE DEF senderVars, callVars, wireVars, hostVars
<1>0. TypeOK /\ KindInv /\ HolderInv /\ AnsweredInv /\ Len(wire) \in Nat
  BY WireEnvelopes DEF IndInv, TypeOK
<1>1. ASSUME NEW c \in Callers, Enqueue(c) PROVE AnsweredInv'
  <2>1. \A k \in 1..consumed : wire'[k] = wire[k]
    BY <1>0, <1>1, OwnEnvelope, AppendEnvelope DEF Enqueue, TypeOK
  <2> QED
    BY <1>0, <1>1, <2>1 DEF Enqueue, AnsweredInv
<1>2. CASE Consume
  <2>1. consumed \in Nat /\ consumed' = consumed + 1
    BY <1>0, <1>2 DEF Consume, TypeOK
  <2>2. 1..consumed \subseteq 1..consumed'
    BY <2>1
  <2> QED
    BY <1>0, <1>2, <2>2 DEF Consume, AnsweredInv
<1>3. ASSUME NEW i \in 0..MaxMessageId, NEW t \in Traces, Respond(i, t) PROVE AnsweredInv'
  <2> SUFFICES ASSUME ~hostFaulty' PROVE \A j \in answered' : \E k \in 1..consumed : wire[k].id = j
    BY <1>3 DEF AnsweredInv, Respond
  <2>1. ~hostFaulty /\ Genuine(i, t)
    BY <1>0, <1>3 DEF Respond, TypeOK
  <2> QED
    BY <1>0, <1>3, <2>1 DEF Respond, Genuine, AnsweredInv
<1>4. CASE UNCHANGED <<wire, consumed, answered, hostFaulty>>
  BY <1>0, <1>4 DEF AnsweredInv
<1> QED
  BY <1>1, <1>2, <1>3, <1>4
  DEF Next, Step, Drop, Begin, Allocate, Exhaust, EnqueueClosed, Receive, ReceiveFailed,
      Consumed, DropLocking, DropEnqueueing, DropWaiting, CloseWire, LoseSession, Route,
      RouteMismatch, RouteUnknown, vars

\* What the callers and the host have in common when the host is not faulty.
LEMMA TableFacts ==
    ASSUME IndInv, ~hostFaulty
    PROVE  /\ Len(wire) \in Nat
           /\ Unanswered \subseteq 1..Len(wire)
           /\ \A c \in Enqueueing, k \in 1..Len(wire) : wire[k].id # id[c]
           /\ \A c \in Callers : pc[c] = "enqueueing" => id[c] \notin answered
           /\ \A c \in Callers : pc[c] = "enqueueing" =>
                 \A k \in 1..Len(wire) : wire[k].id # id[c]
           /\ next_message_id \notin DOMAIN pending
<1>1. Len(wire) \in Nat /\ \A k \in 1..Len(wire) : wire[k].id \in Nat
  BY WireEnvelopes DEF IndInv, TypeOK
<1>2. \A c \in Callers : pc[c] = "enqueueing" =>
         id[c] \in Nat /\ id[c] < next_message_id /\ \A k \in 1..Len(wire) : wire[k].id # id[c]
  BY <1>1, MaxMessageIdAssumption DEF IndInv, HolderInv
<1>3. \A c \in Callers : pc[c] = "enqueueing" => id[c] \notin answered
  BY <1>1, <1>2 DEF IndInv, AnsweredInv, TypeOK
<1>4. next_message_id \notin DOMAIN pending
  BY <1>1, <1>2, MaxMessageIdAssumption
  DEF IndInv, PendingExact, WireInv, Unanswered, Enqueueing, TypeOK
<1> QED
  BY <1>1, <1>2, <1>3, <1>4 DEF Unanswered, Enqueueing

\* A genuine response finds its entry and its trace.
LEMMA GenuineFound ==
    ASSUME IndInv, ~hostFaulty, NEW i, NEW t, Genuine(i, t)
    PROVE  i \in DOMAIN pending /\ pending[i] = t
<1>1. PICK k \in 1..consumed : wire[k] = [id |-> i, kind |-> "request", trace |-> t]
  BY DEF Genuine
<1>2. k \in Unanswered
  BY <1>1, WireEnvelopes DEF Genuine, Unanswered, IndInv, TypeOK
<1> QED
  BY <1>1, <1>2 DEF IndInv, PendingExact

\* A response that route refuses is never a genuine one.
LEMMA RefusedIsFaulty ==
    ASSUME IndInv, NEW i, NEW t, RouteMismatch(i, t) \/ RouteUnknown(i, t)
    PROVE  hostFaulty'
<1>1. i \notin DOMAIN pending \/ pending[i] # t
  BY DEF RouteMismatch, RouteUnknown
<1>2. hostFaulty' = (hostFaulty \/ ~Genuine(i, t))
  BY DEF RouteMismatch, RouteUnknown, Respond
<1> QED
  BY <1>1, <1>2, GenuineFound DEF IndInv, TypeOK

\* The caller with the lock is the only one that enqueues.
LEMMA EnqueueingHolder ==
    ASSUME IndInv, NEW c \in Callers, pc[c] = "enqueueing"
    PROVE  Enqueueing = {d \in {c} : kind[c] = "request"}
<1>1. c \in Queued /\ ahead[c] = {}
  BY DEF IndInv, HolderInv, Queued
<1>2. \A d \in Callers : pc[d] = "enqueueing" => d = c
  BY <1>1, OneHolder DEF IndInv
<1> QED
  BY <1>2 DEF Enqueueing

\* Every step keeps the routing table exact and fails the session only because
\* of the host.
LEMMA TableStep ==
    ASSUME IndInv, [Next]_vars PROVE EntryInv' /\ PendingExact' /\ FailsOnlyIfFaulty'
<1> USE DEF senderVars, callVars, wireVars, hostVars
<1> DEFINE Goal == EntryInv' /\ PendingExact' /\ FailsOnlyIfFaulty'
<1>0. TypeOK /\ TypeOK' /\ LockInv /\ KindInv /\ HolderInv
  BY TypeStep DEF IndInv
<1>a. FailsOnlyIfFaulty /\ (~hostFaulty => EntryInv /\ PendingExact)
  BY DEF IndInv
<1>1. ASSUME NEW c \in Callers, NEW k \in Kinds, Begin(c, k) PROVE Goal
  <2>1. Enqueueing' = Enqueueing
    BY <1>0, <1>1 DEF Begin, Enqueueing, TypeOK
  <2> QED
    BY <1>a, <1>1, <2>1 DEF Begin, EntryInv, PendingExact, FailsOnlyIfFaulty, Unanswered
<1>2. ASSUME NEW c \in Callers, Allocate(c) PROVE Goal
  <2>0. FailsOnlyIfFaulty'
    BY <1>a, <1>2 DEF Allocate, FailsOnlyIfFaulty
  <2> SUFFICES ASSUME ~hostFaulty' PROVE EntryInv' /\ PendingExact'
    BY <2>0 DEF EntryInv, PendingExact
  <2>1. ~hostFaulty /\ next_message_id \notin DOMAIN pending
    BY <1>2, TableFacts DEF Allocate
  <2>2. /\ \A d \in Enqueueing : d # c /\ d \in Enqueueing' /\ id'[d] = id[d]
        /\ kind[c] = "request" => Enqueueing' = Enqueueing \cup {c} /\ id'[c] = next_message_id
        /\ kind[c] # "request" => Enqueueing' = Enqueueing
    BY <1>0, <1>2, <2>1 DEF Allocate, Enqueueing, TypeOK
  <2>3. Unanswered' = Unanswered /\ wire' = wire
    BY <1>2 DEF Allocate, Unanswered
  <2>4. CASE kind[c] = "request"
    <3>1. /\ DOMAIN pending' = DOMAIN pending \cup {next_message_id}
          /\ pending'[next_message_id] = TraceOf[c]
          /\ \A i \in DOMAIN pending : pending'[i] = pending[i]
      BY <1>2, <2>1, <2>4 DEF Allocate
    <3>2. PendingExact'
      BY <1>a, <2>1, <2>2, <2>3, <2>4, <3>1 DEF PendingExact
    <3>3. EntryInv'
      BY <1>a, <2>1, <2>2, <2>4, <3>1 DEF EntryInv, PendingExact
    <3> QED
      BY <3>2, <3>3
  <2>5. CASE kind[c] # "request"
    <3>1. pending' = pending
      BY <1>2, <2>5 DEF Allocate
    <3> QED
      BY <1>a, <2>1, <2>2, <2>3, <2>5, <3>1 DEF PendingExact, EntryInv
  <2> QED
    BY <2>4, <2>5
<1>3. ASSUME NEW c \in Callers, Enqueue(c) PROVE Goal
  <2>0. FailsOnlyIfFaulty'
    BY <1>a, <1>3 DEF Enqueue, FailsOnlyIfFaulty
  <2> SUFFICES ASSUME ~hostFaulty' PROVE EntryInv' /\ PendingExact'
    BY <2>0 DEF EntryInv, PendingExact
  <2> DEFINE e == [id |-> id[c], kind |-> kind[c], trace |-> TraceOf[c]]
  <2>1. ~hostFaulty /\ pending' = pending /\ answered' = answered
    BY <1>3 DEF Enqueue
  <2>2. /\ Len(wire') = Len(wire) + 1 /\ Len(wire) \in Nat
        /\ \A k \in 1..Len(wire) : wire'[k] = wire[k]
        /\ wire'[Len(wire) + 1] = e
    BY <1>0, <1>3, OwnEnvelope, AppendEnvelope DEF Enqueue, TypeOK
  <2>3. c \in Queued /\ ahead[c] = {} /\ pc[c] = "enqueueing"
    BY <1>0, <1>3 DEF Enqueue, HolderInv, Queued
  <2>4. Enqueueing = {d \in {c} : kind[c] = "request"} /\ Enqueueing' = {}
    <3>1. \A d \in Callers : pc[d] = "enqueueing" => d = c
      BY <1>0, <2>3, OneHolder
    <3>2. pc'[c] # "enqueueing"
      BY <1>0, <1>3 DEF Enqueue, AfterEnqueue, Return, TypeOK, KindInv, Queued
    <3>3. \A d \in Callers : d # c => pc'[d] = pc[d]
      BY <1>0, <1>3 DEF Enqueue, Return, TypeOK
    <3> QED
      BY <2>3, <3>1, <3>2, <3>3 DEF Enqueueing
  <2>5. id[c] \notin answered
    BY <2>1, <2>3, TableFacts
  <2>6. Unanswered' = Unanswered \cup {k \in {Len(wire) + 1} : kind[c] = "request"}
    BY <2>1, <2>2, <2>5 DEF Unanswered
  <2>7. Unanswered \subseteq 1..Len(wire)
    BY DEF Unanswered
  <2>8. CASE kind[c] = "request"
    <3>1. pending[id[c]] = TraceOf[c]
      BY <1>a, <2>1, <2>4, <2>8 DEF EntryInv
    <3>2. DOMAIN pending = {wire[k].id : k \in Unanswered} \cup {id[c]}
      BY <1>a, <2>1, <2>4, <2>8 DEF PendingExact
    <3>3. {wire'[k].id : k \in Unanswered'} = {wire[k].id : k \in Unanswered} \cup {id[c]}
      BY <2>2, <2>6, <2>7, <2>8
    <3>4. \A k \in Unanswered' : pending[wire'[k].id] = wire'[k].trace
      BY <1>a, <2>1, <2>2, <2>6, <2>7, <2>8, <3>1 DEF PendingExact
    <3> QED
      BY <2>1, <2>4, <3>2, <3>3, <3>4 DEF PendingExact, EntryInv
  <2>9. CASE kind[c] # "request"
    BY <1>a, <2>1, <2>2, <2>4, <2>6, <2>7, <2>9 DEF PendingExact, EntryInv
  <2> QED
    BY <2>8, <2>9
<1>4. ASSUME NEW c \in Callers, EnqueueClosed(c) \/ DropEnqueueing(c) PROVE Goal
  <2>0. FailsOnlyIfFaulty'
    BY <1>a, <1>4 DEF EnqueueClosed, DropEnqueueing, FailsOnlyIfFaulty
  <2> SUFFICES ASSUME ~hostFaulty' PROVE EntryInv' /\ PendingExact'
    BY <2>0 DEF EntryInv, PendingExact
  <2>1. ~hostFaulty /\ wire' = wire /\ answered' = answered /\ Unregister(c) /\ Return(c)
    BY <1>4 DEF EnqueueClosed, DropEnqueueing
  <2>2. c \in Queued /\ ahead[c] = {} /\ pc[c] = "enqueueing"
    BY <1>0, <1>4 DEF EnqueueClosed, DropEnqueueing, HolderInv, Queued
  <2>3. Enqueueing = {d \in {c} : kind[c] = "request"} /\ Enqueueing' = {}
    <3>1. \A d \in Callers : pc[d] = "enqueueing" => d = c
      BY <1>0, <2>2, OneHolder
    <3> QED
      BY <1>0, <2>1, <2>2, <3>1 DEF Enqueueing, Return, TypeOK
  <2>4. Unanswered' = Unanswered
    BY <2>1 DEF Unanswered
  <2>5. \A k \in Unanswered : wire[k].id # id[c]
    BY <2>1, <2>2, TableFacts DEF Unanswered
  <2>6. CASE kind[c] = "request"
    <3>1. /\ DOMAIN pending' = DOMAIN pending \ {id[c]}
          /\ \A j \in DOMAIN pending \ {id[c]} : pending'[j] = pending[j]
      BY <2>1, <2>6, WithoutEntry DEF Unregister
    <3>2. DOMAIN pending = {wire[k].id : k \in Unanswered} \cup {id[c]}
      BY <1>a, <2>1, <2>3, <2>6 DEF PendingExact
    <3> QED
      BY <1>a, <2>1, <2>3, <2>4, <2>5, <3>1, <3>2 DEF PendingExact, EntryInv
  <2>7. CASE kind[c] # "request"
    BY <1>a, <2>1, <2>3, <2>4, <2>7 DEF PendingExact, EntryInv, Unregister
  <2> QED
    BY <2>6, <2>7
<1>5. ASSUME NEW c \in Callers,
             \/ Exhaust(c) \/ Receive(c) \/ ReceiveFailed(c)
             \/ Consumed(c) \/ DropLocking(c) \/ DropWaiting(c)
      PROVE  Goal
  <2>1. UNCHANGED <<wire, pending, answered, hostFaulty, session>> /\ Return(c)
    BY <1>5
    DEF Exhaust, Receive, ReceiveFailed, Consumed, DropLocking, DropWaiting
  <2>2. pc[c] # "enqueueing"
    BY <1>5
    DEF Exhaust, Receive, ReceiveFailed, Consumed, DropLocking, DropWaiting
  <2>3. Enqueueing' = Enqueueing /\ \A d \in Enqueueing : id'[d] = id[d]
    BY <1>0, <2>1, <2>2 DEF Enqueueing, Return, TypeOK
  <2>4. Unanswered' = Unanswered
    BY <2>1 DEF Unanswered
  <2> QED
    BY <1>a, <2>1, <2>3, <2>4 DEF PendingExact, EntryInv, FailsOnlyIfFaulty
<1>6. ASSUME NEW i \in 0..MaxMessageId, NEW t \in Traces, Route(i, t) PROVE Goal
  <2>0. FailsOnlyIfFaulty'
    BY <1>0, <1>a, <1>6 DEF Route, Respond, FailsOnlyIfFaulty, TypeOK
  <2> SUFFICES ASSUME ~hostFaulty' PROVE EntryInv' /\ PendingExact'
    BY <2>0 DEF EntryInv, PendingExact
  <2>1. /\ ~hostFaulty /\ Genuine(i, t) /\ answered' = answered \cup {i}
        /\ UNCHANGED <<wire, pc, kind, id>>
    BY <1>0, <1>6 DEF Route, Respond, TypeOK
  <2>2. /\ DOMAIN pending' = DOMAIN pending \ {i}
        /\ \A j \in DOMAIN pending \ {i} : pending'[j] = pending[j]
    BY <1>6, WithoutEntry DEF Route
  <2>3. Unanswered' = {k \in Unanswered : wire[k].id # i}
    BY <2>1 DEF Unanswered
  <2>4. Enqueueing' = Enqueueing /\ \A c \in Enqueueing : id[c] # i
    <3>1. PICK k \in 1..consumed : wire[k].id = i
      BY <2>1 DEF Genuine
    <3>2. k \in 1..Len(wire)
      BY <1>0, <3>1, WireEnvelopes DEF TypeOK
    <3> QED
      BY <2>1, <3>1, <3>2, TableFacts DEF Enqueueing
  <2>5. /\ DOMAIN pending = {wire[k].id : k \in Unanswered} \cup {id[c] : c \in Enqueueing}
        /\ \A k \in Unanswered : pending[wire[k].id] = wire[k].trace
    BY <1>a, <2>1 DEF PendingExact
  <2>6. DOMAIN pending' = {wire[k].id : k \in Unanswered'} \cup {id[c] : c \in Enqueueing'}
    BY <2>2, <2>3, <2>4, <2>5
  <2>7. \A k \in Unanswered' : pending'[wire[k].id] = wire[k].trace
    BY <2>2, <2>3, <2>5
  <2>8. EntryInv'
    BY <1>a, <2>1, <2>2, <2>4, <2>5 DEF EntryInv
  <2> QED
    BY <2>1, <2>6, <2>7, <2>8 DEF PendingExact
<1>7. ASSUME NEW i \in 0..MaxMessageId, NEW t \in Traces,
             RouteMismatch(i, t) \/ RouteUnknown(i, t)
      PROVE  Goal
  <2>1. hostFaulty'
    BY <1>7, RefusedIsFaulty
  <2> QED
    BY <2>1 DEF EntryInv, PendingExact, FailsOnlyIfFaulty
<1>8. CASE UNCHANGED <<wire, answered, hostFaulty, pending, callVars>> /\ session' # "failed"
  BY <1>a, <1>8 DEF EntryInv, PendingExact, FailsOnlyIfFaulty, Unanswered, Enqueueing
<1>9. CASE UNCHANGED <<wire, answered, hostFaulty, pending, callVars, session>>
  BY <1>a, <1>9 DEF EntryInv, PendingExact, FailsOnlyIfFaulty, Unanswered, Enqueueing
<1> QED
  BY <1>1, <1>2, <1>3, <1>4, <1>5, <1>6, <1>7, <1>8, <1>9
  DEF Next, Step, Drop, Consume, CloseWire, LoseSession, vars

-----------------------------------------------------------------------------
(* The theorems.                                                           *)

\* The invariant is inductive.
THEOREM Inductive == Spec => []IndInv
<1>1. IndInv /\ [Next]_vars => IndInv'
  BY TypeStep, LockStep, OrderStep, AnsweredStep, TableStep DEF IndInv
<1> QED
  BY InitInd, <1>1, PTL DEF Spec

\* The state of the sender and of the routing table is always well typed: in
\* particular no envelope carries ID 0 or the ID whose successor overflows.
THEOREM TypeCorrect == Spec => []TypeOK
<1>1. IndInv => TypeOK
  BY DEF IndInv
<1> QED
  BY Inductive, <1>1, PTL

\* Message IDs on the output stream are strictly increasing for any number of
\* concurrent and dropped callers.
THEOREM InOrder == Spec => []EnvelopesInOrder
<1>1. IndInv => EnvelopesInOrder
  BY DEF IndInv
<1> QED
  BY Inductive, <1>1, PTL

\* The routing table holds exactly the unanswered requests while the host only
\* answers what it was asked.
THEOREM TableExact == Spec => []PendingExact
<1>1. IndInv => PendingExact
  BY DEF IndInv
<1> QED
  BY Inductive, <1>1, PTL

\* Routing fails the session only after a response nobody asked for.
THEOREM HostAtFault == Spec => []FailsOnlyIfFaulty
<1>1. IndInv => FailsOnlyIfFaulty
  BY DEF IndInv
<1> QED
  BY Inductive, <1>1, PTL

-----------------------------------------------------------------------------
(* The code implements the atomic object of OrderedRequests.               *)

Outstanding == DOMAIN pending \ {id[c] : c \in Enqueueing}

\* Every step of the sender, the callers and the host is a step of
\* OrderedRequests or changes nothing it talks about.
LEMMA RefinementStep ==
    ASSUME IndInv, [Next]_vars PROVE [Requests!Next]_(Requests!vars)
<1> USE DEF senderVars, callVars, wireVars, hostVars
<1> DEFINE Stutter == UNCHANGED <<wire, Outstanding, hostFaulty>>
                      /\ (session' = "failed") = (session = "failed")
<1>0. TypeOK /\ TypeOK' /\ KindInv /\ HolderInv
  BY TypeStep DEF IndInv
<1>s. Stutter => UNCHANGED Requests!vars
  BY DEF Requests!vars, Outstanding
<1>1. ASSUME NEW c \in Callers, NEW k \in Kinds, Begin(c, k) PROVE Stutter
  <2>1. Enqueueing' = Enqueueing
    BY <1>0, <1>1 DEF Begin, Enqueueing, TypeOK
  <2> QED
    BY <1>1, <2>1 DEF Begin, Outstanding
<1>2. ASSUME NEW c \in Callers, Allocate(c) PROVE Stutter
  <2>1. UNCHANGED <<wire, hostFaulty, session>>
    BY <1>2 DEF Allocate
  <2>2. CASE kind[c] = "request" /\ next_message_id \notin DOMAIN pending
    <3>1. DOMAIN pending' = DOMAIN pending \cup {next_message_id}
      BY <1>2, <2>2 DEF Allocate
    <3>2. /\ Enqueueing' = Enqueueing \cup {c} /\ c \notin Enqueueing
          /\ id'[c] = next_message_id /\ \A d \in Enqueueing : id'[d] = id[d]
      BY <1>0, <1>2, <2>2 DEF Allocate, Enqueueing, TypeOK
    <3> QED
      BY <2>1, <2>2, <3>1, <3>2 DEF Outstanding
  <2>3. CASE ~(kind[c] = "request" /\ next_message_id \notin DOMAIN pending)
    <3>1. Enqueueing' = Enqueueing /\ \A d \in Enqueueing : id'[d] = id[d]
      BY <1>0, <1>2, <2>3 DEF Allocate, Return, Enqueueing, TypeOK
    <3>2. pending' = pending
      BY <1>2, <2>3 DEF Allocate
    <3> QED
      BY <2>1, <3>1, <3>2 DEF Outstanding
  <2> QED
    BY <2>2, <2>3
<1>3. ASSUME NEW c \in Callers, Enqueue(c) PROVE Requests!Send
  <2> DEFINE e == [id |-> id[c], kind |-> kind[c], trace |-> TraceOf[c]]
  <2>1. e \in Envelopes /\ wire' = Append(wire, e) /\ e.id = id[c] /\ e.kind = kind[c]
    BY <1>0, <1>3, OwnEnvelope DEF Enqueue
  <2>2. \A k \in 1..Len(wire) : wire[k].id < e.id
    BY <1>0, <1>3 DEF Enqueue, HolderInv
  <2>3. UNCHANGED <<pending, hostFaulty, session>>
    BY <1>3 DEF Enqueue
  <2>4. Enqueueing = {d \in {c} : kind[c] = "request"}
    BY <1>3, EnqueueingHolder DEF Enqueue
  <2>5. Enqueueing' = {}
    <3>1. \A d \in Callers : d # c => pc'[d] = pc[d] /\ kind'[d] = kind[d]
      BY <1>0, <1>3 DEF Enqueue, Return, TypeOK
    <3>2. pc'[c] # "enqueueing"
      BY <1>0, <1>3 DEF Enqueue, AfterEnqueue, Return, TypeOK, KindInv, Queued
    <3> QED
      BY <2>4, <3>1, <3>2 DEF Enqueueing
  <2>6. \/ Outstanding' = Outstanding \cup {i \in {e.id} : e.kind = "request"}
        \/ hostFaulty /\ Outstanding' = Outstanding
    <3>1. CASE kind[c] = "request"
      <4>1. ~hostFaulty => id[c] \in DOMAIN pending
        BY <2>4, <3>1 DEF IndInv, PendingExact
      <4> QED
        BY <1>0, <2>1, <2>3, <2>4, <2>5, <3>1, <4>1 DEF Outstanding, TypeOK
    <3>2. CASE kind[c] # "request"
      BY <2>1, <2>3, <2>4, <2>5, <3>2 DEF Outstanding
    <3> QED
      BY <3>1, <3>2
  <2> QED
    BY <2>1, <2>2, <2>3, <2>6 DEF Requests!Send, Requests!Envelopes, Outstanding
<1>4. ASSUME NEW c \in Callers, EnqueueClosed(c) \/ DropEnqueueing(c) PROVE Stutter
  <2>1. UNCHANGED <<wire, hostFaulty, session>> /\ Unregister(c) /\ Return(c)
    BY <1>4 DEF EnqueueClosed, DropEnqueueing
  <2>2. pc[c] = "enqueueing"
    BY <1>4 DEF EnqueueClosed, DropEnqueueing
  <2>3. Enqueueing = {d \in {c} : kind[c] = "request"} /\ Enqueueing' = {}
    <3>1. Enqueueing = {d \in {c} : kind[c] = "request"}
      BY <2>2, EnqueueingHolder
    <3>2. \A d \in Callers : d # c => pc'[d] = pc[d] /\ kind'[d] = kind[d]
      BY <1>0, <2>1 DEF Return, TypeOK
    <3> QED
      BY <1>0, <2>1, <3>1, <3>2 DEF Enqueueing, Return, TypeOK
  <2>4. kind[c] = "request" => DOMAIN pending' = DOMAIN pending \ {id[c]}
    BY <2>1, WithoutEntry DEF Unregister
  <2>5. kind[c] # "request" => pending' = pending
    BY <2>1 DEF Unregister
  <2> QED
    BY <2>1, <2>3, <2>4, <2>5 DEF Outstanding
<1>5. ASSUME NEW c \in Callers,
             \/ Exhaust(c) \/ Receive(c) \/ ReceiveFailed(c)
             \/ Consumed(c) \/ DropLocking(c) \/ DropWaiting(c)
      PROVE  Stutter
  <2>1. UNCHANGED <<wire, pending, hostFaulty, session>> /\ Return(c)
    BY <1>5
    DEF Exhaust, Receive, ReceiveFailed, Consumed, DropLocking, DropWaiting
  <2>2. pc[c] # "enqueueing"
    BY <1>5
    DEF Exhaust, Receive, ReceiveFailed, Consumed, DropLocking, DropWaiting
  <2>3. Enqueueing' = Enqueueing /\ \A d \in Enqueueing : id'[d] = id[d]
    BY <1>0, <2>1, <2>2 DEF Enqueueing, Return, TypeOK
  <2> QED
    BY <2>1, <2>3 DEF Outstanding
<1>6. ASSUME NEW i \in 0..MaxMessageId, NEW t \in Traces,
             Route(i, t) \/ RouteMismatch(i, t) \/ RouteUnknown(i, t)
      PROVE  Requests!Answer \/ Requests!Misbehave
  <2>1. /\ UNCHANGED <<wire, pc, kind, id>> /\ session = "open"
        /\ hostFaulty' = (hostFaulty \/ ~Genuine(i, t))
    BY <1>6 DEF Route, RouteMismatch, RouteUnknown, Respond
  <2>2. DOMAIN pending' \in {DOMAIN pending, DOMAIN pending \ {i}} /\ Enqueueing' = Enqueueing
    BY <1>6, <2>1, WithoutEntry DEF Route, RouteMismatch, RouteUnknown, Enqueueing
  <2>3. Outstanding' \subseteq Outstanding
    BY <2>1, <2>2 DEF Outstanding
  <2>4. CASE hostFaulty'
    <3>1. Requests!Misbehave
      BY <1>0, <2>1, <2>3, <2>4 DEF Requests!Misbehave, Outstanding, TypeOK
    <3> QED
      BY <3>1
  <2>5. CASE ~hostFaulty'
    <3>1. Route(i, t) /\ Genuine(i, t) /\ ~hostFaulty
      BY <1>0, <1>6, <2>1, <2>5, RefusedIsFaulty DEF TypeOK
    <3>2. \A c \in Enqueueing : id[c] # i
      <4>1. PICK k \in 1..consumed : wire[k].id = i
        BY <3>1 DEF Genuine
      <4>2. k \in 1..Len(wire)
        BY <1>0, <4>1, WireEnvelopes DEF TypeOK
      <4> QED
        BY <3>1, <4>1, <4>2, TableFacts
    <3>3. i \in Outstanding /\ Outstanding' = Outstanding \ {i}
      BY <2>1, <2>2, <3>1, <3>2, WithoutEntry DEF Route, Outstanding
    <3>4. Requests!Answer
      BY <2>1, <3>1, <3>3 DEF Requests!Answer, Outstanding, Route
    <3> QED
      BY <3>4
  <2> QED
    BY <2>4, <2>5
<1>7. ASSUME Consume \/ CloseWire \/ LoseSession \/ UNCHANGED vars PROVE Stutter
  BY <1>7 DEF Consume, CloseWire, LoseSession, vars, Outstanding, Enqueueing
<1> HIDE DEF Stutter
<1> QED
  BY <1>s, <1>1, <1>2, <1>3, <1>4, <1>5, <1>6, <1>7 DEF Next, Step, Drop, Requests!Next

\* For every number of callers, allocation, registration and enqueue together
\* implement the atomic request object: what is on the wire and what is
\* outstanding always agree.
THEOREM Refinement == Spec => RequestsSpec
<1>1. Init => Requests!Init
  BY DEF Init, Requests!Init, Enqueueing
<1>2. IndInv /\ [Next]_vars => [Requests!Next]_(Requests!vars)
  BY RefinementStep
<1> QED
  BY Inductive, <1>1, <1>2, PTL DEF Spec, RequestsSpec, Requests!Spec
=============================================================================
