------------------------- MODULE ServeContractProofs -------------------------
(***************************************************************************)
(* A session implements JobContract, for every set of jobs, every number   *)
(* of concurrent jobs, every capacity of the output channel and every      *)
(* bound.  The invariant of ServeProofs.tla is extended by what relates    *)
(* the table of active jobs to what the host has seen of them.             *)
(***************************************************************************)
EXTENDS ServeProofs

\* A start is not both accepted and rejected, and the loop answers the message
\* it took last, to which nothing was said before.
ExclusiveInv ==
    /\ \A m \in Messages : ~(Sent("ProtocolError", m) /\ Sent("JobAccepted", m))
    /\ handler \in {"reply", "accept"} => outbox[1].re = Len(read) /\ ~Replied(Len(read))

\* An acknowledgement about to be sent is of a cancellation later than the start
\* of the active job it names.
AckInv ==
    \A p \in 1..Len(outbox) : \A j \in DOMAIN active :
        outbox[p].kind = "CancelJobAcknowledged" /\ read[outbox[p].re].job = j =>
            outbox[p].re > active[j].trace

\* settle acknowledges cancellations of its job, or there are none.
SettledInv ==
    handler = "settle" => \A p \in 1..Len(outbox) :
        /\ outbox[p].kind = "CancelJobAcknowledged" =>
              read[outbox[p].re].job = read[subject].job
        /\ outbox[p].kind = "JobUpdate" =>
              \A c \in (subject + 1)..Len(read) :
                  read[c] # [kind |-> "CancelJob", job |-> read[subject].job]

\* Until the shutdown clears the table, an accepted job is active or was
\* reported as ended.
EndedInv ==
    handler \notin {"deliver", "consume", "close", "returned"} =>
        \A m \in Messages : Sent("JobAccepted", m) =>
            \/ \E j \in DOMAIN active : active[j].trace = m
            \/ Sent("JobUpdate", m) \/ CancelledLater(m)

\* The number of active jobs, and what the reply to a start supposes of it.
CapacityInv ==
    /\ IsFiniteSet(DOMAIN active)
    /\ Cardinality(DOMAIN active) <= maximum_concurrent_jobs
    /\ handler = "accept" => Cardinality(DOMAIN active) < maximum_concurrent_jobs
    /\ handler = "reply" /\ outbox[1].kind = "ProtocolError" =>
          Cardinality(DOMAIN active) = maximum_concurrent_jobs

ContractInv == ExclusiveInv /\ AckInv /\ SettledInv /\ EndedInv /\ CapacityInv

USE NoJobAssumption, MaximumAssumption, BoundsAssumption

-----------------------------------------------------------------------------

\* Every initial state satisfies the invariant.
LEMMA ContractInit == Init => ContractInv
<1> SUFFICES ASSUME Init PROVE ContractInv OBVIOUS
<1>1. DOMAIN active = {} /\ Len(outbox) = 0 /\ Len(wire) = 0 /\ handler = "select" BY DEF Init
<1>2. ExclusiveInv /\ AckInv /\ SettledInv /\ EndedInv
  BY <1>1 DEF ExclusiveInv, AckInv, SettledInv, EndedInv, Sent
<1>3. CapacityInv
  <2>1. IsFiniteSet({}) /\ Cardinality({}) = 0 BY FS_EmptySet
  <2>2. IsFiniteSet(DOMAIN active) /\ Cardinality(DOMAIN active) <= maximum_concurrent_jobs
    BY <1>1, <2>1
  <2> QED BY <1>1, <2>2 DEF CapacityInv
<1> QED BY <1>2, <1>3 DEF ContractInv

\* A step that leaves the loop, the jobs and the replies alone.
LEMMA ContractFrame ==
    ASSUME ContractInv, UNCHANGED <<read, handler, subject, outbox, active>>,
           \A k \in Replies : \A m : Sent(k, m)' <=> Sent(k, m),
           \A m : Replied(m)' => Replied(m)
    PROVE  ContractInv'
<1>1. \A m : /\ Sent("ProtocolError", m)' <=> Sent("ProtocolError", m)
             /\ Sent("JobAccepted", m)' <=> Sent("JobAccepted", m)
             /\ Sent("JobUpdate", m)' <=> Sent("JobUpdate", m)
             /\ Sent("CancelJobAcknowledged", m)' <=> Sent("CancelJobAcknowledged", m)
  BY DEF Replies
<1>2. \A m : CancelledLater(m) => CancelledLater(m)' BY <1>1 DEF CancelledLater
<1>3. ExclusiveInv' BY <1>1 DEF ContractInv, ExclusiveInv
<1>4. AckInv' /\ SettledInv' BY DEF ContractInv, AckInv, SettledInv
<1>5. EndedInv' BY <1>1, <1>2 DEF ContractInv, EndedInv
<1>6. CapacityInv' BY DEF ContractInv, CapacityInv
<1> QED BY <1>3, <1>4, <1>5, <1>6 DEF ContractInv

\* The envelope of an action is no reply.
LEMMA EmitSends ==
    ASSUME IndInv, NEW n \in Messages, NEW l \in Emissions, Emit(n, l)
    PROVE  /\ \A k \in Replies : \A m : Sent(k, m)' <=> Sent(k, m)
           /\ \A m : Replied(m)' => Replied(m)
<1> DEFINE e == Reply(l, n)
<1>1. e \in Envelopes /\ e.kind = l /\ l \notin Replies
  BY DEF Reply, Envelopes, Emissions, Replies
<1>2. wire' = Append(wire, e) BY DEF Emit
<1>3. /\ \A k, m : Sent(k, m)' <=> Sent(k, m) \/ e = Reply(k, m)
      /\ \A i \in 1..Len(wire') : i \in 1..Len(wire) \/ (i = Len(wire') /\ i \notin 1..Len(wire))
      /\ \A i \in 1..Len(wire) : i \in 1..Len(wire') /\ wire'[i] = wire[i]
      /\ wire'[Len(wire')] = e
  BY <1>1, <1>2, WireAppend DEF IndInv
<1>4. \A k \in Replies : \A m : e # Reply(k, m) BY <1>1, ReplyFields
<1> HIDE DEF e
<1>5. \A m : Replied(m)' => Replied(m) BY <1>1, <1>3 DEF Replied
<1> QED BY <1>3, <1>4, <1>5

\* `run` returns.
LEMMA ContractReturn ==
    ASSUME ContractInv, handler' = "returned", outbox' = <<>>, UNCHANGED <<active, wire>>
    PROVE  ContractInv'
<1>1. ExclusiveInv' BY DEF ContractInv, ExclusiveInv, Sent
<1>2. AckInv' /\ SettledInv' BY DEF AckInv, SettledInv
<1>3. EndedInv' BY DEF EndedInv
<1>4. CapacityInv' BY DEF ContractInv, CapacityInv
<1> QED BY <1>1, <1>2, <1>3, <1>4 DEF ContractInv

\* A handler takes a message, and keeps the jobs and when they were started.
LEMMA ContractTake ==
    ASSUME IndInv, ContractInv, NEW k \in Kinds, NEW j \in Jobs \cup {NoJob}, Take(k, j),
           UNCHANGED wire, DOMAIN active' = DOMAIN active,
           \A i \in DOMAIN active : active'[i].trace = active[i].trace,
           handler' \in {"select", "join"} => outbox' = <<>>,
           handler' \notin {"select", "join"} =>
               /\ handler' \in {"reply", "accept"}
               /\ \E l \in Replies :
                     /\ outbox' = <<Reply(l, NextMessage)>>
                     /\ l = "CancelJobAcknowledged" => j \notin DOMAIN active
                     /\ l = "ProtocolError" =>
                           Cardinality(DOMAIN active) >= maximum_concurrent_jobs
               /\ handler' = "accept" => Cardinality(DOMAIN active) < maximum_concurrent_jobs
    PROVE  ContractInv'
<1>1. /\ Len(read) \in Nat /\ Len(read') = Len(read) + 1 /\ NextMessage = Len(read')
      /\ \A i \in 1..Len(read) : i \in 1..Len(read') /\ read'[i] = read[i]
      /\ NextMessage \notin 1..Len(read) /\ read'[NextMessage] = [kind |-> k, job |-> j]
      /\ handler = "select"
  BY TakeAppends
<1>2. \A l, m : Sent(l, m)' <=> Sent(l, m) BY DEF Sent
<1>3. ~Replied(Len(read))'
  <2>1. ASSUME NEW i \in 1..Len(wire), wire[i].kind \in Replies, wire[i].re = NextMessage
        PROVE  FALSE
    BY <1>1, <2>1 DEF IndInv, WireInv, Fits
  <2> QED BY <1>1, <2>1 DEF Replied
<1>4. ASSUME handler' \in {"reply", "accept"}
      PROVE  \E l \in Replies :
                /\ Len(outbox') = 1 /\ outbox'[1].kind = l /\ outbox'[1].re = Len(read')
                /\ l = "CancelJobAcknowledged" => j \notin DOMAIN active
                /\ l = "ProtocolError" => Cardinality(DOMAIN active) >= maximum_concurrent_jobs
  BY <1>1, <1>4, ReplyFields
<1>5. handler' \in {"reply", "accept"} \/ Len(outbox') = 0 OBVIOUS
<1>6. ExclusiveInv' BY <1>2, <1>3, <1>4 DEF ContractInv, ExclusiveInv
<1>7. AckInv' BY <1>1, <1>4, <1>5 DEF AckInv
<1>8. SettledInv' BY DEF SettledInv
<1>9. EndedInv'
  <2>1. \A m \in 1..Len(read) : CancelledLater(m) => CancelledLater(m)'
    <3> SUFFICES ASSUME NEW m \in 1..Len(read), CancelledLater(m) PROVE CancelledLater(m)' OBVIOUS
    <3>1. PICK c \in (m + 1)..Len(read) :
             /\ read[c] = [kind |-> "CancelJob", job |-> read[m].job]
             /\ Sent("CancelJobAcknowledged", c)
      BY DEF CancelledLater
    <3>2. c \in 1..Len(read) /\ c \in (m + 1)..Len(read') BY <1>1, <3>1
    <3>3. read'[c] = [kind |-> "CancelJob", job |-> read'[m].job] BY <1>1, <3>1, <3>2
    <3> QED BY <1>2, <3>1, <3>2, <3>3 DEF CancelledLater
  <2>2. \A m \in Messages : Sent("JobAccepted", m) => m \in 1..Len(read)
    BY Started DEF IndInv, TaskInv
  <2> QED BY <1>1, <1>2, <2>1, <2>2 DEF ContractInv, EndedInv
<1>10. CapacityInv'
  <2>1. IsFiniteSet(DOMAIN active) /\ Cardinality(DOMAIN active) <= maximum_concurrent_jobs
    BY DEF ContractInv, CapacityInv
  <2>2. Cardinality(DOMAIN active) \in Nat BY <2>1, FS_CardinalityType
  <2>3. handler' = "reply" /\ outbox'[1].kind = "ProtocolError" =>
           Cardinality(DOMAIN active) = maximum_concurrent_jobs
    BY <1>4, <2>1, <2>2
  <2> QED BY <2>1, <2>3 DEF CapacityInv
<1> QED BY <1>6, <1>7, <1>8, <1>9, <1>10 DEF ContractInv

\* The messages of the host, one action each.
LEMMA ContractTakes ==
    ASSUME IndInv, ContractInv, TakeMessage
    PROVE  ContractInv'
<1> USE DEF jobVars, wireVars
<1>1. ASSUME NEW j \in Jobs, StartDuplicate(j) PROVE ContractInv'
  BY <1>1, ContractReturn DEF StartDuplicate, Return
<1>2. ASSUME NEW k \in Kinds, NEW j \in Jobs \cup {NoJob}, Take(k, j),
             NEW h \in {"reply", "accept"}, NEW l \in Replies,
             StartSending(h, NextMessage, <<Reply(l, NextMessage)>>),
             UNCHANGED <<active, wire>>,
             l = "CancelJobAcknowledged" => j \notin DOMAIN active,
             l = "ProtocolError" => Cardinality(DOMAIN active) >= maximum_concurrent_jobs,
             h = "accept" => Cardinality(DOMAIN active) < maximum_concurrent_jobs
      PROVE  ContractInv'
  BY <1>2, ContractTake DEF StartSending
<1>3. ASSUME NEW j \in Jobs, StartRejected(j) PROVE ContractInv'
  BY <1>2, <1>3 DEF StartRejected, Kinds, Replies
<1>4. ASSUME NEW j \in Jobs, StartAccepted(j) PROVE ContractInv'
  BY <1>2, <1>4 DEF StartAccepted, Kinds, Replies
<1>5. ASSUME NEW j \in Jobs, CancelInactive(j) PROVE ContractInv'
  BY <1>2, <1>5 DEF CancelInactive, Kinds, Replies
<1>6. CASE Heartbeat
  BY <1>2, <1>6 DEF Heartbeat, Kinds, Replies
<1>7. ASSUME NEW j \in Jobs, CancelActive(j) PROVE ContractInv'
  <2>1. /\ Take("CancelJob", j) /\ UNCHANGED <<wire, handler, outbox>>
        /\ active' = [active EXCEPT ![j].cancellations = Append(@, NextMessage)]
        /\ j \in DOMAIN active
    BY <1>7 DEF CancelActive, loopVars
  <2>2. handler = "select" /\ outbox = <<>> BY <2>1 DEF Take, IndInv, HandlerInv
  <2>3. \A i \in DOMAIN active : active[i] \in ActiveJobs BY DEF IndInv, TypeOK
  <2>4. /\ DOMAIN active' = DOMAIN active
        /\ \A i \in DOMAIN active : active'[i].trace = active[i].trace
    BY <2>1, <2>3 DEF ActiveJobs
  <2> QED BY <2>1, <2>2, <2>4, ContractTake DEF Kinds
<1>8. CASE Shutdown
  <2>1. /\ Take("Shutdown", NoJob) /\ UNCHANGED <<wire, active>>
        /\ handler' = "join" /\ outbox' = <<>>
    BY <1>8 DEF Shutdown, StartSending
  <2> QED BY <2>1, ContractTake DEF Kinds
<1> QED BY <1>1, <1>3, <1>4, <1>5, <1>6, <1>7, <1>8 DEF TakeMessage

\* A job is settled.
LEMMA ContractSettle ==
    ASSUME IndInv, ContractInv, NEW m \in Messages, Settle(m)
    PROVE  ContractInv'
<1>1. PICK j : j = read[m].job OBVIOUS
<1>2. PICK s : s = active[j].cancellations OBVIOUS
<1>3. /\ m \in 1..Len(read) /\ j \in DOMAIN active /\ active[j].trace = m /\ JobInv(j)
      /\ s \in Seq(Messages) /\ Len(s) \in Nat
      /\ outbox' \in Seq(Envelopes) /\ outbox' # <<>> /\ Len(outbox') \in Nat
      /\ \/ s = <<>> /\ outbox' = <<Reply("JobUpdate", m)>>
         \/ /\ Len(outbox') = Len(s)
            /\ \A p \in 1..Len(s) : outbox'[p] = Reply("CancelJobAcknowledged", s[p])
  BY <1>1, <1>2, SettleSends
<1>4. /\ UNCHANGED <<read, wire>> /\ handler = "select" /\ handler' = "settle" /\ subject' = m
      /\ active' = [active EXCEPT ![j].cancellations = <<>>]
      /\ task[m] = "finished"
  BY <1>1 DEF Settle, StartSending, wireVars
<1>5. \A i \in DOMAIN active : active[i] \in ActiveJobs BY DEF IndInv, TypeOK
<1>6. /\ DOMAIN active' = DOMAIN active
      /\ \A i \in DOMAIN active : active'[i].trace = active[i].trace
  BY <1>4, <1>5 DEF ActiveJobs
<1>7. \A p \in 1..Len(s) : s[p] > m /\ read[s[p]].job = j
  <2>1. ASSUME NEW p \in 1..Len(s)
        PROVE  s[p] \in (m + 1)..Len(read) /\ read[s[p]].job = j
    <3>1. /\ s[p] \in (active[j].trace + 1)..Len(read)
          /\ read[s[p]] = [kind |-> "CancelJob", job |-> j]
      BY <1>2, <1>3 DEF JobInv
    <3> QED BY <1>3, <3>1
  <2> QED BY <1>3, <2>1 DEF Messages
\* What the handler sends.
<1>8. ASSUME NEW p \in 1..Len(outbox'), outbox'[p].kind = "CancelJobAcknowledged"
      PROVE  outbox'[p].re > m /\ read[outbox'[p].re].job = j
  <2>1. CASE outbox' = <<Reply("JobUpdate", m)>>
    <3>1. p = 1 BY <2>1
    <3> QED BY <1>8, <2>1, <3>1, ReplyFields
  <2>2. CASE /\ Len(outbox') = Len(s)
             /\ \A q \in 1..Len(s) : outbox'[q] = Reply("CancelJobAcknowledged", s[q])
    <3>1. outbox'[p].re = s[p] /\ p \in 1..Len(s) BY <2>2, ReplyFields
    <3> QED BY <1>7, <3>1
  <2> QED BY <1>3, <2>1, <2>2
<1>9. ASSUME NEW p \in 1..Len(outbox'), outbox'[p].kind = "JobUpdate" PROVE s = <<>>
  <2>1. CASE /\ Len(outbox') = Len(s)
             /\ \A q \in 1..Len(s) : outbox'[q] = Reply("CancelJobAcknowledged", s[q])
    <3>1. outbox'[p].kind = "CancelJobAcknowledged" BY <2>1, ReplyFields
    <3> QED BY <1>9, <3>1
  <2> QED BY <1>3, <2>1
<1>10. ExclusiveInv' BY <1>4 DEF ContractInv, ExclusiveInv, Sent
<1>11. AckInv'
  <2> SUFFICES ASSUME NEW p \in 1..Len(outbox'), NEW i \in DOMAIN active',
                      outbox'[p].kind = "CancelJobAcknowledged", read'[outbox'[p].re].job = i
               PROVE  outbox'[p].re > active'[i].trace
    BY DEF AckInv
  <2>1. i = j BY <1>4, <1>8
  <2> QED BY <1>3, <1>6, <1>8, <2>1
<1>12. SettledInv'
  <2>1. s = <<>> => \A c \in (m + 1)..Len(read) :
                       read[c] # [kind |-> "CancelJob", job |-> read[m].job]
    <3>1. m \in Unjoined BY <1>4 DEF Unjoined
    <3>2. \A c : Waits(c, j) => s # <<>> BY <1>2 DEF Waits
    <3> QED BY <1>1, <3>1, <3>2 DEF IndInv, CancelInv
  <2> QED BY <1>1, <1>4, <1>8, <1>9, <2>1 DEF SettledInv
<1>13. EndedInv'
  <2>1. \A k, n : Sent(k, n)' <=> Sent(k, n) BY <1>4 DEF Sent
  <2>2. \A n : CancelledLater(n)' <=> CancelledLater(n) BY <1>4, <2>1 DEF CancelledLater
  <2> QED BY <1>4, <1>6, <2>1, <2>2 DEF ContractInv, EndedInv
<1>14. CapacityInv' BY <1>4, <1>6 DEF ContractInv, CapacityInv
<1> QED BY <1>10, <1>11, <1>12, <1>13, <1>14 DEF ContractInv

\* A shutdown has joined everything.
LEMMA ContractJoin ==
    ASSUME IndInv, ContractInv, JoinAll
    PROVE  ContractInv'
<1>1. UNCHANGED <<read, wire>> /\ handler = "join" BY DEF JoinAll, wireVars
<1>2. ExclusiveInv'
  <2>1. handler' \in {"deliver", "drain"} BY DEF JoinAll, ClearAndDeliver, StartSending
  <2> QED BY <1>1, <2>1 DEF ContractInv, ExclusiveInv, Sent
<1>3. CASE ClearAndDeliver
  <2>1. /\ DOMAIN active' = {} /\ handler' = "deliver" BY <1>3 DEF ClearAndDeliver, StartSending
  <2>2. AckInv' /\ SettledInv' /\ EndedInv' BY <2>1 DEF AckInv, SettledInv, EndedInv
  <2>3. CapacityInv'
    <3>1. IsFiniteSet({}) /\ Cardinality({}) = 0 BY FS_EmptySet
    <3>2. IsFiniteSet(DOMAIN active') /\ Cardinality(DOMAIN active') <= maximum_concurrent_jobs
      BY <2>1, <3>1
    <3> QED BY <2>1, <3>2 DEF CapacityInv
  <2> QED BY <1>2, <2>2, <2>3 DEF ContractInv
<1>4. ASSUME NEW order \in DrainOrders,
             active' = [j \in DOMAIN active |-> [active[j] EXCEPT !.cancellations = <<>>]],
             StartSending("drain", subject, Acknowledgements(order))
      PROVE  ContractInv'
  <2>1. /\ order \in Seq(Messages)
        /\ \A i \in 1..Len(order) : \E j \in DOMAIN active : Waits(order[i], j)
    BY <1>4, DrainFacts
  <2>2. /\ Len(outbox') = Len(order) /\ handler' = "drain"
        /\ \A p \in 1..Len(order) : outbox'[p] = Reply("CancelJobAcknowledged", order[p])
    BY <1>4, <2>1 DEF StartSending, Acknowledgements
  <2>3. \A i \in DOMAIN active : active[i] \in ActiveJobs BY DEF IndInv, TypeOK
  <2>4. /\ DOMAIN active' = DOMAIN active
        /\ \A i \in DOMAIN active : active'[i].trace = active[i].trace
    BY <1>4, <2>3 DEF ActiveJobs
  <2>5. AckInv'
    <3> SUFFICES ASSUME NEW p \in 1..Len(outbox'), NEW i \in DOMAIN active',
                        read'[outbox'[p].re].job = i
                 PROVE  outbox'[p].re > active'[i].trace
      BY DEF AckInv
    <3>1. PICK c : c = order[p] OBVIOUS
    <3>2. outbox'[p].re = c /\ p \in 1..Len(order) BY <2>2, <3>1, ReplyFields
    <3>3. PICK j \in DOMAIN active : Waits(c, j) BY <2>1, <3>1, <3>2
    <3>4. JobInv(j) /\ active[j] \in ActiveJobs BY <2>3 DEF IndInv, ActiveInv
    <3>5. c \in (active[j].trace + 1)..Len(read) /\ read[c].job = j
      BY <3>3, <3>4 DEF Waits, JobInv
    <3>6. active[j].trace \in Nat BY <3>4 DEF ActiveJobs, Messages
    <3>7. i = j BY <1>1, <3>2, <3>5
    <3> QED BY <2>4, <3>2, <3>5, <3>6, <3>7
  <2>6. SettledInv' BY <2>2 DEF SettledInv
  <2>7. EndedInv'
    <3>1. \A k, n : Sent(k, n)' <=> Sent(k, n) BY <1>1 DEF Sent
    <3>2. \A n : CancelledLater(n)' <=> CancelledLater(n) BY <1>1, <3>1 DEF CancelledLater
    <3> QED BY <1>1, <2>2, <2>4, <3>1, <3>2 DEF ContractInv, EndedInv
  <2>8. CapacityInv' BY <2>2, <2>4 DEF ContractInv, CapacityInv
  <2> QED BY <1>2, <2>5, <2>6, <2>7, <2>8 DEF ContractInv
<1> QED BY <1>3, <1>4 DEF JoinAll

\* What a send of the loop keeps.
LEMMA ContractSend ==
    ASSUME IndInv, ContractInv, SendHead
    PROVE  /\ \A m \in Messages : ~(Sent("ProtocolError", m)' /\ Sent("JobAccepted", m)')
           /\ \A m : CancelledLater(m) => CancelledLater(m)'
           /\ \A m : Sent("JobUpdate", m) => Sent("JobUpdate", m)'
           /\ \A m : Sent("JobAccepted", m)' =>
                 Sent("JobAccepted", m) \/ (handler = "accept" /\ m = subject)
<1>0. PICK e : e = Head(outbox) OBVIOUS
<1>1. /\ e = outbox[1] /\ 1 \in 1..Len(outbox) /\ UNCHANGED read /\ e \in Envelopes
      /\ e.kind \in Replies
      /\ \A k, m : Sent(k, m)' <=> Sent(k, m) \/ e = Reply(k, m)
      /\ handler \notin {"select", "join", "consume", "close", "returned"}
  BY <1>0, SendHeadFacts
<1>2. HandlerInv /\ TypeOK BY DEF IndInv
<1>3. e.kind = "ProtocolError" => handler = "reply"
  BY <1>1, <1>2, ReplyFields DEF HandlerInv, TypeOK
<1>4. e.kind = "JobAccepted" => handler = "accept" /\ e.re = subject
  BY <1>1, <1>2, ReplyFields DEF HandlerInv, TypeOK
<1>5. ASSUME NEW m \in Messages, Sent("ProtocolError", m)', Sent("JobAccepted", m)' PROVE FALSE
  <2>1. \A k \in {"ProtocolError", "JobAccepted"} : Sent(k, m) => Replied(m)
    BY ReplyFields DEF Sent, Replied, Replies
  <2>2. ~(Sent("ProtocolError", m) /\ Sent("JobAccepted", m)) BY DEF ContractInv, ExclusiveInv
  <2>3. e.re = m /\ e.kind \in {"ProtocolError", "JobAccepted"}
    BY <1>1, <1>5, <2>2, ReplyFields
  <2>4. handler \in {"reply", "accept"} BY <1>3, <1>4, <2>3
  <2>5. ~Replied(m) BY <1>1, <2>3, <2>4 DEF ContractInv, ExclusiveInv
  <2>6. e = Reply("ProtocolError", m) /\ e = Reply("JobAccepted", m) BY <1>1, <1>5, <2>1, <2>5
  <2> QED BY <2>6, ReplyFields
<1>6. \A m : CancelledLater(m) => CancelledLater(m)' BY <1>1 DEF CancelledLater
<1>7. \A m : Sent("JobAccepted", m)' =>
                Sent("JobAccepted", m) \/ (handler = "accept" /\ m = subject)
  BY <1>1, <1>4, ReplyFields
<1> QED BY <1>1, <1>5, <1>6, <1>7

\* More envelopes follow.
LEMMA ContractSendMore ==
    ASSUME IndInv, ContractInv, SendMore
    PROVE  ContractInv'
<1>1. /\ SendHead /\ Len(outbox) > 1 /\ outbox' = Tail(outbox)
      /\ UNCHANGED <<handler, subject, active, read>>
  BY DEF SendMore, SendHead, jobVars
<1>2. outbox \in Seq(Envelopes) BY DEF IndInv, TypeOK
<1>3. /\ Len(outbox') \in Nat
      /\ \A p \in 1..Len(outbox') : p + 1 \in 1..Len(outbox) /\ outbox'[p] = outbox[p + 1]
  BY <1>1, <1>2
<1>4. handler \notin {"reply", "accept"}
  <2>1. Len(outbox) # 1 BY <1>1
  <2> QED BY <2>1 DEF IndInv, HandlerInv
<1>5. ExclusiveInv' BY <1>1, <1>4, ContractSend DEF ExclusiveInv
<1>6. AckInv' BY <1>1, <1>3 DEF ContractInv, AckInv
<1>7. SettledInv' BY <1>1, <1>3 DEF ContractInv, SettledInv
<1>8. EndedInv' BY <1>1, <1>4, ContractSend DEF ContractInv, EndedInv
<1>9. CapacityInv' BY <1>1, <1>4 DEF ContractInv, CapacityInv
<1> QED BY <1>5, <1>6, <1>7, <1>8, <1>9 DEF ContractInv

\* The reply is sent.
LEMMA ContractFinishReply ==
    ASSUME IndInv, ContractInv, FinishReply
    PROVE  ContractInv'
<1>1. /\ SendHead /\ handler = "reply" /\ handler' = "select" /\ outbox' = <<>>
      /\ UNCHANGED <<active, read>>
  BY DEF FinishReply, SendLast, SendHead, jobVars
<1>2. ExclusiveInv' BY <1>1, ContractSend DEF ExclusiveInv
<1>3. AckInv' /\ SettledInv' BY <1>1 DEF AckInv, SettledInv
<1>4. EndedInv' BY <1>1, ContractSend DEF ContractInv, EndedInv
<1>5. CapacityInv' BY <1>1 DEF ContractInv, CapacityInv
<1> QED BY <1>2, <1>3, <1>4, <1>5 DEF ContractInv

\* The accepted job is active.
LEMMA ContractFinishAccept ==
    ASSUME IndInv, ContractInv, FinishAccept
    PROVE  ContractInv'
<1>0. PICK j : j = read[subject].job OBVIOUS
<1>1. /\ SendHead /\ handler = "accept" /\ handler' = "select" /\ outbox' = <<>>
      /\ UNCHANGED read
      /\ active' = [i \in DOMAIN active \cup {j} |->
                       IF i = j THEN [trace |-> subject, cancellations |-> <<>>] ELSE active[i]]
  BY <1>0 DEF FinishAccept, SendLast, SendHead
<1>2. j \notin DOMAIN active BY <1>0, <1>1 DEF IndInv, HandlerInv
<1>3. ExclusiveInv' BY <1>1, ContractSend DEF ExclusiveInv
<1>4. AckInv' /\ SettledInv' BY <1>1 DEF AckInv, SettledInv
<1>5. EndedInv'
  <2>1. /\ j \in DOMAIN active' /\ active'[j].trace = subject
        /\ \A i \in DOMAIN active : i \in DOMAIN active' /\ active'[i].trace = active[i].trace
    BY <1>1, <1>2
  <2> QED BY <1>1, <2>1, ContractSend DEF ContractInv, EndedInv
<1>6. CapacityInv'
  <2>1. /\ IsFiniteSet(DOMAIN active)
        /\ Cardinality(DOMAIN active) < maximum_concurrent_jobs
    BY <1>1 DEF ContractInv, CapacityInv
  <2>2. DOMAIN active' = DOMAIN active \cup {j} BY <1>1
  <2>3. /\ IsFiniteSet(DOMAIN active \cup {j}) /\ Cardinality(DOMAIN active) \in Nat
        /\ Cardinality(DOMAIN active \cup {j}) = Cardinality(DOMAIN active) + 1
    BY <1>2, <2>1, FS_AddElement, FS_CardinalityType
  <2>4. IsFiniteSet(DOMAIN active') /\ Cardinality(DOMAIN active') <= maximum_concurrent_jobs
    BY <2>1, <2>2, <2>3
  <2> QED BY <1>1, <2>4 DEF CapacityInv
<1> QED BY <1>3, <1>4, <1>5, <1>6 DEF ContractInv

\* The settled job is no longer active, and was reported as ended.
LEMMA ContractFinishSettle ==
    ASSUME IndInv, ContractInv, FinishSettle
    PROVE  ContractInv'
<1>0. PICK n, j, e : n = subject /\ j = read[n].job /\ e = outbox[1] OBVIOUS
<1>1. /\ SendHead /\ handler = "settle" /\ handler' = "select" /\ outbox' = <<>>
      /\ UNCHANGED read
      /\ active' = [i \in DOMAIN active \ {j} |-> active[i]]
  BY <1>0 DEF FinishSettle, SendLast, SendHead
<1>2. ExclusiveInv' BY <1>1, ContractSend DEF ExclusiveInv
<1>3. AckInv' /\ SettledInv' BY <1>1 DEF AckInv, SettledInv
<1>4. /\ 1 \in 1..Len(outbox) /\ e \in Envelopes /\ Fits(e)
      /\ \A k, m : Sent(k, m)' <=> Sent(k, m) \/ e = Reply(k, m)
  <2>1. PICK x : x = Head(outbox) OBVIOUS
  <2>2. x = e BY <1>0, <1>1, <2>1, SendHeadFacts
  <2> QED BY <1>1, <2>1, <2>2, SendHeadFacts
<1>5. Sent("JobUpdate", n)' \/ CancelledLater(n)'
  <2>1. /\ e = Reply("JobUpdate", n) \/ e.kind = "CancelJobAcknowledged"
        /\ j \in DOMAIN active /\ active[j].trace = n /\ n \in 1..Len(read)
    BY <1>0, <1>1, <1>4 DEF IndInv, HandlerInv
  <2>2. CASE e = Reply("JobUpdate", n) BY <1>4, <2>2
  <2>3. CASE e.kind = "CancelJobAcknowledged"
    <3>1. PICK c : c = e.re OBVIOUS
    <3>2. c \in 1..Len(read) /\ read[c].kind = "CancelJob" BY <1>4, <2>3, <3>1 DEF Fits, Question
    <3>3. read[c].job = j BY <1>0, <1>1, <1>4, <2>3, <3>1 DEF ContractInv, SettledInv
    <3>4. c > n BY <1>0, <1>4, <2>1, <2>3, <3>1, <3>3 DEF ContractInv, AckInv
    <3>5. read[c] \in [kind : Kinds, job : Jobs \cup {NoJob}]
      BY <3>2, ElementOf DEF IndInv, TypeOK
    <3>6. read[c] = [kind |-> "CancelJob", job |-> read[n].job]
      BY <1>0, <3>2, <3>3, <3>5
    <3>7. Sent("CancelJobAcknowledged", c)' BY <1>4, <2>3, <3>1, ReplyFields
    <3>8. c \in (n + 1)..Len(read) /\ Len(read) \in Nat
      BY <2>1, <3>2, <3>4, Types DEF IndInv
    <3> QED BY <1>1, <3>6, <3>7, <3>8 DEF CancelledLater
  <2> QED BY <2>1, <2>2, <2>3
<1>6. EndedInv'
  <2> SUFFICES ASSUME NEW m \in Messages, Sent("JobAccepted", m)'
               PROVE  \/ \E i \in DOMAIN active' : active'[i].trace = m
                      \/ Sent("JobUpdate", m)' \/ CancelledLater(m)'
    BY DEF EndedInv
  <2>1. Sent("JobAccepted", m) BY <1>1, ContractSend
  <2>2. CASE m = n
    BY <1>5, <2>2
  <2>3. CASE m # n
    <3>1. active[j].trace = n BY <1>0, <1>1 DEF IndInv, HandlerInv
    <3>2. \A i \in DOMAIN active : active[i].trace = m => i \in DOMAIN active' /\ active'[i] = active[i]
      BY <1>1, <2>3, <3>1
    <3>3. \/ \E i \in DOMAIN active : active[i].trace = m
          \/ Sent("JobUpdate", m) \/ CancelledLater(m)
      BY <1>1, <2>1 DEF ContractInv, EndedInv
    <3> QED BY <1>1, <3>2, <3>3, ContractSend
  <2> QED BY <2>2, <2>3
<1>7. CapacityInv'
  <2>1. /\ IsFiniteSet(DOMAIN active)
        /\ Cardinality(DOMAIN active) <= maximum_concurrent_jobs
    BY DEF ContractInv, CapacityInv
  <2>2. DOMAIN active' \subseteq DOMAIN active BY <1>1
  <2>3. /\ IsFiniteSet(DOMAIN active') /\ Cardinality(DOMAIN active) \in Nat
        /\ Cardinality(DOMAIN active') \in Nat
        /\ Cardinality(DOMAIN active') <= Cardinality(DOMAIN active)
    BY <2>1, <2>2, FS_Subset, FS_CardinalityType
  <2>4. Cardinality(DOMAIN active') <= maximum_concurrent_jobs BY <2>1, <2>3
  <2> QED BY <1>1, <2>3, <2>4 DEF CapacityInv
<1> QED BY <1>2, <1>3, <1>6, <1>7 DEF ContractInv

\* The last steps of a shutdown.
LEMMA ContractFinishShutdown ==
    ASSUME IndInv, ContractInv, FinishDrain \/ FinishDeliver \/ FinishConsume
    PROVE  ContractInv'
<1>1. \A m \in Messages : ~(Sent("ProtocolError", m)' /\ Sent("JobAccepted", m)')
  <2>1. CASE SendHead BY <2>1, ContractSend
  <2>2. CASE UNCHANGED wire BY <2>2 DEF ContractInv, ExclusiveInv, Sent
  <2> QED BY <2>1, <2>2 DEF FinishDrain, FinishDeliver, FinishConsume, wireVars
<1>2. handler' \in {"deliver", "consume", "close"}
  BY DEF FinishDrain, FinishDeliver, FinishConsume, ClearAndDeliver, StartSending
<1>3. DOMAIN active' = {}
  BY DEF FinishDrain, FinishDeliver, FinishConsume, ClearAndDeliver, jobVars, IndInv, HandlerInv
<1>4. ExclusiveInv' BY <1>1, <1>2 DEF ExclusiveInv
<1>5. AckInv' /\ SettledInv' /\ EndedInv' BY <1>2, <1>3 DEF AckInv, SettledInv, EndedInv
<1>6. CapacityInv'
  <2>1. IsFiniteSet({}) /\ Cardinality({}) = 0 BY FS_EmptySet
  <2>2. IsFiniteSet(DOMAIN active') /\ Cardinality(DOMAIN active') <= maximum_concurrent_jobs
    BY <1>3, <2>1
  <2> QED BY <1>2, <2>2 DEF CapacityInv
<1> QED BY <1>4, <1>5, <1>6 DEF ContractInv

\* Every step keeps the invariant.
LEMMA ContractNext == ASSUME IndInv, ContractInv, [Next]_vars PROVE ContractInv'
<1> USE DEF loopVars, jobVars, wireVars
<1>1. ASSUME UNCHANGED <<read, handler, subject, outbox, active, wire>> PROVE ContractInv'
  <2>1. \A k \in Replies : \A m : Sent(k, m)' <=> Sent(k, m) BY <1>1 DEF Sent
  <2>2. \A m : Replied(m)' => Replied(m) BY <1>1 DEF Replied
  <2> QED BY <1>1, <2>1, <2>2, ContractFrame
<1>2. CASE TakeMessage BY <1>2, ContractTakes
<1>3. CASE Advance
  <2>1. CASE SendMore \/ FinishReply \/ FinishAccept \/ FinishSettle
    BY <2>1, ContractSendMore, ContractFinishReply, ContractFinishAccept, ContractFinishSettle
  <2>2. CASE JoinAll \/ FinishDrain \/ FinishDeliver \/ FinishConsume
    BY <2>2, ContractJoin, ContractFinishShutdown
  <2>3. CASE SendFails BY <2>3, ContractReturn DEF SendFails, Return
  <2>4. ASSUME NEW m \in Messages, Settle(m) PROVE ContractInv' BY <2>4, ContractSettle
  <2>5. ASSUME NEW m \in Messages, JoinError(m) PROVE ContractInv'
    BY <2>5, ContractReturn DEF JoinError, Return
  <2> QED BY <1>3, <2>1, <2>2, <2>3, <2>4, <2>5 DEF Advance
<1>4. CASE ServeFails \/ HostCloses \/ LateMessage \/ ParentExits
  BY <1>4, ContractReturn DEF ServeFails, HostCloses, LateMessage, ParentExits, Return
<1>5. ASSUME NEW k \in 1..Len(wire), Response(k) \/ LateResponse(k) PROVE ContractInv'
  <2>1. CASE Response(k) BY <1>1, <2>1 DEF Response
  <2>2. CASE LateResponse(k) BY <2>2, ContractReturn DEF LateResponse, Return
  <2> QED BY <1>5, <2>1, <2>2
<1>6. ASSUME NEW m \in Messages, Finish(m) \/ Lose(m) \/ Abort(m) \/ Poll(m) \/ Suspend(m)
      PROVE  ContractInv'
  BY <1>1, <1>6 DEF Finish, Lose, Abort, Poll, Suspend
<1>7. ASSUME NEW m \in Messages, NEW k \in Emissions, Emit(m, k) PROVE ContractInv'
  <2>1. UNCHANGED <<read, handler, subject, outbox, active>> BY <1>7 DEF Emit
  <2> QED BY <1>7, <2>1, EmitSends, ContractFrame
<1>8. CASE Consume \/ CloseWire BY <1>1, <1>8 DEF Consume, CloseWire
<1>9. CASE UNCHANGED vars BY <1>1, <1>9 DEF vars
<1>10. CASE Done BY <1>9, <1>10 DEF Done
<1> QED
  BY <1>2, <1>3, <1>4, <1>5, <1>6, <1>7, <1>8, <1>9, <1>10 DEF Next

\* Both invariants hold in every reachable state.
LEMMA ContractInductive == Spec => [](IndInv /\ ContractInv)
<1>1. IndInv /\ ContractInv /\ [Next]_vars => ContractInv' BY ContractNext
<1> QED BY <1>1, ContractInit, Inductive, PTL DEF Spec

-----------------------------------------------------------------------------
(* What the host has seen of a message.                                    *)

\* A reply is to a message of its kind.
LEMMA SentFits ==
    ASSUME IndInv, NEW k \in Replies, NEW m, Sent(k, m)
    PROVE  m \in 1..Len(read) /\ read[m].kind = Question(k) /\ Replied(m)
<1>1. PICK i \in 1..Len(wire) : wire[i] = Reply(k, m) BY DEF Sent
<1>2. wire[i].kind = k /\ wire[i].re = m BY <1>1, ReplyFields
<1>3. Fits(wire[i]) BY <1>2 DEF IndInv, WireInv
<1> QED BY <1>2, <1>3 DEF Fits, Replied

\* A message was replied to by an envelope of some kind.
LEMMA RepliedSent ==
    ASSUME IndInv, NEW m, Replied(m)
    PROVE  \E k \in Replies : Sent(k, m)
<1>1. PICK i \in 1..Len(wire) : wire[i].kind \in Replies /\ wire[i].re = m BY DEF Replied
<1>2. wire[i] \in Envelopes BY Types DEF IndInv
<1>3. wire[i] = Reply(wire[i].kind, m) BY <1>1, <1>2, ReplyFields
<1>4. Sent(wire[i].kind, m) BY <1>3 DEF Sent
<1> QED BY <1>1, <1>4

\* What the replies to a message say of its fate.
LEMMA FateFacts ==
    ASSUME IndInv, ContractInv, NEW m \in 1..Len(read)
    PROVE  /\ Fate(m) = "taken" <=> ~Replied(m)
           /\ Fate(m) = "running" <=>
                 Sent("JobAccepted", m) /\ ~Sent("JobUpdate", m) /\ ~CancelledLater(m)
           /\ Fate(m) = "answered" /\ read[m].kind = "Shutdown" => Sent("ShutdownAcknowledged", m)
<1>0. m \in Messages BY Types DEF IndInv, Messages
<1>1. ~(Sent("ProtocolError", m) /\ Sent("JobAccepted", m))
  BY <1>0 DEF ContractInv, ExclusiveInv
<1>2. /\ Sent("JobUpdate", m) \/ Sent("ProtocolError", m) \/ Sent("JobAccepted", m) =>
            read[m].kind = "StartJob"
      /\ Sent("CancelJobAcknowledged", m) => read[m].kind = "CancelJob"
      /\ Sent("Heartbeat", m) => read[m].kind = "Heartbeat"
      /\ Sent("ShutdownAcknowledged", m) => read[m].kind = "Shutdown"
  BY SentFits DEF Replies, Question
<1>3. Replied(m) <=> \/ Sent("JobUpdate", m) \/ Sent("ProtocolError", m) \/ Sent("JobAccepted", m)
                     \/ Sent("CancelJobAcknowledged", m) \/ Sent("Heartbeat", m)
                     \/ Sent("ShutdownAcknowledged", m)
  BY SentFits, RepliedSent DEF Replies
<1> QED BY <1>1, <1>2, <1>3 DEF Fate

\* A job that the host sees running is active, until the shutdown ends.
LEMMA RunningActive ==
    ASSUME IndInv, ContractInv, handler \notin {"deliver", "consume", "close", "returned"},
           NEW m \in 1..Len(read), Fate(m) = "running"
    PROVE  read[m].job \in DOMAIN active /\ active[read[m].job].trace = m
<1>1. m \in Messages BY Types DEF IndInv, Messages
<1>2. PICK j \in DOMAIN active : active[j].trace = m
  BY <1>1, FateFacts DEF ContractInv, EndedInv
<1>3. read[active[j].trace] = [kind |-> "StartJob", job |-> j] BY DEF IndInv, ActiveInv, JobInv
<1>4. read[m].job = j BY <1>2, <1>3
<1> QED BY <1>2, <1>4

\* The host sees an active job running, between settlements.
LEMMA ActiveRunning ==
    ASSUME IndInv, ContractInv, handler \in {"select", "reply", "accept"},
           NEW j \in DOMAIN active
    PROVE  /\ active[j].trace \in 1..Len(read) /\ Fate(active[j].trace) = "running"
           /\ read[active[j].trace] = [kind |-> "StartJob", job |-> j]
<1>0. PICK m : m = active[j].trace OBVIOUS
<1>1. JobInv(j) /\ m \in 1..Len(read) /\ read[m] = [kind |-> "StartJob", job |-> j]
  BY <1>0 DEF IndInv, ActiveInv, JobInv
<1>2. m \in Unjoined BY <1>0 DEF IndInv, JoinSetInv
<1>3. m \in Messages /\ task[m] # "none" /\ task[m] # "joined" BY <1>2 DEF Unjoined
<1>4. Sent("JobAccepted", m) /\ ~Sent("JobUpdate", m) BY <1>3 DEF IndInv, TaskInv
<1>5. ~CancelledLater(m)
  <2> SUFFICES ASSUME NEW c \in (m + 1)..Len(read),
                      read[c] = [kind |-> "CancelJob", job |-> read[m].job],
                      Sent("CancelJobAcknowledged", c)
               PROVE  FALSE
    BY DEF CancelledLater
  <2>1. Waits(c, j) BY <1>1, <1>2 DEF IndInv, CancelInv
  <2>2. PICK i \in 1..Len(active[j].cancellations) : active[j].cancellations[i] = c
    BY <2>1 DEF Waits
  <2> QED BY <1>1, <2>2 DEF JobInv
<1>6. Fate(m) = "running" BY <1>1, <1>4, <1>5, FateFacts
<1> QED BY <1>0, <1>1, <1>6

-----------------------------------------------------------------------------
(* The state and the actions of the contract, under the refinement mapping.*)

\* The jobs the host sees running.
LEMMA ContractRunning ==
    /\ Contract!Running = {m \in 1..Len(read) : read[m].kind = "StartJob" /\ Fate(m) = "running"}
    /\ \A k, f : Contract!With(k, f) = {m \in 1..Len(read) : read[m].kind = k /\ Fate(m) = f}
BY DEF Contract!Running, Contract!With

\* There are as many running jobs as entries of the table.
LEMMA RunningCount ==
    ASSUME IndInv, ContractInv, handler \in {"select", "reply", "accept"}
    PROVE  Cardinality(Contract!Running) = Cardinality(DOMAIN active)
<1>0. PICK D, R, f : /\ D = DOMAIN active
                     /\ R = {m \in 1..Len(read) : read[m].kind = "StartJob" /\ Fate(m) = "running"}
                     /\ f = [j \in D |-> active[j].trace]
  OBVIOUS
<1>1. \A j \in D : f[j] \in R /\ read[f[j]].job = j
  <2> TAKE j \in D
  <2>1. PICK m : m = active[j].trace OBVIOUS
  <2>2. m \in 1..Len(read) /\ Fate(m) = "running" /\ read[m] = [kind |-> "StartJob", job |-> j]
    BY <1>0, <2>1, ActiveRunning
  <2>3. m \in R /\ read[m].job = j BY <1>0, <2>2
  <2>4. f[j] = m BY <1>0, <2>1
  <2> QED BY <2>3, <2>4
<1>2. \A m \in R : read[m].job \in D /\ f[read[m].job] = m BY <1>0, RunningActive
<1>3. f \in [D -> R] BY <1>0, <1>1
<1>4. f \in Injection(D, R) /\ f \in Surjection(D, R)
  <2>1. \A a, b \in D : f[a] = f[b] => a = b BY <1>1
  <2>2. \A m \in R : \E j \in D : f[j] = m BY <1>2
  <2> QED BY ONLY <1>3, <2>1, <2>2 DEF Injection, Surjection, IsInjective
<1>5. IsFiniteSet(D) BY <1>0 DEF ContractInv, CapacityInv
<1>6. Cardinality(R) = Cardinality(D)
  <2>1. f \in Bijection(D, R) BY ONLY <1>4 DEF Bijection
  <2>2. ExistsBijection(D, R) BY ONLY <2>1 DEF ExistsBijection
  <2> QED BY ONLY <1>5, <2>2, FS_Bijection
<1> QED BY <1>0, <1>6, ContractRunning

\* A step that changes the fate of one message.
LEMMA ContractSet ==
    ASSUME NEW m \in 1..Len(read), NEW f, UNCHANGED <<read, result>>, result = "none",
           Fate(m)' = f, \A n \in 1..Len(read) : n # m => Fate(n)' = Fate(n)
    PROVE  Contract!Set(m, f)
<1>1. \A n \in 1..Len(read) : Fate(n)' = IF n = m THEN f ELSE Fate(n) OBVIOUS
<1>2. [n \in 1..Len(read') |-> Fate(n)']
         = [[n \in 1..Len(read) |-> Fate(n)] EXCEPT ![m] = f]
  BY <1>1
<1> QED BY <1>2 DEF Contract!Set

\* A step that changes no fate.
LEMMA ContractStutter ==
    ASSUME UNCHANGED <<read, result>>, \A n \in 1..Len(read) : Fate(n)' = Fate(n)
    PROVE  UNCHANGED Contract!vars
<1>1. [n \in 1..Len(read') |-> Fate(n)'] = [n \in 1..Len(read) |-> Fate(n)] OBVIOUS
<1> QED BY <1>1 DEF Contract!vars

\* The fate of a message depends on the replies only.
LEMMA FateKept ==
    ASSUME UNCHANGED read, NEW n,
           \A k \in Replies : Sent(k, n)' <=> Sent(k, n),
           CancelledLater(n)' <=> CancelledLater(n)
    PROVE  Fate(n)' = Fate(n)
<1>1. /\ Sent("JobUpdate", n)' <=> Sent("JobUpdate", n)
      /\ Sent("ProtocolError", n)' <=> Sent("ProtocolError", n)
      /\ Sent("JobAccepted", n)' <=> Sent("JobAccepted", n)
      /\ Sent("CancelJobAcknowledged", n)' <=> Sent("CancelJobAcknowledged", n)
      /\ Sent("Heartbeat", n)' <=> Sent("Heartbeat", n)
      /\ Sent("ShutdownAcknowledged", n)' <=> Sent("ShutdownAcknowledged", n)
  BY DEF Replies
<1> QED BY <1>1 DEF Fate

\* A step that sends no reply.
LEMMA ContractQuiet ==
    ASSUME UNCHANGED <<read, result>>, \A k \in Replies : \A n : Sent(k, n)' <=> Sent(k, n)
    PROVE  UNCHANGED Contract!vars
<1>1. \A n : CancelledLater(n)' <=> CancelledLater(n) BY DEF CancelledLater, Replies
<1>2. \A n \in 1..Len(read) : Fate(n)' = Fate(n) BY <1>1, FateKept
<1> QED BY <1>2, ContractStutter

-----------------------------------------------------------------------------
(* The loop takes a message.                                               *)

\* The message has no fate yet, and it changes no other's.
LEMMA TakeFates ==
    ASSUME IndInv, NEW k \in Kinds, NEW j \in Jobs \cup {NoJob}, Take(k, j), UNCHANGED wire
    PROVE  /\ read' = Append(read, [kind |-> k, job |-> j])
           /\ [m \in 1..Len(read') |-> Fate(m)'] = Append([m \in 1..Len(read) |-> Fate(m)], "taken")
<1>0. PICK n, N : n = NextMessage /\ N = Len(read) OBVIOUS
<1>1. /\ N \in Nat /\ n = N + 1 /\ Len(read') = N + 1
      /\ \A i \in 1..N : read'[i] = read[i]
      /\ read' = Append(read, [kind |-> k, job |-> j])
      /\ \A x : ~Sent(x, n) \/ x \in Emissions
  BY <1>0, TakeAppends DEF Take
<1>2. \A x, m : Sent(x, m)' <=> Sent(x, m) BY DEF Sent
<1>3. ASSUME NEW m \in 1..N PROVE Fate(m)' = Fate(m)
  <2>1. \A c \in (m + 1)..Len(read') : c \in (m + 1)..N \/ c = n BY ONLY <1>1, <1>3
  <2>2. \A c \in (m + 1)..N : c \in (m + 1)..Len(read') /\ c \in 1..N BY ONLY <1>1, <1>3
  <2>3. ~Sent("CancelJobAcknowledged", n) BY <1>1 DEF Emissions
  <2>4. CancelledLater(m)' <=> CancelledLater(m)
    <3>1. read'[m] = read[m] /\ \A c \in (m + 1)..N : read'[c] = read[c] BY <1>1, <2>2
    <3>2. CancelledLater(m)' <=>
             \E c \in (m + 1)..Len(read') :
                 /\ read'[c] = [kind |-> "CancelJob", job |-> read'[m].job]
                 /\ Sent("CancelJobAcknowledged", c)
      BY <1>2 DEF CancelledLater
    <3>3. CancelledLater(m) <=>
             \E c \in (m + 1)..N :
                 /\ read[c] = [kind |-> "CancelJob", job |-> read[m].job]
                 /\ Sent("CancelJobAcknowledged", c)
      BY <1>0 DEF CancelledLater
    <3> QED BY <2>1, <2>2, <2>3, <3>1, <3>2, <3>3
  <2> QED BY <1>2, <2>4 DEF Fate
<1>4. Fate(n)' = "taken"
  <2>1. \A x \in Replies : ~Sent(x, n)' BY <1>1, <1>2 DEF Emissions, Replies
  <2> QED BY <2>1 DEF Fate, Replies
<1>5. [m \in 1..Len(read') |-> Fate(m)'] = Append([m \in 1..N |-> Fate(m)], "taken")
  <2> DEFINE old == [m \in 1..N |-> Fate(m)]
             new == [m \in 1..(N + 1) |-> Fate(m)']
             S == {Fate(m) : m \in 1..N} \cup {"taken"}
  <2>1. old \in Seq(S) /\ Len(old) = N BY <1>1
  <2>2. \A m \in 1..N : new[m] = old[m] /\ m \in 1..(N + 1) BY <1>1, <1>3
  <2>3. new[N + 1] = "taken" BY <1>1, <1>4
  <2>4. DOMAIN new = 1..(N + 1) /\ new = [m \in 1..(N + 1) |-> new[m]] OBVIOUS
  <2> HIDE DEF old, new, S
  <2>5. /\ Append(old, "taken") \in Seq(S) /\ Len(Append(old, "taken")) = N + 1
        /\ \A m \in 1..N : Append(old, "taken")[m] = old[m]
        /\ Append(old, "taken")[N + 1] = "taken"
    <3>1. "taken" \in S BY DEF S
    <3> QED BY <1>1, <2>1, <3>1
  <2>6. \A m \in 1..(N + 1) : new[m] = Append(old, "taken")[m]
    <3> TAKE m \in 1..(N + 1)
    <3>1. m \in 1..N \/ m = N + 1 BY <1>1
    <3> QED BY <2>2, <2>3, <2>5, <3>1
  <2>7. PICK a : a = Append(old, "taken") OBVIOUS
  <2>8. a = [m \in 1..(N + 1) |-> a[m]]
    <3>1. a \in Seq(S) /\ Len(a) = N + 1 BY <2>5, <2>7
    <3>2. a \in [1..Len(a) -> S] BY ONLY <3>1
    <3>3. a = [m \in 1..Len(a) |-> a[m]] BY ONLY <3>2
    <3> QED BY ONLY <3>1, <3>3
  <2>9. new = Append(old, "taken") BY ONLY <2>4, <2>6, <2>7, <2>8
  <2> QED BY <1>1, <2>9 DEF old, new
<1> QED BY <1>0, <1>1, <1>5

\* Nothing that was taken waits for an answer, but cancellations of running jobs.
LEMMA SelectIdle ==
    ASSUME IndInv, ContractInv, handler = "select"
    PROVE  ~Contract!Urgent /\ Contract!With("Shutdown", "answered") = {} /\ result = "none"
<1>1. ASSUME NEW m \in 1..Len(read), Fate(m) = "taken"
      PROVE  /\ read[m].kind = "CancelJob"
             /\ \E t \in Contract!Running : read[t].job = read[m].job
  <2>1. Waits(m, read[m].job)
    <3>1. ~Replied(m) BY <1>1, FateFacts
    <3>2. ~Queued(m) BY DEF IndInv, HandlerInv, Queued
    <3>3. Accounted(m) BY DEF IndInv, AnswerInv
    <3> QED BY <3>1, <3>2, <3>3 DEF Accounted
  <2>2. PICK j \in DOMAIN active : j = read[m].job /\
           \E i \in 1..Len(active[j].cancellations) : active[j].cancellations[i] = m
    BY <2>1 DEF Waits
  <2>3. read[m].kind = "CancelJob"
    <3>1. PICK i \in 1..Len(active[j].cancellations) : active[j].cancellations[i] = m BY <2>2
    <3>2. read[active[j].cancellations[i]] = [kind |-> "CancelJob", job |-> j]
      BY DEF IndInv, ActiveInv, JobInv
    <3> QED BY <3>1, <3>2
  <2>4. PICK t : t = active[j].trace OBVIOUS
  <2>5. t \in 1..Len(read) /\ Fate(t) = "running" /\ read[t] = [kind |-> "StartJob", job |-> j]
    BY <2>4, ActiveRunning
  <2>6. t \in Contract!Running BY <2>5, ContractRunning
  <2> QED BY <2>2, <2>3, <2>5, <2>6
<1>2. ~Contract!Urgent BY <1>1 DEF Contract!Urgent, Contract!IsRunning
<1>3. Contract!With("Shutdown", "answered") = {}
  <2> SUFFICES ASSUME NEW m \in 1..Len(read), read[m].kind = "Shutdown", Fate(m) = "answered"
               PROVE  FALSE
    BY ContractRunning
  <2>1. PICK i \in 1..Len(wire) : wire[i] = Reply("ShutdownAcknowledged", m)
    BY FateFacts DEF Sent
  <2>2. wire[i].kind = "ShutdownAcknowledged" BY <2>1, ReplyFields
  <2> QED BY <2>2 DEF IndInv, HandlerInv
<1>4. result = "none" BY DEF IndInv, HandlerInv
<1> QED BY <1>2, <1>3, <1>4

\* A handler takes a message and goes on.
LEMMA TakeContract ==
    ASSUME IndInv, ContractInv, NEW k \in Kinds, NEW j \in Jobs \cup {NoJob}, Take(k, j),
           UNCHANGED <<wire, result>>, k = "StartJob" => j \notin DOMAIN active
    PROVE  Contract!Take
<1>1. handler = "select" BY DEF Take
<1>2. k = "StartJob" => ~Contract!IsRunning(j)
  <2> SUFFICES ASSUME Contract!IsRunning(j) PROVE j \in DOMAIN active OBVIOUS
  <2>1. PICK m \in 1..Len(read) : Fate(m) = "running" /\ read[m].job = j
    BY ContractRunning DEF Contract!IsRunning
  <2> QED BY <1>1, <2>1, RunningActive
<1>3. k \in Contract!Kinds BY DEF Kinds, Contract!Kinds
<1> QED BY <1>1, <1>2, <1>3, TakeFates, SelectIdle DEF Contract!Take

\* A handler takes a message.
LEMMA TakesContract ==
    ASSUME IndInv, ContractInv, TakeMessage
    PROVE  Contract!Next
<1> USE DEF jobVars, wireVars
<1>1. ASSUME NEW j \in Jobs, StartDuplicate(j) PROVE Contract!Next
  <2>1. /\ Take("StartJob", j) /\ handler = "select" /\ j \in DOMAIN active
        /\ wire' = wire /\ result' = "Err"
    BY <1>1 DEF StartDuplicate, Return, Take
  <2>2. /\ read' = Append(read, [kind |-> "StartJob", job |-> j])
        /\ [m \in 1..Len(read') |-> Fate(m)'] = Append([m \in 1..Len(read) |-> Fate(m)], "taken")
    BY <2>1, TakeFates DEF Kinds
  <2>3. Contract!IsRunning(j)
    <3>1. PICK t : t = active[j].trace OBVIOUS
    <3>2. t \in 1..Len(read) /\ Fate(t) = "running" /\ read[t] = [kind |-> "StartJob", job |-> j]
      BY <2>1, <3>1, ActiveRunning
    <3> QED BY <3>2, ContractRunning DEF Contract!IsRunning
  <2>4. result = "none" BY <2>1, SelectIdle
  <2>5. Contract!Fail BY <2>1, <2>2, <2>3, <2>4 DEF Contract!Fail
  <2> QED BY <2>5 DEF Contract!Next
<1>2. ASSUME NEW j \in Jobs,
             StartRejected(j) \/ StartAccepted(j) \/ CancelActive(j) \/ CancelInactive(j)
      PROVE  Contract!Take
  <2>1. PICK k \in Kinds : /\ Take(k, j) /\ UNCHANGED <<wire, result>>
                           /\ k = "StartJob" => j \notin DOMAIN active
    BY <1>2 DEF StartRejected, StartAccepted, CancelActive, CancelInactive, Kinds
  <2> QED BY <2>1, TakeContract
<1>3. CASE Heartbeat \/ Shutdown
  <2>1. PICK k \in Kinds : Take(k, NoJob) /\ UNCHANGED <<wire, result>> /\ k # "StartJob"
    BY <1>3 DEF Heartbeat, Shutdown, Kinds
  <2>2. Contract!Take BY <2>1, TakeContract
  <2> QED BY <2>2 DEF Contract!Next
<1> QED BY <1>1, <1>2, <1>3 DEF TakeMessage, Contract!Next

-----------------------------------------------------------------------------
(* The session ends.                                                       *)

\* `run` returns an error, or because the parent has exited.
LEMMA FailContract ==
    ASSUME IndInv, handler # "returned", result' \in {"Err", "eof"}, UNCHANGED <<read, wire>>
    PROVE  Contract!Fail
<1>1. result = "none" BY DEF IndInv, HandlerInv
<1>2. \A n \in 1..Len(read) : Fate(n)' = Fate(n)
  <2>1. \A k, n : Sent(k, n)' <=> Sent(k, n) BY DEF Sent
  <2>2. \A n : CancelledLater(n)' <=> CancelledLater(n) BY <2>1 DEF CancelledLater
  <2> QED BY <2>1, <2>2, FateKept
<1>3. [n \in 1..Len(read') |-> Fate(n)'] = [n \in 1..Len(read) |-> Fate(n)] BY <1>2
<1> QED BY <1>1, <1>3 DEF Contract!Fail

\* `run` returns after a graceful shutdown.
LEMMA CompleteContract == ASSUME IndInv, ContractInv, HostCloses PROVE Contract!Complete
<1>1. /\ handler = "close" /\ result' = "shutdown" /\ UNCHANGED <<read, wire>>
      /\ result = "none"
  BY DEF HostCloses, Return, wireVars, IndInv, HandlerInv
<1>2. \A n \in 1..Len(read) : Fate(n)' = Fate(n)
  <2>1. \A k, n : Sent(k, n)' <=> Sent(k, n) BY <1>1 DEF Sent
  <2>2. \A n : CancelledLater(n)' <=> CancelledLater(n) BY <1>1, <2>1 DEF CancelledLater
  <2> QED BY <1>1, <2>1, <2>2, FateKept
<1>3. [n \in 1..Len(read') |-> Fate(n)'] = [n \in 1..Len(read) |-> Fate(n)] BY <1>1, <1>2
<1>4. PICK m : m = subject OBVIOUS
<1>5. m \in 1..Len(read) /\ read[m].kind = "Shutdown" BY <1>1, <1>4 DEF IndInv, HandlerInv
<1>6. Fate(m) = "answered"
  <2>1. PICK i \in 1..consumed : wire[i].kind \in Replies /\ wire[i].re = m
    BY <1>1, <1>5 DEF IndInv, CompletedInv, Completed
  <2>2. i \in 1..Len(wire) BY DEF IndInv, TypeOK
  <2>3. Replied(m) BY <2>1, <2>2 DEF Replied
  <2>4. PICK k \in Replies : Sent(k, m) BY <2>3, RepliedSent
  <2>5. \A x \in Replies : Sent(x, m) => Question(x) = "Shutdown" BY <1>5, SentFits
  <2>6. \A x \in Replies : Sent(x, m) => x = "ShutdownAcknowledged" BY <2>5 DEF Question, Replies
  <2> QED BY <2>4, <2>6 DEF Fate, Replies
<1>7. Contract!With("Shutdown", "answered") # {} BY <1>5, <1>6, ContractRunning
<1> QED BY <1>1, <1>3, <1>7 DEF Contract!Complete

-----------------------------------------------------------------------------
(* The loop sends the next envelope.                                       *)

\* The fates after a reply that is not an acknowledgement of a cancellation.
LEMMA SendFates ==
    ASSUME IndInv, SendHead, NEW e, e = Head(outbox), e.kind # "CancelJobAcknowledged"
    PROVE  /\ \A n : CancelledLater(n)' <=> CancelledLater(n)
           /\ \A n \in 1..Len(read) : n # e.re => Fate(n)' = Fate(n)
<1>1. /\ e \in Envelopes /\ e.kind \in Replies /\ read' = read
      /\ \A k, m : Sent(k, m)' <=> Sent(k, m) \/ e = Reply(k, m)
  BY SendHeadFacts
<1>2. \A m : Sent("CancelJobAcknowledged", m)' <=> Sent("CancelJobAcknowledged", m)
  BY <1>1, ReplyFields
<1>3. \A n : CancelledLater(n)' <=> CancelledLater(n) BY <1>1, <1>2 DEF CancelledLater
<1>4. ASSUME NEW n \in 1..Len(read), n # e.re PROVE Fate(n)' = Fate(n)
  <2>1. \A k : Sent(k, n)' <=> Sent(k, n) BY <1>1, <1>4, ReplyFields
  <2> QED BY <1>1, <1>3, <2>1, FateKept
<1> QED BY <1>3, <1>4

\* A message is taken as long as the only reply there can be to it is not sent.
LEMMA OnlyReply ==
    ASSUME IndInv, ContractInv, NEW m \in 1..Len(read), NEW k \in Replies,
           read[m].kind = Question(k), Question(k) # "StartJob", ~Sent(k, m)
    PROVE  Fate(m) = "taken"
<1>1. \A x \in Replies : Sent(x, m) => Question(x) = Question(k) BY SentFits
<1>2. \A x \in Replies : Question(x) = Question(k) => x = k BY DEF Replies, Question
<1>3. ~Replied(m) BY <1>1, <1>2, RepliedSent
<1> QED BY <1>3, FateFacts

\* The first reply to a message says what became of it.
LEMMA FirstReply ==
    ASSUME IndInv, SendHead, NEW e, e = Head(outbox), ~Replied(e.re)
    PROVE  /\ e.kind = "ProtocolError" => Fate(e.re)' = "rejected"
           /\ e.kind \in {"Heartbeat", "ShutdownAcknowledged", "CancelJobAcknowledged"} =>
                 Fate(e.re)' = "answered"
           /\ e.kind = "JobAccepted" /\ ~CancelledLater(e.re) => Fate(e.re)' = "running"
<1>0. PICK m : m = e.re OBVIOUS
<1>1. /\ e \in Envelopes /\ e.kind \in Replies /\ read' = read
      /\ \A k, n : Sent(k, n)' <=> Sent(k, n) \/ e = Reply(k, n)
  BY SendHeadFacts
<1>2. \A k \in Replies : ~Sent(k, m) BY <1>0, SentFits
<1>3. \A k \in Replies : Sent(k, m)' <=> k = e.kind
  <2>1. e = Reply(e.kind, m) BY <1>0, <1>1, ReplyFields
  <2>2. \A k : e = Reply(k, m) => k = e.kind BY ReplyFields
  <2> QED BY <1>1, <1>2, <2>1, <2>2
<1>4. /\ Sent("JobUpdate", m)' <=> e.kind = "JobUpdate"
      /\ Sent("ProtocolError", m)' <=> e.kind = "ProtocolError"
      /\ Sent("JobAccepted", m)' <=> e.kind = "JobAccepted"
      /\ Sent("CancelJobAcknowledged", m)' <=> e.kind = "CancelJobAcknowledged"
      /\ Sent("Heartbeat", m)' <=> e.kind = "Heartbeat"
      /\ Sent("ShutdownAcknowledged", m)' <=> e.kind = "ShutdownAcknowledged"
  BY <1>3 DEF Replies
<1>5. e.kind = "ProtocolError" => Fate(m)' = "rejected" BY <1>4 DEF Fate
<1>6. e.kind \in {"Heartbeat", "ShutdownAcknowledged", "CancelJobAcknowledged"} =>
         Fate(m)' = "answered"
  BY <1>4 DEF Fate
<1>7. ASSUME e.kind = "JobAccepted", ~CancelledLater(m) PROVE Fate(m)' = "running"
  <2>1. ~CancelledLater(m)' BY <1>7, SendFates
  <2> QED BY <1>4, <1>7, <2>1 DEF Fate
<1> QED BY <1>0, <1>5, <1>6, <1>7

\* The rejection or the acceptance of a start.
LEMMA StartContract ==
    ASSUME IndInv, ContractInv, SendHead, NEW e, e = Head(outbox),
           e.kind \in {"ProtocolError", "JobAccepted"}
    PROVE  Contract!Next
<1>0. PICK m : m = e.re OBVIOUS
<1>1. /\ e \in Envelopes /\ e.kind \in Replies /\ Fits(e) /\ e = outbox[1] /\ 1 \in 1..Len(outbox)
      /\ UNCHANGED <<read, result>> /\ result = "none"
      /\ handler \notin {"select", "join", "consume", "close", "returned"}
  BY SendHeadFacts
<1>2. m \in 1..Len(read) /\ read[m].kind = "StartJob" BY <1>0, <1>1 DEF Fits, Question
<1>3. handler \in {"reply", "accept"}
  <2>1. handler # "settle" BY <1>1, ReplyFields DEF IndInv, HandlerInv
  <2>2. handler # "drain" BY <1>1 DEF IndInv, HandlerInv
  <2>3. handler # "deliver" BY <1>1, ReplyFields DEF IndInv, HandlerInv
  <2> QED BY <1>1, <2>1, <2>2, <2>3 DEF IndInv, TypeOK
<1>4. m = Len(read) /\ ~Replied(m) BY <1>0, <1>1, <1>3 DEF ContractInv, ExclusiveInv
<1>5. Fate(m) = "taken" BY <1>2, <1>4, FateFacts
<1>6. m \in Contract!With("StartJob", "taken") BY <1>2, <1>5, ContractRunning
<1>7. Contract!Cardinality(Contract!Running) = Cardinality(DOMAIN active)
  <2>1. \A S : Contract!Cardinality(S) = Cardinality(S) BY DEF Contract!Cardinality, Cardinality
  <2> QED BY <1>3, <2>1, RunningCount
<1>8. \A n \in 1..Len(read) : n # m => Fate(n)' = Fate(n) BY <1>0, SendFates
<1>9. CASE e.kind = "ProtocolError"
  <2>1. handler = "reply"
    <3>1. handler # "accept" BY <1>1, <1>9, ReplyFields DEF IndInv, HandlerInv
    <3> QED BY <1>3, <3>1
  <2>2. Cardinality(DOMAIN active) = maximum_concurrent_jobs
    BY <1>1, <1>9, <2>1 DEF ContractInv, CapacityInv
  <2>3. Fate(m)' = "rejected" BY <1>0, <1>4, <1>9, FirstReply
  <2>4. Contract!Set(m, "rejected") BY <1>1, <1>2, <1>8, <2>3, ContractSet
  <2>5. Contract!Reject(m) BY <1>6, <1>7, <2>2, <2>4 DEF Contract!Reject
  <2> QED BY <1>2, <2>5 DEF Contract!Next
<1>10. CASE e.kind = "JobAccepted"
  <2>1. handler = "accept"
    <3>1. handler # "reply" BY <1>1, <1>10 DEF IndInv, HandlerInv
    <3> QED BY <1>3, <3>1
  <2>2. Cardinality(DOMAIN active) < maximum_concurrent_jobs
    BY <2>1 DEF ContractInv, CapacityInv
  <2>3. ~CancelledLater(m)
    <3>1. Len(read) \in Nat BY Types DEF IndInv
    <3>2. (m + 1)..Len(read) = {} BY <1>4, <3>1
    <3> QED BY <3>2 DEF CancelledLater
  <2>4. Fate(m)' = "running" BY <1>0, <1>4, <1>10, <2>3, FirstReply
  <2>5. Contract!Set(m, "running") BY <1>1, <1>2, <1>8, <2>4, ContractSet
  <2>6. Contract!Accept(m) BY <1>6, <1>7, <2>2, <2>5 DEF Contract!Accept
  <2> QED BY <1>2, <2>6 DEF Contract!Next
<1> QED BY <1>9, <1>10

\* The echo of a heartbeat, and the acknowledgement of the shutdown.
LEMMA AnswerContract ==
    ASSUME IndInv, ContractInv, SendHead, NEW e, e = Head(outbox),
           e.kind \in {"Heartbeat", "ShutdownAcknowledged"}
    PROVE  Contract!Next
<1>0. PICK m : m = e.re OBVIOUS
<1>1. /\ e \in Envelopes /\ e.kind \in Replies /\ Fits(e) /\ e = outbox[1] /\ 1 \in 1..Len(outbox)
      /\ UNCHANGED <<read, result>> /\ result = "none"
      /\ handler \notin {"select", "join", "consume", "close", "returned"}
  BY SendHeadFacts
<1>2. m \in 1..Len(read) /\ read[m].kind = Question(e.kind) BY <1>0, <1>1 DEF Fits
<1>3. ~Sent(e.kind, m)
  <2>1. e = Reply(e.kind, m) BY <1>0, <1>1, ReplyFields
  <2>2. \A i \in 1..Len(wire) : wire[i] # e BY <1>1 DEF IndInv, OutboxInv
  <2> QED BY <2>1, <2>2 DEF Sent
<1>4. Question(e.kind) # "StartJob" BY DEF Question
<1>5. Fate(m) = "taken" BY <1>1, <1>2, <1>3, <1>4, OnlyReply
<1>6. ~Replied(m) BY <1>2, <1>5, FateFacts
<1>7. Fate(m)' = "answered" BY <1>0, <1>6, FirstReply
<1>8. \A n \in 1..Len(read) : n # m => Fate(n)' = Fate(n) BY <1>0, SendFates
<1>9. Contract!Set(m, "answered") BY <1>1, <1>2, <1>7, <1>8, ContractSet
<1>10. CASE e.kind = "Heartbeat"
  <2>1. m \in Contract!With("Heartbeat", "taken")
    BY <1>2, <1>5, <1>10, ContractRunning DEF Question
  <2>2. Contract!Echo(m) BY <1>9, <2>1 DEF Contract!Echo
  <2> QED BY <1>2, <2>2 DEF Contract!Next
<1>11. CASE e.kind = "ShutdownAcknowledged"
  <2>1. m \in Contract!With("Shutdown", "taken")
    BY <1>2, <1>5, <1>11, ContractRunning DEF Question
  <2>2. handler = "deliver"
    <3>1. handler # "settle" BY <1>1, <1>11, ReplyFields DEF IndInv, HandlerInv
    <3>2. handler # "drain" BY <1>1, <1>11 DEF IndInv, HandlerInv
    <3>3. handler # "reply" BY <1>1, <1>11 DEF IndInv, HandlerInv
    <3>4. handler # "accept" BY <1>1, <1>11, ReplyFields DEF IndInv, HandlerInv
    <3> QED BY <1>1, <3>1, <3>2, <3>3, <3>4 DEF IndInv, TypeOK
  <2>3. DOMAIN active = {} /\ outbox = <<Reply("ShutdownAcknowledged", subject)>>
    BY <2>2 DEF IndInv, HandlerInv
  <2>4. ASSUME NEW c \in 1..Len(read), Fate(c) = "taken" PROVE c = m
    <3>1. ~Replied(c) BY <2>4, FateFacts
    <3>2. Queued(c) BY <2>2, <2>3, <3>1 DEF IndInv, AnswerInv, Accounted, Waits
    <3>3. PICK p \in 1..Len(outbox) : outbox[p].re = c BY <3>2 DEF Queued
    <3>4. Len(outbox) = 1 BY <2>3
    <3>5. p = 1 BY <3>4
    <3> QED BY <1>0, <1>1, <3>3, <3>5
  <2>5. Contract!AcknowledgeShutdown(m) BY <1>9, <2>1, <2>4 DEF Contract!AcknowledgeShutdown
  <2> QED BY <1>2, <2>5 DEF Contract!Next
<1> QED BY <1>10, <1>11

\* The terminal update of a job.
LEMMA UpdateContract ==
    ASSUME IndInv, ContractInv, SendHead, NEW e, e = Head(outbox), e.kind = "JobUpdate"
    PROVE  Contract!Next
<1>0. PICK m, j : m = e.re /\ j = read[m].job OBVIOUS
<1>1. /\ e \in Envelopes /\ e.kind \in Replies /\ Fits(e) /\ e = outbox[1] /\ 1 \in 1..Len(outbox)
      /\ UNCHANGED <<read, result>> /\ result = "none"
      /\ handler \notin {"select", "join", "consume", "close", "returned"}
      /\ \A k, n : Sent(k, n)' <=> Sent(k, n) \/ e = Reply(k, n)
  BY SendHeadFacts
<1>2. m \in 1..Len(read) /\ read[m].kind = "StartJob" BY <1>0, <1>1 DEF Fits, Question
<1>3. handler = "settle"
  <2>1. handler # "accept" BY <1>1, ReplyFields DEF IndInv, HandlerInv
  <2>2. handler # "drain" BY <1>1 DEF IndInv, HandlerInv
  <2>3. handler # "reply" BY <1>1 DEF IndInv, HandlerInv
  <2>4. handler # "deliver" BY <1>1, ReplyFields DEF IndInv, HandlerInv
  <2> QED BY <1>1, <2>1, <2>2, <2>3, <2>4 DEF IndInv, TypeOK
<1>4. m = subject
  <2>1. e = Reply("JobUpdate", subject) BY <1>1, <1>3 DEF IndInv, HandlerInv
  <2> QED BY <1>0, <2>1, ReplyFields
<1>5. /\ j \in DOMAIN active /\ active[j].trace = m /\ active[j].cancellations = <<>>
      /\ task[m] = "joined" /\ m \in Messages
      /\ \A p \in 1..Len(outbox) :
            outbox[p] = Reply("JobUpdate", m) \/ outbox[p].kind = "CancelJobAcknowledged"
  BY <1>0, <1>2, <1>3, <1>4, Types DEF IndInv, HandlerInv, Messages
<1>6. \A c \in (m + 1)..Len(read) : read[c] # [kind |-> "CancelJob", job |-> j]
  BY <1>0, <1>1, <1>3, <1>4 DEF ContractInv, SettledInv
<1>7. Fate(m) = "running"
  <2>1. Sent("JobAccepted", m) BY <1>5 DEF IndInv, TaskInv
  <2>2. ~Sent("JobUpdate", m)
    <3>1. e = Reply("JobUpdate", m) BY <1>0, <1>1, ReplyFields
    <3>2. \A i \in 1..Len(wire) : wire[i] # e BY <1>1 DEF IndInv, OutboxInv
    <3> QED BY <3>1, <3>2 DEF Sent
  <2>3. ~CancelledLater(m) BY <1>0, <1>6 DEF CancelledLater
  <2> QED BY <1>2, <2>1, <2>2, <2>3, FateFacts
<1>8. ASSUME NEW c \in 1..Len(read), Fate(c) = "taken"
      PROVE  /\ read[c].kind # "Shutdown"
             /\ ~(read[c].kind = "CancelJob" /\ read[c].job = j)
  <2>1. Queued(c) \/ Waits(c, read[c].job)
    <3>1. ~Replied(c) BY <1>8, FateFacts
    <3> QED BY <1>3, <3>1 DEF IndInv, AnswerInv, Accounted
  <2>2. CASE Queued(c)
    <3>1. PICK p \in 1..Len(outbox) : outbox[p].re = c BY <2>2 DEF Queued
    <3>2. Fits(outbox[p]) BY DEF IndInv, OutboxInv
    <3>3. outbox[p].kind \in {"JobUpdate", "CancelJobAcknowledged"} BY <1>5, ReplyFields
    <3>4. read[c].kind = Question(outbox[p].kind) BY <3>1, <3>2 DEF Fits
    <3>5. read[c].kind # "Shutdown" BY <3>3, <3>4 DEF Question
    <3>6. ASSUME read[c].kind = "CancelJob", read[c].job = j PROVE FALSE
      <4>1. outbox[p].kind = "CancelJobAcknowledged" BY <3>3, <3>4, <3>6 DEF Question
      <4>2. c > m BY <1>5, <3>1, <3>6, <4>1 DEF ContractInv, AckInv
      <4>3. Len(read) \in Nat BY Types DEF IndInv
      <4>4. c \in (m + 1)..Len(read) BY ONLY <1>2, <4>2, <4>3, c \in 1..Len(read)
      <4>5. read[c] = [kind |-> "CancelJob", job |-> j]
        <5>1. read[c] \in [kind : Kinds, job : Jobs \cup {NoJob}]
          BY ElementOf DEF IndInv, TypeOK
        <5> QED BY <3>6, <5>1
      <4> QED BY <1>6, <4>4, <4>5
    <3> QED BY <3>5, <3>6
  <2>3. CASE Waits(c, read[c].job)
    <3>0. PICK l : l = read[c].job OBVIOUS
    <3>1. l \in DOMAIN active BY <2>3, <3>0 DEF Waits
    <3>5. PICK i \in 1..Len(active[l].cancellations) : active[l].cancellations[i] = c
      BY <2>3, <3>0 DEF Waits
    <3>2. read[active[l].cancellations[i]] = [kind |-> "CancelJob", job |-> l]
      BY <3>1 DEF IndInv, ActiveInv, JobInv
    <3>3. read[c].kind = "CancelJob" /\ read[c].job = l BY <3>2, <3>5
    <3>4. l # j
      <4>1. 1..Len(active[j].cancellations) = {} BY <1>5
      <4> QED BY <4>1
    <3> QED BY <3>3, <3>4
  <2> QED BY <2>1, <2>2, <2>3
<1>9. Fate(m)' = "updated"
  <2>1. e = Reply("JobUpdate", m) BY <1>0, <1>1, ReplyFields
  <2>2. Sent("JobUpdate", m)' BY <1>1, <2>1
  <2> QED BY <2>2 DEF Fate
<1>10. \A n \in 1..Len(read) : n # m => Fate(n)' = Fate(n) BY <1>0, SendFates
<1>11. Contract!Set(m, "updated") BY <1>1, <1>2, <1>9, <1>10, ContractSet
<1>12. m \in Contract!Running BY <1>2, <1>7, ContractRunning
<1>13. /\ ~ \E c \in Contract!With("CancelJob", "taken") : read[c].job = read[m].job
       /\ Contract!With("Shutdown", "taken") = {}
  BY <1>0, <1>8, ContractRunning
<1>14. Contract!Update(m) BY <1>11, <1>12, <1>13 DEF Contract!Update
<1> QED BY <1>2, <1>14 DEF Contract!Next

\* The acknowledgement of a cancellation.
LEMMA AcknowledgeContract ==
    ASSUME IndInv, ContractInv, SendHead, NEW e, e = Head(outbox),
           e.kind = "CancelJobAcknowledged"
    PROVE  Contract!Next
<1>0. PICK c : c = e.re OBVIOUS
<1>1. /\ e \in Envelopes /\ e.kind \in Replies /\ Fits(e) /\ e = outbox[1] /\ 1 \in 1..Len(outbox)
      /\ UNCHANGED <<read, result>> /\ result = "none"
      /\ handler \notin {"select", "join", "consume", "close", "returned"}
      /\ \A k, n : Sent(k, n)' <=> Sent(k, n) \/ e = Reply(k, n)
  BY SendHeadFacts
<1>2. /\ c \in 1..Len(read) /\ read[c].kind = "CancelJob" /\ e = Reply("CancelJobAcknowledged", c)
      /\ Len(read) \in Nat
  BY <1>0, <1>1, ReplyFields, Types DEF Fits, Question, IndInv
<1>3. ~Sent("CancelJobAcknowledged", c)
  <2>1. \A i \in 1..Len(wire) : wire[i] # e BY <1>1 DEF IndInv, OutboxInv
  <2> QED BY <1>2, <2>1 DEF Sent
<1>4. Fate(c) = "taken" BY <1>2, <1>3, OnlyReply DEF Replies, Question
<1>5. Fate(c)' = "answered"
  <2>1. ~Replied(c) BY <1>2, <1>4, FateFacts
  <2> QED BY <1>0, <2>1, FirstReply
<1>6. \A k, n : (k # "CancelJobAcknowledged" \/ n # c) => (Sent(k, n)' <=> Sent(k, n))
  BY <1>1, <1>2, ReplyFields
<1>7. read[c] = [kind |-> "CancelJob", job |-> read[c].job]
  <2>1. read[c] \in [kind : Kinds, job : Jobs \cup {NoJob}]
    BY <1>2, ElementOf DEF IndInv, TypeOK
  <2> QED BY <1>2, <2>1
<1>8. ASSUME NEW n \in 1..Len(read)
      PROVE  CancelledLater(n)' <=> CancelledLater(n) \/ (c > n /\ read[c].job = read[n].job)
  <2>1. c \in (n + 1)..Len(read) <=> c > n BY <1>2
  <2>2. Sent("CancelJobAcknowledged", c)' BY <1>1, <1>2
  <2>3. CancelledLater(n)' <=>
           \E d \in (n + 1)..Len(read) :
               /\ read[d] = [kind |-> "CancelJob", job |-> read[n].job]
               /\ Sent("CancelJobAcknowledged", d) \/ d = c
    BY <1>1, <1>6, <2>2 DEF CancelledLater
  <2>4. c \in (n + 1)..Len(read) /\ read[c] = [kind |-> "CancelJob", job |-> read[n].job]
           <=> c > n /\ read[c].job = read[n].job
    BY <1>7, <2>1
  <2> QED BY <2>3, <2>4 DEF CancelledLater
<1>9. ASSUME NEW n \in 1..Len(read), n # c
      PROVE  Fate(n)' = IF n \in Contract!Running /\ read[n].job = read[c].job THEN "cancelled"
                        ELSE Fate(n)
  <2>0. \A k : Sent(k, n)' <=> Sent(k, n) BY <1>6, <1>9
  <2>1. CASE n \in Contract!Running /\ read[n].job = read[c].job
    <3>1. Fate(n) = "running" BY <2>1, ContractRunning
    <3>2. handler \notin {"deliver", "consume", "close", "returned"}
      <4>1. handler # "deliver" BY <1>1, ReplyFields DEF IndInv, HandlerInv
      <4> QED BY <1>1, <4>1
    <3>3. read[n].job \in DOMAIN active /\ active[read[n].job].trace = n
      BY <3>1, <3>2, RunningActive
    <3>4. c > n BY <1>0, <1>1, <2>1, <3>3 DEF ContractInv, AckInv
    <3>5. CancelledLater(n)' BY <1>8, <2>1, <3>4
    <3>6. Sent("JobAccepted", n) /\ ~Sent("JobUpdate", n) BY <3>1, FateFacts
    <3>7. read[n].kind = "StartJob" BY <2>1, ContractRunning
    <3>8. n \in Messages BY Types DEF IndInv, Messages
    <3>9. ~Sent("ProtocolError", n) BY <3>6, <3>8 DEF ContractInv, ExclusiveInv
    <3>10. /\ ~Sent("CancelJobAcknowledged", n) /\ ~Sent("Heartbeat", n)
           /\ ~Sent("ShutdownAcknowledged", n)
      BY <3>7, SentFits DEF Replies, Question
    <3>11. Fate(n)' = "cancelled" BY <2>0, <3>5, <3>6, <3>9, <3>10 DEF Fate
    <3> QED BY <2>1, <3>11
  <2>2. CASE ~(n \in Contract!Running /\ read[n].job = read[c].job)
    <3>1. CASE CancelledLater(n)' <=> CancelledLater(n)
      <4>1. Fate(n)' = Fate(n) BY <1>1, <2>0, <3>1, FateKept
      <4> QED BY <2>2, <4>1
    <3>2. CASE ~(CancelledLater(n)' <=> CancelledLater(n))
      <4>1. read[c].job = read[n].job /\ ~CancelledLater(n) BY <1>8, <3>2
      <4>2. Fate(n) # "running"
        <5>1. n \notin Contract!Running BY <2>2, <4>1
        <5>2. Sent("JobAccepted", n) => read[n].kind = "StartJob"
          BY SentFits DEF Replies, Question
        <5> QED BY <5>1, <5>2, FateFacts, ContractRunning
      <4>3. Sent("JobUpdate", n) \/ ~Sent("JobAccepted", n) BY <4>1, <4>2, FateFacts
      <4>4. Fate(n)' = Fate(n) BY <2>0, <4>3 DEF Fate
      <4> QED BY <2>2, <4>4
    <3> QED BY <3>1, <3>2
  <2> QED BY <2>1, <2>2
<1>10. c \in Contract!With("CancelJob", "taken") BY <1>2, <1>4, ContractRunning
<1>11. Contract!Acknowledge(c)
  <2>1. [n \in 1..Len(read') |-> Fate(n)'] =
           [n \in 1..Len(read) |->
               CASE n = c -> "answered"
                 [] n \in Contract!Running /\ read[n].job = read[c].job -> "cancelled"
                 [] OTHER -> [i \in 1..Len(read) |-> Fate(i)][n]]
    <3>1. c \notin Contract!Running BY <1>2, ContractRunning
    <3>2. ASSUME NEW n \in 1..Len(read)
          PROVE  Fate(n)' = CASE n = c -> "answered"
                              [] n \in Contract!Running /\ read[n].job = read[c].job -> "cancelled"
                              [] OTHER -> [i \in 1..Len(read) |-> Fate(i)][n]
      <4>1. CASE n = c BY <1>5, <3>1, <4>1
      <4>2. CASE n # c BY <1>9, <4>2
      <4> QED BY <4>1, <4>2
    <3> QED BY <1>1, <3>2
  <2> QED BY <1>1, <1>10, <2>1 DEF Contract!Acknowledge
<1> QED BY <1>2, <1>11 DEF Contract!Next

\* The next envelope of a handler is a step of the contract.
LEMMA SendContract == ASSUME IndInv, ContractInv, SendHead PROVE Contract!Next
<1>0. PICK e : e = Head(outbox) OBVIOUS
<1>1. e.kind \in Replies BY <1>0, SendHeadFacts
<1>2. CASE e.kind \in {"ProtocolError", "JobAccepted"} BY <1>0, <1>2, StartContract
<1>3. CASE e.kind \in {"Heartbeat", "ShutdownAcknowledged"} BY <1>0, <1>3, AnswerContract
<1>4. CASE e.kind = "JobUpdate" BY <1>0, <1>4, UpdateContract
<1>5. CASE e.kind = "CancelJobAcknowledged" BY <1>0, <1>5, AcknowledgeContract
<1> QED BY <1>1, <1>2, <1>3, <1>4, <1>5 DEF Replies

-----------------------------------------------------------------------------
(* The refinement.                                                         *)

\* Every step of the session is a step of the contract, or none.
LEMMA StepContract ==
    ASSUME IndInv, ContractInv, [Next]_vars
    PROVE  [Contract!Next]_(Contract!vars)
<1> USE DEF loopVars, jobVars, wireVars
<1>1. ASSUME UNCHANGED <<read, wire, result>> PROVE UNCHANGED Contract!vars
  <2>1. \A k \in Replies : \A n : Sent(k, n)' <=> Sent(k, n) BY <1>1 DEF Sent
  <2> QED BY <1>1, <2>1, ContractQuiet
<1>2. CASE TakeMessage BY <1>2, TakesContract
<1>3. CASE SendMore \/ FinishReply \/ FinishAccept \/ FinishSettle \/ FinishDrain \/ FinishDeliver
  BY <1>3, SendContract
    DEF SendMore, FinishReply, FinishAccept, FinishSettle, FinishDrain, FinishDeliver, SendLast
<1>4. ASSUME JoinAll \/ FinishConsume \/ \E m \in Messages : Settle(m)
      PROVE  UNCHANGED Contract!vars
  BY <1>1, <1>4 DEF JoinAll, FinishConsume, Settle
<1>5. CASE \/ SendFails \/ ServeFails \/ LateMessage \/ ParentExits
           \/ \E m \in Messages : JoinError(m)
           \/ \E k \in 1..Len(wire) : LateResponse(k)
  <2>1. handler # "returned"
    BY <1>5 DEF SendFails, ServeFails, LateMessage, ParentExits, JoinError, LateResponse,
                IndInv, HandlerInv
  <2>2. result' \in {"Err", "eof"} /\ UNCHANGED <<read, wire>>
    BY <1>5 DEF SendFails, ServeFails, LateMessage, ParentExits, JoinError, LateResponse, Return
  <2>3. Contract!Fail BY <2>1, <2>2, FailContract
  <2> QED BY <2>3 DEF Contract!Next
<1>6. CASE HostCloses BY <1>6, CompleteContract DEF Contract!Next
<1>7. ASSUME NEW m \in Messages, Finish(m) \/ Lose(m) \/ Abort(m) \/ Poll(m) \/ Suspend(m)
      PROVE  UNCHANGED Contract!vars
  BY <1>1, <1>7 DEF Finish, Lose, Abort, Poll, Suspend
<1>8. ASSUME NEW m \in Messages, NEW k \in Emissions, Emit(m, k) PROVE UNCHANGED Contract!vars
  <2>1. UNCHANGED <<read, result>> BY <1>8 DEF Emit
  <2>2. \A l \in Replies : \A n : Sent(l, n)' <=> Sent(l, n) BY <1>8, EmitSends
  <2> QED BY <2>1, <2>2, ContractQuiet
<1>9. ASSUME \/ Consume \/ CloseWire \/ Done \/ UNCHANGED vars
             \/ \E k \in 1..Len(wire) : Response(k)
      PROVE  UNCHANGED Contract!vars
  BY <1>1, <1>9 DEF Consume, CloseWire, Done, Response, vars
<1> QED BY <1>2, <1>3, <1>4, <1>5, <1>6, <1>7, <1>8, <1>9 DEF Next, Advance

\* The session keeps the contract with the host: a start is rejected only at
\* capacity and a job with the ID of a running one never accepted; an update
\* overtakes no cancellation and no shutdown; an acknowledgement comes once the
\* job has ended; a graceful end leaves nothing unanswered.
THEOREM ContractKept == Spec => ContractSpec
<1>1. Init => Contract!Init
  <2> SUFFICES ASSUME Init PROVE Contract!Init OBVIOUS
  <2>1. read = <<>> /\ result = "none" BY DEF Init
  <2>2. [m \in 1..Len(read) |-> Fate(m)] = <<>>
    <3>1. 1..Len(read) = {} BY <2>1
    <3> QED BY <3>1
  <2> QED BY <2>1, <2>2 DEF Contract!Init
<1>2. IndInv /\ ContractInv /\ [Next]_vars => [Contract!Next]_(Contract!vars) BY StepContract
<1> QED BY <1>1, <1>2, ContractInductive, PTL DEF Spec, ContractSpec, Contract!Spec
=============================================================================
