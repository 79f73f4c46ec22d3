----------------------------- MODULE ServeProofs -----------------------------
(***************************************************************************)
(* The properties of Serve.tla hold for every set of jobs, every number of *)
(* concurrent jobs, every capacity of the output channel and every bound.  *)
(***************************************************************************)
EXTENDS Serve, FiniteSetTheorems, TLAPS

\* The kind of message that a reply answers.
Question(k) ==
    CASE k = "CancelJobAcknowledged" -> "CancelJob"
      [] k = "Heartbeat" -> "Heartbeat"
      [] k = "ShutdownAcknowledged" -> "Shutdown"
      [] OTHER -> "StartJob"

\* The envelope answers a message that was taken.
Fits(e) == e.re \in 1..Len(read) /\ read[e.re].kind = Question(e.kind)

\* The cancellation c waits for the end of job j.
Waits(c, j) ==
    j \in DOMAIN active /\ \E i \in 1..Len(active[j].cancellations) :
        active[j].cancellations[i] = c

InOutbox(e) == \E p \in 1..Len(outbox) : outbox[p] = e

\* Only replies to what was taken are sent, and the acknowledgement of the
\* shutdown is the last of them.
WireInv ==
    /\ \A i \in 1..Len(wire) : wire[i].kind \in Replies => Fits(wire[i])
    /\ \A i, k \in 1..Len(wire) :
          i < k /\ wire[i].kind = "ShutdownAcknowledged" => wire[k].kind \in Emissions

\* What is about to be sent has not been sent before.
OutboxInv ==
    /\ \A p \in 1..Len(outbox) :
          /\ outbox[p].kind \in Replies /\ Fits(outbox[p])
          /\ \A i \in 1..Len(wire) : wire[i] # outbox[p]
    /\ \A p, q \in 1..Len(outbox) : p # q => outbox[p] # outbox[q]

\* An active job was started by its trace, and the cancellations that wait for
\* its end came later, are different, and nothing acknowledges them yet.
JobInv(j) ==
    /\ active[j].trace \in 1..Len(read)
    /\ read[active[j].trace] = [kind |-> "StartJob", job |-> j]
    /\ \A i \in 1..Len(active[j].cancellations) :
          /\ active[j].cancellations[i] \in (active[j].trace + 1)..Len(read)
          /\ read[active[j].cancellations[i]] = [kind |-> "CancelJob", job |-> j]
          /\ ~Sent("CancelJobAcknowledged", active[j].cancellations[i])
          /\ ~InOutbox(Reply("CancelJobAcknowledged", active[j].cancellations[i]))
    /\ \A i, k \in 1..Len(active[j].cancellations) :
          i # k => active[j].cancellations[i] # active[j].cancellations[k]

ActiveInv == \A j \in DOMAIN active : JobInv(j)

\* A task exists once its job was accepted, its token ends with it, and only a
\* joined one is reported as ended.
TaskInv ==
    \A m \in Messages :
        /\ task[m] # "none" <=> Sent("JobAccepted", m)
        /\ task[m] \in {"finished", "lost", "joined"} => token[m] # "ACTIVE"
        /\ Sent("JobUpdate", m) => task[m] = "joined"

\* The JoinSet holds the tasks of the active jobs.
JoinSetInv ==
    /\ handler \in {"select", "reply", "accept", "settle", "join"} =>
          /\ \A m \in Unjoined :
                read[m].job \in DOMAIN active /\ active[read[m].job].trace = m
          /\ \A j \in DOMAIN active :
                active[j].trace \in Unjoined \/ (handler = "settle" /\ active[j].trace = subject)
    /\ handler \in {"drain", "deliver", "consume", "close"} => Unjoined = {}

\* Every cancellation later than the start of a job that is not joined waits.
CancelInv ==
    \A m \in Unjoined : \A c \in (m + 1)..Len(read) :
        read[c] = [kind |-> "CancelJob", job |-> read[m].job] => Waits(c, read[m].job)

Replied(m) == \E i \in 1..Len(wire) : wire[i].kind \in Replies /\ wire[i].re = m

Queued(m) == \E p \in 1..Len(outbox) : outbox[p].re = m

\* No message is forgotten.
Accounted(m) ==
    \/ Replied(m) \/ Queued(m) \/ Waits(m, read[m].job)
    \/ handler \in {"join", "drain"} /\ m = Len(read)

AnswerInv == handler # "returned" => \A m \in 1..Len(read) : Accounted(m)

\* What the handler is about.
HandlerInv ==
    /\ handler \in {"select", "join", "consume", "close", "returned"} => outbox = <<>>
    /\ handler = "reply" =>
          /\ Len(outbox) = 1
          /\ outbox[1].kind \in {"ProtocolError", "CancelJobAcknowledged", "Heartbeat"}
    /\ handler = "accept" =>
          /\ subject \in 1..Len(read) /\ subject = Len(read)
          /\ outbox = <<Reply("JobAccepted", subject)>>
          /\ read[subject].kind = "StartJob"
          /\ read[subject].job \in Jobs \ DOMAIN active
    /\ handler = "settle" =>
          /\ outbox # <<>>
          /\ subject \in 1..Len(read) /\ read[subject].job \in DOMAIN active
          /\ active[read[subject].job].trace = subject
          /\ active[read[subject].job].cancellations = <<>>
          /\ task[subject] = "joined"
          /\ \A p \in 1..Len(outbox) :
                \/ outbox[p] = Reply("JobUpdate", subject)
                \/ outbox[p].kind = "CancelJobAcknowledged"
    /\ handler \in {"join", "drain", "deliver", "consume", "close"} =>
          /\ subject \in 1..Len(read) /\ subject = Len(read)
          /\ read[subject].kind = "Shutdown"
    /\ handler = "drain" =>
          /\ outbox # <<>>
          /\ \A j \in DOMAIN active : active[j].cancellations = <<>>
          /\ \A p \in 1..Len(outbox) : outbox[p].kind = "CancelJobAcknowledged"
    /\ handler \in {"deliver", "consume", "close"} => DOMAIN active = {}
    /\ handler = "deliver" => outbox = <<Reply("ShutdownAcknowledged", subject)>>
    /\ (\E i \in 1..Len(wire) : wire[i].kind = "ShutdownAcknowledged") =>
          handler \in {"consume", "close", "returned"}
    /\ handler = "returned" <=> result # "none"

\* The shutdown was consumed, and everything before it.
Completed ==
    /\ Unjoined = {}
    /\ \A m \in 1..Len(read) :
          \E k \in 1..consumed : wire[k].kind \in Replies /\ wire[k].re = m

CompletedInv == handler = "close" \/ result = "shutdown" => Completed

IndInv ==
    /\ TypeOK
    /\ WireInv /\ AnsweredOnce /\ OutboxInv
    /\ ActiveInv /\ TaskInv /\ JoinSetInv /\ CancelInv
    /\ AnswerInv /\ HandlerInv /\ CompletedInv

USE NoJobAssumption, MaximumAssumption, BoundsAssumption

-----------------------------------------------------------------------------

\* Every initial state satisfies the invariant.
LEMMA InitInv == Init => IndInv
<1> SUFFICES ASSUME Init PROVE IndInv OBVIOUS
<1>1. TypeOK BY DEF Init, TypeOK
<1>2. WireInv /\ AnsweredOnce /\ OutboxInv BY DEF Init, WireInv, AnsweredOnce, OutboxInv
<1>3. ActiveInv /\ TaskInv BY DEF Init, ActiveInv, TaskInv, Sent
<1>4. JoinSetInv /\ CancelInv BY DEF Init, JoinSetInv, CancelInv, Unjoined
<1>5. AnswerInv /\ HandlerInv /\ CompletedInv
  BY DEF Init, AnswerInv, HandlerInv, CompletedInv
<1> QED BY <1>1, <1>2, <1>3, <1>4, <1>5 DEF IndInv

\* What the types say of sequences.
LEMMA Types ==
    ASSUME TypeOK
    PROVE  /\ Len(read) \in Nat /\ Len(read) <= MaxHostMessages
           /\ Len(wire) \in Nat /\ Len(outbox) \in Nat
           /\ \A i \in 1..Len(wire) : wire[i] \in Envelopes
           /\ \A p \in 1..Len(outbox) : outbox[p] \in Envelopes
BY DEF TypeOK

\* The fields of a reply.
LEMMA ReplyFields ==
    /\ \A k, m : Reply(k, m).kind = k /\ Reply(k, m).re = m
    /\ \A e \in Envelopes : e = Reply(e.kind, e.re)
BY DEF Reply, Envelopes

\* An element of a sequence.
LEMMA ElementOf ==
    ASSUME NEW S, NEW s \in Seq(S), NEW i \in 1..Len(s)
    PROVE  s[i] \in S
OBVIOUS

\* The invariant of an active job, of its message and of what waits for its end.
JobParts(j, t, s) ==
    /\ t \in 1..Len(read) /\ read[t] = [kind |-> "StartJob", job |-> j]
    /\ \A i \in 1..Len(s) : /\ s[i] \in (t + 1)..Len(read)
                            /\ read[s[i]] = [kind |-> "CancelJob", job |-> j]
                            /\ ~Sent("CancelJobAcknowledged", s[i])
                            /\ ~InOutbox(Reply("CancelJobAcknowledged", s[i]))
    /\ \A i, k \in 1..Len(s) : i # k => s[i] # s[k]

\* `JobInv` of the state after a step.
LEMMA JobAfter ==
    ASSUME NEW j, NEW t, NEW s, active'[j].trace = t, active'[j].cancellations = s,
           JobParts(j, t, s)'
    PROVE  JobInv(j)'
<1> USE DEF JobParts
<1>1. \A i \in 1..Len(active'[j].cancellations) :
         /\ active'[j].cancellations[i] \in (active'[j].trace + 1)..Len(read')
         /\ read'[active'[j].cancellations[i]] = [kind |-> "CancelJob", job |-> j]
         /\ ~Sent("CancelJobAcknowledged", active[j].cancellations[i])'
         /\ ~InOutbox(Reply("CancelJobAcknowledged", active[j].cancellations[i]))'
  BY DEF Sent, InOutbox, Reply
<1>2. active'[j].trace \in 1..Len(read')
      /\ read'[active'[j].trace] = [kind |-> "StartJob", job |-> j]
  OBVIOUS
<1>3. \A i, k \in 1..Len(active'[j].cancellations) :
         i # k => active'[j].cancellations[i] # active'[j].cancellations[k]
  OBVIOUS
<1> QED BY ONLY <1>1, <1>2, <1>3 DEF JobInv

\* An active job that a step leaves alone.
LEMMA JobKept ==
    ASSUME TypeOK, NEW j \in DOMAIN active, JobInv(j), active'[j] = active[j],
           Len(read') \in Nat, Len(read') >= Len(read),
           \A i \in 1..Len(read) : read'[i] = read[i],
           \A c \in 1..Len(read) :
               ~Sent("CancelJobAcknowledged", c)
                   /\ ~InOutbox(Reply("CancelJobAcknowledged", c))
               => ~Sent("CancelJobAcknowledged", c)'
                   /\ ~InOutbox(Reply("CancelJobAcknowledged", c))'
    PROVE  JobInv(j)'
<1>0. PICK t, s : t = active[j].trace /\ s = active[j].cancellations OBVIOUS
<1>1. active[j] \in ActiveJobs BY DEF TypeOK
<1>2. t \in Messages /\ s \in Seq(Messages) BY <1>0, <1>1 DEF ActiveJobs
<1>3. Len(read) \in Nat /\ t \in 1..Len(read) /\ read[t] = [kind |-> "StartJob", job |-> j]
  BY <1>0 DEF JobInv, TypeOK
<1>4. ASSUME NEW i \in 1..Len(s)
      PROVE  /\ s[i] \in (t + 1)..Len(read')
             /\ read'[s[i]] = [kind |-> "CancelJob", job |-> j]
             /\ ~Sent("CancelJobAcknowledged", s[i])'
             /\ ~InOutbox(Reply("CancelJobAcknowledged", s[i]))'
  <2>1. /\ s[i] \in (t + 1)..Len(read) /\ read[s[i]] = [kind |-> "CancelJob", job |-> j]
        /\ ~Sent("CancelJobAcknowledged", s[i])
        /\ ~InOutbox(Reply("CancelJobAcknowledged", s[i]))
    BY <1>0 DEF JobInv
  <2>2. PICK c : c = s[i] OBVIOUS
  <2>3. t \in Nat /\ c \in (t + 1)..Len(read) BY <1>3, <2>1, <2>2
  <2>4. c \in 1..Len(read) /\ c \in (t + 1)..Len(read') BY ONLY <1>3, <2>3, Len(read') \in Nat, Len(read') >= Len(read)
  <2> QED BY <2>1, <2>2, <2>4
<1>5. \A i, k \in 1..Len(s) : i # k => s[i] # s[k] BY <1>0 DEF JobInv
<1>6. t \in 1..Len(read') /\ read'[t] = [kind |-> "StartJob", job |-> j]
  <2>1. t \in 1..Len(read') BY ONLY <1>3, Len(read') \in Nat, Len(read') >= Len(read)
  <2> QED BY <1>3, <2>1
<1>7. active'[j].trace = t /\ active'[j].cancellations = s BY <1>0
<1>8. \A i \in 1..Len(s) : /\ s[i] \in (t + 1)..Len(read')
                           /\ read'[s[i]] = [kind |-> "CancelJob", job |-> j]
                           /\ ~Sent("CancelJobAcknowledged", s[i])'
                           /\ ~InOutbox(Reply("CancelJobAcknowledged", s[i]))'
  BY ONLY <1>4
<1>9. JobParts(j, t, s)' BY ONLY <1>5, <1>6, <1>8 DEF JobParts
<1> QED BY ONLY <1>7, <1>9, JobAfter

\* A step of the transport or of a context.
LEMMA FrameInv ==
    ASSUME IndInv, TypeOK', consumed' >= consumed,
           UNCHANGED <<read, loopVars, active, task, token, wire, result>>
    PROVE  IndInv'
<1> USE DEF IndInv, loopVars
<1>1. WireInv' /\ AnsweredOnce' /\ OutboxInv'
  BY DEF WireInv, AnsweredOnce, OutboxInv, Fits
<1>2. ActiveInv'
  <2> SUFFICES ASSUME NEW j \in DOMAIN active
               PROVE  JobInv(j)'
    BY DEF ActiveInv
  <2>1. JobInv(j) BY DEF ActiveInv
  <2> QED BY <2>1 DEF JobInv, Sent, InOutbox, Reply
<1>3. TaskInv' BY DEF TaskInv, Sent
<1>4. JoinSetInv' BY DEF JoinSetInv, Unjoined
<1>5. CancelInv' BY DEF CancelInv, Unjoined, Waits
<1>6. AnswerInv' BY DEF AnswerInv, Accounted, Replied, Queued, Waits
<1>7. HandlerInv' BY DEF HandlerInv
<1>8. CompletedInv' BY DEF CompletedInv, Completed, Unjoined, TypeOK
<1> QED BY <1>1, <1>2, <1>3, <1>4, <1>5, <1>6, <1>7, <1>8

\* The host answers a request.
LEMMA ResponseInv == ASSUME IndInv, NEW k, Response(k) PROVE IndInv'
<1>1. Len(wire) \in Nat /\ consumed \in 0..Len(wire) BY DEF IndInv, TypeOK
<1>2. answered' = answered \cup {k} /\ k \in 1..consumed BY DEF Response, Outstanding
<1>3. k \in 1..Len(wire) BY <1>1, <1>2
<1>4. answered' \subseteq 1..Len(wire) BY <1>2, <1>3 DEF IndInv, TypeOK
<1>5. TypeOK' BY <1>4 DEF IndInv, TypeOK, Response, loopVars, jobVars, wireVars
<1> QED BY <1>1, <1>5, FrameInv DEF Response, loopVars, jobVars, wireVars, IndInv, TypeOK

\* A context looks at its token, or finds no room.
LEMMA PollInv == ASSUME IndInv, NEW m \in Messages, Poll(m) \/ Suspend(m) PROVE IndInv'
<1>1. TypeOK' BY DEF IndInv, TypeOK, Poll, Suspend, loopVars, wireVars
<1> QED BY <1>1, FrameInv DEF Poll, Suspend, loopVars, wireVars, IndInv, TypeOK

\* The transport takes an envelope, or is gone.
LEMMA TransportInv == ASSUME IndInv, Consume \/ CloseWire PROVE IndInv'
<1>1. CASE Consume
  <2>1. Len(wire) \in Nat /\ consumed \in 0..Len(wire) BY DEF IndInv, TypeOK
  <2>2. consumed' \in 0..Len(wire) /\ consumed' >= consumed BY <1>1, <2>1 DEF Consume
  <2>3. TypeOK' BY <1>1, <2>2 DEF IndInv, TypeOK, Consume, loopVars, jobVars
  <2> QED BY <1>1, <2>2, <2>3, FrameInv DEF Consume, loopVars, jobVars
<1>2. CASE CloseWire
  <2>1. TypeOK' BY <1>2 DEF IndInv, TypeOK, CloseWire, loopVars, jobVars
  <2> QED BY <1>2, <2>1, FrameInv DEF CloseWire, loopVars, jobVars, IndInv, TypeOK
<1> QED BY <1>1, <1>2

\* What one more envelope in the channel changes.
LEMMA WireAppend ==
    ASSUME TypeOK, NEW e \in Envelopes, wire' = Append(wire, e)
    PROVE  /\ wire' \in Seq(Envelopes) /\ Len(wire') = Len(wire) + 1 /\ Len(wire) \in Nat
           /\ \A i \in 1..Len(wire) : i \in 1..Len(wire') /\ wire'[i] = wire[i]
           /\ Len(wire') \in 1..Len(wire') /\ wire'[Len(wire')] = e
           /\ \A i \in 1..Len(wire') : i \in 1..Len(wire) \/ (i = Len(wire') /\ i \notin 1..Len(wire))
           /\ \A k, m : Sent(k, m)' <=> Sent(k, m) \/ e = Reply(k, m)
           /\ \A m : Replied(m) => Replied(m)'
           /\ e.kind \in Replies => Replied(e.re)'
<1>1. /\ wire' \in Seq(Envelopes) /\ Len(wire') = Len(wire) + 1 /\ Len(wire) \in Nat
      /\ \A i \in 1..Len(wire) : i \in 1..Len(wire') /\ wire'[i] = wire[i]
      /\ Len(wire') \in 1..Len(wire') /\ wire'[Len(wire')] = e
  BY DEF TypeOK
<1>2. \A i \in 1..Len(wire') : i \in 1..Len(wire) \/ (i = Len(wire') /\ i \notin 1..Len(wire))
  BY <1>1
<1>3. \A k, m : Sent(k, m)' <=> Sent(k, m) \/ e = Reply(k, m)
  BY <1>1, <1>2 DEF Sent, Reply
<1>4. \A m : Replied(m) => Replied(m)' BY <1>1 DEF Replied
<1>5. e.kind \in Replies => Replied(e.re)' BY <1>1 DEF Replied
<1> QED BY <1>1, <1>2, <1>3, <1>4, <1>5

\* The envelope of an action is no reply.
LEMMA EmitInv == ASSUME IndInv, NEW m \in Messages, NEW k \in Emissions, Emit(m, k) PROVE IndInv'
<1> USE DEF IndInv
<1> DEFINE e == Reply(k, m)
<1>1. e \in Envelopes /\ e.kind = k BY DEF Reply, Envelopes
<1>2. /\ wire' = Append(wire, e)
      /\ UNCHANGED <<read, handler, subject, outbox, active, task, token, consumed, open,
                     answered, result>>
      /\ context' = [context EXCEPT ![m] = "idle"]
  BY DEF Emit, loopVars
<1>3. /\ k \notin Replies
      /\ k \notin {"ShutdownAcknowledged", "JobAccepted", "JobUpdate", "CancelJobAcknowledged"}
  BY DEF Emissions, Replies
<1>4. /\ wire' \in Seq(Envelopes) /\ Len(wire') = Len(wire) + 1 /\ Len(wire) \in Nat
      /\ \A i \in 1..Len(wire) : i \in 1..Len(wire') /\ wire'[i] = wire[i]
      /\ Len(wire') \in 1..Len(wire') /\ wire'[Len(wire')] = e
      /\ \A i \in 1..Len(wire') : i \in 1..Len(wire) \/ (i = Len(wire') /\ i \notin 1..Len(wire))
  BY <1>1, <1>2, WireAppend
<1>5. \A l \in Replies : \A n : Sent(l, n)' <=> Sent(l, n)
  BY <1>1, <1>2, <1>3, WireAppend DEF Reply
<1> HIDE DEF e
<1>6. TypeOK'
  <2>1. consumed \in 0..Len(wire') /\ answered \subseteq 1..Len(wire')
    BY <1>2, <1>4 DEF TypeOK
  <2> QED BY <1>2, <1>4, <2>1 DEF TypeOK
<1>7. WireInv' BY <1>1, <1>2, <1>3, <1>4 DEF WireInv, Fits
<1>8. AnsweredOnce'
  <2> SUFFICES ASSUME NEW i \in 1..Len(wire'), NEW l \in 1..Len(wire'),
                      i # l, wire'[i] = wire'[l], wire'[i].kind \notin Emissions
               PROVE  FALSE
    BY DEF AnsweredOnce
  <2>1. i \in 1..Len(wire) /\ l \in 1..Len(wire) BY <1>1, <1>4
  <2> QED BY <1>4, <2>1 DEF AnsweredOnce
<1>9. OutboxInv' BY <1>1, <1>2, <1>3, <1>4 DEF OutboxInv, Fits
<1>10. ActiveInv'
  <2> SUFFICES ASSUME NEW j \in DOMAIN active
               PROVE  JobInv(j)'
    BY <1>2 DEF ActiveInv
  <2>1. JobInv(j) BY DEF ActiveInv
  <2>2. \A c : Sent("CancelJobAcknowledged", c)' <=> Sent("CancelJobAcknowledged", c)
    BY <1>5 DEF Replies
  <2> QED BY <1>2, <2>1, <2>2 DEF JobInv, InOutbox, Reply
<1>11. TaskInv'
  <2>1. \A n : /\ Sent("JobAccepted", n)' <=> Sent("JobAccepted", n)
               /\ Sent("JobUpdate", n)' <=> Sent("JobUpdate", n)
    BY <1>5 DEF Replies
  <2> QED BY <1>2, <2>1 DEF TaskInv
<1>12. JoinSetInv' BY <1>2 DEF JoinSetInv, Unjoined
<1>13. CancelInv' BY <1>2 DEF CancelInv, Unjoined, Waits
<1>14. AnswerInv'
  <2>1. \A n : Replied(n) => Replied(n)' BY <1>1, <1>2, WireAppend
  <2> QED BY <1>2, <2>1 DEF AnswerInv, Accounted, Queued, Waits
<1>15. HandlerInv' BY <1>1, <1>2, <1>3, <1>4 DEF HandlerInv
<1>16. CompletedInv'
  <2>1. \A i \in 1..consumed : wire'[i] = wire[i] BY <1>4 DEF TypeOK
  <2> QED BY <1>2, <2>1 DEF CompletedInv, Completed, Unjoined
<1> QED BY <1>6, <1>7, <1>8, <1>9, <1>10, <1>11, <1>12, <1>13, <1>14, <1>15, <1>16

\* A task ends, and its token with it; the JoinSet still holds it.
LEMMA TaskEndInv ==
    ASSUME IndInv, NEW m \in Messages, Finish(m) \/ Lose(m) \/ Abort(m)
    PROVE  IndInv'
<1> USE DEF IndInv
<1>1. PICK x \in {"finished", "lost"} : task' = [task EXCEPT ![m] = x]
  BY DEF Finish, Lose, Abort
<1>2. /\ task[m] \in {"running", "aborted"}
      /\ token' = [token EXCEPT ![m] = Change(token[m], "FINISHED")]
      /\ UNCHANGED <<read, handler, subject, outbox, active, context, wire, consumed, open,
                     answered, result>>
  BY DEF Finish, Lose, Abort, loopVars, wireVars
<1>3. TypeOK' BY <1>1, <1>2 DEF TypeOK, Change
<1>4. /\ task \in [Messages -> {"none", "running", "aborted", "finished", "lost", "joined"}]
      /\ token \in [Messages -> {"ACTIVE", "CANCELLED", "FINISHED"}]
  BY DEF TypeOK
<1>5. /\ task'[m] = x /\ token'[m] # "ACTIVE"
      /\ \A n \in Messages : n # m => task'[n] = task[n] /\ token'[n] = token[n]
  BY <1>1, <1>2, <1>4 DEF Change
<1>6. Unjoined' = Unjoined BY <1>1, <1>2, <1>5 DEF Unjoined
<1>7. WireInv' /\ AnsweredOnce' /\ OutboxInv' BY <1>2 DEF WireInv, AnsweredOnce, OutboxInv, Fits
<1>8. ActiveInv'
  <2> SUFFICES ASSUME NEW j \in DOMAIN active
               PROVE  JobInv(j)'
    BY <1>2 DEF ActiveInv
  <2>1. JobInv(j) BY DEF ActiveInv
  <2> QED BY <1>2, <2>1 DEF JobInv, Sent, InOutbox, Reply
<1>9. TaskInv'
  <2> SUFFICES ASSUME NEW n \in Messages
               PROVE  /\ task'[n] # "none" <=> Sent("JobAccepted", n)'
                      /\ task'[n] \in {"finished", "lost", "joined"} => token'[n] # "ACTIVE"
                      /\ Sent("JobUpdate", n)' => task'[n] = "joined"
    BY DEF TaskInv
  <2>1. \A k : Sent(k, n)' <=> Sent(k, n) BY <1>2 DEF Sent
  <2> QED BY <1>1, <1>2, <1>5, <2>1 DEF TaskInv
<1>10. JoinSetInv' BY <1>2, <1>6 DEF JoinSetInv
<1>11. CancelInv' BY <1>2, <1>6 DEF CancelInv, Waits
<1>12. AnswerInv' BY <1>2 DEF AnswerInv, Accounted, Replied, Queued, Waits
<1>13. HandlerInv'
  <2>1. handler = "settle" => task'[subject] = "joined"
    BY <1>2, <1>5 DEF HandlerInv, TypeOK, Messages
  <2> QED BY <1>2, <2>1 DEF HandlerInv
<1>14. CompletedInv' BY <1>2, <1>6 DEF CompletedInv, Completed
<1> QED BY <1>3, <1>7, <1>8, <1>9, <1>10, <1>11, <1>12, <1>13, <1>14

\* `run` returns, possibly with the error of a task it has just joined.
LEMMA ReturnInv ==
    ASSUME IndInv, handler # "returned",
           NEW r \in {"shutdown", "eof", "Err"}, r = "shutdown" => handler = "close",
           Return(r),
           UNCHANGED <<read, active, token, context, wire, consumed, open>>,
           answered' \subseteq 1..Len(wire),
           \/ UNCHANGED task
           \/ \E m \in Messages : task[m] = "lost" /\ task' = [task EXCEPT ![m] = "joined"]
    PROVE  IndInv'
<1> USE DEF IndInv
<1>1. handler' = "returned" /\ subject' = 0 /\ outbox' = <<>> /\ result' = r BY DEF Return
<1>2. /\ task' \in [Messages -> {"none", "running", "aborted", "finished", "lost", "joined"}]
      /\ \A m \in Messages :
            task'[m] = task[m] \/ (task[m] = "lost" /\ task'[m] = "joined")
  <2>1. task \in [Messages -> {"none", "running", "aborted", "finished", "lost", "joined"}]
    BY DEF TypeOK
  <2>2. CASE UNCHANGED task BY ONLY <2>1, <2>2
  <2>3. CASE \E m \in Messages : task[m] = "lost" /\ task' = [task EXCEPT ![m] = "joined"]
    BY ONLY <2>1, <2>3
  <2> QED BY <2>2, <2>3
<1>3. TypeOK' BY <1>1, <1>2 DEF TypeOK
<1>4. Unjoined' \subseteq Unjoined BY <1>2 DEF Unjoined
<1>5. WireInv' /\ AnsweredOnce' BY DEF WireInv, AnsweredOnce, Fits
<1>6. OutboxInv' BY <1>1 DEF OutboxInv
<1>7. ActiveInv'
  <2> SUFFICES ASSUME NEW j \in DOMAIN active
               PROVE  JobInv(j)'
    BY DEF ActiveInv
  <2>1. JobInv(j) BY DEF ActiveInv
  <2>2. \A e : ~InOutbox(e)' BY <1>1 DEF InOutbox
  <2> QED BY <2>1, <2>2 DEF JobInv, Sent, Reply
<1>8. TaskInv'
  <2> SUFFICES ASSUME NEW n \in Messages
               PROVE  /\ task'[n] # "none" <=> Sent("JobAccepted", n)'
                      /\ task'[n] \in {"finished", "lost", "joined"} => token'[n] # "ACTIVE"
                      /\ Sent("JobUpdate", n)' => task'[n] = "joined"
    BY DEF TaskInv
  <2>1. \A k : Sent(k, n)' <=> Sent(k, n) BY DEF Sent
  <2> QED BY <1>2, <2>1 DEF TaskInv
<1>9. JoinSetInv' BY <1>1 DEF JoinSetInv
<1>10. CancelInv' BY <1>4 DEF CancelInv, Waits
<1>11. AnswerInv' BY <1>1 DEF AnswerInv
<1>12. HandlerInv' BY <1>1 DEF HandlerInv
<1>13. CompletedInv' BY <1>1, <1>4 DEF CompletedInv, Completed, HandlerInv
<1> QED BY <1>3, <1>5, <1>6, <1>7, <1>8, <1>9, <1>10, <1>11, <1>12, <1>13

\* What the loop learns with one more message.
LEMMA TakeAppends ==
    ASSUME IndInv, NEW k \in Kinds, NEW j \in Jobs \cup {NoJob}, Take(k, j)
    PROVE  /\ read' \in Seq([kind : Kinds, job : Jobs \cup {NoJob}])
           /\ Len(read) \in Nat /\ Len(read') = Len(read) + 1
           /\ NextMessage = Len(read') /\ NextMessage \in Messages
           /\ Len(read') <= MaxHostMessages
           /\ \A i \in 1..Len(read) : i \in 1..Len(read') /\ read'[i] = read[i]
           /\ \A i \in 1..Len(read') : i \in 1..Len(read) \/ i = NextMessage
           /\ NextMessage \in 1..Len(read') /\ NextMessage \notin 1..Len(read)
           /\ read'[NextMessage] = [kind |-> k, job |-> j]
           /\ handler = "select" /\ outbox = <<>>
           /\ \A l : ~Sent(l, NextMessage) \/ l \in Emissions
<1> DEFINE e == [kind |-> k, job |-> j]
<1>1. /\ read' = Append(read, e) /\ handler = "select" /\ Len(read) < MaxHostMessages
      /\ outbox = <<>> /\ read \in Seq([kind : Kinds, job : Jobs \cup {NoJob}])
      /\ e \in [kind : Kinds, job : Jobs \cup {NoJob}]
  BY DEF Take, IndInv, HandlerInv, TypeOK
<1> HIDE DEF e
<1>2. /\ read' \in Seq([kind : Kinds, job : Jobs \cup {NoJob}])
      /\ Len(read) \in Nat /\ Len(read') = Len(read) + 1
      /\ \A i \in 1..Len(read) : read'[i] = read[i]
      /\ read'[Len(read) + 1] = e
  BY <1>1
<1>3. \A l : ~Sent(l, NextMessage) \/ l \in Emissions
  <2> SUFFICES ASSUME NEW l, NEW i \in 1..Len(wire), wire[i] = Reply(l, NextMessage),
                      l \notin Emissions
               PROVE  FALSE
    BY DEF Sent
  <2>1. wire[i] \in Envelopes BY Types DEF IndInv
  <2>2. wire[i].kind = l /\ wire[i].re = NextMessage BY DEF Reply
  <2>3. l \in Replies BY <2>1, <2>2 DEF Envelopes
  <2> QED BY <1>2, <2>2, <2>3 DEF IndInv, WireInv, Fits, NextMessage
<1> QED BY <1>1, <1>2, <1>3 DEF e, NextMessage, Messages

\* A task was started by a StartJob.
LEMMA Started ==
    ASSUME IndInv, NEW m \in Messages, task[m] # "none"
    PROVE  m \in 1..Len(read) /\ read[m].kind = "StartJob"
<1>1. PICK i \in 1..Len(wire) : wire[i] = Reply("JobAccepted", m)
  BY DEF IndInv, TaskInv, Sent
<1>2. wire[i].kind = "JobAccepted" /\ wire[i].re = m BY <1>1 DEF Reply
<1>3. Fits(wire[i]) BY <1>2 DEF IndInv, WireInv, Replies
<1> QED BY <1>2, <1>3 DEF Fits, Question

\* A handler that takes a message and has one reply to it.
LEMMA TakeReplyInv ==
    ASSUME IndInv, NEW k \in Kinds, NEW j \in Jobs \cup {NoJob}, Take(k, j),
           NEW h \in {"reply", "accept"}, NEW l \in Replies, Question(l) = k,
           StartSending(h, NextMessage, <<Reply(l, NextMessage)>>),
           UNCHANGED <<jobVars, wireVars, answered, result>>,
           h = "reply" => l \in {"ProtocolError", "CancelJobAcknowledged", "Heartbeat"},
           h = "accept" => l = "JobAccepted" /\ k = "StartJob" /\ j \in Jobs \ DOMAIN active,
           k = "CancelJob" => j \notin DOMAIN active
    PROVE  IndInv'
<1> USE DEF IndInv
<1>0. PICK n, e : n = NextMessage /\ e = Reply(l, n) OBVIOUS
<1>1. /\ read' \in Seq([kind : Kinds, job : Jobs \cup {NoJob}])
      /\ Len(read) \in Nat /\ Len(read') = Len(read) + 1
      /\ n = Len(read') /\ n \in Messages
      /\ Len(read') <= MaxHostMessages
      /\ \A i \in 1..Len(read) : i \in 1..Len(read') /\ read'[i] = read[i]
      /\ \A i \in 1..Len(read') : i \in 1..Len(read) \/ i = n
      /\ n \in 1..Len(read') /\ n \notin 1..Len(read)
      /\ read'[n] = [kind |-> k, job |-> j]
      /\ handler = "select" /\ outbox = <<>>
      /\ \A x : ~Sent(x, n) \/ x \in Emissions
  BY <1>0, TakeAppends
<1>2. /\ handler' = h /\ subject' = n /\ outbox' = <<e>>
      /\ UNCHANGED <<active, task, token, context, wire, consumed, open, answered, result>>
  BY <1>0 DEF StartSending, jobVars, wireVars
<1>3. e \in Envelopes /\ e.kind = l /\ e.re = n /\ l \notin Emissions
  BY <1>0, <1>1 DEF Reply, Envelopes, Replies, Emissions
<1>4. \A i \in 1..Len(wire) : wire[i] # e BY <1>0, <1>1, <1>3 DEF Sent
<1>5. /\ outbox' \in Seq(Envelopes) /\ Len(outbox') = 1
      /\ \A p \in 1..Len(outbox') : outbox'[p] = e
      /\ outbox'[1] = e
  BY <1>2, <1>3
<1>6. TypeOK' BY <1>1, <1>2, <1>5 DEF TypeOK
<1>7. WireInv' /\ AnsweredOnce' BY <1>1, <1>2 DEF WireInv, AnsweredOnce, Fits
<1>8. OutboxInv'
  <2>1. Fits(e)' BY <1>1, <1>3 DEF Fits
  <2> QED BY <1>2, <1>3, <1>4, <1>5, <2>1 DEF OutboxInv
<1>9. ActiveInv'
  <2> SUFFICES ASSUME NEW i \in DOMAIN active
               PROVE  JobInv(i)'
    BY <1>2 DEF ActiveInv
  <2>1. JobInv(i) BY DEF ActiveInv
  <2>2. \A x, c : Sent(x, c)' <=> Sent(x, c) BY <1>2 DEF Sent
  <2>3. \A x, c : InOutbox(Reply(x, c))' => c = n BY <1>3, <1>5 DEF InOutbox, Reply
  <2> QED BY <1>1, <1>2, <2>1, <2>2, <2>3, JobKept
<1>10. TaskInv' BY <1>2 DEF TaskInv, Sent
<1>11. \A m \in Unjoined : m \in 1..Len(read) BY Started DEF Unjoined
<1>12. JoinSetInv' BY <1>1, <1>2, <1>11 DEF JoinSetInv, Unjoined
<1>13. CancelInv'
  <2> SUFFICES ASSUME NEW m \in Unjoined, NEW c \in (m + 1)..Len(read'),
                      read'[c] = [kind |-> "CancelJob", job |-> read'[m].job]
               PROVE  Waits(c, read[m].job)'
    BY <1>2 DEF CancelInv, Unjoined
  <2>1. m \in 1..Len(read) /\ read'[m] = read[m] BY <1>1, <1>11
  <2>2. read[m].job \in DOMAIN active BY <1>1 DEF JoinSetInv
  <2>3. c # n
    <3> SUFFICES ASSUME c = n PROVE FALSE OBVIOUS
    <3>1. k = "CancelJob" /\ j = read[m].job BY <1>1, <2>1
    <3> QED BY <2>2, <3>1
  <2>4. c \in (m + 1)..Len(read) /\ read'[c] = read[c] BY <1>1, <2>1, <2>3
  <2>5. Waits(c, read[m].job) BY <2>1, <2>4 DEF CancelInv
  <2> QED BY <1>2, <2>1, <2>5 DEF Waits
<1>14. AnswerInv'
  <2> SUFFICES ASSUME NEW m \in 1..Len(read') PROVE Accounted(m)' BY DEF AnswerInv
  <2>1. CASE m = n BY <1>3, <1>5, <2>1 DEF Accounted, Queued
  <2>2. CASE m \in 1..Len(read)
    <3>1. Accounted(m) /\ ~Queued(m) BY <1>1, <2>2 DEF AnswerInv, Queued
    <3>2. Replied(m) \/ Waits(m, read[m].job) BY <1>1, <3>1 DEF Accounted
    <3> QED BY <1>1, <1>2, <2>2, <3>2 DEF Accounted, Replied, Waits
  <2> QED BY <1>1, <2>1, <2>2
<1>15. HandlerInv'
  <2>1. result = "none" /\ ~\E i \in 1..Len(wire) : wire[i].kind = "ShutdownAcknowledged"
    BY <1>1 DEF HandlerInv
  <2>2. CASE h = "reply" BY <1>2, <1>3, <1>5, <2>1, <2>2 DEF HandlerInv
  <2>3. CASE h = "accept"
    BY <1>1, <1>2, <1>3, <1>5, <2>1, <2>3, <1>0 DEF HandlerInv
  <2> QED BY <2>2, <2>3
<1>16. CompletedInv' BY <1>1, <1>2 DEF CompletedInv, HandlerInv
<1> QED BY <1>6, <1>7, <1>8, <1>9, <1>10, <1>12, <1>13, <1>14, <1>15, <1>16

\* The messages that are answered at once, and the start that is accepted.
LEMMA TakeReplyActions ==
    ASSUME IndInv,
           \/ Heartbeat
           \/ \E j \in Jobs : StartRejected(j) \/ StartAccepted(j) \/ CancelInactive(j)
    PROVE  IndInv'
<1>1. CASE Heartbeat
  BY <1>1, TakeReplyInv DEF Heartbeat, Kinds, Replies, Question
<1>2. ASSUME NEW j \in Jobs, StartRejected(j) PROVE IndInv'
  BY <1>2, TakeReplyInv DEF StartRejected, Kinds, Replies, Question
<1>3. ASSUME NEW j \in Jobs, StartAccepted(j) PROVE IndInv'
  BY <1>3, TakeReplyInv DEF StartAccepted, Kinds, Replies, Question
<1>4. ASSUME NEW j \in Jobs, CancelInactive(j) PROVE IndInv'
  BY <1>4, TakeReplyInv DEF CancelInactive, Kinds, Replies, Question
<1> QED BY <1>1, <1>2, <1>3, <1>4

\* A cancellation that finds its job active waits for its end.
LEMMA CancelActiveInv == ASSUME IndInv, NEW j \in Jobs, CancelActive(j) PROVE IndInv'
<1> USE DEF IndInv
<1>0. PICK n : n = NextMessage OBVIOUS
<1>1. /\ read' \in Seq([kind : Kinds, job : Jobs \cup {NoJob}])
      /\ Len(read) \in Nat /\ Len(read') = Len(read) + 1
      /\ n = Len(read') /\ n \in Messages
      /\ Len(read') <= MaxHostMessages
      /\ \A i \in 1..Len(read) : i \in 1..Len(read') /\ read'[i] = read[i]
      /\ \A i \in 1..Len(read') : i \in 1..Len(read) \/ i = n
      /\ n \in 1..Len(read') /\ n \notin 1..Len(read)
      /\ read'[n] = [kind |-> "CancelJob", job |-> j]
      /\ handler = "select" /\ outbox = <<>>
      /\ \A x : ~Sent(x, n) \/ x \in Emissions
  BY <1>0, TakeAppends DEF CancelActive, Kinds
<1> DEFINE t == active[j].trace
           s == active[j].cancellations
           new == [active[j] EXCEPT !.cancellations = Append(s, n)]
<1>2. /\ j \in DOMAIN active
      /\ token' = [token EXCEPT ![t] = Change(token[t], "CANCELLED")]
      /\ active' = [active EXCEPT ![j] = new]
      /\ UNCHANGED <<handler, subject, outbox, task, context, wire, consumed, open, answered,
                     result>>
  BY <1>0 DEF CancelActive, loopVars, wireVars
<1>3. active[j] \in ActiveJobs /\ t \in Messages /\ s \in Seq(Messages)
  BY <1>2 DEF TypeOK, ActiveJobs
<1>7. /\ Len(s) \in Nat /\ Len(Append(s, n)) = Len(s) + 1 /\ Append(s, n)[Len(s) + 1] = n
      /\ \A i \in 1..Len(s) : Append(s, n)[i] = s[i]
      /\ \A i \in 1..(Len(s) + 1) : i \in 1..Len(s) \/ i = Len(s) + 1
  <2> HIDE DEF s
  <2>1. s \in Seq(Messages) /\ n \in Messages BY <1>1, <1>3
  <2>2. Len(s) \in Nat BY <2>1
  <2> QED BY <2>1, <2>2
<1>4. new \in ActiveJobs /\ new.trace = t /\ new.cancellations = Append(s, n)
  <2>1. Append(s, n) \in Seq(Messages) BY <1>1, <1>3
  <2> QED BY <1>3, <2>1 DEF ActiveJobs
<1> HIDE DEF new
<1>5. /\ DOMAIN active' = DOMAIN active /\ active'[j] = new
      /\ \A i \in DOMAIN active : i # j => active'[i] = active[i]
  BY <1>2
<1>6. \A i \in DOMAIN active : active'[i].trace = active[i].trace
  BY <1>4, <1>5
<1>8. TypeOK'
  <2>1. token' \in [Messages -> {"ACTIVE", "CANCELLED", "FINISHED"}]
    BY <1>2, <1>3 DEF TypeOK, Change
  <2>2. /\ DOMAIN active' \subseteq Jobs
        /\ \A i \in DOMAIN active' : active'[i] \in ActiveJobs
    BY <1>4, <1>5 DEF TypeOK
  <2> QED BY <1>1, <1>2, <2>1, <2>2 DEF TypeOK
<1>9. WireInv' /\ AnsweredOnce' BY <1>1, <1>2 DEF WireInv, AnsweredOnce, Fits
<1>10. OutboxInv' BY <1>1, <1>2 DEF OutboxInv
<1>11. ActiveInv'
  <2>1. \A x, c : Sent(x, c)' <=> Sent(x, c) BY <1>2 DEF Sent
  <2>2. \A e : ~InOutbox(e)' BY <1>1, <1>2 DEF InOutbox
  <2>3. ASSUME NEW i \in DOMAIN active, i # j PROVE JobInv(i)'
    <3>1. JobInv(i) BY DEF ActiveInv
    <3>2. active'[i] = active[i] BY <1>5, <2>3
    <3> QED BY <1>1, <2>1, <2>2, <3>1, <3>2, JobKept
  <2>4. JobInv(j)'
    <3>1. JobInv(j) BY <1>2 DEF ActiveInv
    <3>2. t \in 1..Len(read) /\ read[t] = [kind |-> "StartJob", job |-> j]
      BY <3>1 DEF JobInv
    <3>3. active'[j].trace = t /\ active'[j].cancellations = Append(s, n) BY <1>4, <1>5
    <3>6. Len(read) \in Nat /\ n = Len(read) + 1 /\ Len(read') = Len(read) + 1 BY <1>1
    <3>4. ASSUME NEW i \in 1..Len(Append(s, n))
          PROVE  /\ Append(s, n)[i] \in (t + 1)..Len(read')
                 /\ read'[Append(s, n)[i]] = [kind |-> "CancelJob", job |-> j]
                 /\ ~Sent("CancelJobAcknowledged", Append(s, n)[i])
      <4>1. CASE i = Len(s) + 1
        <5>1. Append(s, n)[i] = n BY <1>7, <4>1
        <5>2. n \in (t + 1)..Len(read') BY <1>1, <3>2
        <5>3. ~Sent("CancelJobAcknowledged", n) BY <1>1 DEF Emissions
        <5> QED BY <1>1, <5>1, <5>2, <5>3
      <4>2. CASE i \in 1..Len(s)
        <5>1. /\ s[i] \in (t + 1)..Len(read) /\ read[s[i]] = [kind |-> "CancelJob", job |-> j]
              /\ ~Sent("CancelJobAcknowledged", s[i])
          BY <3>1, <4>2 DEF JobInv
        <5>2. s[i] \in 1..Len(read) /\ s[i] \in (t + 1)..Len(read') BY ONLY <3>2, <3>6, <5>1
        <5> QED BY <1>1, <1>7, <3>2, <4>2, <5>1, <5>2
      <4> QED BY <1>7, <4>1, <4>2
    <3>5. \A i, k \in 1..Len(Append(s, n)) : i # k => Append(s, n)[i] # Append(s, n)[k]
      <4>1. \A i \in 1..Len(s) : s[i] # n
        <5> TAKE i \in 1..Len(s)
        <5>1. s[i] \in (t + 1)..Len(read) BY <3>1 DEF JobInv
        <5>2. s[i] \in 1..Len(read) BY ONLY <3>2, <3>6, <5>1
        <5>3. s[i] # n BY ONLY <3>6, <5>2
        <5> QED BY <5>3
      <4>2. \A i, k \in 1..Len(s) : i # k => s[i] # s[k] BY <3>1 DEF JobInv
      <4> QED BY <1>7, <4>1, <4>2
    <3>7. PICK u, q : u = t /\ q = Append(s, n) OBVIOUS
    <3>8. u \in 1..Len(read') /\ read'[u] = [kind |-> "StartJob", job |-> j]
      <4>1. u \in 1..Len(read) /\ u \in 1..Len(read') BY ONLY <3>2, <3>6, <3>7
      <4> QED BY <1>1, <3>2, <3>7, <4>1
    <3>9. \A i \in 1..Len(q) : /\ q[i] \in (u + 1)..Len(read')
                               /\ read'[q[i]] = [kind |-> "CancelJob", job |-> j]
                               /\ ~Sent("CancelJobAcknowledged", q[i])'
                               /\ ~InOutbox(Reply("CancelJobAcknowledged", q[i]))'
      BY <2>1, <2>2, <3>4, <3>7
    <3>10. /\ active'[j].trace = u /\ active'[j].cancellations = q
           /\ \A i, k \in 1..Len(q) : i # k => q[i] # q[k]
      BY <3>3, <3>5, <3>7
    <3>11. JobParts(j, u, q)' BY ONLY <3>8, <3>9, <3>10 DEF JobParts
    <3> QED BY ONLY <3>10, <3>11, JobAfter
  <2> QED BY <1>5, <2>3, <2>4 DEF ActiveInv
<1>12. TaskInv'
  <2>1. \A x, c : Sent(x, c)' <=> Sent(x, c) BY <1>2 DEF Sent
  <2>2. \A m \in Messages : token[m] # "ACTIVE" => token'[m] # "ACTIVE"
    BY <1>2, <1>3 DEF TypeOK, Change
  <2> QED BY <1>2, <2>1, <2>2 DEF TaskInv
<1>13. Unjoined' = Unjoined /\ \A m \in Unjoined : m \in 1..Len(read)
  BY <1>2, Started DEF Unjoined
<1>14. JoinSetInv' BY <1>1, <1>2, <1>5, <1>6, <1>13 DEF JoinSetInv
<1>15. \A i, c : Waits(c, i) => Waits(c, i)'
  BY <1>4, <1>5, <1>7 DEF Waits
<1>16. Waits(n, j)' BY <1>2, <1>4, <1>5, <1>7 DEF Waits
<1>17. CancelInv'
  <2> SUFFICES ASSUME NEW m \in Unjoined, NEW c \in (m + 1)..Len(read'),
                      read'[c] = [kind |-> "CancelJob", job |-> read'[m].job]
               PROVE  Waits(c, read[m].job)'
    BY <1>13 DEF CancelInv
  <2>1. m \in 1..Len(read) /\ read'[m] = read[m] BY <1>1, <1>13
  <2>2. CASE c = n BY <1>1, <1>16, <2>1, <2>2
  <2>3. CASE c # n
    <3>1. c \in (m + 1)..Len(read) /\ read'[c] = read[c] BY <1>1, <2>1, <2>3
    <3>2. Waits(c, read[m].job) BY <2>1, <3>1 DEF CancelInv
    <3> QED BY <1>15, <2>1, <3>2
  <2> QED BY <2>2, <2>3
<1>18. AnswerInv'
  <2> SUFFICES ASSUME NEW m \in 1..Len(read') PROVE Accounted(m)' BY DEF AnswerInv
  <2>1. CASE m = n BY <1>1, <1>16, <2>1 DEF Accounted
  <2>2. CASE m \in 1..Len(read)
    <3>1. Accounted(m) /\ ~Queued(m) BY <1>1, <2>2 DEF AnswerInv, Queued
    <3>2. CASE Replied(m) BY <1>2, <3>2 DEF Accounted, Replied
    <3>3. CASE Waits(m, read[m].job) BY <1>1, <1>15, <2>2, <3>3 DEF Accounted
    <3> QED BY <1>1, <3>1, <3>2, <3>3 DEF Accounted
  <2> QED BY <1>1, <2>1, <2>2
<1>19. HandlerInv' BY <1>1, <1>2 DEF HandlerInv
<1>20. CompletedInv' BY <1>1, <1>2 DEF CompletedInv, HandlerInv
<1> QED BY <1>8, <1>9, <1>10, <1>11, <1>12, <1>14, <1>17, <1>18, <1>19, <1>20

\* The shutdown cancels and aborts, and waits for what it has aborted.
LEMMA ShutdownInv == ASSUME IndInv, Shutdown PROVE IndInv'
<1> USE DEF IndInv
<1>0. PICK n : n = NextMessage OBVIOUS
<1>1. /\ read' \in Seq([kind : Kinds, job : Jobs \cup {NoJob}])
      /\ Len(read) \in Nat /\ Len(read') = Len(read) + 1
      /\ n = Len(read') /\ n \in Messages
      /\ Len(read') <= MaxHostMessages
      /\ \A i \in 1..Len(read) : i \in 1..Len(read') /\ read'[i] = read[i]
      /\ \A i \in 1..Len(read') : i \in 1..Len(read) \/ i = n
      /\ n \in 1..Len(read') /\ n \notin 1..Len(read)
      /\ read'[n] = [kind |-> "Shutdown", job |-> NoJob]
      /\ handler = "select" /\ outbox = <<>>
  BY <1>0, TakeAppends DEF Shutdown, Kinds
<1>2. /\ handler' = "join" /\ subject' = n /\ outbox' = <<>>
      /\ UNCHANGED <<active, context, wire, consumed, open, answered, result>>
  BY <1>0 DEF Shutdown, StartSending, wireVars
<1>3. /\ task' = [m \in Messages |-> IF task[m] = "running" THEN "aborted" ELSE task[m]]
      /\ token' = [m \in Messages |-> IF \E i \in DOMAIN active : active[i].trace = m
                                       THEN Change(token[m], "CANCELLED")
                                       ELSE token[m]]
  BY DEF Shutdown
<1>4. /\ task' \in [Messages -> {"none", "running", "aborted", "finished", "lost", "joined"}]
      /\ \A m \in Messages : task'[m] = task[m] \/ (task[m] = "running" /\ task'[m] = "aborted")
  BY <1>3 DEF TypeOK
<1>5. /\ token' \in [Messages -> {"ACTIVE", "CANCELLED", "FINISHED"}]
      /\ \A m \in Messages : token[m] # "ACTIVE" => token'[m] # "ACTIVE"
  BY <1>3 DEF TypeOK, Change
<1>6. TypeOK' BY <1>1, <1>2, <1>4, <1>5 DEF TypeOK
<1>7. WireInv' /\ AnsweredOnce' BY <1>1, <1>2 DEF WireInv, AnsweredOnce, Fits
<1>8. OutboxInv' BY <1>2 DEF OutboxInv
<1>9. ActiveInv'
  <2>1. \A x, c : Sent(x, c)' <=> Sent(x, c) BY <1>2 DEF Sent
  <2>2. \A e : ~InOutbox(e)' BY <1>2 DEF InOutbox
  <2>3. ASSUME NEW i \in DOMAIN active PROVE JobInv(i)'
    <3>1. JobInv(i) BY DEF ActiveInv
    <3> QED BY <1>1, <1>2, <2>1, <2>2, <3>1, JobKept
  <2> QED BY <1>2, <2>3 DEF ActiveInv
<1>10. TaskInv'
  <2>1. \A x, c : Sent(x, c)' <=> Sent(x, c) BY <1>2 DEF Sent
  <2> QED BY <1>4, <1>5, <2>1 DEF TaskInv
<1>11. Unjoined' = Unjoined /\ \A m \in Unjoined : m \in 1..Len(read)
  BY <1>4, Started DEF Unjoined
<1>12. JoinSetInv' BY <1>1, <1>2, <1>11 DEF JoinSetInv
<1>13. CancelInv'
  <2> SUFFICES ASSUME NEW m \in Unjoined, NEW c \in (m + 1)..Len(read'),
                      read'[c] = [kind |-> "CancelJob", job |-> read'[m].job]
               PROVE  Waits(c, read[m].job)'
    BY <1>11 DEF CancelInv
  <2>1. m \in 1..Len(read) /\ read'[m] = read[m] BY <1>1, <1>11
  <2>2. c # n BY <1>1
  <2>3. c \in (m + 1)..Len(read) /\ read'[c] = read[c] BY <1>1, <2>1, <2>2
  <2>4. Waits(c, read[m].job) BY <2>1, <2>3 DEF CancelInv
  <2> QED BY <1>2, <2>1, <2>4 DEF Waits
<1>14. AnswerInv'
  <2> SUFFICES ASSUME NEW m \in 1..Len(read') PROVE Accounted(m)' BY DEF AnswerInv
  <2>1. CASE m = n BY <1>1, <1>2, <2>1 DEF Accounted
  <2>2. CASE m \in 1..Len(read)
    <3>1. Accounted(m) /\ ~Queued(m) BY <1>1, <2>2 DEF AnswerInv, Queued
    <3>2. Replied(m) \/ Waits(m, read[m].job) BY <1>1, <3>1 DEF Accounted
    <3> QED BY <1>1, <1>2, <2>2, <3>2 DEF Accounted, Replied, Waits
  <2> QED BY <1>1, <2>1, <2>2
<1>15. HandlerInv' BY <1>1, <1>2 DEF HandlerInv
<1>16. CompletedInv' BY <1>1, <1>2 DEF CompletedInv, HandlerInv
<1> QED BY <1>6, <1>7, <1>8, <1>9, <1>10, <1>12, <1>13, <1>14, <1>15, <1>16

\* A job ID that is still active ends the session.
LEMMA StartDuplicateInv == ASSUME IndInv, NEW j \in Jobs, StartDuplicate(j) PROVE IndInv'
<1> USE DEF IndInv
<1>0. PICK n : n = NextMessage OBVIOUS
<1>1. /\ read' \in Seq([kind : Kinds, job : Jobs \cup {NoJob}])
      /\ Len(read) \in Nat /\ Len(read') = Len(read) + 1
      /\ n = Len(read') /\ Len(read') <= MaxHostMessages
      /\ \A i \in 1..Len(read) : i \in 1..Len(read') /\ read'[i] = read[i]
      /\ \A i \in 1..Len(read') : i \in 1..Len(read) \/ i = n
      /\ read'[n] = [kind |-> "StartJob", job |-> j]
      /\ handler = "select" /\ outbox = <<>>
  BY <1>0, TakeAppends DEF StartDuplicate, Kinds
<1>2. /\ handler' = "returned" /\ subject' = 0 /\ outbox' = <<>> /\ result' = "Err"
      /\ UNCHANGED <<active, task, token, context, wire, consumed, open, answered>>
  BY DEF StartDuplicate, Return, jobVars, wireVars
<1>3. TypeOK' BY <1>1, <1>2 DEF TypeOK
<1>4. WireInv' /\ AnsweredOnce' BY <1>1, <1>2 DEF WireInv, AnsweredOnce, Fits
<1>5. OutboxInv' BY <1>2 DEF OutboxInv
<1>6. ActiveInv'
  <2>1. \A x, c : Sent(x, c)' <=> Sent(x, c) BY <1>2 DEF Sent
  <2>2. \A e : ~InOutbox(e)' BY <1>2 DEF InOutbox
  <2>3. ASSUME NEW i \in DOMAIN active PROVE JobInv(i)'
    <3>1. JobInv(i) BY DEF ActiveInv
    <3> QED BY <1>1, <1>2, <2>1, <2>2, <3>1, JobKept
  <2> QED BY <1>2, <2>3 DEF ActiveInv
<1>7. TaskInv' BY <1>2 DEF TaskInv, Sent
<1>8. Unjoined' = Unjoined /\ \A m \in Unjoined : m \in 1..Len(read)
  BY <1>2, Started DEF Unjoined
<1>9. JoinSetInv' BY <1>2 DEF JoinSetInv
<1>10. CancelInv'
  <2> SUFFICES ASSUME NEW m \in Unjoined, NEW c \in (m + 1)..Len(read'),
                      read'[c] = [kind |-> "CancelJob", job |-> read'[m].job]
               PROVE  Waits(c, read[m].job)'
    BY <1>8 DEF CancelInv
  <2>1. m \in 1..Len(read) /\ read'[m] = read[m] BY <1>1, <1>8
  <2>2. c # n BY <1>1
  <2>3. c \in (m + 1)..Len(read) /\ read'[c] = read[c] BY <1>1, <2>1, <2>2
  <2>4. Waits(c, read[m].job) BY <2>1, <2>3 DEF CancelInv
  <2> QED BY <1>2, <2>1, <2>4 DEF Waits
<1>11. AnswerInv' BY <1>2 DEF AnswerInv
<1>12. HandlerInv' BY <1>1, <1>2 DEF HandlerInv
<1>13. CompletedInv' BY <1>1, <1>2 DEF CompletedInv
<1> QED BY <1>3, <1>4, <1>5, <1>6, <1>7, <1>9, <1>10, <1>11, <1>12, <1>13

\* The envelopes that settle a job.
LEMMA SettleSends ==
    ASSUME IndInv, NEW m \in Messages, Settle(m)
    PROVE  LET j == read[m].job
               s == active[j].cancellations
           IN  /\ m \in 1..Len(read) /\ j \in DOMAIN active /\ active[j].trace = m /\ JobInv(j)
               /\ s \in Seq(Messages) /\ Len(s) \in Nat
               /\ outbox' \in Seq(Envelopes) /\ outbox' # <<>> /\ Len(outbox') \in Nat
               /\ \/ s = <<>> /\ outbox' = <<Reply("JobUpdate", m)>>
                  \/ /\ Len(outbox') = Len(s)
                     /\ \A p \in 1..Len(s) :
                           outbox'[p] = Reply("CancelJobAcknowledged", s[p])
<1> USE DEF IndInv
<1> DEFINE j == read[m].job
           s == active[j].cancellations
<1>1. handler = "select" /\ task[m] = "finished" BY DEF Settle
<1>2. m \in Unjoined /\ m \in 1..Len(read) BY <1>1, Started DEF Unjoined
<1>3. j \in DOMAIN active /\ active[j].trace = m BY <1>1, <1>2 DEF JoinSetInv
<1>4. JobInv(j) BY <1>3 DEF ActiveInv
<1>5. active[j] \in ActiveJobs BY <1>3 DEF TypeOK
<1>6. s \in Seq(Messages) BY <1>5 DEF ActiveJobs
<1>7. outbox' = IF s = <<>> THEN <<Reply("JobUpdate", m)>> ELSE Acknowledgements(s)
  BY <1>3 DEF Settle, StartSending
<1> HIDE DEF s
<1>8. CASE s = <<>>
  <2>1. Reply("JobUpdate", m) \in Envelopes BY DEF Reply, Envelopes, Replies
  <2> QED BY <1>2, <1>3, <1>4, <1>6, <1>7, <1>8, <2>1 DEF s
<1>9. CASE s # <<>>
  <2>1. outbox' = Acknowledgements(s) BY <1>7, <1>9
  <2>2. Len(s) \in Nat /\ Len(s) # 0 BY <1>6, <1>9
  <2>3. \A p \in 1..Len(s) : s[p] \in Messages BY <1>6
  <2>4. \A p \in 1..Len(s) : Reply("CancelJobAcknowledged", s[p]) \in Envelopes
    BY <2>3 DEF Reply, Envelopes, Replies
  <2>5. outbox' = [p \in 1..Len(s) |-> Reply("CancelJobAcknowledged", s[p])]
    BY <2>1 DEF Acknowledgements
  <2>6. outbox' \in Seq(Envelopes) /\ Len(outbox') = Len(s)
    BY <2>2, <2>4, <2>5
  <2>7. outbox' # <<>> BY <2>2, <2>6
  <2>8. \A p \in 1..Len(s) : outbox'[p] = Reply("CancelJobAcknowledged", s[p])
    BY <2>5
  <2> QED BY <1>2, <1>3, <1>4, <1>6, <2>2, <2>6, <2>7, <2>8 DEF s
<1> QED BY <1>8, <1>9

\* A job is settled: what waited for its end is about to be sent.
LEMMA SettleInv == ASSUME IndInv, NEW m \in Messages, Settle(m) PROVE IndInv'
<1> USE DEF IndInv
<1>0. PICK j, s : j = read[m].job /\ s = active[j].cancellations OBVIOUS
<1>1. /\ m \in 1..Len(read) /\ j \in DOMAIN active /\ active[j].trace = m /\ JobInv(j)
      /\ s \in Seq(Messages) /\ Len(s) \in Nat
      /\ outbox' \in Seq(Envelopes) /\ outbox' # <<>> /\ Len(outbox') \in Nat
      /\ \/ s = <<>> /\ outbox' = <<Reply("JobUpdate", m)>>
         \/ /\ Len(outbox') = Len(s)
            /\ \A p \in 1..Len(s) : outbox'[p] = Reply("CancelJobAcknowledged", s[p])
  BY <1>0, SettleSends
<1>2. /\ handler = "select" /\ handler' = "settle" /\ subject' = m /\ task[m] = "finished"
      /\ task' = [task EXCEPT ![m] = "joined"]
      /\ active' = [active EXCEPT ![j].cancellations = <<>>]
      /\ UNCHANGED <<read, token, context, wire, consumed, open, answered, result>>
  BY <1>0 DEF Settle, StartSending, wireVars
<1>3. outbox = <<>> BY <1>2 DEF HandlerInv
<1>4. active[j] \in ActiveJobs BY <1>1 DEF TypeOK
<1>5. /\ DOMAIN active' = DOMAIN active
      /\ active'[j] = [active[j] EXCEPT !.cancellations = <<>>]
      /\ \A i \in DOMAIN active : i # j => active'[i] = active[i]
  BY <1>1, <1>2
<1>6. /\ active'[j] \in ActiveJobs /\ active'[j].trace = m /\ active'[j].cancellations = <<>>
  <2>1. <<>> \in Seq(Messages) OBVIOUS
  <2> QED BY <1>1, <1>4, <1>5, <2>1 DEF ActiveJobs
<1>7. /\ task' \in [Messages -> {"none", "running", "aborted", "finished", "lost", "joined"}]
      /\ task'[m] = "joined" /\ \A n \in Messages : n # m => task'[n] = task[n]
  BY <1>2 DEF TypeOK
<1>8. TypeOK'
  <2>1. DOMAIN active' \subseteq Jobs /\ \A i \in DOMAIN active' : active'[i] \in ActiveJobs
    BY <1>5, <1>6 DEF TypeOK
  <2> QED BY <1>1, <1>2, <1>7, <2>1 DEF TypeOK
<1>9. WireInv' /\ AnsweredOnce' BY <1>2 DEF WireInv, AnsweredOnce, Fits
<1>10. /\ \A i \in 1..Len(s) : /\ s[i] \in 1..Len(read) /\ s[i] > m
                               /\ read[s[i]] = [kind |-> "CancelJob", job |-> j]
                               /\ ~Sent("CancelJobAcknowledged", s[i])
      /\ \A i, k \in 1..Len(s) : i # k => s[i] # s[k]
  <2>1. Len(read) \in Nat BY Types
  <2>2. \A i \in 1..Len(s) : /\ s[i] \in (m + 1)..Len(read)
                             /\ read[s[i]] = [kind |-> "CancelJob", job |-> j]
                             /\ ~Sent("CancelJobAcknowledged", s[i])
    BY <1>0, <1>1 DEF JobInv
  <2>3. \A i, k \in 1..Len(s) : i # k => s[i] # s[k] BY <1>0, <1>1 DEF JobInv
  <2>4. \A i \in 1..Len(s) : s[i] \in 1..Len(read) /\ s[i] > m BY <1>1, <2>1, <2>2
  <2> QED BY <2>2, <2>3, <2>4
<1>11. /\ \A p \in 1..Len(outbox') :
             /\ \/ outbox'[p] = Reply("JobUpdate", m)
                \/ /\ p \in 1..Len(s) /\ outbox'[p] = Reply("CancelJobAcknowledged", s[p])
                   /\ outbox'[p].kind = "CancelJobAcknowledged"
             /\ outbox'[p].kind \in Replies /\ outbox'[p].re \in 1..Len(read)
             /\ read[outbox'[p].re].kind = Question(outbox'[p].kind)
             /\ \A i \in 1..Len(wire) : wire[i] # outbox'[p]
       /\ \A p, q \in 1..Len(outbox') : p # q => outbox'[p] # outbox'[q]
       /\ \A i \in 1..Len(s) : i \in 1..Len(outbox') /\ outbox'[i].re = s[i]
  <2>1. CASE s = <<>> /\ outbox' = <<Reply("JobUpdate", m)>>
    <3>1. /\ Len(outbox') = 1 /\ outbox'[1] = Reply("JobUpdate", m) /\ Len(s) = 0
          /\ outbox'[1].kind = "JobUpdate" /\ outbox'[1].re = m
      BY <2>1 DEF Reply
    <3>2. read[m].kind = Question("JobUpdate") BY <1>2, Started DEF Question
    <3>3. ~Sent("JobUpdate", m) BY <1>2 DEF TaskInv
    <3>4. \A i \in 1..Len(wire) : wire[i] # outbox'[1] BY <3>1, <3>3 DEF Sent
    <3> QED BY <1>1, <3>1, <3>2, <3>4 DEF Replies
  <2>2. CASE /\ Len(outbox') = Len(s)
             /\ \A p \in 1..Len(s) : outbox'[p] = Reply("CancelJobAcknowledged", s[p])
    <3>1. \A p \in 1..Len(s) : outbox'[p].kind = "CancelJobAcknowledged" /\ outbox'[p].re = s[p]
      BY <2>2, ReplyFields
    <3>2. \A p \in 1..Len(s) : read[s[p]].kind = Question("CancelJobAcknowledged")
      BY <1>10 DEF Question
    <3>3. \A p \in 1..Len(s) : \A i \in 1..Len(wire) : wire[i] # outbox'[p]
      BY <1>10, <2>2 DEF Sent
    <3>4. \A p, q \in 1..Len(s) : p # q => outbox'[p] # outbox'[q] BY <1>10, <3>1
    <3> QED BY <1>10, <2>2, <3>1, <3>2, <3>3, <3>4 DEF Replies
  <2> QED BY <1>1, <2>1, <2>2
<1>12. OutboxInv' BY <1>2, <1>11 DEF OutboxInv, Fits
<1>13. ActiveInv'
  <2>1. \A x, c : Sent(x, c)' <=> Sent(x, c) BY <1>2 DEF Sent
  <2>2. ASSUME NEW i \in DOMAIN active, i # j PROVE JobInv(i)'
    <3>1. JobInv(i) /\ active'[i] = active[i] BY <1>5, <2>2 DEF ActiveInv
    <3>2. PICK u, q : u = active[i].trace /\ q = active[i].cancellations OBVIOUS
    <3>3. ASSUME NEW k \in 1..Len(q) PROVE ~InOutbox(Reply("CancelJobAcknowledged", q[k]))'
      <4> SUFFICES ASSUME NEW p \in 1..Len(outbox'),
                          outbox'[p] = Reply("CancelJobAcknowledged", q[k])
                   PROVE  FALSE
        BY DEF InOutbox, Reply
      <4>1. read[q[k]] = [kind |-> "CancelJob", job |-> i] BY <3>1, <3>2 DEF JobInv
      <4>2. outbox'[p].kind = "CancelJobAcknowledged" /\ outbox'[p].re = q[k] BY DEF Reply
      <4>3. p \in 1..Len(s) /\ outbox'[p].re = s[p] BY <1>11, <4>2, ReplyFields
      <4> QED BY <1>10, <2>2, <4>1, <4>2, <4>3
    <3>4. /\ u \in 1..Len(read) /\ read[u] = [kind |-> "StartJob", job |-> i]
          /\ \A k \in 1..Len(q) : /\ q[k] \in (u + 1)..Len(read)
                                   /\ read[q[k]] = [kind |-> "CancelJob", job |-> i]
                                   /\ ~Sent("CancelJobAcknowledged", q[k])
          /\ \A k, l \in 1..Len(q) : k # l => q[k] # q[l]
      BY <3>1, <3>2 DEF JobInv
    <3>5. read' = read /\ active'[i].trace = u /\ active'[i].cancellations = q
      BY <1>2, <3>1, <3>2
    <3>6. \A k \in 1..Len(q) : /\ q[k] \in (u + 1)..Len(read')
                               /\ read'[q[k]] = [kind |-> "CancelJob", job |-> i]
                               /\ ~Sent("CancelJobAcknowledged", q[k])'
                               /\ ~InOutbox(Reply("CancelJobAcknowledged", q[k]))'
      BY ONLY <2>1, <3>3, <3>4, <3>5
    <3>7. /\ u \in 1..Len(read') /\ read'[u] = [kind |-> "StartJob", job |-> i]
          /\ \A k, l \in 1..Len(q) : k # l => q[k] # q[l]
      BY ONLY <3>4, <3>5
    <3>8. JobParts(i, u, q)' BY ONLY <3>6, <3>7 DEF JobParts
    <3> QED BY ONLY <3>5, <3>8, JobAfter
  <2>3. JobInv(j)'
    <3>1. 1..Len(active'[j].cancellations) = {} BY <1>6
    <3>2. read[m] = [kind |-> "StartJob", job |-> j] BY <1>1 DEF JobInv
    <3> QED BY <1>1, <1>2, <1>6, <3>1, <3>2 DEF JobInv
  <2> QED BY <1>5, <2>2, <2>3 DEF ActiveInv
<1>14. TaskInv'
  <2>1. \A x, c : Sent(x, c)' <=> Sent(x, c) BY <1>2 DEF Sent
  <2>2. token[m] # "ACTIVE" BY <1>2 DEF TaskInv
  <2>3. ASSUME NEW n \in Messages
        PROVE  /\ task'[n] # "none" <=> Sent("JobAccepted", n)'
               /\ task'[n] \in {"finished", "lost", "joined"} => token'[n] # "ACTIVE"
               /\ Sent("JobUpdate", n)' => task'[n] = "joined"
    <3>1. CASE n = m BY <1>2, <1>7, <2>1, <2>2, <3>1 DEF TaskInv
    <3>2. CASE n # m BY <1>2, <1>7, <2>1, <3>2 DEF TaskInv
    <3> QED BY <3>1, <3>2
  <2> QED BY <2>3 DEF TaskInv
<1>15. Unjoined' = Unjoined \ {m} BY <1>7 DEF Unjoined
<1>16. JoinSetInv'
  <2>1. ASSUME NEW n \in Unjoined'
        PROVE  read'[n].job \in DOMAIN active' /\ active'[read'[n].job].trace = n
    BY <1>2, <1>5, <1>6, <1>15, <2>1 DEF JoinSetInv
  <2>2. ASSUME NEW i \in DOMAIN active'
        PROVE  active'[i].trace \in Unjoined' \/ (handler' = "settle" /\ active'[i].trace = subject')
    <3>1. CASE i = j BY <1>2, <1>6, <3>1
    <3>2. CASE i # j
      <4>1. active'[i].trace = active[i].trace /\ active[i].trace \in Unjoined
        BY <1>2, <1>5, <3>2 DEF JoinSetInv
      <4>2. JobInv(i) BY <1>5 DEF ActiveInv
      <4>3. active[i].trace # m BY <1>0, <3>2, <4>2 DEF JobInv
      <4> QED BY <1>15, <4>1, <4>3
    <3> QED BY <3>1, <3>2
  <2> QED BY <1>2, <2>1, <2>2 DEF JoinSetInv
<1>17. \A i, c : i # j /\ Waits(c, i) => Waits(c, i)' BY <1>5 DEF Waits
<1>18. CancelInv'
  <2> SUFFICES ASSUME NEW n \in Unjoined, n # m, NEW c \in (n + 1)..Len(read),
                      read[c] = [kind |-> "CancelJob", job |-> read[n].job]
               PROVE  Waits(c, read[n].job)'
    BY <1>2, <1>15 DEF CancelInv
  <2>1. read[n].job # j BY <1>1, <1>2 DEF JoinSetInv
  <2>2. Waits(c, read[n].job) BY DEF CancelInv
  <2> QED BY <1>2, <1>17, <2>1, <2>2
<1>19. AnswerInv'
  <2> SUFFICES ASSUME NEW n \in 1..Len(read) PROVE Accounted(n)' BY <1>2 DEF AnswerInv
  <2>1. Accounted(n) /\ ~Queued(n) BY <1>2, <1>3 DEF AnswerInv, Queued
  <2>2. CASE Replied(n) BY <1>2, <2>2 DEF Accounted, Replied
  <2>3. CASE Waits(n, read[n].job) /\ read[n].job # j BY <1>2, <1>17, <2>3 DEF Accounted
  <2>4. CASE Waits(n, j)
    <3>1. PICK i \in 1..Len(s) : s[i] = n BY <1>0, <2>4 DEF Waits
    <3> QED BY <1>11, <3>1 DEF Accounted, Queued
  <2> QED BY <1>2, <2>1, <2>2, <2>3, <2>4 DEF Accounted
<1>20. HandlerInv'
  <2>1. result = "none" /\ ~\E i \in 1..Len(wire) : wire[i].kind = "ShutdownAcknowledged"
    BY <1>2 DEF HandlerInv
  <2> QED BY <1>0, <1>1, <1>2, <1>5, <1>6, <1>7, <1>11, <2>1 DEF HandlerInv
<1>21. CompletedInv' BY <1>2 DEF CompletedInv, HandlerInv
<1> QED BY <1>8, <1>9, <1>12, <1>13, <1>14, <1>16, <1>18, <1>19, <1>20, <1>21

\* What every send of the loop does to the channel.
LEMMA SendHeadFacts ==
    ASSUME IndInv, SendHead, NEW e, e = Head(outbox)
    PROVE  /\ e \in Envelopes /\ e.kind \in Replies /\ Fits(e)
           /\ Len(outbox) \in Nat /\ 1 \in 1..Len(outbox) /\ e = outbox[1] /\ wire' = Append(wire, e)
           /\ UNCHANGED <<consumed, open, read, answered, result>>
           /\ wire' \in Seq(Envelopes) /\ consumed \in 0..Len(wire')
           /\ answered \subseteq 1..Len(wire')
           /\ WireInv' /\ AnsweredOnce'
           /\ \A k, m : Sent(k, m)' <=> Sent(k, m) \/ e = Reply(k, m)
           /\ \A k, m : e = Reply(k, m) => ~Sent(k, m)
           /\ \A m : Replied(m) => Replied(m)'
           /\ Replied(e.re)'
           /\ (\E i \in 1..Len(wire') : wire'[i].kind = "ShutdownAcknowledged")
                 <=> e.kind = "ShutdownAcknowledged"
           /\ result = "none" /\ handler \notin {"select", "join", "consume", "close", "returned"}
           /\ \A i \in 1..Len(wire') : \A p \in 1..Len(outbox) : wire'[i] = outbox[p] => p = 1
<1> USE DEF IndInv
<1>1. /\ outbox # <<>> /\ wire' = Append(wire, Head(outbox))
      /\ UNCHANGED <<consumed, open, read, answered, result>>
  BY DEF SendHead
<1>2. outbox \in Seq(Envelopes) BY DEF TypeOK
<1>3. /\ Len(outbox) \in Nat /\ 1 \in 1..Len(outbox) /\ e = outbox[1]
  BY <1>1, <1>2
<1>4. /\ e.kind \in Replies /\ Fits(e) /\ e \in Envelopes /\ \A i \in 1..Len(wire) : wire[i] # e
  BY <1>2, <1>3 DEF OutboxInv
<1>5. /\ wire' \in Seq(Envelopes) /\ Len(wire') = Len(wire) + 1 /\ Len(wire) \in Nat
      /\ \A i \in 1..Len(wire) : i \in 1..Len(wire') /\ wire'[i] = wire[i]
      /\ Len(wire') \in 1..Len(wire') /\ wire'[Len(wire')] = e
      /\ \A i \in 1..Len(wire') : i \in 1..Len(wire) \/ (i = Len(wire') /\ i \notin 1..Len(wire))
      /\ \A k, m : Sent(k, m)' <=> Sent(k, m) \/ e = Reply(k, m)
      /\ \A m : Replied(m) => Replied(m)'
      /\ Replied(e.re)'
  BY <1>1, <1>4, WireAppend
<1>6. consumed \in 0..Len(wire') /\ answered \subseteq 1..Len(wire') BY <1>5 DEF TypeOK
<1>7. /\ result = "none" /\ handler \notin {"select", "join", "consume", "close", "returned"}
      /\ ~\E i \in 1..Len(wire) : wire[i].kind = "ShutdownAcknowledged"
  BY <1>1 DEF HandlerInv
<1>8. WireInv'
  <2>1. \A i \in 1..Len(wire') : wire'[i].kind \in Replies => Fits(wire'[i])
    BY <1>4, <1>5 DEF WireInv
  <2>2. \A x : Fits(x)' <=> Fits(x) BY <1>1 DEF Fits
  <2>3. \A i, k \in 1..Len(wire') : i < k => wire'[i].kind # "ShutdownAcknowledged"
    <3> TAKE i, k \in 1..Len(wire')
    <3> HAVE i < k
    <3>1. i \in 1..Len(wire) BY <1>5
    <3> QED BY <1>5, <1>7, <3>1
  <2>4. \A i \in 1..Len(wire') : wire'[i].kind \in Replies => Fits(wire[i])'
    BY <1>1, <2>1 DEF Fits
  <2> QED BY <2>3, <2>4 DEF WireInv
<1>9. AnsweredOnce'
  <2> SUFFICES ASSUME NEW i \in 1..Len(wire'), NEW l \in 1..Len(wire'),
                      i # l, wire'[i] = wire'[l], wire'[i].kind \notin Emissions
               PROVE  FALSE
    BY DEF AnsweredOnce
  <2>1. i \in 1..Len(wire) /\ l \in 1..Len(wire) BY <1>4, <1>5
  <2> QED BY <1>5, <2>1 DEF AnsweredOnce
<1>10. \A k, m : e = Reply(k, m) => ~Sent(k, m) BY <1>4 DEF Sent
<1>11. (\E i \in 1..Len(wire') : wire'[i].kind = "ShutdownAcknowledged")
          <=> e.kind = "ShutdownAcknowledged"
  BY <1>5, <1>7
<1>12. \A i \in 1..Len(wire') : \A p \in 1..Len(outbox) : wire'[i] = outbox[p] => p = 1
  <2> TAKE i \in 1..Len(wire')
  <2> TAKE p \in 1..Len(outbox)
  <2> HAVE wire'[i] = outbox[p]
  <2>1. i \notin 1..Len(wire) BY <1>5 DEF OutboxInv
  <2>2. outbox[p] = outbox[1] BY <1>3, <1>5, <2>1
  <2> QED BY <1>3, <2>2 DEF OutboxInv
<1> QED BY <1>1, <1>3, <1>4, <1>5, <1>6, <1>7, <1>8, <1>9, <1>10, <1>11, <1>12

\* What a send leaves of the active jobs and of their cancellations.
LEMMA SendKeepsJob ==
    ASSUME IndInv, SendHead, NEW j \in DOMAIN active, active'[j] = active[j],
           \A p \in 1..Len(outbox') :
              outbox'[p].kind = "CancelJobAcknowledged" => InOutbox(outbox'[p])
    PROVE  JobInv(j)'
<1> USE DEF IndInv
<1>0. PICK e : e = Head(outbox) OBVIOUS
<1>1. /\ e = outbox[1] /\ 1 \in 1..Len(outbox) /\ UNCHANGED read
      /\ \A k, m : Sent(k, m)' <=> Sent(k, m) \/ e = Reply(k, m)
  BY <1>0, SendHeadFacts
<1>2. JobInv(j) /\ Len(read) \in Nat BY Types DEF ActiveInv
<1>3. ASSUME NEW c \in 1..Len(read),
             ~Sent("CancelJobAcknowledged", c), ~InOutbox(Reply("CancelJobAcknowledged", c))
      PROVE  ~Sent("CancelJobAcknowledged", c)' /\ ~InOutbox(Reply("CancelJobAcknowledged", c))'
  <2>1. ~Sent("CancelJobAcknowledged", c)' BY <1>1, <1>3 DEF InOutbox
  <2>2. ASSUME NEW p \in 1..Len(outbox'), outbox'[p] = Reply("CancelJobAcknowledged", c)
        PROVE  FALSE
    <3>1. outbox'[p].kind = "CancelJobAcknowledged" BY <2>2, ReplyFields
    <3> QED BY <1>3, <2>2, <3>1
  <2>3. ~InOutbox(Reply("CancelJobAcknowledged", c))' BY <2>2 DEF InOutbox, Reply
  <2> QED BY <2>1, <2>3
<1> QED BY <1>1, <1>2, <1>3, JobKept

\* More envelopes follow.
LEMMA SendMoreInv == ASSUME IndInv, SendMore PROVE IndInv'
<1> USE DEF IndInv
<1>0. PICK e : e = Head(outbox) OBVIOUS
<1>1. /\ SendHead /\ Len(outbox) > 1 /\ outbox' = Tail(outbox)
      /\ UNCHANGED <<handler, subject, active, task, token, context>>
  BY DEF SendMore, jobVars
<1>2. /\ e \in Envelopes /\ e.kind \in Replies /\ Fits(e)
      /\ Len(outbox) \in Nat /\ 1 \in 1..Len(outbox) /\ e = outbox[1]
      /\ UNCHANGED <<consumed, open, read, answered, result>>
      /\ wire' \in Seq(Envelopes) /\ consumed \in 0..Len(wire')
      /\ answered \subseteq 1..Len(wire')
      /\ WireInv' /\ AnsweredOnce'
      /\ \A k, m : Sent(k, m)' <=> Sent(k, m) \/ e = Reply(k, m)
      /\ \A m : Replied(m) => Replied(m)'
      /\ Replied(e.re)'
      /\ (\E i \in 1..Len(wire') : wire'[i].kind = "ShutdownAcknowledged")
                 <=> e.kind = "ShutdownAcknowledged"
      /\ result = "none" /\ handler \notin {"select", "join", "consume", "close", "returned"}
      /\ \A i \in 1..Len(wire') : \A p \in 1..Len(outbox) : wire'[i] = outbox[p] => p = 1
  BY <1>0, <1>1, SendHeadFacts
<1>3. handler \in {"settle", "drain"}
  BY <1>1, <1>2 DEF HandlerInv, TypeOK
<1>4. /\ outbox' \in Seq(Envelopes) /\ outbox' # <<>> /\ Len(outbox') = Len(outbox) - 1
      /\ \A p \in 1..Len(outbox') : p + 1 \in 1..Len(outbox) /\ outbox'[p] = outbox[p + 1]
      /\ \A p \in 1..Len(outbox) : p # 1 => p - 1 \in 1..Len(outbox') /\ outbox'[p - 1] = outbox[p]
  <2>1. outbox \in Seq(Envelopes) /\ outbox # <<>> BY <1>1, <1>2 DEF TypeOK, SendHead
  <2>2. /\ outbox' \in Seq(Envelopes) /\ Len(outbox') = Len(outbox) - 1
        /\ \A p \in 1..Len(outbox') : outbox'[p] = outbox[p + 1]
    BY <1>1, <2>1
  <2>3. outbox' # <<>>
    <3>1. Len(outbox') # 0 BY <1>1, <1>2, <2>2
    <3> QED BY ONLY <3>1
  <2>4. \A p \in 1..Len(outbox') : p + 1 \in 1..Len(outbox) BY <1>2, <2>2
  <2>5. \A p \in 1..Len(outbox) : p # 1 => p - 1 \in 1..Len(outbox') BY <1>2, <2>2
  <2>6. \A p \in 1..Len(outbox) : p # 1 => outbox'[p - 1] = outbox[p]
    <3> TAKE p \in 1..Len(outbox)
    <3> HAVE p # 1
    <3>1. p - 1 \in 1..Len(outbox') /\ (p - 1) + 1 = p BY <2>5
    <3> QED BY <2>2, <3>1
  <2> QED BY <2>2, <2>3, <2>4, <2>5, <2>6
<1>5. TypeOK' BY <1>1, <1>2, <1>4 DEF TypeOK
<1>6. OutboxInv'
  <2>1. \A x : Fits(x)' <=> Fits(x) BY <1>2 DEF Fits
  <2>2. ASSUME NEW p \in 1..Len(outbox')
        PROVE  /\ outbox'[p].kind \in Replies /\ Fits(outbox'[p])
               /\ \A i \in 1..Len(wire') : wire'[i] # outbox'[p]
    <3>1. p + 1 \in 1..Len(outbox) /\ outbox'[p] = outbox[p + 1] /\ p + 1 # 1 BY <1>4
    <3> QED BY <1>2, <3>1 DEF OutboxInv
  <2>3. ASSUME NEW p \in 1..Len(outbox'), NEW q \in 1..Len(outbox'), p # q
        PROVE  outbox'[p] # outbox'[q]
    <3>1. /\ p + 1 \in 1..Len(outbox) /\ outbox'[p] = outbox[p + 1]
          /\ q + 1 \in 1..Len(outbox) /\ outbox'[q] = outbox[q + 1]
          /\ p + 1 # q + 1
      BY <1>4, <2>3
    <3> QED BY <3>1 DEF OutboxInv
  <2>4. \A p \in 1..Len(outbox') : Fits(outbox[p])' BY <1>2, <2>2 DEF Fits
  <2> QED BY <2>2, <2>3, <2>4 DEF OutboxInv
<1>7. ActiveInv'
  <2>1. \A p \in 1..Len(outbox') : InOutbox(outbox'[p]) BY <1>4 DEF InOutbox
  <2> QED BY <1>1, <2>1, SendKeepsJob DEF ActiveInv
<1>8. e.kind # "JobAccepted" /\ (e = Reply("JobUpdate", subject) \/ e.kind # "JobUpdate")
      /\ e.kind # "ShutdownAcknowledged"
  BY <1>2, <1>3, ReplyFields DEF HandlerInv
<1>9. TaskInv'
  <2>1. \A m : /\ Sent("JobAccepted", m)' <=> Sent("JobAccepted", m)
               /\ Sent("JobUpdate", m)' => Sent("JobUpdate", m) \/ m = subject
    BY <1>2, <1>8, ReplyFields
  <2>2. e = Reply("JobUpdate", subject) => task[subject] = "joined"
    <3>1. CASE handler = "settle" BY <3>1 DEF HandlerInv
    <3>2. CASE handler = "drain"
      <4>1. e.kind = "CancelJobAcknowledged" BY <1>2, <3>2 DEF HandlerInv
      <4> QED BY <4>1, ReplyFields
    <3> QED BY <1>3, <3>1, <3>2
  <2>3. \A m : Sent("JobUpdate", m)' => Sent("JobUpdate", m) \/ task[m] = "joined"
    BY <1>2, <2>1, <2>2, <1>8, ReplyFields
  <2> QED BY <1>1, <2>1, <2>3 DEF TaskInv
<1>10. JoinSetInv' BY <1>1, <1>2 DEF JoinSetInv, Unjoined
<1>11. CancelInv'
  <2>1. Unjoined' = Unjoined BY <1>1 DEF Unjoined
  <2>2. \A c, j : Waits(c, j)' <=> Waits(c, j) BY <1>1 DEF Waits
  <2> QED BY <1>2, <2>1, <2>2 DEF CancelInv
<1>12. AnswerInv'
  <2> SUFFICES ASSUME NEW m \in 1..Len(read) PROVE Accounted(m)' BY <1>2 DEF AnswerInv
  <2>1. Accounted(m) BY <1>2 DEF AnswerInv
  <2>2. CASE Replied(m) BY <1>2, <2>2 DEF Accounted
  <2>3. CASE Queued(m)
    <3>1. PICK p \in 1..Len(outbox) : outbox[p].re = m BY <2>3 DEF Queued
    <3>2. CASE p = 1 BY <1>2, <3>1, <3>2 DEF Accounted
    <3>3. CASE p # 1
      <4>1. p - 1 \in 1..Len(outbox') /\ outbox'[p - 1].re = m BY <1>4, <3>1, <3>3
      <4> QED BY <4>1 DEF Accounted, Queued
    <3> QED BY <3>2, <3>3
  <2>4. CASE Waits(m, read[m].job) \/ (handler \in {"join", "drain"} /\ m = Len(read))
    BY <1>1, <1>2, <2>4 DEF Accounted, Waits
  <2> QED BY <2>1, <2>2, <2>3, <2>4 DEF Accounted
<1>13. HandlerInv'
  <2>1. \A p \in 1..Len(outbox') : \E q \in 1..Len(outbox) : outbox'[p] = outbox[q] BY <1>4
  <2> QED BY <1>1, <1>2, <1>3, <1>4, <1>8, <2>1 DEF HandlerInv
<1>14. CompletedInv' BY <1>1, <1>2 DEF CompletedInv
<1> QED BY <1>2, <1>5, <1>6, <1>7, <1>9, <1>10, <1>11, <1>12, <1>13, <1>14

\* The loop has answered at once and is back in `select!`.
LEMMA FinishReplyInv == ASSUME IndInv, FinishReply PROVE IndInv'
<1> USE DEF IndInv
<1>0. PICK e : e = Head(outbox) OBVIOUS
<1>1. /\ SendHead /\ Len(outbox) = 1 /\ handler = "reply"
      /\ handler' = "select" /\ subject' = 0 /\ outbox' = <<>>
      /\ UNCHANGED <<active, task, token, context>>
  BY DEF FinishReply, SendLast, jobVars
<1>2. /\ e \in Envelopes /\ e.kind \in Replies /\ 1 \in 1..Len(outbox) /\ e = outbox[1]
      /\ UNCHANGED <<consumed, open, read, answered, result>>
      /\ wire' \in Seq(Envelopes) /\ consumed \in 0..Len(wire')
      /\ answered \subseteq 1..Len(wire')
      /\ WireInv' /\ AnsweredOnce'
      /\ \A k, m : Sent(k, m)' <=> Sent(k, m) \/ e = Reply(k, m)
      /\ \A m : Replied(m) => Replied(m)'
      /\ Replied(e.re)'
      /\ (\E i \in 1..Len(wire') : wire'[i].kind = "ShutdownAcknowledged")
                 <=> e.kind = "ShutdownAcknowledged"
      /\ result = "none"
  BY <1>0, <1>1, SendHeadFacts
<1>3. TypeOK' BY <1>1, <1>2 DEF TypeOK
<1>4. OutboxInv' BY <1>1 DEF OutboxInv
<1>5. ActiveInv'
  <2>1. 1..Len(outbox') = {} BY <1>1
  <2> QED BY <1>1, <2>1, SendKeepsJob DEF ActiveInv
<1>6. e.kind \in {"ProtocolError", "CancelJobAcknowledged", "Heartbeat"}
  BY <1>1, <1>2 DEF HandlerInv
<1>7. TaskInv'
  <2>1. \A m : /\ Sent("JobAccepted", m)' <=> Sent("JobAccepted", m)
               /\ Sent("JobUpdate", m)' <=> Sent("JobUpdate", m)
    BY <1>2, <1>6, ReplyFields
  <2> QED BY <1>1, <2>1 DEF TaskInv
<1>8. JoinSetInv' BY <1>1, <1>2 DEF JoinSetInv, Unjoined
<1>9. CancelInv' BY <1>1, <1>2 DEF CancelInv, Unjoined, Waits
<1>10. AnswerInv'
  <2> SUFFICES ASSUME NEW m \in 1..Len(read) PROVE Accounted(m)' BY <1>2 DEF AnswerInv
  <2>1. Accounted(m) BY <1>1 DEF AnswerInv
  <2>2. Queued(m) => m = e.re BY <1>1, <1>2 DEF Queued
  <2>3. CASE Replied(m) \/ Queued(m) BY <1>2, <2>2, <2>3 DEF Accounted
  <2>4. CASE Waits(m, read[m].job) BY <1>1, <1>2, <2>4 DEF Accounted, Waits
  <2> QED BY <1>1, <2>1, <2>3, <2>4 DEF Accounted
<1>11. HandlerInv' BY <1>1, <1>2, <1>6 DEF HandlerInv
<1>12. CompletedInv' BY <1>1, <1>2 DEF CompletedInv
<1> QED BY <1>2, <1>3, <1>4, <1>5, <1>7, <1>8, <1>9, <1>10, <1>11, <1>12

\* The accepted job is started and becomes active.
LEMMA FinishAcceptInv == ASSUME IndInv, FinishAccept PROVE IndInv'
<1> USE DEF IndInv
<1>0. PICK e, m, j : e = Head(outbox) /\ m = subject /\ j = read[m].job OBVIOUS
<1> DEFINE new == [trace |-> m, cancellations |-> <<>>]
<1>1. /\ SendHead /\ Len(outbox) = 1 /\ handler = "accept"
      /\ handler' = "select" /\ subject' = 0 /\ outbox' = <<>>
      /\ task' = [task EXCEPT ![m] = "running"]
      /\ active' = [i \in DOMAIN active \cup {j} |-> IF i = j THEN new ELSE active[i]]
      /\ UNCHANGED <<token, context>>
  BY <1>0 DEF FinishAccept, SendLast
<1>2. /\ e \in Envelopes /\ e.kind \in Replies /\ 1 \in 1..Len(outbox) /\ e = outbox[1]
      /\ UNCHANGED <<consumed, open, read, answered, result>>
      /\ wire' \in Seq(Envelopes) /\ consumed \in 0..Len(wire')
      /\ answered \subseteq 1..Len(wire')
      /\ WireInv' /\ AnsweredOnce'
      /\ \A k, n : Sent(k, n)' <=> Sent(k, n) \/ e = Reply(k, n)
      /\ \A k, n : e = Reply(k, n) => ~Sent(k, n)
      /\ \A n : Replied(n) => Replied(n)'
      /\ Replied(e.re)'
      /\ (\E i \in 1..Len(wire') : wire'[i].kind = "ShutdownAcknowledged")
                 <=> e.kind = "ShutdownAcknowledged"
      /\ result = "none"
  BY <1>0, <1>1, SendHeadFacts
<1>3. /\ m \in 1..Len(read) /\ m = Len(read) /\ e = Reply("JobAccepted", m)
      /\ read[m].kind = "StartJob" /\ j \in Jobs \ DOMAIN active
  BY <1>0, <1>1, <1>2 DEF HandlerInv
<1>4. Len(read) \in Nat /\ m \in Messages /\ e.kind = "JobAccepted" /\ e.re = m
  BY <1>3, Types, ReplyFields DEF Messages
<1>5. new \in ActiveJobs /\ new.trace = m /\ new.cancellations = <<>>
  <2>1. <<>> \in Seq(Messages) OBVIOUS
  <2> QED BY <1>4, <2>1 DEF ActiveJobs
<1> HIDE DEF new
<1>6. /\ DOMAIN active' = DOMAIN active \cup {j} /\ active'[j] = new
      /\ \A i \in DOMAIN active : i # j /\ active'[i] = active[i]
  BY <1>1, <1>3
<1>7. task[m] = "none"
  <2>1. ~Sent("JobAccepted", m) BY <1>2, <1>3
  <2> QED BY <1>4, <2>1 DEF TaskInv
<1>8. /\ task' \in [Messages -> {"none", "running", "aborted", "finished", "lost", "joined"}]
      /\ task'[m] = "running" /\ \A n \in Messages : n # m => task'[n] = task[n]
  BY <1>1, <1>4 DEF TypeOK
<1>9. TypeOK'
  <2>1. DOMAIN active' \subseteq Jobs /\ \A i \in DOMAIN active' : active'[i] \in ActiveJobs
    BY <1>3, <1>5, <1>6 DEF TypeOK
  <2>2. /\ handler' = "select" /\ subject' = 0 /\ outbox' = <<>>
        /\ token' = token /\ context' = context
    BY <1>1
  <2> QED BY <1>2, <1>8, <2>1, <2>2 DEF TypeOK
<1>10. OutboxInv' BY <1>1 DEF OutboxInv
<1>11. ActiveInv'
  <2>1. 1..Len(outbox') = {} BY <1>1
  <2>2. ASSUME NEW i \in DOMAIN active PROVE JobInv(i)' BY <1>1, <1>6, <2>1, SendKeepsJob
  <2>3. JobInv(j)'
    <3>1. 1..Len(active'[j].cancellations) = {} BY <1>5, <1>6
    <3>2. read[m] = [kind |-> "StartJob", job |-> j]
      <4>1. read \in Seq([kind : Kinds, job : Jobs \cup {NoJob}]) BY DEF TypeOK
      <4>2. read[m] \in [kind : Kinds, job : Jobs \cup {NoJob}] BY <1>3, <4>1, ElementOf
      <4> QED BY <1>0, <1>3, <4>2
    <3> QED BY <1>2, <1>3, <1>5, <1>6, <3>1, <3>2 DEF JobInv
  <2> QED BY <1>6, <2>2, <2>3 DEF ActiveInv
<1>12. TaskInv'
  <2>1. \A n : /\ Sent("JobAccepted", n)' <=> Sent("JobAccepted", n) \/ n = m
               /\ Sent("JobUpdate", n)' <=> Sent("JobUpdate", n)
    BY <1>2, <1>3, ReplyFields
  <2>2. ~Sent("JobUpdate", m) BY <1>4, <1>7 DEF TaskInv
  <2>3. ASSUME NEW n \in Messages
        PROVE  /\ task'[n] # "none" <=> Sent("JobAccepted", n)'
               /\ task'[n] \in {"finished", "lost", "joined"} => token'[n] # "ACTIVE"
               /\ Sent("JobUpdate", n)' => task'[n] = "joined"
    <3>1. CASE n = m BY <1>1, <1>8, <2>1, <2>2, <3>1
    <3>2. CASE n # m BY <1>1, <1>8, <2>1, <3>2 DEF TaskInv
    <3> QED BY <3>1, <3>2
  <2> QED BY <2>3 DEF TaskInv
<1>13. Unjoined' = Unjoined \cup {m} /\ m \notin Unjoined BY <1>4, <1>7, <1>8 DEF Unjoined
<1>14. \A n \in Unjoined : read[n].job \in DOMAIN active /\ active[read[n].job].trace = n
  BY <1>1 DEF JoinSetInv
<1>15. JoinSetInv'
  <2>1. ASSUME NEW n \in Unjoined'
        PROVE  read'[n].job \in DOMAIN active' /\ active'[read'[n].job].trace = n
    BY <1>0, <1>2, <1>5, <1>6, <1>13, <1>14, <2>1
  <2>2. ASSUME NEW i \in DOMAIN active' PROVE active'[i].trace \in Unjoined'
    BY <1>1, <1>5, <1>6, <1>13 DEF JoinSetInv
  <2> QED BY <1>1, <2>1, <2>2 DEF JoinSetInv
<1>16. \A c, i : Waits(c, i) => Waits(c, i)' BY <1>6 DEF Waits
<1>17. CancelInv'
  <2> SUFFICES ASSUME NEW n \in Unjoined, NEW c \in (n + 1)..Len(read),
                      read[c] = [kind |-> "CancelJob", job |-> read[n].job]
               PROVE  Waits(c, read[n].job)'
    <3>1. (m + 1)..Len(read) = {} BY <1>3, <1>4
    <3> QED BY <1>2, <1>13, <3>1 DEF CancelInv
  <2>1. Waits(c, read[n].job) BY DEF CancelInv
  <2> QED BY <1>2, <1>16, <2>1
<1>18. AnswerInv'
  <2> SUFFICES ASSUME NEW n \in 1..Len(read) PROVE Accounted(n)' BY <1>2 DEF AnswerInv
  <2>1. Accounted(n) BY <1>1 DEF AnswerInv
  <2>2. Queued(n) => n = e.re BY <1>1, <1>2 DEF Queued
  <2>3. CASE Replied(n) \/ Queued(n) BY <1>2, <2>2, <2>3 DEF Accounted
  <2>4. CASE Waits(n, read[n].job) BY <1>2, <1>16, <2>4 DEF Accounted
  <2> QED BY <1>1, <2>1, <2>3, <2>4 DEF Accounted
<1>19. HandlerInv' BY <1>1, <1>2, <1>4 DEF HandlerInv
<1>20. CompletedInv' BY <1>1, <1>2 DEF CompletedInv
<1> QED BY <1>2, <1>9, <1>10, <1>11, <1>12, <1>15, <1>17, <1>18, <1>19, <1>20

\* The settled job is no longer active.
LEMMA FinishSettleInv == ASSUME IndInv, FinishSettle PROVE IndInv'
<1> USE DEF IndInv
<1>0. PICK e, m, j : e = Head(outbox) /\ m = subject /\ j = read[m].job OBVIOUS
<1>1. /\ SendHead /\ Len(outbox) = 1 /\ handler = "settle"
      /\ handler' = "select" /\ subject' = 0 /\ outbox' = <<>>
      /\ active' = [i \in DOMAIN active \ {j} |-> active[i]]
      /\ UNCHANGED <<task, token, context>>
  BY <1>0 DEF FinishSettle, SendLast
<1>2. /\ e \in Envelopes /\ e.kind \in Replies /\ 1 \in 1..Len(outbox) /\ e = outbox[1]
      /\ UNCHANGED <<consumed, open, read, answered, result>>
      /\ wire' \in Seq(Envelopes) /\ consumed \in 0..Len(wire')
      /\ answered \subseteq 1..Len(wire')
      /\ WireInv' /\ AnsweredOnce'
      /\ \A k, n : Sent(k, n)' <=> Sent(k, n) \/ e = Reply(k, n)
      /\ \A n : Replied(n) => Replied(n)'
      /\ Replied(e.re)'
      /\ (\E i \in 1..Len(wire') : wire'[i].kind = "ShutdownAcknowledged")
                 <=> e.kind = "ShutdownAcknowledged"
      /\ result = "none"
  BY <1>0, <1>1, SendHeadFacts
<1>3. /\ m \in 1..Len(read) /\ j \in DOMAIN active /\ active[j].trace = m
      /\ active[j].cancellations = <<>> /\ task[m] = "joined"
      /\ e = Reply("JobUpdate", m) \/ e.kind = "CancelJobAcknowledged"
  BY <1>0, <1>1, <1>2 DEF HandlerInv
<1>4. /\ DOMAIN active' = DOMAIN active \ {j}
      /\ \A i \in DOMAIN active : i # j => active'[i] = active[i]
  BY <1>1
<1>5. TypeOK'
  <2>1. DOMAIN active' \subseteq Jobs /\ \A i \in DOMAIN active' : active'[i] \in ActiveJobs
    BY <1>4 DEF TypeOK
  <2> QED BY <1>1, <1>2, <2>1 DEF TypeOK
<1>6. OutboxInv' BY <1>1 DEF OutboxInv
<1>7. ActiveInv'
  <2>1. 1..Len(outbox') = {} BY <1>1
  <2>2. ASSUME NEW i \in DOMAIN active, i # j PROVE JobInv(i)'
    BY <1>1, <1>4, <2>1, <2>2, SendKeepsJob
  <2> QED BY <1>4, <2>2 DEF ActiveInv
<1>8. TaskInv'
  <2>1. \A n : /\ Sent("JobAccepted", n)' <=> Sent("JobAccepted", n)
               /\ Sent("JobUpdate", n)' => Sent("JobUpdate", n) \/ n = m
    BY <1>2, <1>3, ReplyFields
  <2> QED BY <1>1, <1>3, <2>1 DEF TaskInv
<1>9. Unjoined' = Unjoined /\ m \notin Unjoined BY <1>1, <1>3 DEF Unjoined
<1>10. \A n \in Unjoined : /\ read[n].job \in DOMAIN active /\ active[read[n].job].trace = n
                           /\ read[n].job # j
  BY <1>1, <1>3, <1>9 DEF JoinSetInv
<1>11. JoinSetInv'
  <2>1. ASSUME NEW n \in Unjoined'
        PROVE  read'[n].job \in DOMAIN active' /\ active'[read'[n].job].trace = n
    BY <1>2, <1>4, <1>9, <1>10, <2>1
  <2>2. ASSUME NEW i \in DOMAIN active' PROVE active'[i].trace \in Unjoined'
    <3>1. i \in DOMAIN active /\ i # j /\ active'[i] = active[i] BY <1>4
    <3>2. JobInv(i) BY <3>1 DEF ActiveInv
    <3>3. active[i].trace # m BY <1>0, <3>1, <3>2 DEF JobInv
    <3> QED BY <1>0, <1>1, <1>9, <3>1, <3>3 DEF JoinSetInv
  <2> QED BY <1>1, <2>1, <2>2 DEF JoinSetInv
<1>12. \A c, i : Waits(c, i) => i # j /\ Waits(c, i)'
  <2>1. 1..Len(active[j].cancellations) = {} BY <1>3
  <2> QED BY <1>4, <2>1 DEF Waits
<1>13. CancelInv' BY <1>2, <1>9, <1>12 DEF CancelInv
<1>14. AnswerInv'
  <2> SUFFICES ASSUME NEW n \in 1..Len(read) PROVE Accounted(n)' BY <1>2 DEF AnswerInv
  <2>1. Accounted(n) BY <1>1 DEF AnswerInv
  <2>2. Queued(n) => n = e.re BY <1>1, <1>2 DEF Queued
  <2>3. CASE Replied(n) \/ Queued(n) BY <1>2, <2>2, <2>3 DEF Accounted
  <2>4. CASE Waits(n, read[n].job) BY <1>2, <1>12, <2>4 DEF Accounted
  <2> QED BY <1>1, <2>1, <2>3, <2>4 DEF Accounted
<1>15. HandlerInv'
  <2>1. e.kind # "ShutdownAcknowledged" BY <1>3, ReplyFields
  <2> QED BY <1>1, <1>2, <2>1 DEF HandlerInv
<1>16. CompletedInv' BY <1>1, <1>2 DEF CompletedInv
<1> QED BY <1>2, <1>5, <1>6, <1>7, <1>8, <1>11, <1>13, <1>14, <1>15, <1>16

\* Every acknowledgement is sent, and the shutdown itself is acknowledged.
LEMMA FinishDrainInv == ASSUME IndInv, FinishDrain PROVE IndInv'
<1> USE DEF IndInv
<1>0. PICK e, n : e = Head(outbox) /\ n = subject OBVIOUS
<1>1. /\ SendHead /\ Len(outbox) = 1 /\ handler = "drain"
      /\ handler' = "deliver" /\ subject' = n
      /\ outbox' = <<Reply("ShutdownAcknowledged", n)>>
      /\ active' = <<>>
      /\ UNCHANGED <<task, token, context>>
  BY <1>0 DEF FinishDrain, ClearAndDeliver, StartSending
<1>2. /\ e \in Envelopes /\ e.kind \in Replies /\ 1 \in 1..Len(outbox) /\ e = outbox[1]
      /\ UNCHANGED <<consumed, open, read, answered, result>>
      /\ wire' \in Seq(Envelopes) /\ consumed \in 0..Len(wire')
      /\ answered \subseteq 1..Len(wire')
      /\ WireInv' /\ AnsweredOnce'
      /\ \A k, m : Sent(k, m)' <=> Sent(k, m) \/ e = Reply(k, m)
      /\ \A m : Replied(m) => Replied(m)'
      /\ Replied(e.re)'
      /\ (\E i \in 1..Len(wire') : wire'[i].kind = "ShutdownAcknowledged")
                 <=> e.kind = "ShutdownAcknowledged"
      /\ result = "none"
  BY <1>0, <1>1, SendHeadFacts
<1>3. /\ n \in 1..Len(read) /\ n = Len(read) /\ read[n].kind = "Shutdown"
      /\ e.kind = "CancelJobAcknowledged"
      /\ \A j \in DOMAIN active : active[j].cancellations = <<>>
  BY <1>0, <1>1, <1>2 DEF HandlerInv
<1>4. PICK a : a = Reply("ShutdownAcknowledged", n) OBVIOUS
<1>5. /\ a \in Envelopes /\ a.kind = "ShutdownAcknowledged" /\ a.re = n
      /\ outbox' \in Seq(Envelopes) /\ Len(outbox') = 1 /\ outbox'[1] = a
      /\ \A p \in 1..Len(outbox') : outbox'[p] = a
  <2>1. Len(read) \in Nat /\ n \in Messages BY <1>3, Types DEF Messages
  <2>2. a \in Envelopes /\ a.kind = "ShutdownAcknowledged" /\ a.re = n
    BY <1>4, <2>1 DEF Reply, Envelopes, Replies
  <2> QED BY <1>1, <1>4, <2>2
<1>6. DOMAIN active' = {} BY <1>1
<1>7. Unjoined' = Unjoined /\ Unjoined = {} BY <1>1 DEF JoinSetInv, Unjoined
<1>8. TypeOK' BY <1>0, <1>1, <1>2, <1>5, <1>6 DEF TypeOK
<1>9. OutboxInv'
  <2>1. Fits(a)' BY <1>2, <1>3, <1>5 DEF Fits, Question
  <2>2. \A i \in 1..Len(wire') : wire'[i] # a BY <1>2, <1>3, <1>5
  <2> QED BY <1>5, <2>1, <2>2 DEF OutboxInv, Replies
<1>10. ActiveInv' BY <1>6 DEF ActiveInv
<1>11. TaskInv'
  <2>1. \A m : /\ Sent("JobAccepted", m)' <=> Sent("JobAccepted", m)
               /\ Sent("JobUpdate", m)' <=> Sent("JobUpdate", m)
    BY <1>2, <1>3, ReplyFields
  <2> QED BY <1>1, <2>1 DEF TaskInv
<1>12. JoinSetInv' BY <1>1, <1>7 DEF JoinSetInv
<1>13. CancelInv' BY <1>7 DEF CancelInv
<1>14. AnswerInv'
  <2> SUFFICES ASSUME NEW m \in 1..Len(read) PROVE Accounted(m)' BY <1>2 DEF AnswerInv
  <2>1. Accounted(m) BY <1>1 DEF AnswerInv
  <2>2. Queued(m) => m = e.re BY <1>1, <1>2 DEF Queued
  <2>3. CASE Replied(m) \/ Queued(m) BY <1>2, <2>2, <2>3 DEF Accounted
  <2>4. ~Waits(m, read[m].job)
    <3>1. \A j \in DOMAIN active : 1..Len(active[j].cancellations) = {} BY <1>3
    <3> QED BY <3>1 DEF Waits
  <2>5. CASE m = Len(read)
    <3>1. 1 \in 1..Len(outbox') BY <1>5
    <3> QED BY <1>3, <1>5, <2>5, <3>1 DEF Accounted, Queued
  <2> QED BY <2>1, <2>3, <2>4, <2>5 DEF Accounted
<1>15. HandlerInv' BY <1>1, <1>2, <1>3, <1>6 DEF HandlerInv
<1>16. CompletedInv' BY <1>1, <1>2 DEF CompletedInv
<1> QED BY <1>2, <1>8, <1>9, <1>10, <1>11, <1>12, <1>13, <1>14, <1>15, <1>16

\* The acknowledgement of the shutdown is in the channel.
LEMMA FinishDeliverInv == ASSUME IndInv, FinishDeliver PROVE IndInv'
<1> USE DEF IndInv
<1>0. PICK e : e = Head(outbox) OBVIOUS
<1>1. /\ SendHead /\ handler = "deliver"
      /\ handler' = "consume" /\ outbox' = <<>>
      /\ UNCHANGED <<subject, active, task, token, context>>
  BY DEF FinishDeliver, jobVars
<1>2. /\ e \in Envelopes /\ e.kind \in Replies /\ 1 \in 1..Len(outbox) /\ e = outbox[1]
      /\ UNCHANGED <<consumed, open, read, answered, result>>
      /\ wire' \in Seq(Envelopes) /\ consumed \in 0..Len(wire')
      /\ answered \subseteq 1..Len(wire')
      /\ WireInv' /\ AnsweredOnce'
      /\ \A k, m : Sent(k, m)' <=> Sent(k, m) \/ e = Reply(k, m)
      /\ \A m : Replied(m) => Replied(m)'
      /\ Replied(e.re)'
      /\ result = "none"
  BY <1>0, <1>1, SendHeadFacts
<1>3. /\ outbox = <<Reply("ShutdownAcknowledged", subject)>> /\ Len(outbox) = 1
      /\ e = Reply("ShutdownAcknowledged", subject) /\ DOMAIN active = {}
  BY <1>1, <1>2 DEF HandlerInv
<1>4. TypeOK' BY <1>1, <1>2 DEF TypeOK
<1>5. OutboxInv' BY <1>1 DEF OutboxInv
<1>6. ActiveInv' BY <1>1, <1>3 DEF ActiveInv
<1>7. TaskInv'
  <2>1. \A m : /\ Sent("JobAccepted", m)' <=> Sent("JobAccepted", m)
               /\ Sent("JobUpdate", m)' <=> Sent("JobUpdate", m)
    BY <1>2, <1>3, ReplyFields
  <2> QED BY <1>1, <2>1 DEF TaskInv
<1>8. Unjoined' = Unjoined /\ Unjoined = {} BY <1>1 DEF JoinSetInv, Unjoined
<1>9. JoinSetInv' /\ CancelInv' BY <1>1, <1>8 DEF JoinSetInv, CancelInv
<1>10. AnswerInv'
  <2> SUFFICES ASSUME NEW m \in 1..Len(read) PROVE Accounted(m)' BY <1>2 DEF AnswerInv
  <2>1. Accounted(m) BY <1>1 DEF AnswerInv
  <2>2. Queued(m) => m = e.re BY <1>2, <1>3 DEF Queued
  <2>3. ~Waits(m, read[m].job) BY <1>3 DEF Waits
  <2> QED BY <1>1, <1>2, <2>1, <2>2, <2>3 DEF Accounted
<1>11. HandlerInv' BY <1>1, <1>2 DEF HandlerInv
<1>12. CompletedInv' BY <1>1, <1>2 DEF CompletedInv
<1> QED BY <1>2, <1>4, <1>5, <1>6, <1>7, <1>9, <1>10, <1>11, <1>12

\* The acknowledgement of the shutdown was consumed, and so was all before it.
LEMMA FinishConsumeInv == ASSUME IndInv, FinishConsume PROVE IndInv'
<1> USE DEF IndInv
<1>1. /\ handler = "consume" /\ handler' = "close"
      /\ UNCHANGED <<read, subject, outbox, active, task, token, context, wire, consumed, open,
                     answered, result>>
      /\ IsConsumed(Reply("ShutdownAcknowledged", subject))
  BY DEF FinishConsume, jobVars, wireVars
<1>2. TypeOK' BY <1>1 DEF TypeOK
<1>3. WireInv' /\ AnsweredOnce' /\ OutboxInv' BY <1>1 DEF WireInv, AnsweredOnce, OutboxInv, Fits
<1>4. outbox = <<>> /\ DOMAIN active = {} /\ result = "none" BY <1>1 DEF HandlerInv
<1>5. ActiveInv' /\ TaskInv' BY <1>1, <1>4 DEF ActiveInv, TaskInv, Sent
<1>6. Unjoined' = Unjoined /\ Unjoined = {} BY <1>1 DEF JoinSetInv, Unjoined
<1>7. JoinSetInv' /\ CancelInv' BY <1>1, <1>6 DEF JoinSetInv, CancelInv
<1>8. \A m \in 1..Len(read) : Replied(m)
  <2> TAKE m \in 1..Len(read)
  <2>1. Accounted(m) BY <1>1 DEF AnswerInv
  <2>2. ~Queued(m) /\ ~Waits(m, read[m].job) BY <1>4 DEF Queued, Waits
  <2> QED BY <1>1, <2>1, <2>2 DEF Accounted
<1>9. AnswerInv' BY <1>1, <1>8 DEF AnswerInv, Accounted, Replied
<1>10. HandlerInv' BY <1>1 DEF HandlerInv
<1>11. Completed
  <2>1. PICK k \in 1..consumed : wire[k] = Reply("ShutdownAcknowledged", subject)
    BY <1>1 DEF IsConsumed
  <2>2. Len(wire) \in Nat /\ consumed \in 0..Len(wire) BY DEF TypeOK
  <2>3. k \in 1..Len(wire) /\ wire[k].kind = "ShutdownAcknowledged" BY <2>1, <2>2, ReplyFields
  <2>4. ASSUME NEW m \in 1..Len(read)
        PROVE  \E i \in 1..consumed : wire[i].kind \in Replies /\ wire[i].re = m
    <3>1. PICK i \in 1..Len(wire) : wire[i].kind \in Replies /\ wire[i].re = m
      BY <1>8 DEF Replied
    <3>2. ~(k < i) BY <2>3, <3>1 DEF WireInv, Replies, Emissions
    <3>3. i \in 1..consumed BY <2>2, <2>3, <3>2
    <3> QED BY <3>1, <3>3
  <2> QED BY <1>6, <2>4 DEF Completed
<1>12. CompletedInv' BY <1>1, <1>6, <1>11 DEF CompletedInv, Completed
<1> QED BY <1>2, <1>3, <1>5, <1>7, <1>9, <1>10, <1>12

-----------------------------------------------------------------------------

\* SetToSeqs lists every element of a finite set once.
LEMMA SeqsList ==
    ASSUME NEW S, IsFiniteSet(S), NEW f \in SetToSeqs(S)
    PROVE  /\ f \in Seq(S)
           /\ \A i, k \in 1..Len(f) : i # k => f[i] # f[k]
           /\ \A x \in S : \E i \in 1..Len(f) : f[i] = x
<1>1. PICK n : n = Cardinality(S) OBVIOUS
<1>2. n \in Nat BY <1>1, FS_CardinalityType
<1>3. f \in [1..n -> S] /\ \A i, k \in 1..n : i # k => f[i] # f[k]
  BY <1>1 DEF SetToSeqs
<1>4. f \in Injection(1..n, S) BY <1>3 DEF Injection, IsInjective
<1>5. IsFiniteSet(1..n) /\ Cardinality(1..n) = n
  BY <1>2, FS_Interval
<1>6. f \in Surjection(1..n, S) BY <1>1, <1>4, <1>5, FS_Injection
<1>7. \A x \in S : \E i \in 1..n : f[i] = x BY <1>6 DEF Surjection
<1>8. f \in Seq(S) /\ Len(f) = n BY <1>2, <1>3
<1> QED BY <1>3, <1>7, <1>8

\* Shutdown acknowledges exactly the cancellations that wait, each once.
LEMMA DrainFacts ==
    ASSUME IndInv, NEW order \in DrainOrders
    PROVE  /\ order \in Seq(Messages)
           /\ \A i \in 1..Len(order) : \E j \in DOMAIN active : Waits(order[i], j)
           /\ \A i, k \in 1..Len(order) : i # k => order[i] # order[k]
           /\ \A c, j : Waits(c, j) => \E i \in 1..Len(order) : order[i] = c
<1>1. PICK W : W = UNION {Range(active[j].cancellations) : j \in DOMAIN active} OBVIOUS
<1>2. order \in SetToSeqs(W) BY <1>1 DEF DrainOrders
<1>3. ASSUME NEW j \in DOMAIN active
      PROVE  /\ active[j].cancellations \in Seq(Messages)
             /\ Range(active[j].cancellations) \subseteq Messages
             /\ \A c : c \in Range(active[j].cancellations) <=> Waits(c, j)
  <2>1. active[j].cancellations \in Seq(Messages)
    <3>1. active[j] \in ActiveJobs BY DEF IndInv, TypeOK
    <3> QED BY <3>1 DEF ActiveJobs
  <2>2. PICK s : s = active[j].cancellations OBVIOUS
  <2>3. s \in Seq(Messages) /\ DOMAIN s = 1..Len(s) BY <2>1, <2>2
  <2>4. Range(s) = {s[i] : i \in 1..Len(s)} BY <2>3 DEF Range
  <2>5. Range(s) \subseteq Messages BY <2>3, <2>4
  <2> QED BY <2>1, <2>2, <2>4, <2>5 DEF Waits
<1>4. \A c : c \in W <=> \E j \in DOMAIN active : Waits(c, j) BY <1>1, <1>3
<1>5. W \subseteq Messages BY <1>1, <1>3
<1>6. IsFiniteSet(W)
  <2>1. IsFiniteSet(Messages) BY FS_Interval DEF Messages
  <2> QED BY <1>5, <2>1, FS_Subset
<1>7. /\ order \in Seq(W)
      /\ \A i, k \in 1..Len(order) : i # k => order[i] # order[k]
      /\ \A x \in W : \E i \in 1..Len(order) : order[i] = x
  BY <1>2, <1>6, SeqsList
<1>8. \A i \in 1..Len(order) : order[i] \in W BY <1>7, ElementOf
<1>9. order \in Seq(Messages) BY <1>5, <1>7
<1>10. \A c, j : Waits(c, j) => c \in W BY <1>4 DEF Waits
<1> QED BY <1>4, <1>7, <1>8, <1>9, <1>10

\* The JoinSet is empty; the cancellations that wait move to the outbox.
LEMMA JoinAllInv == ASSUME IndInv, JoinAll PROVE IndInv'
<1> USE DEF IndInv
<1>0. PICK n : n = subject OBVIOUS
<1>1. /\ handler = "join" /\ Unjoined = Ended
      /\ task' = [m \in Messages |-> IF m \in Ended THEN "joined" ELSE task[m]]
      /\ UNCHANGED <<read, token, context, wire, consumed, open, answered, result>>
  BY DEF JoinAll, wireVars
<1>2. PICK order \in DrainOrders :
          \/ order = <<>> /\ ClearAndDeliver
          \/ /\ order # <<>>
             /\ active' = [j \in DOMAIN active |-> [active[j] EXCEPT !.cancellations = <<>>]]
             /\ StartSending("drain", subject, Acknowledgements(order))
  BY DEF JoinAll
<1>3. /\ order \in Seq(Messages)
      /\ \A i \in 1..Len(order) : \E j \in DOMAIN active : Waits(order[i], j)
      /\ \A i, k \in 1..Len(order) : i # k => order[i] # order[k]
      /\ \A c, j : Waits(c, j) => \E i \in 1..Len(order) : order[i] = c
  BY DrainFacts
<1>4. /\ outbox = <<>> /\ n \in 1..Len(read) /\ n = Len(read) /\ n \in Messages
      /\ read[n].kind = "Shutdown" /\ Len(read) \in Nat /\ result = "none"
      /\ \A i \in 1..Len(wire) : wire[i].kind # "ShutdownAcknowledged"
  BY <1>0, <1>1, Types DEF HandlerInv, Messages
<1>5. /\ task' \in [Messages -> {"none", "running", "aborted", "finished", "lost", "joined"}]
      /\ \A m \in Messages :
            task'[m] = task[m] \/ (task[m] \in {"finished", "lost"} /\ task'[m] = "joined")
      /\ \A m \in Messages :
            task'[m] \notin {"running", "aborted", "finished", "lost"}
  BY <1>1 DEF TypeOK, Ended, Unjoined
<1>6. Unjoined' = {} BY <1>5 DEF Unjoined
<1>7. TaskInv'
  <2> SUFFICES ASSUME NEW m \in Messages
               PROVE  /\ task'[m] # "none" <=> Sent("JobAccepted", m)'
                      /\ task'[m] \in {"finished", "lost", "joined"} => token'[m] # "ACTIVE"
                      /\ Sent("JobUpdate", m)' => task'[m] = "joined"
    BY DEF TaskInv
  <2>1. \A k : Sent(k, m)' <=> Sent(k, m) BY <1>1 DEF Sent
  <2> QED BY <1>1, <1>5, <2>1 DEF TaskInv
<1>8. WireInv' /\ AnsweredOnce' BY <1>1 DEF WireInv, AnsweredOnce, Fits
<1>9. CancelInv' BY <1>6 DEF CancelInv
<1>10. \A m : Replied(m) => Replied(m)' BY <1>1 DEF Replied
<1>11. \A m : ~Queued(m) BY <1>4 DEF Queued
<1>12. CASE order = <<>> /\ ClearAndDeliver
  <2>1. /\ handler' = "deliver" /\ subject' = n /\ active' = <<>>
        /\ outbox' = <<Reply("ShutdownAcknowledged", n)>>
    BY <1>0, <1>12 DEF ClearAndDeliver, StartSending
  <2>2. PICK a : a = Reply("ShutdownAcknowledged", n) OBVIOUS
  <2>3. /\ a \in Envelopes /\ a.kind = "ShutdownAcknowledged" /\ a.re = n
        /\ outbox' \in Seq(Envelopes) /\ Len(outbox') = 1 /\ outbox'[1] = a
        /\ \A p \in 1..Len(outbox') : outbox'[p] = a
    <3>1. a \in Envelopes /\ a.kind = "ShutdownAcknowledged" /\ a.re = n
      BY <1>4, <2>2 DEF Reply, Envelopes, Replies
    <3> QED BY <2>1, <2>2, <3>1
  <2>4. DOMAIN active' = {} BY <2>1
  <2>5. TypeOK' BY <1>1, <1>4, <1>5, <2>1, <2>3, <2>4 DEF TypeOK
  <2>6. OutboxInv'
    <3>1. Fits(a)' BY <1>1, <1>4, <2>3 DEF Fits, Question
    <3>2. \A i \in 1..Len(wire') : wire'[i] # a BY <1>1, <1>4, <2>3
    <3> QED BY <2>3, <3>1, <3>2 DEF OutboxInv, Replies
  <2>7. ActiveInv' BY <2>4 DEF ActiveInv
  <2>8. JoinSetInv' BY <1>6, <2>1 DEF JoinSetInv
  <2>9. AnswerInv'
    <3> SUFFICES ASSUME NEW m \in 1..Len(read) PROVE Accounted(m)' BY <1>1 DEF AnswerInv
    <3>1. Accounted(m) BY <1>1 DEF AnswerInv
    <3>2. ~Waits(m, read[m].job)
      <4>1. 1..Len(order) = {} BY <1>12
      <4> QED BY <1>3, <4>1
    <3>3. CASE Replied(m) BY <1>10, <3>3 DEF Accounted
    <3>4. CASE m = Len(read)
      <4>1. 1 \in 1..Len(outbox') BY <2>3
      <4> QED BY <1>4, <2>3, <3>4, <4>1 DEF Accounted, Queued
    <3> QED BY <1>11, <3>1, <3>2, <3>3, <3>4 DEF Accounted
  <2>10. HandlerInv' BY <1>1, <1>4, <2>1, <2>4 DEF HandlerInv
  <2>11. CompletedInv' BY <1>1, <1>4, <2>1 DEF CompletedInv
  <2> QED BY <1>7, <1>8, <1>9, <2>5, <2>6, <2>7, <2>8, <2>9, <2>10, <2>11
<1>13. CASE /\ order # <<>>
            /\ active' = [j \in DOMAIN active |-> [active[j] EXCEPT !.cancellations = <<>>]]
            /\ StartSending("drain", subject, Acknowledgements(order))
  <2>1. /\ handler' = "drain" /\ subject' = n
        /\ outbox' = [i \in 1..Len(order) |-> Reply("CancelJobAcknowledged", order[i])]
    BY <1>0, <1>13 DEF StartSending, Acknowledgements
  <2>2. ASSUME NEW p \in 1..Len(order)
        PROVE  /\ Reply("CancelJobAcknowledged", order[p]) \in Envelopes
               /\ Reply("CancelJobAcknowledged", order[p]).kind = "CancelJobAcknowledged"
               /\ Reply("CancelJobAcknowledged", order[p]).re = order[p]
    <3>1. order[p] \in Messages BY <1>3, ElementOf
    <3> QED BY <3>1 DEF Reply, Envelopes, Replies
  <2>3. Len(order) \in Nat BY <1>3
  <2>4. /\ outbox' \in Seq(Envelopes) /\ Len(outbox') = Len(order)
        /\ \A p \in 1..Len(outbox') :
              /\ outbox'[p] = Reply("CancelJobAcknowledged", order[p])
              /\ outbox'[p].kind = "CancelJobAcknowledged" /\ outbox'[p].re = order[p]
    BY <2>1, <2>2, <2>3
  <2>5. /\ DOMAIN active' = DOMAIN active
        /\ \A j \in DOMAIN active : /\ active'[j] \in ActiveJobs
                                    /\ active'[j].trace = active[j].trace
                                    /\ active'[j].cancellations = <<>>
    <3>1. <<>> \in Seq(Messages) OBVIOUS
    <3>2. \A j \in DOMAIN active : active[j] \in ActiveJobs BY DEF TypeOK
    <3> QED BY <1>13, <3>1, <3>2 DEF ActiveJobs
  <2>6. DOMAIN active \subseteq Jobs BY DEF TypeOK
  <2>7. TypeOK' BY <1>1, <1>4, <1>5, <2>1, <2>4, <2>5, <2>6 DEF TypeOK
  <2>8. ASSUME NEW p \in 1..Len(order)
        PROVE  /\ order[p] \in 1..Len(read) /\ read[order[p]].kind = "CancelJob"
               /\ ~Sent("CancelJobAcknowledged", order[p])
    <3>1. PICK j \in DOMAIN active : Waits(order[p], j) BY <1>3
    <3>2. PICK i \in 1..Len(active[j].cancellations) : active[j].cancellations[i] = order[p]
      BY <3>1 DEF Waits
    <3>3. JobInv(j) BY DEF ActiveInv
    <3>4. /\ active[j].trace \in 1..Len(read)
          /\ order[p] \in (active[j].trace + 1)..Len(read)
          /\ read[order[p]] = [kind |-> "CancelJob", job |-> j]
          /\ ~Sent("CancelJobAcknowledged", order[p])
      BY <3>2, <3>3 DEF JobInv
    <3> QED BY <1>4, <3>4
  <2>9. OutboxInv'
    <3>1. ASSUME NEW p \in 1..Len(outbox')
          PROVE  /\ outbox'[p].kind \in Replies
                 /\ outbox'[p].re \in 1..Len(read') /\ read'[outbox'[p].re].kind = "CancelJob"
                 /\ \A i \in 1..Len(wire') : wire'[i] # outbox'[p]
      BY <1>1, <2>4, <2>8 DEF Replies, Sent
    <3>2. ASSUME NEW p \in 1..Len(outbox'), NEW q \in 1..Len(outbox'), p # q
          PROVE  outbox'[p] # outbox'[q]
      BY <1>3, <2>4, <3>2
    <3> QED BY <2>4, <3>1, <3>2 DEF OutboxInv, Fits, Question
  <2>10. ActiveInv'
    <3> SUFFICES ASSUME NEW j \in DOMAIN active PROVE JobInv(j)' BY <2>5 DEF ActiveInv
    <3>1. JobInv(j) BY DEF ActiveInv
    <3>2. 1..Len(active'[j].cancellations) = {} BY <2>5
    <3> QED BY <1>1, <2>5, <3>1, <3>2 DEF JobInv
  <2>11. JoinSetInv' BY <1>6, <2>1 DEF JoinSetInv
  <2>12. AnswerInv'
    <3> SUFFICES ASSUME NEW m \in 1..Len(read) PROVE Accounted(m)' BY <1>1 DEF AnswerInv
    <3>1. Accounted(m) BY <1>1 DEF AnswerInv
    <3>2. CASE Replied(m) BY <1>10, <3>2 DEF Accounted
    <3>3. CASE Waits(m, read[m].job)
      <4>1. PICK i \in 1..Len(order) : order[i] = m BY <1>3, <3>3
      <4> QED BY <2>4, <4>1 DEF Accounted, Queued
    <3>4. CASE m = Len(read) BY <1>1, <2>1, <3>4 DEF Accounted
    <3> QED BY <1>11, <3>1, <3>2, <3>3, <3>4 DEF Accounted
  <2>13. HandlerInv'
    <3>1. outbox' # <<>> BY <1>3, <1>13, <2>4
    <3> QED BY <1>1, <1>4, <2>1, <2>4, <2>5, <3>1 DEF HandlerInv
  <2>14. CompletedInv' BY <1>1, <1>4, <2>1 DEF CompletedInv
  <2> QED BY <1>7, <1>8, <1>9, <2>7, <2>9, <2>10, <2>11, <2>12, <2>13, <2>14
<1> QED BY <1>2, <1>12, <1>13

\* Every way in which `run` returns.
LEMMA ReturnActions ==
    ASSUME IndInv,
           \/ ServeFails \/ SendFails \/ HostCloses \/ LateMessage \/ ParentExits
           \/ \E m \in Messages : JoinError(m)
           \/ \E k \in 1..Len(wire) : LateResponse(k)
    PROVE  IndInv'
<1> USE DEF jobVars, wireVars
<1>1. answered \subseteq 1..Len(wire) BY DEF IndInv, TypeOK
<1>2. CASE ServeFails BY <1>1, <1>2, ReturnInv DEF ServeFails
<1>3. CASE SendFails
  <2>1. handler # "returned"
    <3>1. outbox # <<>> \/ handler = "consume" BY <1>3 DEF SendFails
    <3> QED BY <3>1 DEF IndInv, HandlerInv
  <2> QED BY <1>1, <1>3, <2>1, ReturnInv DEF SendFails
<1>4. CASE HostCloses BY <1>1, <1>4, ReturnInv DEF HostCloses
<1>5. CASE LateMessage BY <1>1, <1>5, ReturnInv DEF LateMessage
<1>6. CASE ParentExits BY <1>1, <1>6, ReturnInv DEF ParentExits
<1>7. ASSUME NEW m \in Messages, JoinError(m) PROVE IndInv'
  BY <1>1, <1>7, ReturnInv DEF JoinError
<1>8. ASSUME NEW k \in 1..Len(wire), LateResponse(k) PROVE IndInv'
  BY <1>1, <1>8, ReturnInv DEF LateResponse
<1> QED BY <1>2, <1>3, <1>4, <1>5, <1>6, <1>7, <1>8

\* Every step keeps the invariant.
LEMMA NextInv == ASSUME IndInv, [Next]_vars PROVE IndInv'
<1>1. CASE TakeMessage
  BY <1>1, StartDuplicateInv, TakeReplyActions, CancelActiveInv, ShutdownInv DEF TakeMessage
<1>2. CASE Advance
  <2>1. CASE SendMore \/ FinishReply \/ FinishAccept \/ FinishSettle
    BY <2>1, SendMoreInv, FinishReplyInv, FinishAcceptInv, FinishSettleInv
  <2>2. CASE JoinAll \/ FinishDrain \/ FinishDeliver \/ FinishConsume
    BY <2>2, JoinAllInv, FinishDrainInv, FinishDeliverInv, FinishConsumeInv
  <2>3. CASE SendFails BY <2>3, ReturnActions
  <2>4. ASSUME NEW m \in Messages, Settle(m) \/ JoinError(m) PROVE IndInv'
    BY <2>4, SettleInv, ReturnActions
  <2> QED BY <1>2, <2>1, <2>2, <2>3, <2>4 DEF Advance
<1>3. CASE ServeFails \/ HostCloses \/ LateMessage \/ ParentExits BY <1>3, ReturnActions
<1>4. ASSUME NEW k \in 1..Len(wire), Response(k) \/ LateResponse(k) PROVE IndInv'
  BY <1>4, ResponseInv, ReturnActions
<1>5. ASSUME NEW m \in Messages,
             \/ Finish(m) \/ Lose(m) \/ Abort(m) \/ Poll(m) \/ Suspend(m)
             \/ \E k \in Emissions : Emit(m, k)
      PROVE  IndInv'
  BY <1>5, TaskEndInv, PollInv, EmitInv
<1>6. CASE Consume \/ CloseWire BY <1>6, TransportInv
<1>7. CASE UNCHANGED vars
  <2>1. TypeOK' BY <1>7 DEF IndInv, TypeOK, vars
  <2>2. consumed' >= consumed BY <1>7 DEF IndInv, TypeOK, vars
  <2> QED BY <1>7, <2>1, <2>2, FrameInv DEF vars, loopVars
<1>8. CASE Done BY <1>7, <1>8 DEF Done
<1> QED BY <1>1, <1>2, <1>3, <1>4, <1>5, <1>6, <1>7, <1>8 DEF Next

\* The inductive invariant holds in every reachable state.
LEMMA Inductive == Spec => []IndInv
<1>1. IndInv /\ [Next]_vars => IndInv' BY NextInv
<1> QED BY InitInv, <1>1, PTL DEF Spec

-----------------------------------------------------------------------------
(* The properties.                                                         *)

\* The state of the session keeps its types.
THEOREM TypeCorrect == Spec => []TypeOK
<1>1. IndInv => TypeOK BY DEF IndInv
<1> QED BY <1>1, Inductive, PTL

\* Between two settlements the JoinSet and the table of active jobs hold the
\* same job instances: no `expect` of join_next and settle can fail.
THEOREM ThmSupervisorMatchesJobs == Spec => []SupervisorMatchesJobs
<1>1. ASSUME IndInv PROVE SupervisorMatchesJobs
  <2> SUFFICES ASSUME handler \in {"select", "reply", "accept", "settle"}
               PROVE  /\ {active[j].trace : j \in DOMAIN active}
                            = Unjoined \cup {m \in {subject} : handler = "settle"}
                      /\ \A j \in DOMAIN active : read[active[j].trace].job = j
    BY DEF SupervisorMatchesJobs
  <2>1. \A m \in Unjoined : read[m].job \in DOMAIN active /\ active[read[m].job].trace = m
    BY <1>1 DEF IndInv, JoinSetInv
  <2>2. \A j \in DOMAIN active :
           active[j].trace \in Unjoined \/ (handler = "settle" /\ active[j].trace = subject)
    BY <1>1 DEF IndInv, JoinSetInv
  <2>3. handler = "settle" =>
           read[subject].job \in DOMAIN active /\ active[read[subject].job].trace = subject
    BY <1>1 DEF IndInv, HandlerInv
  <2>4. \A j \in DOMAIN active : read[active[j].trace].job = j
    <3> TAKE j \in DOMAIN active
    <3>1. JobInv(j) BY <1>1 DEF IndInv, ActiveInv
    <3>2. read[active[j].trace] = [kind |-> "StartJob", job |-> j] BY <3>1 DEF JobInv
    <3> QED BY <3>2
  <2> QED BY <2>1, <2>2, <2>3, <2>4
<1>2. IndInv => SupervisorMatchesJobs BY <1>1
<1> QED BY <1>2, Inductive, PTL

\* No message is answered twice and no job has two terminal updates.
THEOREM ThmAnsweredOnce == Spec => []AnsweredOnce
<1>1. IndInv => AnsweredOnce BY DEF IndInv
<1> QED BY <1>1, Inductive, PTL

\* A job that was reported as ended runs no more.
THEOREM ThmEndedWhenReported == Spec => []EndedWhenReported
<1>1. ASSUME IndInv PROVE EndedWhenReported
  <2> SUFFICES ASSUME NEW m \in 1..Len(read), Fate(m) \in {"updated", "cancelled"}
               PROVE  task[m] = "joined" /\ token[m] # "ACTIVE"
    BY DEF EndedWhenReported
  <2>1. m \in Messages /\ Len(read) \in Nat BY <1>1, Types DEF IndInv, Messages
  <2>2. Sent("JobUpdate", m) \/ (Sent("JobAccepted", m) /\ CancelledLater(m)) BY DEF Fate
  <2>3. task[m] = "joined" => token[m] # "ACTIVE" BY <1>1, <2>1 DEF IndInv, TaskInv
  <2>4. CASE Sent("JobUpdate", m) BY <1>1, <2>1, <2>3, <2>4 DEF IndInv, TaskInv
  <2>5. CASE Sent("JobAccepted", m) /\ CancelledLater(m)
    <3>1. PICK c \in (m + 1)..Len(read) :
             /\ read[c] = [kind |-> "CancelJob", job |-> read[m].job]
             /\ Sent("CancelJobAcknowledged", c)
      BY <2>5 DEF CancelledLater
    <3>2. ~Waits(c, read[m].job)
      <4> SUFFICES ASSUME Waits(c, read[m].job) PROVE FALSE OBVIOUS
      <4>1. PICK j \in DOMAIN active : j = read[m].job BY DEF Waits
      <4>2. PICK i \in 1..Len(active[j].cancellations) : active[j].cancellations[i] = c
        BY <4>1 DEF Waits
      <4>3. JobInv(j) BY <1>1 DEF IndInv, ActiveInv
      <4> QED BY <3>1, <4>2, <4>3 DEF JobInv
    <3>3. m \notin Unjoined BY <1>1, <2>1, <3>1, <3>2 DEF IndInv, CancelInv
    <3>4. task[m] # "none" BY <1>1, <2>1, <2>5 DEF IndInv, TaskInv
    <3>5. task[m] = "joined" BY <1>1, <2>1, <3>3, <3>4 DEF IndInv, TypeOK, Unjoined
    <3> QED BY <2>3, <3>5
  <2> QED BY <2>2, <2>4, <2>5
<1>2. IndInv => EndedWhenReported BY <1>1
<1> QED BY <1>2, Inductive, PTL

\* When `run` reports a graceful shutdown every message was answered, the
\* answers have left the process and no action is left.
THEOREM ThmGracefulShutdown == Spec => []GracefulShutdown
<1>1. IndInv => GracefulShutdown
  BY DEF IndInv, CompletedInv, Completed, GracefulShutdown
<1> QED BY <1>1, Inductive, PTL
=============================================================================
