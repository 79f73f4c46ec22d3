-------------------------------- MODULE Serve --------------------------------
(***************************************************************************)
(* An established plugin session: the serve loop and wait_for_host_close   *)
(* (runtime/session.rs) with the job manager they drive                    *)
(* (runtime/session/jobs.rs) and the cancellation token of each job.       *)
(*                                                                         *)
(* The loop is one task.  It waits in `select!` for a finished action or   *)
(* for a host message, and handles one of them to its end before it looks  *)
(* at the next; each envelope it sends may have to wait for room in the    *)
(* output channel.  Actions run as tasks of their own, and so does work    *)
(* they have spawned with a clone of their ActionContext.                  *)
(*                                                                         *)
(* A host-initiated message is named by its position in `read`, which      *)
(* stands for its message ID and its trace; a StartJob also names its job  *)
(* instance: task, token and context.  An envelope carries in `re` the     *)
(* message whose ID or trace it repeats.  HostClient.tla justifies the two *)
(* simplifications made here: a send is one step, and a response to an     *)
(* outstanding request always finds its entry.                             *)
(***************************************************************************)
EXTENDS Naturals, FiniteSets, Sequences, SequencesExt

CONSTANTS
    Jobs,                     \* job IDs
    NoJob,                    \* the job of a message that names none
    maximum_concurrent_jobs,  \* PluginBuilder::maximum_concurrent_jobs
    Capacity,                 \* OUTGOING_CAPACITY
    MaxHostMessages,          \* bound: host-initiated messages of a session
    MaxEmissions              \* bound: envelopes sent by actions

ASSUME NoJobAssumption == NoJob \notin Jobs
ASSUME MaximumAssumption == maximum_concurrent_jobs \in Nat \ {0}
ASSUME BoundsAssumption ==
    Capacity \in Nat \ {0} /\ MaxHostMessages \in Nat /\ MaxEmissions \in Nat

VARIABLES
    read,      \* the host-initiated messages the loop has taken
    handler,   \* where the loop is
    subject,   \* the message or job instance its handler is about
    outbox,    \* what its handler still has to send
    active,    \* JobManager::active
    task,      \* the JoinSet: the task of each job instance
    token,     \* the cancellation token of each job instance
    context,   \* "polled": an operation of its context has seen it active
    wire,      \* every envelope ever put into the output channel
    consumed,  \* how many of them the transport has taken out
    open,      \* the receiving end of the output channel exists
    answered,  \* the requests, by position in wire, the host has answered
    result     \* what `run` returned: "shutdown" and "eof" are Ok

vars == <<read, handler, subject, outbox, active, task, token, context, wire,
          consumed, open, answered, result>>

loopVars == <<handler, subject, outbox>>
jobVars  == <<active, task, token, context>>
wireVars == <<wire, consumed, open>>

Messages == 1..MaxHostMessages

Kinds == {"StartJob", "CancelJob", "Heartbeat", "Shutdown"}
Emissions == {"Log", "HostCall"}
Replies == {"JobAccepted", "ProtocolError", "CancelJobAcknowledged", "Heartbeat",
            "JobUpdate", "ShutdownAcknowledged"}

Envelopes == [kind : Replies \cup Emissions, re : Messages]

ActiveJobs == [trace : Messages, cancellations : Seq(Messages)]

TypeOK ==
    /\ read \in Seq([kind : Kinds, job : Jobs \cup {NoJob}])
    /\ Len(read) <= MaxHostMessages
    /\ handler \in {"select", "reply", "accept", "settle", "join", "drain", "deliver",
                    "consume", "close", "returned"}
    /\ subject \in Messages \cup {0}
    /\ outbox \in Seq(Envelopes)
    /\ DOMAIN active \subseteq Jobs
    /\ \A j \in DOMAIN active : active[j] \in ActiveJobs
    /\ task \in [Messages -> {"none", "running", "aborted", "finished", "lost", "joined"}]
    /\ token \in [Messages -> {"ACTIVE", "CANCELLED", "FINISHED"}]
    /\ context \in [Messages -> {"idle", "polled"}]
    /\ wire \in Seq(Envelopes)
    /\ consumed \in 0..Len(wire)
    /\ open \in BOOLEAN
    /\ answered \subseteq 1..Len(wire)
    /\ result \in {"none", "shutdown", "eof", "Err"}

Init ==
    /\ read = <<>>
    /\ handler = "select" /\ subject = 0 /\ outbox = <<>>
    /\ active = <<>>
    /\ task = [m \in Messages |-> "none"]
    /\ token = [m \in Messages |-> "ACTIVE"]
    /\ context = [m \in Messages |-> "idle"]
    /\ wire = <<>> /\ consumed = 0 /\ open = TRUE
    /\ answered = {}
    /\ result = "none"

-----------------------------------------------------------------------------
(* Helpers.                                                                *)

Reply(k, m) == [kind |-> k, re |-> m]

Acknowledgements(ms) == [i \in 1..Len(ms) |-> Reply("CancelJobAcknowledged", ms[i])]

Room == Len(wire) - consumed < Capacity

\* The ID of the message the loop is about to take.
NextMessage == Len(read) + 1

\* CancellationController::cancel and ::finish change an ACTIVE token only.
Change(tok, v) == IF tok = "ACTIVE" THEN v ELSE tok

\* The tasks the JoinSet holds, and those that have ended without being joined.
Unjoined == {m \in Messages : task[m] \in {"running", "aborted", "finished", "lost"}}
Ended    == {m \in Messages : task[m] \in {"finished", "lost"}}

\* `run` returns: the loop and the job manager are dropped.
Return(r) ==
    /\ handler' = "returned" /\ subject' = 0 /\ outbox' = <<>>
    /\ result' = r

\* The loop hands envelopes to the sender, one after the other.
StartSending(h, m, envelopes) ==
    /\ handler' = h
    /\ subject' = m
    /\ outbox' = envelopes

\* The loop takes one more host-initiated message.
Take(k, j) ==
    /\ handler = "select"
    /\ Len(read) < MaxHostMessages
    /\ read' = Append(read, [kind |-> k, job |-> j])

-----------------------------------------------------------------------------
(* Mistakes this code could have made; each is caught by a property below. *)

\* start does not look for an active job with the same ID.
StartAcceptedTwice(j) ==
    /\ Take("StartJob", j)
    /\ Cardinality(DOMAIN active) < maximum_concurrent_jobs
    /\ StartSending("accept", NextMessage, <<Reply("JobAccepted", NextMessage)>>)
    /\ UNCHANGED <<jobVars, wireVars, answered, result>>

\* cancel acknowledges at once, without waiting for the action.
CancelActiveAtOnce(j) ==
    /\ Take("CancelJob", j)
    /\ j \in DOMAIN active
    /\ token' = [token EXCEPT ![active[j].trace] = Change(@, "CANCELLED")]
    /\ StartSending("reply", NextMessage, <<Reply("CancelJobAcknowledged", NextMessage)>>)
    /\ UNCHANGED <<active, task, context, wireVars, answered, result>>

\* cancel acknowledges at once and again when the action ends.
CancelActiveTwice(j) ==
    /\ Take("CancelJob", j)
    /\ j \in DOMAIN active
    /\ token' = [token EXCEPT ![active[j].trace] = Change(@, "CANCELLED")]
    /\ active' = [active EXCEPT ![j].cancellations = Append(@, NextMessage)]
    /\ StartSending("reply", NextMessage, <<Reply("CancelJobAcknowledged", NextMessage)>>)
    /\ UNCHANGED <<task, context, wireVars, answered, result>>

\* shutdown waits for the actions without cancelling or aborting them.
ShutdownWithoutAbort ==
    /\ Take("Shutdown", NoJob)
    /\ StartSending("join", NextMessage, <<>>)
    /\ UNCHANGED <<jobVars, wireVars, answered, result>>

\* settle acknowledges only the first of several cancellations.
SettleFirstOnly(m) ==
    /\ handler = "select"
    /\ DOMAIN active # {}
    /\ task[m] = "finished"
    /\ task' = [task EXCEPT ![m] = "joined"]
    /\ LET j == read[m].job
           cancellations == active[j].cancellations
       IN  /\ StartSending("settle", m,
                  IF cancellations = <<>> THEN <<Reply("JobUpdate", active[j].trace)>>
                  ELSE <<Reply("CancelJobAcknowledged", Head(cancellations))>>)
           /\ active' = [active EXCEPT ![j].cancellations = <<>>]
    /\ UNCHANGED <<read, token, context, wireVars, answered, result>>

\* settle reports the outcome although a cancellation came first.
SettleAnyway(m) ==
    /\ handler = "select"
    /\ DOMAIN active # {}
    /\ task[m] = "finished"
    /\ task' = [task EXCEPT ![m] = "joined"]
    /\ LET j == read[m].job
       IN  /\ StartSending("settle", m,
                  <<Reply("JobUpdate", active[j].trace)>>
                      \o Acknowledgements(active[j].cancellations))
           /\ active' = [active EXCEPT ![j].cancellations = <<>>]
    /\ UNCHANGED <<read, token, context, wireVars, answered, result>>

\* shutdown forgets the cancellations it has not acknowledged.
JoinAllForgetting ==
    /\ handler = "join"
    /\ Unjoined = Ended
    /\ task' = [m \in Messages |-> IF m \in Ended THEN "joined" ELSE task[m]]
    /\ active' = <<>>
    /\ StartSending("deliver", subject, <<Reply("ShutdownAcknowledged", subject)>>)
    /\ UNCHANGED <<read, token, context, wireVars, answered, result>>

\* serve does not wait for its acknowledgement to be consumed.
FinishConsumeEarly ==
    /\ handler = "consume"
    /\ handler' = "close"
    /\ UNCHANGED <<read, subject, outbox, jobVars, wireVars, answered, result>>

\* A heartbeat is echoed without naming the message it answers.
HeartbeatUnaddressed ==
    /\ Take("Heartbeat", NoJob)
    /\ StartSending("reply", NextMessage, <<Reply("Heartbeat", 0)>>)
    /\ UNCHANGED <<jobVars, wireVars, answered, result>>

-----------------------------------------------------------------------------
(* Host messages, and the part of their handlers before the first await.   *)

\* JobManager::start: a job ID that is still active is a protocol error.
StartDuplicate(j) ==
    /\ Take("StartJob", j)
    /\ j \in DOMAIN active
    /\ Return("Err")
    /\ UNCHANGED <<jobVars, wireVars, answered>>

\* JobManager::start at capacity.
StartRejected(j) ==
    /\ Take("StartJob", j)
    /\ j \notin DOMAIN active
    /\ Cardinality(DOMAIN active) >= maximum_concurrent_jobs
    /\ StartSending("reply", NextMessage, <<Reply("ProtocolError", NextMessage)>>)
    /\ UNCHANGED <<jobVars, wireVars, answered, result>>

\* JobManager::start: the job is accepted, and started once that was sent.
StartAccepted(j) ==
    /\ Take("StartJob", j)
    /\ j \notin DOMAIN active
    /\ Cardinality(DOMAIN active) < maximum_concurrent_jobs
    /\ StartSending("accept", NextMessage, <<Reply("JobAccepted", NextMessage)>>)
    /\ UNCHANGED <<jobVars, wireVars, answered, result>>

\* JobManager::cancel of an active job: the acknowledgement waits for its end.
CancelActive(j) ==
    /\ Take("CancelJob", j)
    /\ j \in DOMAIN active
    /\ token' = [token EXCEPT ![active[j].trace] = Change(@, "CANCELLED")]
    /\ active' = [active EXCEPT ![j].cancellations = Append(@, NextMessage)]
    /\ UNCHANGED <<loopVars, task, context, wireVars, answered, result>>

\* JobManager::cancel of any other job is acknowledged at once.
CancelInactive(j) ==
    /\ Take("CancelJob", j)
    /\ j \notin DOMAIN active
    /\ StartSending("reply", NextMessage, <<Reply("CancelJobAcknowledged", NextMessage)>>)
    /\ UNCHANGED <<jobVars, wireVars, answered, result>>

Heartbeat ==
    /\ Take("Heartbeat", NoJob)
    /\ StartSending("reply", NextMessage, <<Reply("Heartbeat", NextMessage)>>)
    /\ UNCHANGED <<jobVars, wireVars, answered, result>>

\* JobManager::shutdown: cancel every token, abort every task.
Shutdown ==
    /\ Take("Shutdown", NoJob)
    /\ token' = [m \in Messages |-> IF \E i \in DOMAIN active : active[i].trace = m
                                    THEN Change(token[m], "CANCELLED")
                                    ELSE token[m]]
    /\ task' = [m \in Messages |-> IF task[m] = "running" THEN "aborted" ELSE task[m]]
    /\ StartSending("join", NextMessage, <<>>)
    /\ UNCHANGED <<active, context, wireVars, answered, result>>

\* A message fails a check of validate_envelope, of its handler or of route, is
\* of an unexpected kind or a ProtocolError, or the incoming stream ends: serve
\* returns an error.
ServeFails ==
    /\ handler = "select"
    /\ Return("Err")
    /\ UNCHANGED <<read, jobVars, wireVars, answered>>

\* Requests the host has received and not answered.
Outstanding == {k \in 1..consumed : wire[k].kind = "HostCall"} \ answered

\* HostClient::route finds the entry and hands the response over or drops it.
Response(k) ==
    /\ handler = "select"
    /\ k \in Outstanding
    /\ answered' = answered \cup {k}
    /\ UNCHANGED <<read, loopVars, jobVars, wireVars, result>>

-----------------------------------------------------------------------------
(* Finished actions.                                                       *)

\* JobManager::join_next and ::settle up to the first await: the terminal
\* update, or one acknowledgement for every cancellation received so far.
Settle(m) ==
    /\ handler = "select"
    /\ DOMAIN active # {}
    /\ task[m] = "finished"
    /\ task' = [task EXCEPT ![m] = "joined"]
    /\ LET j == read[m].job
           cancellations == active[j].cancellations
       IN  /\ StartSending("settle", m,
                  IF cancellations = <<>> THEN <<Reply("JobUpdate", active[j].trace)>>
                                          ELSE Acknowledgements(cancellations))
           /\ active' = [active EXCEPT ![j].cancellations = <<>>]
    /\ UNCHANGED <<read, token, context, wireVars, answered, result>>

\* JobManager::join_next: the supervisor task ended without a result.
JoinError(m) ==
    /\ handler = "select"
    /\ DOMAIN active # {}
    /\ task[m] = "lost"
    /\ task' = [task EXCEPT ![m] = "joined"]
    /\ Return("Err")
    /\ UNCHANGED <<read, active, token, context, wireVars, answered>>

-----------------------------------------------------------------------------
(* The rest of a handler, from one await to the next.                      *)

\* SessionSender::send of the next envelope of the handler.
SendHead ==
    /\ outbox # <<>>
    /\ open
    /\ Room
    /\ wire' = Append(wire, Head(outbox))
    /\ UNCHANGED <<consumed, open, read, answered, result>>

\* The last envelope is sent and the handler returns to `select!`.
SendLast ==
    /\ SendHead
    /\ Len(outbox) = 1
    /\ handler' = "select" /\ subject' = 0 /\ outbox' = <<>>

\* More envelopes follow.
SendMore ==
    /\ SendHead
    /\ Len(outbox) > 1
    /\ outbox' = Tail(outbox)
    /\ UNCHANGED <<handler, subject, jobVars>>

\* Nothing else is to be done.
FinishReply ==
    /\ handler = "reply"
    /\ SendLast
    /\ UNCHANGED jobVars

\* JobManager::start after JobAccepted: spawn the task, insert the job.
FinishAccept ==
    /\ handler = "accept"
    /\ SendLast
    /\ task' = [task EXCEPT ![subject] = "running"]
    /\ active' = [j \in DOMAIN active \cup {read[subject].job} |->
                     IF j = read[subject].job
                     THEN [trace |-> subject, cancellations |-> <<>>]
                     ELSE active[j]]
    /\ UNCHANGED <<token, context>>

\* JobManager::settle after the last envelope: the job is no longer active.
FinishSettle ==
    /\ handler = "settle"
    /\ SendLast
    /\ active' = [j \in DOMAIN active \ {read[subject].job} |-> active[j]]
    /\ UNCHANGED <<task, token, context>>

\* The order in which shutdown drains the acknowledgements: job by job in the
\* order of the hash map, each job's in the order they came.
DrainOrders ==
    LET waiting == UNION {Range(active[j].cancellations) : j \in DOMAIN active}
    IN  {s \in SetToSeqs(waiting) :
            \A a, b \in 1..Len(s) :
                a < b /\ read[s[a]].job = read[s[b]].job =>
                    /\ s[a] < s[b]
                    /\ \A c \in a..b : read[s[c]].job = read[s[a]].job}

\* JobManager::shutdown is done: the jobs are cleared and serve goes on to
\* acknowledge the shutdown.
ClearAndDeliver ==
    /\ active' = <<>>
    /\ StartSending("deliver", subject, <<Reply("ShutdownAcknowledged", subject)>>)

\* JobManager::shutdown: the JoinSet is empty.  What is left to acknowledge is
\* taken from the jobs and sent.
JoinAll ==
    /\ handler = "join"
    /\ Unjoined = Ended
    /\ task' = [m \in Messages |-> IF m \in Ended THEN "joined" ELSE task[m]]
    /\ \E order \in DrainOrders :
          IF order = <<>>
          THEN ClearAndDeliver
          ELSE /\ active' = [j \in DOMAIN active |->
                                [active[j] EXCEPT !.cancellations = <<>>]]
               /\ StartSending("drain", subject, Acknowledgements(order))
    /\ UNCHANGED <<read, token, context, wireVars, answered, result>>

\* JobManager::shutdown: all acknowledgements are sent.
FinishDrain ==
    /\ handler = "drain"
    /\ SendHead
    /\ Len(outbox) = 1
    /\ ClearAndDeliver
    /\ UNCHANGED <<task, token, context>>

\* serve: ShutdownAcknowledged is in the channel; wait until it is consumed.
FinishDeliver ==
    /\ handler = "deliver"
    /\ SendHead
    /\ handler' = "consume" /\ outbox' = <<>>
    /\ UNCHANGED <<subject, jobVars>>

IsConsumed(e) == \E k \in 1..consumed : wire[k] = e

\* serve returns the deadline, and wait_for_host_close begins.
FinishConsume ==
    /\ handler = "consume"
    /\ IsConsumed(Reply("ShutdownAcknowledged", subject))
    /\ handler' = "close"
    /\ UNCHANGED <<read, subject, outbox, jobVars, wireVars, answered, result>>

\* A send fails, or the envelope whose consumption is awaited is dropped.
SendFails ==
    /\ ~open
    /\ \/ outbox # <<>>
       \/ handler = "consume" /\ ~IsConsumed(Reply("ShutdownAcknowledged", subject))
    /\ Return("Err")
    /\ UNCHANGED <<read, jobVars, wireVars, answered>>

-----------------------------------------------------------------------------
(* wait_for_host_close.                                                    *)

\* The host closes the stream, the stream breaks, or the deadline passes.
HostCloses ==
    /\ handler = "close"
    /\ Return("shutdown")
    /\ UNCHANGED <<read, jobVars, wireVars, answered>>

\* Any message is an error, whatever it is.
LateMessage ==
    /\ handler = "close"
    /\ Return("Err")
    /\ UNCHANGED <<read, jobVars, wireVars, answered>>

\* Also a response to a request that was issued before the shutdown.
LateResponse(k) ==
    /\ handler = "close"
    /\ k \in Outstanding
    /\ answered' = answered \cup {k}
    /\ Return("Err")
    /\ UNCHANGED <<read, jobVars, wireVars>>

-----------------------------------------------------------------------------
(* Actions and the work they have spawned.                                 *)

\* run_action completes with a result, an error or a caught panic; FinishGuard
\* ends the token.
Finish(m) ==
    /\ handler # "returned"
    /\ task[m] = "running"
    /\ task' = [task EXCEPT ![m] = "finished"]
    /\ token' = [token EXCEPT ![m] = Change(@, "FINISHED")]
    /\ UNCHANGED <<read, loopVars, active, context, wireVars, answered, result>>

\* The task panics outside catch_unwind, while its future is dropped.
Lose(m) ==
    /\ handler # "returned"
    /\ task[m] = "running"
    /\ task' = [task EXCEPT ![m] = "lost"]
    /\ token' = [token EXCEPT ![m] = Change(@, "FINISHED")]
    /\ UNCHANGED <<read, loopVars, active, context, wireVars, answered, result>>

\* An aborted task stops at its next await, or completes before it.
Abort(m) ==
    /\ handler # "returned"
    /\ task[m] = "aborted"
    /\ task' = [task EXCEPT ![m] = "lost"]
    /\ token' = [token EXCEPT ![m] = Change(@, "FINISHED")]
    /\ UNCHANGED <<read, loopVars, active, context, wireVars, answered, result>>

\* The envelopes of actions, sent or about to be.
Emitting ==
    Cardinality({i \in 1..Len(wire) : wire[i].kind \in Emissions})
        + Cardinality({m \in Messages : context[m] = "polled"})

\* An operation of the context is polled: ensure_active, or the biased select!
\* that looks at the token before it polls the send.
Poll(m) ==
    /\ handler # "returned"
    /\ task[m] # "none"
    /\ token[m] = "ACTIVE"
    /\ context[m] = "idle"
    /\ Emitting < MaxEmissions
    /\ context' = [context EXCEPT ![m] = "polled"]
    /\ UNCHANGED <<read, loopVars, active, task, token, wireVars, answered, result>>

\* The same poll puts the envelope into the channel.
Emit(m, k) ==
    /\ handler # "returned"
    /\ context[m] = "polled"
    /\ open
    /\ Room
    /\ wire' = Append(wire, Reply(k, m))
    /\ context' = [context EXCEPT ![m] = "idle"]
    /\ UNCHANGED <<read, loopVars, active, task, token, consumed, open, answered, result>>

\* The same poll finds no room or a closed channel; the next looks again.
Suspend(m) ==
    /\ handler # "returned"
    /\ context[m] = "polled"
    /\ ~open \/ ~Room
    /\ context' = [context EXCEPT ![m] = "idle"]
    /\ UNCHANGED <<read, loopVars, active, task, token, wireVars, answered, result>>

-----------------------------------------------------------------------------
(* The transport and the parent process.                                   *)

\* OutboundEnvelope::consume.
Consume ==
    /\ handler # "returned"
    /\ open
    /\ consumed < Len(wire)
    /\ consumed' = consumed + 1
    /\ UNCHANGED <<read, loopVars, jobVars, wire, open, answered, result>>

\* The transport drops the output stream.
CloseWire ==
    /\ handler # "returned"
    /\ open
    /\ open' = FALSE
    /\ UNCHANGED <<read, loopVars, jobVars, wire, consumed, answered, result>>

\* The parent closed the liveness pipe: `run` drops the session and returns.
ParentExits ==
    /\ handler # "returned"
    /\ Return("eof")
    /\ UNCHANGED <<read, jobVars, wireVars, answered>>

\* `run` has returned.
Done ==
    /\ handler = "returned"
    /\ UNCHANGED vars

-----------------------------------------------------------------------------

TakeMessage ==
    \/ \E j \in Jobs :
          \/ StartDuplicate(j) \/ StartRejected(j) \/ StartAccepted(j)
          \/ CancelActive(j) \/ CancelInactive(j)
    \/ Heartbeat
    \/ Shutdown

\* What the loop does without anybody else.
Advance ==
    \/ SendMore \/ FinishReply \/ FinishAccept \/ FinishSettle
    \/ JoinAll \/ FinishDrain \/ FinishDeliver \/ FinishConsume
    \/ SendFails
    \/ \E m \in Messages : Settle(m) \/ JoinError(m)

Next ==
    \/ TakeMessage
    \/ Advance
    \/ ServeFails \/ HostCloses \/ LateMessage
    \/ \E k \in 1..Len(wire) : Response(k) \/ LateResponse(k)
    \/ \E m \in Messages :
          \/ Finish(m) \/ Lose(m) \/ Abort(m) \/ Poll(m) \/ Suspend(m)
          \/ \E k \in Emissions : Emit(m, k)
    \/ Consume \/ CloseWire \/ ParentExits
    \/ Done

Spec == Init /\ [][Next]_vars

\* The loop is polled; the transport drains the channel; an aborted task stops
\* at its next await; an action that is cancelled returns; the deadline of the
\* shutdown passes.  Nothing is assumed of other actions or of the host.
Fairness ==
    /\ WF_vars(Advance)
    /\ WF_vars(Consume)
    /\ WF_vars(HostCloses)
    /\ \A m \in Messages :
          /\ WF_vars(Abort(m))
          /\ WF_vars(token[m] = "CANCELLED" /\ Finish(m))

FairSpec == Spec /\ Fairness

-----------------------------------------------------------------------------
(* Properties.                                                             *)

Sent(k, m) == \E i \in 1..Len(wire) : wire[i] = Reply(k, m)

\* An acknowledged cancellation of the job of m, later than m.
CancelledLater(m) ==
    \E c \in (m + 1)..Len(read) :
        /\ read[c] = [kind |-> "CancelJob", job |-> read[m].job]
        /\ Sent("CancelJobAcknowledged", c)

\* What the host can see of the message m.
Fate(m) ==
    IF Sent("JobUpdate", m) THEN "updated"
    ELSE CASE Sent("ProtocolError", m) -> "rejected"
           [] Sent("JobAccepted", m) -> IF CancelledLater(m) THEN "cancelled" ELSE "running"
           [] \/ Sent("CancelJobAcknowledged", m)
              \/ Sent("Heartbeat", m)
              \/ Sent("ShutdownAcknowledged", m) -> "answered"
           [] OTHER -> "taken"

\* The JoinSet and the table of active jobs hold the same job instances, except
\* for the one being settled: no `expect` of join_next and settle can fail
\* (jobs.rs 150-154, 163-167, 192-194).
SupervisorMatchesJobs ==
    handler \in {"select", "reply", "accept", "settle"} =>
        /\ {active[j].trace : j \in DOMAIN active}
              = Unjoined \cup {m \in {subject} : handler = "settle"}
        /\ \A j \in DOMAIN active : read[active[j].trace].job = j

\* A job that was reported as ended, by its update or by the acknowledgement of
\* its cancellation, runs no more and its context is no longer active.
EndedWhenReported ==
    \A m \in 1..Len(read) :
        Fate(m) \in {"updated", "cancelled"} => task[m] = "joined" /\ token[m] # "ACTIVE"

\* No message is answered twice, and no job has two terminal updates, however
\* cancellations, completions and a shutdown cross.
AnsweredOnce ==
    \A i, k \in 1..Len(wire) :
        i # k /\ wire[i] = wire[k] => wire[i].kind \in Emissions

\* When `run` reports a graceful shutdown every message of the host has been
\* answered, the answers have left the process, and no action is left.
GracefulShutdown ==
    result = "shutdown" =>
        /\ Unjoined = {}
        /\ \A m \in 1..Len(read) :
              \E k \in 1..consumed : wire[k].kind \in Replies /\ wire[k].re = m

\* The session keeps the contract with the host.
Contract == INSTANCE JobContract WITH
    Maximum <- maximum_concurrent_jobs,
    taken   <- read,
    fate    <- [m \in 1..Len(read) |-> Fate(m)],
    outcome <- CASE result = "none"     -> "serving"
                 [] result = "shutdown" -> "completed"
                 [] OTHER               -> "failed"

ContractSpec == Contract!Spec

\* Every message the loop takes is answered, unless the session breaks off.  A
\* start is answered by acceptance or rejection.
EveryMessageAnswered ==
    \A m \in Messages :
        (m <= Len(read)) ~> (handler = "returned" \/ Fate(m) # "taken")

\* A shutdown ends: neither the jobs, the full channel, a lost stream nor a
\* host that never closes keeps `run` from returning.
ShutdownEnds == (handler = "join") ~> (handler = "returned")

\* A comment in client.rs (119-121): the response to a request of a cancelled
\* action does not fail the session.
LateResponsesDiscarded == [][answered' # answered => result' # "Err"]_vars

\* A test of cancellation.rs (116) is named finished_contexts_cannot_emit_more_work:
\* nothing of a job follows its terminal update.
NothingAfterUpdate ==
    \A i, k \in 1..Len(wire) :
        i < k /\ wire[i].kind = "JobUpdate" /\ wire[k].kind \in Emissions
            => wire[i].re # wire[k].re
=============================================================================
