# A TLA+ verification of the oll plugin SDK (Rust)

The SDK runs a plugin as a client of a host process. It opens one bidirectional
gRPC stream, says hello, and then serves jobs: the host starts and cancels
actions, the actions log, store artifacts and call back into the host, and in
the end the host shuts the session down. The code is small, and its difficulty
is where several tasks meet: futures that can be dropped at any await, a bounded
output channel, an ordered stream of message IDs, cancellations that cross
completions, and a shutdown that must leave nothing behind.

All source paths below are relative to the crate's `src/` directory.

## 1. Inventory

| Component | Source | State | Operations | What makes it correct |
|---|---|---|---|---|
| Session sender | `runtime/sender.rs` | `next_message_id` behind a Tokio `Mutex`; an `mpsc` channel of `OUTGOING_CAPACITY` envelopes | `send`, `send_registered`, `send_and_wait_for_consumption`, `OutboundEnvelope::consume` | IDs strictly increase on the stream, no ID is used twice, an overflow fails and nothing else |
| Host client | `runtime/host/client.rs` | `pending`: message ID -> trace and oneshot sender | `request`, `call`, `route`, `PendingGuard::drop` | exactly the unanswered requests are registered; only a response nobody asked for fails the session |
| Session | `runtime/session.rs` | phase, next incoming ID, trace of the handshake | `run_session` (handshake), `serve`, `wait_for_host_close`, `validate_envelope` | every message is checked and answered; shutdown ends, after the answers have left the process |
| Job manager | `runtime/session/jobs.rs` | `active` (job ID -> trace, cancellations, controller), a `JoinSet` | `start`, `cancel`, `join_next`, `settle`, `shutdown`, `run_action`, `terminal_update` | at most the maximum run; each ends with one update or with acknowledgements, never both; both tables agree |
| Cancellation token | `runtime/cancellation.rs` | an atomic value and a `Notify` | `cancel`, `finish`, `cancelled`, `is_cancelled` | the first of cancel and finish decides; no wakeup is lost |
| Action context | `runtime/host.rs` | job, token, sender, host client, call depth | `log`, `host_call`, `store_artifact` | nothing is sent for a job that has ended; a host call is one level below its job and within the limit |
| Artifacts | `runtime/host/artifact.rs`, `host.rs` | chunk plan, bytes remaining, hash | validate, transfer, finish | chunks add up to the descriptor although the source can change |
| Host calls | `runtime/host/call.rs` | none | checks of a request, pairing with the response | no response of the wrong kind and no unsound value is accepted |
| Parent liveness | `runtime/session/liveness.rs` | watcher thread, stop flag, stdin pipe | watch, end, drop | the end of the parent ends `run`; drop always joins the thread |
| Validation | `runtime/validation.rs` | none | field checks | a hello, a trace or an error that breaks a rule goes no further |
| Configuration values | `runtime/value.rs` | none | recursive check with a depth bound | accepts exactly the sound values within the bound |
| Errors | `runtime/error.rs` | none | mapping to protocol errors | a host's error comes back unchanged; every error sent has a code and a message |
| Plugin builder | `runtime/plugin.rs` | the description of the plugin | builder methods, `run` | |
| Runtime entry, protocol | `runtime.rs`, `lib.rs`, `build.rs`, `proto/` | none | | generated and declarative |

How they interact. `run` races the session against the parent watcher. The
session loop is one task: `select!` takes either a finished action from the
`JoinSet` or the next message of the host and handles it to the end. Every
handler sends through the one `SessionSender`, as does every action, through the
`ActionContext` of its job, and any work the action has spawned with a clone of
that context. The loop is also who hands responses to waiting host calls, so an
action in `request` depends on the loop and the loop's sends depend on the room
the actions leave in the channel. The loop cancels a job through its token; the
task finishes the same token when it ends, on another thread.

What is hard to test, by place (the full list, with lines and properties, is
under `hazards` in `PROJECT.json`):

* a future dropped between taking an ID, registering and enqueueing, or while it
  waits for its response, which then arrives late;
* the sender's lock held over an await when the channel is full, closed, or the
  IDs are exhausted;
* cancellations, several for one job, that cross its completion; job IDs that are
  used again; a start at the limit;
* a shutdown that finds running, finished and cancelled jobs at once, a stream
  that breaks in the middle of its acknowledgements, and a host that does not
  close;
* the token ending between the check and the await of a waiter, or between the
  check and the send of an operation;
* limits that differ: the depth of a nested call at its limit and at the width of
  its type, values nested to the limit in lists and maps, the decoder's own limit;
* a host that repeats, reorders or forges envelopes, and errors that pass through
  an action and back;
* liveness: every message of the host is answered, every call returns, a
  shutdown ends.

## 2. Modules

### HostClient: sender and routing table

`HostClient.tla` models `sender.rs` and `client.rs` at the granularity of their
awaits. A caller is a future; `pc` says at which await it is suspended.

| Code | Model |
|---|---|
| `state.lock().await` | `Begin` joins the queue of the fair lock (`ahead`), `Allocate` runs when nobody is ahead |
| `checked_add`, `register(message_id)` | `Allocate`, one step because nothing is awaited; `Exhaust` on overflow |
| `outgoing.reserve/send().await` with the lock held | `Enqueue`, `EnqueueClosed` |
| `PendingGuard`, its `sent` flag and its `drop` | `Unregister` in `EnqueueClosed` and `DropEnqueueing`, none in `DropWaiting` |
| the oneshot of a request | `delivered`, `HasReceiver`, `Receive`, `ReceiveFailed` |
| `send_and_wait_for_consumption` | kind `"deliver"`, `Consumed` |
| `route` | `Route`, `RouteMismatch`, `RouteUnknown` |
| dropping a future at any await | `DropLocking`, `DropEnqueueing`, `DropWaiting` |

The host is arbitrary: it may answer any ID with any trace at any time. History
variables record what it has answered and whether it ever answered something it
was not asked. External: the fair Tokio mutex, the bounded channel, the transport
that consumes from it.

`OrderedRequests.tla` is the abstract object: an envelope gets its ID, its entry
and its place on the stream in one step, a response removes the entry, and only
a host that misbehaves can make it fail. `HostClient` implements it with the
mapping that hides the entry of the caller that still waits for room.

### Serve: session loop, jobs and shutdown

`Serve.tla` models `serve`, `wait_for_host_close` and the job manager. A handler
is cut at its awaits: the step that takes the message does everything up to the
first send and fills `outbox`; each send is a step that needs room in the
channel; the last one performs what the code does after it (`FinishAccept` spawns
the task and inserts the job, `FinishSettle` removes it, `FinishDrain` clears the
table and goes on to acknowledge the shutdown). While a handler sends, actions
finish, their output competes for the channel, the stream may close and the
parent may exit.

A message of the host is named by its position in `read`, so a job that is
started twice under one job ID is two instances with two tasks and tokens. A
message that fails a check is the one step `ServeFails`, since all failed checks
have the same effect (the checks themselves are in `Session`). Two simplifications
rest on `HostClient`: a send is one step (its refinement theorem), and the response to
an outstanding request always finds its entry (`TableExact`).

`JobContract.tla` is what the host may rely on: rejected only at the limit, one
terminal update or acknowledgements instead, a terminal update never behind a
cancellation or a shutdown, everything else answered before the next message is
taken, nothing left unanswered by a graceful end. `Serve` implements it; the
mapping (`Fate`) reads only what was put on the wire.

### Cancellation: the token

`Cancellation.tla` takes the token apart: each `compare_exchange`, `load`,
`enable` and poll is a step, so every interleaving of `cancelled()` with `cancel`
and `finish` happens. Tokio's `Notify` is external and modelled from how the code
uses it: `notify_waiters` wakes those registered and stores no permit. `Serve`
uses the token's value with atomic transitions, which `FirstDecides` justifies.

### ParentLiveness: the watcher of the parent

`ParentLiveness.tla` models `liveness.rs` and the `select!` of `run`. `unix`, chosen
in the initial state, says which of the two implementations is compiled: the thread
that polls with a timeout and is joined on drop, or the one that blocks in read and is
detached. Each access to the stop flag, each system call with all its results
(timeout, ready, interrupted, failed, a byte, the end) and each use of the oneshot
channel is a step. The pipe is external. `Serve` has the end of the parent as the one
step `ParentExits`.

### Artifact: transfers

`Artifact.tla` models one call of `store_artifact` from await to await, with
`validate_source` and the arithmetic of `artifact_plan`, integer widths included.
Concurrent calls share only the sender and the token, so one is enough. The source
belongs to the caller: it may stand at any position (`Starts`), may not fit its
descriptor, and may change once at any moment of the call. `Locate` records the position
and `Rewind` returns to it. A digest is abstracted to whether the bytes read were those
described. `Refused` is every response that is not the expected one; which error the
action then gets is in `Results`. Every await is in a biased `select!`; the look at the token and the rest of
the same poll are not atomic, which `mid` (the call had looked when the token ended)
expresses without an extra step per poll. A call whose descriptor is refused by
`validate_descriptor` changes nothing and is left out. Sends and responses are single
steps, as in `Serve`.

### Session: handshake, headers and depth

`Session.tla` models what `Serve` leaves out of an envelope: its ID, identity and
trace. `run_session` goes through the handshake (`HostHello`, `SendPluginHello`,
`HostReady`, `SendReady`); then each envelope of the host passes `EnvelopeValid`
(`validate_envelope`) and starts a job, is answered, or is absorbed. The host is
arbitrary: any header, with any ID, identity, trace and `reply_to`, may come at any
time; one that fails a check ends the session (`End`). A job's context keeps the trace
and the ID of its start. `HostCall` computes the depth with its width (`CallDepths` is
empty where `checked_add` or the limit refuses), and every envelope is stamped as in
`sender.rs`. The history variables `greeting` and `confirmation` keep what the host
has announced, so the properties do not trust the plugin's own copy. A hello is
reduced to whether it names the expected node and plugin, and to its three limits.

### ConfigValue and Results: what crosses the boundary

`ConfigValue.tla` is `value.rs` as operators: a value is the sequence of its nodes,
each naming its parent (`IsTree`: a parent comes before its children); `Validate` is the
recursive check (as a recursive function of the depth whose values are functions of the
node, giving the set of errors it may return, since a hash map has no order), and `Sound` says without following children what it should accept: depth
counted from the root, no function that the session does not own, and a time in its
one representation, the quotient and remainder of the nanoseconds it stands for.
`Levels` counts the messages prost meets (external).

`Results.tla` follows payloads: host calls by kind with the checks in both directions
(`HostCallKind`, `HostClient::call`), the two ways an error of the host can come, also in
answer to a request of a transfer (`StoreError`), log fields, structured results (checked
when they are made and again in the update, which carries the value), attached artifacts
and the terminal update (`ActionResult::into_wire`, `terminal_update`, `outbound_error`,
`SdkError::protocol_error`). A `StoredArtifact` belongs to this job or to another: the code
compares job IDs, and the host makes a new one for each job. An error is reduced to its variant and to whether its
message is empty. Calls come before artifacts in this model (`Free`), since they share
no state. `crossing` records the last value checked, `answer` the last error of the
host. One value stands for a list of arguments or results, and two kinds for the five
that carry no value.

How the modules divide an envelope: `HostClient` has its place in the stream and the
routing of its answer, `Session` its header, `Results` its payload, `Serve` and
`Artifact` when it may be sent and what follows from it. Each takes from the others
what their properties say: `Serve` a correct send (`RequestsSpec`) and one message at
a time with an ID of its own (`CallsAttributable`), `Results` a `StoredArtifact` only
for a confirmed transfer (`Artifact`).

## 3. Runs

| Run | Instance | Shows |
|---|---|---|
| `host_client` | 2 callers, 2 traces, 1 slot, IDs up to 3, fair | types and bounds of the IDs, order of the stream, exact table, failure only by a faulty host, refinement of `OrderedRequests`, every call returns |
| `serve` | 2 job IDs, limit 2, 1 slot, 5 host messages | tables agree, a reported end is true, nothing is answered twice, a graceful end leaves nothing |
| `serve_contract` | 2 job IDs, limit 1, 1 slot, 4 host messages | refinement of `JobContract`, rejection at the limit included |
| `serve_live` | limit 1, 1 slot, 3 host messages, 1 envelope of an action, fair | every message is answered, a shutdown ends, and a graceful end leaves nothing, while actions log, call the host and get responses |
| `cancellation` | 2 waiters, 2 cancels, 1 finish, fair | no lost wakeup, the first call decides, waiters are released |
| `parent_liveness` | both platforms, 2 bytes, fair | a read never blocks, reports are true, the end of the parent is noticed, drop returns (without poll because the thread is detached) |
| `artifact` | 1 call, all sizes 0..8, positions 0 and 1, limits 1..3, buffer 2, counts up to 3, fair | widths, chunks add up to the announcement, a stable source suffices and is sent from where it stood, refusal only when needed, a call ends with its job |
| `session` | 2 sessions and 2 instances (symmetric), IDs up to 4, depths 0..2, 2 jobs, 5 envelopes of the plugin | identity and limits of every envelope, host calls belong to one job, order of the handshake, whose confirmation is no response |
| `results` | all trees of up to 3 nodes, depth limit 1, all times around their bounds, 2 artifact IDs, up to 2 attached | values, errors and references are sound |
| `serve_late_response` | limit 1, 2 host messages | violated: see finding 1 |
| `serve_late_output` | limit 1, 2 host messages | violated: see finding 2 |
| `value_depth` | chains of maps around the code's depth limit of 33, prost's limit of 100 | violated: see finding 3 |

The bounds and why they suffice. One slot makes the channel full after every
send, so each send waits in some behaviour; more room only removes waits. Two
callers let one hold the lock while the other waits for it, or wait for its response
while the other takes an ID; the safety properties are proved for any number (section
5). Two traces let a response carry the wrong one.
`MaxMessageId` stands for `u64::MAX` and is 3, so that the counter is exhausted
while requests are outstanding. The proofs remove these bounds. In
`Serve` five messages allow start, start, cancel, cancel, shutdown, and start,
cancel, completion and a new start under the same ID; the limit of 1 with two job
IDs reaches rejection with few messages. The output of actions does not touch the
job table, so it is zero where it would only multiply states. Job IDs are
symmetric: the model never distinguishes them, and the symmetric runs check
safety only.

The widths of
`Artifact` are scaled so that the relation of the real ones holds (the largest u64 is
above the largest u32 plus one, times the buffer): with 8, 3 and 2 every size from
zero over exact multiples to overflow of the addition happens, as do limits below, at
and above the buffer. Two positions tell the beginning of a source from the place where
it was handed over. Two bytes in the pipe make the watcher go round before it finds
the end. In `Session` the width is 2, so that the limits, which differ, lie below and
at it and a job at the limit may be at the end of the width. In `Results` the depth
limit is 1 with trees of depth up to 2, on both sides of the limit and with every kind
of node at every place; a second is 2 nanoseconds long and the bounds are 2 seconds.

`Serve` may take its messages in any order and number up to the bound and its
`Done` step lets `run` have returned, so deadlock is checked in every run.

Every property has a mutation of the code that breaks it, written as an operator
beside the action it changes (a lock released too early, a missing guard, an
acknowledgement sent at once, a forgotten cancellation, and so on).

## 4. Fairness

Liveness is claimed only under these assumptions, weak fairness if nothing else is
said:

* `HostClient`: a started future is polled (the runtime's promise) or dropped;
  the transport drains the channel; a host answers the requests it has received;
  when the session is over its stream and tasks are dropped, as `run` does by
  returning. Nothing is assumed about callers starting anything.
* `Serve`: the loop is polled; the transport drains; an aborted task stops at
  its next await; an action whose token is cancelled returns; the deadline of the
  shutdown passes. Actions that are not cancelled may run forever, and nothing is
  assumed of the host. The random choice of `select!` needs no stronger
  assumption because the host messages of a run are bounded. The assumption on
  cancelled and aborted actions is about user code: an action that blocks its
  thread defeats `ShutdownEnds`, and the code has no timeout for it.
* `ParentLiveness`: the thread is scheduled and `poll` returns after its interval;
  a system call that is repeated is not interrupted every time (strong fairness,
  since an interruption takes the call back); `run` is polled. The parent need not
  write or exit.
* `Artifact`: only that a call whose token has ended is polled, which `Cancellation`
  justifies. Nothing is assumed of the host or the source.
* `Cancellation`: a call that changed the value goes on to notify, and a future
  is polled when it is woken.

## 5. Proofs

`HostClientProofs.tla` proves for any set of callers, any capacity and any bound
on the IDs:

* `TypeCorrect`, `InOrder`, `TableExact`, `HostAtFault`: `TypeOK`,
  `EnvelopesInOrder`, `PendingExact` and `FailsOnlyIfFaulty` are invariants;
* `Refinement`: the specification implements `OrderedRequests`.

They rest on `IndInv`. The order of the stream is not inductive: it needs that
the caller waiting for room has an ID above all of the wire (`HolderInv`) and that
there is only one such caller, which is mutual exclusion of the FIFO lock
(`LockInv`: of two queued callers one is ahead of the other). The exact table
needs that a trusted host has answered only what it consumed (`AnsweredInv`), so a
fresh ID was never answered, and that the entry of the waiting caller carries its
own trace (`EntryInv`). Each conjunct is proved for every action; the refinement
is proved action by action under `IndInv`: `Enqueue` is the abstract send, a
genuine `Route` the abstract answer, a response nobody asked for the abstract
misbehaviour, and everything else stutters.

Assumptions: `TraceOf` is a function from callers to traces, `Capacity` and
`MaxMessageId` are positive naturals.

`CancellationProofs.tla` proves `WakeupsKept` (`NoLostWakeup`) and
`FirstDecidesAlways` (`FirstDecides`) for any number of waiters and calls.
`NoLostWakeup` becomes inductive with two parts: an enabled future is registered or
woken (`RegisteredInv`), and one that saw the token active and was not woken
either still has it active or can rely on a call about to notify (`WakeInv`).

`ParentLivenessProofs.tla` proves `ReadsReturn` (`ReadNeverBlocks`) and
`ReportsAlwaysTrue` (`ReportsTrue`) on both platforms and for any number of bytes. The
invariant adds that the flag is set only after the `select!` is decided (`StopInv`),
that the channel is dropped without a report only after that (`ChannelInv`), and that a
watcher which was not stopped and found `Ok` has seen the end of the pipe (`FoundInv`);
`Ok` alone does not say so, since a stopped watcher returns it as well.

`SessionProofs.tla` proves `TypeCorrect`, `LimitsKept`, `HandshakeIsFirst` and
`CallsAttributed` (`TypeOK`, `WithinLimits`, `HandshakeFirst`, `CallsAttributable`) for
any identities, width and bounds. The invariant adds that the plugin's copy of the
greeting is true (`CopyInv`), what was sent in which phase (`PhaseInv`,
`ConfirmedInv`), that the contexts keep the limits themselves (`ContextLimits`), and
that their IDs are distinct and not above the last one accepted (`DistinctInv`), which
is what makes the parent of a host call unique. Assumptions: the empty ID is none of
the identities, and the bounds are naturals.

`ServeProofs.tla` proves `TypeCorrect`, `ThmSupervisorMatchesJobs`,
`ThmEndedWhenReported`, `ThmAnsweredOnce` and `ThmGracefulShutdown` (`TypeOK`,
`SupervisorMatchesJobs`, `EndedWhenReported`, `AnsweredOnce`, `GracefulShutdown`) for
any jobs, limit, capacity and bounds. None of these is inductive by itself; they share
one `IndInv`:

* `WireInv`, `OutboxInv`: only replies that fit a message that was taken are sent, what is
  about to be sent was not sent before, and `ShutdownAcknowledged` is the last reply;
* `ActiveInv`: the trace of an active job is its start, and the cancellations that wait
  for its end came later, differ, and are neither sent nor about to be;
* `TaskInv`, `JoinSetInv`: a task exists once its job was accepted, its token ends with
  it, and the tasks that are not joined are those of the active jobs;
* `CancelInv`: every cancellation later than the start of a task that is not joined waits
  for it, which is why an acknowledged cancellation means an ended job;
* `AnswerInv`: each message is replied to, about to be, waits for its job, or is the
  shutdown in progress; this is what `GracefulShutdown` needs (`CompletedInv`);
* `HandlerInv`: what each handler is about between its awaits.

Assumptions: `NoJob` is no job, the limit and the capacity are positive naturals, the
bounds on messages and output are naturals.

`ServeContractProofs.tla` proves `ContractKept`: the session implements `JobContract`
(`ContractSpec`). The mapping reads only the wire, so the proof needs what relates the
wire to the job table (`ContractInv`, inductive relative to `IndInv`): a start is not both
accepted and rejected (`ExclusiveInv`); an acknowledgement about to be sent is of a
cancellation later than the start of the active job it names (`AckInv`), and a handler
that sends a terminal update has none to send (`SettledInv`); an accepted job is active or
was reported as ended (`EndedInv`); the table respects the limit, also while the handler
of a start waits for room (`CapacityInv`). Then the jobs the host sees running are the
active ones between settlements (`ActiveRunning`, `RunningActive`), and there are as many
(`RunningCount`, by a bijection). Steps: taking a message is `Take`, a duplicate start and
every error `Fail`, the end `Complete`, and each envelope of the loop the action of its
kind; everything else, the output of actions included, stutters.

`ArtifactProofs.tla` proves `TypeCorrect`, `ThmChunksExact`, `ThmStableSourceSuffices`,
`ThmDescribedBytesSent` and `ThmTooManyOnlyIfNeeded` (`TypeOK`, `ChunksExact`,
`StableSourceSuffices`, `DescribedBytesSent`, `TooManyOnlyIfNeeded`) for any widths,
buffer, positions and set of limits allowed by the assumptions. The invariant says how many chunks remain (`PlanInv`: the number of chunks
of the bytes remaining is the plan minus the index), what the wire holds (`WireInv`: chunks
numbered in order whose lengths add up to what is no longer remaining), and where an
unmodified source stands, counted from its original position (`SourceInv`). The lemmas below it are about rounded-up division
and about sums over the wire.

`ResultsProofs.tla` proves `TypeCorrect`, `ThmValuesSound`, `ThmErrorsWellFormed`,
`ThmHostErrorKept` and `ThmReferencesStored` for any set of values that are trees
(`ValuesAssumption`), of any size and depth. The main lemma is that `Validate` accepts
exactly the `Sound` values, although one follows children and the other counts depth from the
root. The invariant says where an error comes from (`FailureInv`), what a result refers to
(`OutputInv`), that an update is made of the result (`UpdateInv`) and that the last value
checked was accepted only if sound (`CrossingSound`).

Facts about recursive functions (the sum over the wire, the depth of a node, the check of
a value) are proved by the least counterexample: the well-foundedness of the naturals
gives the smallest input on which the claim fails, and the recursion refutes it. A library
theorem of induction with an operator as parameter is not needed.

Only model-checked: liveness (`CallsReturn`, `EveryMessageAnswered`, `ShutdownEnds`,
`WaitersReleased`, `ParentNoticed`, `DropReturns`, `CancelledCallsEnd`), which is out of
the prover's reach, and the three findings. Every safety invariant, action property and
refinement of a passing run is stated by a theorem.

## 6. Findings

1. `LateResponsesDiscarded`. `client.rs` keeps the routing entry of a request
   whose action was cancelled so that the response is "recognized and discarded
   instead of failing the session". During `serve` this holds. But
   `wait_for_host_close` treats every message as an error, so if the host answers
   such a request after it got `ShutdownAcknowledged`, `run` returns an error
   although the shutdown was clean. Shown by `serve_late_response`.
2. `NothingAfterUpdate`. The test `finished_contexts_cannot_emit_more_work` states
   that a finished context emits nothing. An operation checks the token and then
   enqueues in the same poll; work spawned on another thread can pass the check,
   the action ends, the loop enqueues its terminal update, and the envelope
   follows it. Shown by `serve_late_output`.
3. `ValuesDecodable`. The comment on `MAXIMUM_VALUE_DEPTH` says that, with three
   messages per level of a map, "33 is the common safe wire limit for every value
   shape". That counts the value alone. On the wire it lies in an envelope, and a
   chain of 33 maps ends in message 101 of a `JobUpdate` and 102 of a host call or a
   log record, where prost's default allows 100; 32 would be safe. The test of the
   limit (`value_depth_matches_the_canonical_limit`) nests lists, which need two
   messages per level, and never encodes. Shown by `value_depth`; the limit of 100 is
   prost's default and not part of this repository.

## 7. Not modelled

* The syntax of endpoints, UUIDs, DNS names and file names (`validation.rs`,
  `validate_descriptor`): string processing without state. Where such a check fails
  inside a session, `ServeFails` and `End` are its effect.
* The builder and the command line: a few independent conditions before a session
  exists. `Serve` takes `maximum_concurrent_jobs` as a constant.
* Protocol definitions and generated code; gRPC and Tokio themselves, of which
  only the promises the code uses are modelled.
* An owner that keeps an unpolled future which holds the sender's lock: user code the
  SDK cannot exclude; the liveness runs assume that futures are polled or dropped.
* A job ID that the host uses for two jobs, as the identity of an artifact's owner: job
  IDs are UUIDs the host generates (`proto/oll/common.proto`), so two jobs with one ID
  are a fault of the host that `into_wire` cannot see. `Serve` does reuse them.
* Fields that are only passed through: text, metadata and details of an error, the
  deadline of a job.

## 8. Plan

Done: every component of section 1 that has state, with the proofs of section 5:
`OrderedRequests`, `HostClient`; `JobContract`, `Serve`; `Cancellation`;
`ParentLiveness`; `Artifact`; `Session`; `ConfigValue`, `Results`. Next:

1. The safety half of what the liveness runs rely on, as theorems: no handler waits for
   something that only the waiting handler could provide.
2. The links of section 2 between modules (what `Serve` assumes of a send and of an
   outstanding request) as stated lemmas instead of references.
