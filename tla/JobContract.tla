----------------------------- MODULE JobContract -----------------------------
(***************************************************************************)
(* What a plugin session promises its host about jobs, seen from the host: *)
(* the messages it sent and what became of each.  A start is rejected only *)
(* at capacity; an accepted job ends with one terminal update or, if a     *)
(* cancellation came first, with acknowledgements instead; every other     *)
(* message is answered before the next one is taken; a graceful end        *)
(* leaves nothing unanswered.                                              *)
(***************************************************************************)
EXTENDS Naturals, FiniteSets, Sequences

CONSTANTS Jobs, NoJob, Maximum

VARIABLES
    taken,   \* the messages of the host, in order
    fate,    \* what became of each
    outcome  \* "serving", "completed" gracefully, or "failed"

vars == <<taken, fate, outcome>>

Kinds == {"StartJob", "CancelJob", "Heartbeat", "Shutdown"}

Init ==
    /\ taken = <<>>
    /\ fate = <<>>
    /\ outcome = "serving"

With(k, f) == {m \in 1..Len(taken) : taken[m].kind = k /\ fate[m] = f}

Running == With("StartJob", "running")

IsRunning(j) == \E m \in Running : taken[m].job = j

\* A message that must be answered before the next is taken: any but the
\* cancellation of a job that still runs.
Urgent ==
    \E m \in 1..Len(taken) :
        /\ fate[m] = "taken"
        /\ ~(taken[m].kind = "CancelJob" /\ IsRunning(taken[m].job))

Set(m, f) ==
    /\ outcome = "serving"
    /\ fate' = [fate EXCEPT ![m] = f]
    /\ UNCHANGED <<taken, outcome>>

Take ==
    /\ outcome = "serving"
    /\ ~Urgent
    /\ With("Shutdown", "answered") = {}
    /\ \E k \in Kinds, j \in Jobs \cup {NoJob} :
          /\ k = "StartJob" => ~IsRunning(j)
          /\ taken' = Append(taken, [kind |-> k, job |-> j])
          /\ fate' = Append(fate, "taken")
    /\ UNCHANGED outcome

Accept(m) ==
    /\ m \in With("StartJob", "taken")
    /\ Cardinality(Running) < Maximum
    /\ Set(m, "running")

Reject(m) ==
    /\ m \in With("StartJob", "taken")
    /\ Cardinality(Running) = Maximum
    /\ Set(m, "rejected")

\* A terminal update never overtakes a cancellation or a shutdown.
Update(m) ==
    /\ m \in Running
    /\ ~ \E c \in With("CancelJob", "taken") : taken[c].job = taken[m].job
    /\ With("Shutdown", "taken") = {}
    /\ Set(m, "updated")

\* An acknowledged cancellation ends the job it is about, if that still runs.
Acknowledge(c) ==
    /\ outcome = "serving"
    /\ c \in With("CancelJob", "taken")
    /\ fate' = [m \in 1..Len(taken) |->
                   CASE m = c -> "answered"
                     [] m \in Running /\ taken[m].job = taken[c].job -> "cancelled"
                     [] OTHER -> fate[m]]
    /\ UNCHANGED <<taken, outcome>>

Echo(m) ==
    /\ m \in With("Heartbeat", "taken")
    /\ Set(m, "answered")

\* The shutdown is acknowledged after everything else.
AcknowledgeShutdown(m) ==
    /\ m \in With("Shutdown", "taken")
    /\ \A c \in 1..Len(taken) : fate[c] = "taken" => c = m
    /\ Set(m, "answered")

Complete ==
    /\ outcome = "serving"
    /\ With("Shutdown", "answered") # {}
    /\ outcome' = "completed"
    /\ UNCHANGED <<taken, fate>>

\* The session breaks off: a protocol violation by the host, possibly the
\* message it just sent, a lost stream or parent.
Fail ==
    /\ outcome = "serving"
    /\ outcome' = "failed"
    /\ \/ UNCHANGED <<taken, fate>>
       \/ \E j \in Jobs :
             /\ IsRunning(j)
             /\ taken' = Append(taken, [kind |-> "StartJob", job |-> j])
             /\ fate' = Append(fate, "taken")

Next ==
    \/ Take
    \/ \E m \in 1..Len(taken) :
          \/ Accept(m) \/ Reject(m) \/ Update(m) \/ Acknowledge(m) \/ Echo(m)
          \/ AcknowledgeShutdown(m)
    \/ Complete
    \/ Fail

Spec == Init /\ [][Next]_vars
=============================================================================
