---------------------------- MODULE Cancellation -----------------------------
(***************************************************************************)
(* The cancellation token of one job (runtime/cancellation.rs): an atomic  *)
(* value and a Notify, shared by the session loop, which cancels it, by    *)
(* the FinishGuard of the action's task, which finishes it, and by every   *)
(* future that waits in cancelled().  Each access to the atomic and to the *)
(* Notify is a step of its own.                                            *)
(*                                                                         *)
(* Tokio's Notify is external: notify_waiters wakes the futures registered *)
(* at that moment and leaves nothing behind for later ones, as the comment *)
(* in cancelled() says.                                                    *)
(***************************************************************************)

CONSTANTS
    Waiters,      \* futures that run cancelled()
    Cancellers,   \* calls of CancellationController::cancel
    Finishers     \* calls of CancellationController::finish

ASSUME CallsAssumption == Cancellers \cap Finishers = {}

Calls == Cancellers \cup Finishers

VARIABLES
    value,       \* CancellationState::value
    registered,  \* the futures in the waiter list of CancellationState::changed
    notified,    \* the futures that notify_waiters has woken
    waiter,      \* where each waiting future is
    call         \* where each call of cancel or finish is

vars == <<value, registered, notified, waiter, call>>

TypeOK ==
    /\ value \in {"ACTIVE", "CANCELLED", "FINISHED"}
    /\ registered \subseteq Waiters
    /\ notified \subseteq Waiters
    /\ waiter \in [Waiters -> {"idle", "created", "enabled", "checked", "awaiting", "returned"}]
    /\ call \in [Calls -> {"ready", "notifying", "done"}]

Init ==
    /\ value = "ACTIVE"
    /\ registered = {}
    /\ notified = {}
    /\ waiter = [w \in Waiters |-> "idle"]
    /\ call = [c \in Calls |-> "ready"]

-----------------------------------------------------------------------------
(* CancellationController.                                                 *)

\* What the compare_exchange of a call writes.
Target(c) == IF c \in Cancellers THEN "CANCELLED" ELSE "FINISHED"

\* A plain store in place of the compare_exchange.
StoreAlways(c) ==
    /\ call[c] = "ready"
    /\ value' = Target(c)
    /\ call' = [call EXCEPT ![c] = "notifying"]
    /\ UNCHANGED <<registered, notified, waiter>>

\* The compare_exchange: only the first call changes the value, and only the
\* call that changed it goes on to notify.
Exchange(c) ==
    /\ call[c] = "ready"
    /\ IF value = "ACTIVE"
       THEN /\ value' = Target(c)
            /\ call' = [call EXCEPT ![c] = "notifying"]
       ELSE /\ call' = [call EXCEPT ![c] = "done"]
            /\ UNCHANGED value
    /\ UNCHANGED <<registered, notified, waiter>>

\* Only one waiter is woken.
NotifyOne(c) ==
    /\ call[c] = "notifying"
    /\ call' = [call EXCEPT ![c] = "done"]
    /\ IF registered = {} THEN UNCHANGED <<registered, notified>>
       ELSE \E w \in registered :
                /\ notified' = notified \cup {w}
                /\ registered' = registered \ {w}
    /\ UNCHANGED <<value, waiter>>

\* notify_waiters.
NotifyWaiters(c) ==
    /\ call[c] = "notifying"
    /\ call' = [call EXCEPT ![c] = "done"]
    /\ notified' = notified \cup registered
    /\ registered' = {}
    /\ UNCHANGED <<value, waiter>>

-----------------------------------------------------------------------------
(* Cancellation::cancelled.                                                *)

\* A new turn of the loop creates a Notified future.
Create(w) ==
    /\ waiter[w] = "idle"
    /\ waiter' = [waiter EXCEPT ![w] = "created"]
    /\ UNCHANGED <<value, registered, notified, call>>

\* enable() is left out: the future registers only when it is awaited.
EnableLater(w) ==
    /\ waiter[w] = "created"
    /\ waiter' = [waiter EXCEPT ![w] = "enabled"]
    /\ UNCHANGED <<value, registered, notified, call>>

\* enable() registers it.
Enable(w) ==
    /\ waiter[w] = "created"
    /\ waiter' = [waiter EXCEPT ![w] = "enabled"]
    /\ registered' = registered \cup {w}
    /\ UNCHANGED <<value, notified, call>>

\* The load: return and drop the future, or go on to await it.
Load(w) ==
    /\ waiter[w] = "enabled"
    /\ IF value # "ACTIVE"
       THEN /\ waiter' = [waiter EXCEPT ![w] = "returned"]
            /\ registered' = registered \ {w}
            /\ notified' = notified \ {w}
       ELSE /\ waiter' = [waiter EXCEPT ![w] = "checked"]
            /\ UNCHANGED <<registered, notified>>
    /\ UNCHANGED <<value, call>>

\* The first poll of the await registers a future that is neither registered
\* nor woken yet.
Await(w) ==
    /\ waiter[w] = "checked"
    /\ waiter' = [waiter EXCEPT ![w] = "awaiting"]
    /\ registered' = registered \cup ({w} \ notified)
    /\ UNCHANGED <<value, notified, call>>

\* A woken future completes, and the loop takes another turn.
Wake(w) ==
    /\ waiter[w] = "awaiting"
    /\ w \in notified
    /\ notified' = notified \ {w}
    /\ waiter' = [waiter EXCEPT ![w] = "created"]
    /\ UNCHANGED <<value, registered, call>>

\* The future is dropped, as when the other branch of a select! is taken.
Drop(w) ==
    /\ waiter[w] \in {"created", "enabled", "checked", "awaiting"}
    /\ waiter' = [waiter EXCEPT ![w] = "idle"]
    /\ registered' = registered \ {w}
    /\ notified' = notified \ {w}
    /\ UNCHANGED <<value, call>>

\* The work that waited goes on and may call cancelled() again.
Again(w) ==
    /\ waiter[w] = "returned"
    /\ waiter' = [waiter EXCEPT ![w] = "idle"]
    /\ UNCHANGED <<value, registered, notified, call>>

-----------------------------------------------------------------------------

Next ==
    \/ \E c \in Calls : Exchange(c) \/ NotifyWaiters(c)
    \/ \E w \in Waiters :
          \/ Create(w) \/ Enable(w) \/ Load(w) \/ Await(w) \/ Wake(w)
          \/ Drop(w) \/ Again(w)

Spec == Init /\ [][Next]_vars

\* A call that changed the value notifies; a woken or running future is polled.
Fairness ==
    /\ \A c \in Calls : WF_vars(NotifyWaiters(c))
    /\ \A w \in Waiters : WF_vars(Enable(w) \/ Load(w) \/ Await(w) \/ Wake(w))

FairSpec == Spec /\ Fairness

-----------------------------------------------------------------------------
(* Properties.                                                             *)

\* No wakeup is lost: a future that sleeps although the token has ended will be
\* woken, because it was, or because the call that ended the token has found it
\* registered and is about to notify (cancelled, lines 30-42).
NoLostWakeup ==
    \A w \in Waiters :
        waiter[w] = "awaiting" /\ value # "ACTIVE" /\ w \notin notified =>
            w \in registered /\ \E c \in Calls : call[c] = "notifying"

\* The first of cancel and finish decides, and every later look at the token
\* agrees with it: a cancelled job is never seen as finished, nor a finished
\* one as cancelled.
FirstDecides == [][value # "ACTIVE" => value' = value]_value

\* Once the token has ended, everybody who waits for it goes on.
WaitersReleased ==
    \A w \in Waiters :
        (value # "ACTIVE" /\ waiter[w] = "awaiting") ~> (waiter[w] \in {"returned", "idle"})
=============================================================================
