------------------------- MODULE CancellationProofs --------------------------
(***************************************************************************)
(* Proofs about Cancellation for any number of waiters and calls.          *)
(***************************************************************************)
EXTENDS Cancellation, TLAPS

\* A future that has been enabled is in the waiter list or was woken.
RegisteredInv ==
    \A w \in Waiters :
        waiter[w] \in {"enabled", "checked", "awaiting"} => w \in registered \cup notified

\* A future that saw the token active and was not woken since can rely on a
\* call that is about to notify, if the token has ended in the meantime.
WakeInv ==
    \A w \in Waiters :
        waiter[w] \in {"checked", "awaiting"} /\ value # "ACTIVE" /\ w \notin notified =>
            \E c \in Calls : call[c] = "notifying"

IndInv == TypeOK /\ RegisteredInv /\ WakeInv

\* Every step keeps the invariant.
LEMMA IndStep == ASSUME IndInv, [Next]_vars PROVE IndInv'
<1> USE DEF IndInv, TypeOK, RegisteredInv, WakeInv
<1>1. ASSUME NEW c \in Calls, Exchange(c) PROVE IndInv'
  BY <1>1 DEF Exchange, Target
<1>2. ASSUME NEW c \in Calls, NotifyWaiters(c) PROVE IndInv'
  BY <1>2 DEF NotifyWaiters
<1>3. ASSUME NEW w \in Waiters, Create(w) PROVE IndInv'
  BY <1>3 DEF Create
<1>4. ASSUME NEW w \in Waiters, Enable(w) PROVE IndInv'
  BY <1>4 DEF Enable
<1>5. ASSUME NEW w \in Waiters, Load(w) PROVE IndInv'
  BY <1>5 DEF Load
<1>6. ASSUME NEW w \in Waiters, Await(w) PROVE IndInv'
  BY <1>6 DEF Await
<1>7. ASSUME NEW w \in Waiters, Wake(w) PROVE IndInv'
  BY <1>7 DEF Wake
<1>8. ASSUME NEW w \in Waiters, Drop(w) PROVE IndInv'
  BY <1>8 DEF Drop
<1>9. ASSUME NEW w \in Waiters, Again(w) PROVE IndInv'
  BY <1>9 DEF Again
<1>10. CASE UNCHANGED vars
  BY <1>10 DEF vars
<1> QED
  BY <1>1, <1>2, <1>3, <1>4, <1>5, <1>6, <1>7, <1>8, <1>9, <1>10 DEF Next

\* The invariant is inductive.
THEOREM Inductive == Spec => []IndInv
<1>1. Init => IndInv
  BY DEF Init, IndInv, TypeOK, RegisteredInv, WakeInv
<1>2. IndInv /\ [Next]_vars => IndInv'
  BY IndStep
<1> QED
  BY <1>1, <1>2, PTL DEF Spec

\* No wakeup is lost, for any number of waiters and of concurrent calls of
\* cancel and finish.
THEOREM WakeupsKept == Spec => [](TypeOK /\ NoLostWakeup)
<1>1. IndInv => TypeOK /\ NoLostWakeup
  BY DEF IndInv, TypeOK, RegisteredInv, WakeInv, NoLostWakeup
<1> QED
  BY Inductive, <1>1, PTL

\* The first of cancel and finish decides for good.
THEOREM FirstDecidesAlways == Spec => FirstDecides
<1>1. [Next]_vars => [value # "ACTIVE" => value' = value]_value
  BY DEF Next, Exchange, NotifyWaiters, Create, Enable, Load, Await, Wake, Drop, Again, vars
<1> QED
  BY <1>1, PTL DEF Spec, FirstDecides
=============================================================================
