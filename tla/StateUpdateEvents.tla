-------------------------- MODULE StateUpdateEvents --------------------------
(***************************************************************************)
(* src/stateUpdateEvents.cpp: a version counter per kind of event, guarded *)
(* by FMutex, and the condition variable FChanged.                         *)
(*                                                                         *)
(* Each section under FMutex is one action.  A thread inside wait_for is   *)
(* either in the wait set of FChanged (asleep) or has left it and is about *)
(* to test the predicate again under FMutex.  notify_all is outside the    *)
(* lock in Notify and in Stop, so it is an action of its own: between the  *)
(* two the thread is in broadcasting.                                      *)
(***************************************************************************)
EXTENDS EventState

CONSTANTS
    Notifiers,   \* threads that call Notify: AIMP's main thread, the timer, ...
    Main         \* the notifier that also calls Stop (Plugin::Finalize)

ASSUME MainAssumption == Main \in Notifiers

VARIABLES
    asleep,       \* the wait set of FChanged
    timedOut,     \* threads whose wait_until returned cv_status::timeout
    broadcasting  \* notifiers between the end of the lock and notify_all

vars == <<FVersions, FStopped, pc, call, result, asleep, timedOut, broadcasting>>

\* The type invariant.  Its last two conjuncts tie the wait set to the calls
\* of Wait: only a thread inside wait_for is in it, and one that has timed out
\* is not put back, because its next test of the predicate is its last.
TypeOK ==
    /\ FVersions \in [Kinds -> Versions]
    /\ FStopped \in BOOLEAN
    /\ pc \in [Waiters -> {"out", "waiting", "returned"}]
    /\ call \in [Waiters -> Calls]
    /\ result \in [Waiters -> BOOLEAN]
    /\ asleep \subseteq Waiters
    /\ timedOut \subseteq Waiters
    /\ broadcasting \subseteq Notifiers
    /\ \A w \in asleep : pc[w] = "waiting"
    /\ asleep \cap timedOut = {}

Init ==
    /\ FVersions = [k \in Kinds |-> 0]
    /\ FStopped = FALSE
    /\ pc = [w \in Waiters |-> "out"]
    /\ call \in [Waiters -> [kind : Kinds, seen : {0}]]
    /\ result = [w \in Waiters |-> FALSE]
    /\ asleep = {}
    /\ timedOut = {}
    /\ broadcasting = {}

-----------------------------------------------------------------------------
\* The lambda given to wait_for.
Pred(w) == FStopped \/ FVersions[call[w].kind] # call[w].seen

\* Wait: lock, read seen, test the predicate once, and sleep unless it holds.
\* seen is the current version, so at that moment only Stop can make it hold.
Wait(w, k) ==
    /\ pc[w] = "out"
    /\ call' = [call EXCEPT ![w] = [kind |-> k, seen |-> FVersions[k]]]
    /\ pc' = [pc EXCEPT ![w] = IF FStopped THEN "returned" ELSE "waiting"]
    /\ result' = [result EXCEPT ![w] = FALSE]
    /\ asleep' = IF FStopped THEN asleep ELSE asleep \cup {w}
    /\ timedOut' = timedOut \ {w}
    /\ UNCHANGED <<FVersions, FStopped, broadcasting>>

\* The thread leaves the wait set without a notify_all.
SpuriousWakeup(w) ==
    /\ w \in asleep
    /\ asleep' = asleep \ {w}
    /\ UNCHANGED <<FVersions, FStopped, pc, call, result, timedOut, broadcasting>>

\* The timeout of wait_for expires; the predicate is tested once more later.
Timeout(w) ==
    /\ w \in asleep
    /\ asleep' = asleep \ {w}
    /\ timedOut' = timedOut \cup {w}
    /\ UNCHANGED <<FVersions, FStopped, pc, call, result, broadcasting>>

\* (mutant) "&& !FStopped" is missing.
WaitResultWhenStopped(w) == Pred(w)

\* What Wait returns: wait_for's value (the predicate), and not stopped.
WaitResult(w) == Pred(w) /\ ~FStopped

\* Back under the lock: return, or sleep again.
Retest(w) ==
    /\ pc[w] = "waiting"
    /\ w \notin asleep
    /\ IF Pred(w) \/ w \in timedOut
          THEN /\ pc' = [pc EXCEPT ![w] = "returned"]
               /\ result' = [result EXCEPT ![w] = WaitResult(w)]
               /\ UNCHANGED asleep
          ELSE /\ asleep' = asleep \cup {w}
               /\ UNCHANGED <<pc, result>>
    /\ UNCHANGED <<FVersions, FStopped, call, timedOut, broadcasting>>

\* The command is answered; the pool thread may serve another Wait.
Leave(w) ==
    /\ pc[w] = "returned"
    /\ pc' = [pc EXCEPT ![w] = "out"]
    /\ UNCHANGED <<FVersions, FStopped, call, result, asleep, timedOut, broadcasting>>

\* Notify up to the end of the lock.
Notify(n, k) ==
    /\ n \notin broadcasting
    /\ FVersions[k] < MaxVersion
    /\ FVersions' = [FVersions EXCEPT ![k] = @ + 1]
    /\ broadcasting' = broadcasting \cup {n}
    /\ UNCHANGED <<FStopped, pc, call, result, asleep, timedOut>>

\* Stop up to the end of the lock.  Finalize calls it, and the destructor
\* calls it again.
Stop ==
    /\ Main \notin broadcasting
    /\ FStopped' = TRUE
    /\ broadcasting' = broadcasting \cup {Main}
    /\ UNCHANGED <<FVersions, pc, call, result, asleep, timedOut>>

\* (mutant) FChanged.notify_one().
WakeOne == IF asleep = {} THEN {} ELSE asleep \ {CHOOSE w \in asleep : TRUE}

\* FChanged.notify_all(): the wait set is emptied.
WakeSet == {}

NotifyAll(n) ==
    /\ n \in broadcasting
    /\ asleep' = WakeSet
    /\ broadcasting' = broadcasting \ {n}
    /\ UNCHANGED <<FVersions, FStopped, pc, call, result, timedOut>>

Next ==
    \/ \E w \in Waiters :
          \/ \E k \in Kinds : Wait(w, k)
          \/ SpuriousWakeup(w)
          \/ Timeout(w)
          \/ Retest(w)
          \/ Leave(w)
    \/ \E n \in Notifiers :
          \/ \E k \in Kinds : Notify(n, k)
          \/ NotifyAll(n)
    \/ Stop

Spec == Init /\ [][Next]_vars

\* Threads run: one that holds no wait takes its next step.  Neither the
\* timeout nor a spurious wakeup is ever relied on.
Fairness ==
    /\ \A w \in Waiters : WF_vars(Retest(w))
    /\ \A n \in Notifiers : WF_vars(NotifyAll(n))

FairSpec == Spec /\ Fairness

-----------------------------------------------------------------------------
\* No wakeup is lost: a thread sleeps on although what it waits for has
\* happened only while some thread is still on its way to notify_all.  This
\* is what reading seen and testing the predicate under FMutex is for.
NoLostWakeup == \A w \in asleep : Pred(w) => broadcasting # {}

\* Seen from its callers, this is EventWait: in particular a Wait that ends
\* by its timeout never hides a change that came before it, and a Wait ended
\* by Stop never reports one.
Abs == INSTANCE EventWait WITH
           Kinds <- Kinds, Waiters <- Waiters, MaxVersion <- MaxVersion, FVersions <- FVersions,
           FStopped <- FStopped, pc <- pc, call <- call, result <- result

ImplementsEventWait == Abs!FairWaitSpec
=============================================================================
