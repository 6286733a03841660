----------------------------- MODULE EventWait -----------------------------
(***************************************************************************)
(* What StateUpdateEvents promises its callers, without the mutex and the  *)
(* condition variable: Notify(k) moves the version of kind k on, and a     *)
(* Wait on k that was entered before ends because of it.  StateUpdateEvents*)
(* implements this specification; LongPolling is built on it.              *)
(***************************************************************************)
EXTENDS EventState

waitVars == <<FVersions, FStopped, pc, call, result>>

\* The type invariant.
WaitTypeOK ==
    /\ FVersions \in [Kinds -> Versions]
    /\ FStopped \in BOOLEAN
    /\ pc \in [Waiters -> {"out", "waiting", "returned"}]
    /\ call \in [Waiters -> Calls]
    /\ result \in [Waiters -> BOOLEAN]

WaitInit ==
    /\ FVersions = [k \in Kinds |-> 0]
    /\ FStopped = FALSE
    /\ pc = [w \in Waiters |-> "out"]
    /\ call \in [Waiters -> [kind : Kinds, seen : {0}]]
    /\ result = [w \in Waiters |-> FALSE]

\* The version of w's kind is not the one its Wait began with.
Moved(w) == FVersions[call[w].kind] # call[w].seen

\* The predicate Wait waits for.
Due(w) == FStopped \/ Moved(w)

\* Wait(k): the version is read first; a stopped object is not waited for.
Enter(w, k) ==
    /\ pc[w] = "out"
    /\ call' = [call EXCEPT ![w] = [kind |-> k, seen |-> FVersions[k]]]
    /\ pc' = [pc EXCEPT ![w] = IF FStopped THEN "returned" ELSE "waiting"]
    /\ result' = [result EXCEPT ![w] = FALSE]
    /\ UNCHANGED <<FVersions, FStopped>>

Return(w, r) ==
    /\ pc[w] = "waiting"
    /\ pc' = [pc EXCEPT ![w] = "returned"]
    /\ result' = [result EXCEPT ![w] = r]
    /\ UNCHANGED <<FVersions, FStopped, call>>

\* Wait ends with what it waited for: TRUE for a change, FALSE for Stop.
Wake(w) == Due(w) /\ Return(w, ~FStopped)

\* Wait ends with its timeout: there was no change to report.
TimeOut(w) == ~Due(w) /\ Return(w, FALSE)

\* The caller is done with the result and may call Wait again.
Exit(w) ==
    /\ pc[w] = "returned"
    /\ pc' = [pc EXCEPT ![w] = "out"]
    /\ UNCHANGED <<FVersions, FStopped, call, result>>

\* Notify(k).
Advance(k) ==
    /\ FVersions[k] < MaxVersion
    /\ FVersions' = [FVersions EXCEPT ![k] = @ + 1]
    /\ UNCHANGED <<FStopped, pc, call, result>>

\* Stop.
End ==
    /\ FStopped' = TRUE
    /\ UNCHANGED <<FVersions, pc, call, result>>

WaitNext ==
    \/ \E w \in Waiters :
          \/ \E k \in Kinds : Enter(w, k)
          \/ Wake(w)
          \/ TimeOut(w)
          \/ Exit(w)
    \/ \E k \in Kinds : Advance(k)
    \/ End

WaitSpec == WaitInit /\ [][WaitNext]_waitVars

\* A Wait that has something to report returns.  Nothing is assumed of the
\* ten-minute timeout.
FairWaitSpec == WaitSpec /\ \A w \in Waiters : WF_waitVars(Wake(w))
=============================================================================
