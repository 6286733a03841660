-------------------------- MODULE LongPollingProofs --------------------------
(***************************************************************************)
(* Proofs about StateUpdateEvents, for any number of threads and kinds,    *)
(* and about LongPolling, for any polls of any kinds, any other requests   *)
(* and any size of the pool.  The first shows that EventWait, on which the *)
(* second is built, is what the condition variable provides.               *)
(***************************************************************************)
EXTENDS StateUpdateEvents, LongPolling, FiniteSetTheorems, TLAPS

USE MaxVersionAssumption, MainAssumption

-----------------------------------------------------------------------------
(* The condition variable *)

\* The predicate of a waiting thread is a Boolean.
LEMMA PredBoolean ==
    ASSUME TypeOK, NEW w \in Waiters
    PROVE  Pred(w) \in BOOLEAN
BY DEF TypeOK, Pred

\* Type correctness: every step keeps the type invariant, including that the
\* wait set of FChanged holds only threads that are inside wait_for.
LEMMA ConditionTypeStep == TypeOK /\ [Next]_vars => TypeOK'
<1> SUFFICES ASSUME TypeOK, [Next]_vars
             PROVE  TypeOK'
    OBVIOUS
<1>1. CASE UNCHANGED vars
    BY <1>1 DEF TypeOK, vars
<1>2. ASSUME NEW w \in Waiters, NEW k \in Kinds, Wait(w, k)
      PROVE  TypeOK'
    BY <1>2 DEF TypeOK, Wait, Calls, Versions
<1>3. ASSUME NEW w \in Waiters, SpuriousWakeup(w)
      PROVE  TypeOK'
    BY <1>3 DEF TypeOK, SpuriousWakeup
<1>4. ASSUME NEW w \in Waiters, Timeout(w)
      PROVE  TypeOK'
    BY <1>4 DEF TypeOK, Timeout
<1>5. ASSUME NEW w \in Waiters, Retest(w)
      PROVE  TypeOK'
    <2>1. CASE Pred(w) \/ w \in timedOut
        <3>1. WaitResult(w) \in BOOLEAN
            BY PredBoolean DEF WaitResult
        <3> QED
            BY <1>5, <2>1, <3>1 DEF TypeOK, Retest
    <2>2. CASE ~(Pred(w) \/ w \in timedOut)
        BY <1>5, <2>2 DEF TypeOK, Retest
    <2> QED
        BY <2>1, <2>2
<1>6. ASSUME NEW w \in Waiters, Leave(w)
      PROVE  TypeOK'
    BY <1>6 DEF TypeOK, Leave
<1>7. ASSUME NEW n \in Notifiers, NEW k \in Kinds, Notify(n, k)
      PROVE  TypeOK'
    BY <1>7 DEF TypeOK, Notify, Versions
<1>8. ASSUME NEW n \in Notifiers, NotifyAll(n)
      PROVE  TypeOK'
    BY <1>8 DEF TypeOK, NotifyAll, WakeSet
<1>9. CASE Stop
    BY <1>9 DEF TypeOK, Stop
<1> QED
    BY <1>1, <1>2, <1>3, <1>4, <1>5, <1>6, <1>7, <1>8, <1>9 DEF Next

\* StateUpdateEvents is type correct.
THEOREM ConditionTypeCorrect == Spec => []TypeOK
<1>1. Init => TypeOK
    <2> SUFFICES ASSUME Init
                 PROVE  TypeOK
        OBVIOUS
    <2>1. 0 \in Versions
        BY DEF Versions
    <2>2. call \in [Waiters -> Calls]
        BY <2>1 DEF Init, Calls
    <2> QED
        BY <2>1, <2>2 DEF Init, TypeOK
<1> QED
    BY <1>1, ConditionTypeStep, PTL DEF Spec

\* One step keeps "no wakeup is lost".  Pred can become true only in Notify
\* and Stop, which leave the notifier broadcasting, and a thread goes to sleep
\* only where Pred is false.
LEMMA NoLostWakeupStep == TypeOK /\ NoLostWakeup /\ [Next]_vars => NoLostWakeup'
<1> SUFFICES ASSUME TypeOK, NoLostWakeup, [Next]_vars
             PROVE  NoLostWakeup'
    OBVIOUS
<1>1. CASE UNCHANGED vars
    BY <1>1 DEF NoLostWakeup, Pred, vars
<1>2. ASSUME NEW w \in Waiters, NEW k \in Kinds, Wait(w, k)
      PROVE  NoLostWakeup'
    BY <1>2 DEF TypeOK, NoLostWakeup, Pred, Wait, Calls, Versions
<1>3. ASSUME NEW w \in Waiters, SpuriousWakeup(w)
      PROVE  NoLostWakeup'
    BY <1>3 DEF NoLostWakeup, Pred, SpuriousWakeup
<1>4. ASSUME NEW w \in Waiters, Timeout(w)
      PROVE  NoLostWakeup'
    BY <1>4 DEF NoLostWakeup, Pred, Timeout
<1>5. ASSUME NEW w \in Waiters, Retest(w)
      PROVE  NoLostWakeup'
    BY <1>5 DEF NoLostWakeup, Pred, Retest
<1>6. ASSUME NEW w \in Waiters, Leave(w)
      PROVE  NoLostWakeup'
    BY <1>6 DEF NoLostWakeup, Pred, Leave
<1>7. ASSUME NEW n \in Notifiers, NEW k \in Kinds, Notify(n, k)
      PROVE  NoLostWakeup'
    BY <1>7 DEF NoLostWakeup, Notify
<1>8. ASSUME NEW n \in Notifiers, NotifyAll(n)
      PROVE  NoLostWakeup'
    BY <1>8 DEF NoLostWakeup, NotifyAll, WakeSet
<1>9. CASE Stop
    BY <1>9 DEF NoLostWakeup, Stop
<1> QED
    BY <1>1, <1>2, <1>3, <1>4, <1>5, <1>6, <1>7, <1>8, <1>9 DEF Next

\* No wakeup is lost, whatever the number of waiters and notifiers and however
\* their sections under FMutex interleave.
THEOREM NoWakeupIsLost == Spec => []NoLostWakeup
<1>1. Init => NoLostWakeup
    BY DEF Init, NoLostWakeup
<1> QED
    BY <1>1, NoLostWakeupStep, ConditionTypeCorrect, PTL DEF Spec

\* A step of the detailed specification is a step of EventWait or leaves its
\* variables alone.
LEMMA StepSimulation == TypeOK /\ [Next]_vars => [Abs!WaitNext]_(Abs!waitVars)
<1> SUFFICES ASSUME TypeOK, [Next]_vars
             PROVE  [Abs!WaitNext]_(Abs!waitVars)
    OBVIOUS
<1>1. CASE UNCHANGED vars
    BY <1>1 DEF Abs!waitVars, vars
<1>2. ASSUME NEW w \in Waiters, NEW k \in Kinds, Wait(w, k)
      PROVE  Abs!Enter(w, k)
    BY <1>2 DEF Wait, Abs!Enter
<1>3. ASSUME NEW w \in Waiters, SpuriousWakeup(w)
      PROVE  UNCHANGED Abs!waitVars
    BY <1>3 DEF SpuriousWakeup, Abs!waitVars
<1>4. ASSUME NEW w \in Waiters, Timeout(w)
      PROVE  UNCHANGED Abs!waitVars
    BY <1>4 DEF Timeout, Abs!waitVars
<1>5. ASSUME NEW w \in Waiters, Retest(w)
      PROVE  Abs!Wake(w) \/ Abs!TimeOut(w) \/ UNCHANGED Abs!waitVars
    <2>1. CASE Pred(w)
        <3>1. WaitResult(w) = ~FStopped
            BY <2>1 DEF WaitResult, TypeOK
        <3> QED
            BY <1>5, <2>1, <3>1
            DEF Retest, Pred, Abs!Wake, Abs!Return, Abs!Due, Abs!Moved
    <2>2. CASE ~Pred(w) /\ w \in timedOut
        <3>1. WaitResult(w) = FALSE
            BY <2>2 DEF WaitResult
        <3> QED
            BY <1>5, <2>2, <3>1
            DEF Retest, Pred, Abs!TimeOut, Abs!Return, Abs!Due, Abs!Moved
    <2>3. CASE ~Pred(w) /\ w \notin timedOut
        BY <1>5, <2>3 DEF Retest, Abs!waitVars
    <2> QED
        BY <2>1, <2>2, <2>3
<1>6. ASSUME NEW w \in Waiters, Leave(w)
      PROVE  Abs!Exit(w)
    BY <1>6 DEF Leave, Abs!Exit
<1>7. ASSUME NEW n \in Notifiers, NEW k \in Kinds, Notify(n, k)
      PROVE  Abs!Advance(k)
    BY <1>7 DEF Notify, Abs!Advance
<1>8. ASSUME NEW n \in Notifiers, NotifyAll(n)
      PROVE  UNCHANGED Abs!waitVars
    BY <1>8 DEF NotifyAll, Abs!waitVars
<1>9. Stop => Abs!End
    BY DEF Stop, Abs!End
<1>10. Next => Abs!WaitNext \/ UNCHANGED Abs!waitVars
    <2>1. ASSUME NEW w \in Waiters,
                 \/ \E k \in Kinds : Wait(w, k)
                 \/ SpuriousWakeup(w) \/ Timeout(w) \/ Retest(w) \/ Leave(w)
          PROVE  Abs!WaitNext \/ UNCHANGED Abs!waitVars
        BY <2>1, <1>2, <1>3, <1>4, <1>5, <1>6 DEF Abs!WaitNext
    <2>2. ASSUME NEW n \in Notifiers,
                 (\E k \in Kinds : Notify(n, k)) \/ NotifyAll(n)
          PROVE  Abs!WaitNext \/ UNCHANGED Abs!waitVars
        BY <2>2, <1>7, <1>8 DEF Abs!WaitNext
    <2>3. CASE Stop
        BY <2>3, <1>9 DEF Abs!WaitNext
    <2> QED
        BY <2>1, <2>2, <2>3 DEF Next
<1> QED
    BY <1>1, <1>10

\* The mutex and the condition variable implement EventWait (its safety part;
\* the fairness part of ImplementsEventWait is model-checked).
THEOREM ConditionImplementsWait == Spec => Abs!WaitSpec
<1>1. Init => Abs!WaitInit
    BY DEF Init, Abs!WaitInit
<1> QED
    BY <1>1, StepSimulation, ConditionTypeCorrect, PTL DEF Spec, Abs!WaitSpec

-----------------------------------------------------------------------------
(* The push path *)

\* The type invariant without its counts.
Typed ==
    /\ WaitTypeOK
    /\ world \in [Kinds -> Versions]
    /\ owed \in [Kinds -> Versions]
    /\ queue \in Seq(Requests)
    /\ stage \in [Requests -> {"idle", "queued", "serving", "answered", "closed"}]
    /\ base \in [Waiters -> Versions]
    /\ reply \in [Waiters -> [ok : BOOLEAN, value : Versions]]
    /\ view \in [Waiters -> Versions]
    /\ \A w \in Waiters : (pc[w] # "out") <=> (stage[w] = "serving")

\* Every change has been announced or is owed.
Accounts == \A k \in Kinds : world[k] = FVersions[k] + owed[k]

\* A poll began with a version that was announced and a state at least as new,
\* and one that has seen a change began before it; so did one that is answered.
PollOK(w) ==
    /\ pc[w] # "out" =>
          /\ call[w].kind = KindOf[w]
          /\ call[w].seen <= FVersions[KindOf[w]]
          /\ call[w].seen <= base[w]
          /\ base[w] <= world[KindOf[w]]
          /\ result[w] => call[w].seen < FVersions[KindOf[w]]
    /\ stage[w] = "answered" /\ reply[w].ok =>
          /\ reply[w].value >= base[w]
          /\ result[w] => reply[w].value > call[w].seen

IInv == \A w \in Waiters : PollOK(w)

\* The queue holds the queued requests, each once.
QueueHoldsQueued ==
    /\ \A i \in 1 .. Len(queue) : stage[queue[i]] = "queued"
    /\ \A i, j \in 1 .. Len(queue) : queue[i] = queue[j] => i = j

Counted(S, n) == IsFiniteSet(S) /\ Cardinality(S) = n

PoolInv ==
    /\ QueueHoldsQueued
    /\ Counted(InStage("queued"), Len(queue))
    /\ IsFiniteSet(InStage("serving"))
    /\ Cardinality(InStage("serving")) <= PoolSize

USE KindOfAssumption, CommandsAssumption, PoolSizeAssumption, MaxVersionAssumption
    DEF Versions, Calls, Requests

-----------------------------------------------------------------------------
\* The hooks pass on every message as the kind that it changes, and no other.
LEMMA EveryMessageIsMapped ==
  ASSUME NEW m \in Messages, ChangedKind[m] \in Kinds
  PROVE  NotifiedKinds(m) = {ChangedKind[m]}
<1> USE DEF Messages, ChangedKind, NotifiedKinds, PanelChanges, PlaylistChanges, MessageCases,
            PropertyCases, PlaylistCases
<1>1. CASE m \in PanelChanges
  BY <1>1
<1>2. CASE m = "PLAYBACK_QUEUE"
  BY <1>2
<1>3. CASE m \in PlaylistChanges
  BY <1>3
<1> QED
  BY <1>1, <1>2, <1>3
-----------------------------------------------------------------------------
Base == Typed /\ Accounts

LEMMA TypedInductive == PushSpec => []Base
<1>1. PushInit => Base
  <2> SUFFICES ASSUME PushInit PROVE Base
    OBVIOUS
  <2>1. /\ FVersions \in [Kinds -> Versions] /\ call \in [Waiters -> Calls]
        /\ pc \in [Waiters -> {"out", "waiting", "returned"}] /\ result \in [Waiters -> BOOLEAN]
    BY DEF PushInit, WaitInit
  <2>2. /\ world \in [Kinds -> Versions] /\ owed \in [Kinds -> Versions]
        /\ base \in [Waiters -> Versions] /\ view \in [Waiters -> Versions]
        /\ reply \in [Waiters -> [ok : BOOLEAN, value : Versions]]
    BY DEF PushInit
  <2>3. stage \in [Requests -> {"idle", "queued", "serving", "answered", "closed"}]
    BY DEF PushInit
  <2>4. queue = <<>> /\ FStopped \in BOOLEAN
    BY DEF PushInit, WaitInit
  <2>4b. queue \in Seq(Requests)
    BY <2>4
  <2>5. \A w \in Waiters : pc[w] = "out" /\ stage[w] = "idle"
    BY DEF PushInit, WaitInit
  <2>6. \A k \in Kinds : world[k] = FVersions[k] + owed[k]
    <3> SUFFICES ASSUME NEW k \in Kinds PROVE world[k] = FVersions[k] + owed[k]
      OBVIOUS
    <3>1. world[k] = 0 /\ FVersions[k] = 0 /\ owed[k] = 0
      BY DEF PushInit, WaitInit
    <3> QED
      BY <3>1
  <2> QED
    BY <2>1, <2>2, <2>3, <2>4, <2>4b, <2>5, <2>6 DEF Base, Typed, WaitTypeOK, Accounts
<1>2. Base /\ [PushNext]_allVars => Base'
  <2> SUFFICES ASSUME Base, [PushNext]_allVars PROVE Base'
    OBVIOUS
  <2> USE DEF Base, Typed, WaitTypeOK, Accounts, waitVars
  <2>1. ASSUME NEW m \in Messages, PlayerChange(m) PROVE Base'
    <3> DEFINE k == ChangedKind[m]
    <3>1. k \in Kinds /\ NotifiedKinds(m) = {k}
      BY <2>1, EveryMessageIsMapped DEF PlayerChange
    <3>2. /\ world' = [world EXCEPT ![k] = @ + 1] /\ world[k] < MaxVersion
          /\ FVersions' = [l \in Kinds |-> FVersions[l] + IF l \in {k} THEN 1 ELSE 0]
          /\ UNCHANGED <<FStopped, pc, call, result, owed, queue, stage, base, reply, view>>
      BY <2>1, <3>1 DEF PlayerChange
    <3> HIDE DEF k
    <3>3. world' \in [Kinds -> Versions]
      BY <3>1, <3>2
    <3>4. \A l \in Kinds : FVersions'[l] = FVersions[l] + (IF l = k THEN 1 ELSE 0)
      BY <3>1, <3>2
    <3>5. \A l \in Kinds : FVersions'[l] \in Versions /\ world'[l] = FVersions'[l] + owed'[l]
      BY <3>1, <3>2, <3>4
    <3>6. FVersions' \in [Kinds -> Versions]
      BY <3>2, <3>5
    <3> QED
      BY <3>2, <3>3, <3>5, <3>6
  <2>2. ASSUME NEW k \in DeferredKinds, DeferredChange(k) PROVE Base'
    <3>1. /\ k \in Kinds /\ world[k] < MaxVersion
          /\ world' = [world EXCEPT ![k] = @ + 1] /\ owed' = [owed EXCEPT ![k] = @ + 1]
          /\ UNCHANGED <<FVersions, FStopped, pc, call, result, queue, stage, base, reply, view>>
      BY <2>2 DEF DeferredChange, DeferredKinds
    <3>2. world[k] + 1 \in Versions /\ owed[k] + 1 \in Versions
      BY <3>1
    <3>3. world' \in [Kinds -> Versions] /\ owed' \in [Kinds -> Versions]
      BY <3>1, <3>2
    <3>4. \A l \in Kinds : world'[l] = FVersions'[l] + owed'[l]
      BY <3>1
    <3> QED
      BY <3>1, <3>3, <3>4
  <2>3. ASSUME NEW k \in DeferredKinds, DeferredNotify(k) PROVE Base'
    <3>1. /\ k \in Kinds /\ FVersions[k] < MaxVersion /\ owed[k] > 0
          /\ FVersions' = [FVersions EXCEPT ![k] = @ + 1] /\ owed' = [owed EXCEPT ![k] = @ - 1]
          /\ UNCHANGED <<FStopped, world, pc, call, result, queue, stage, base, reply, view>>
      BY <2>3 DEF DeferredNotify, Advance, DeferredKinds
    <3>2. FVersions[k] + 1 \in Versions /\ owed[k] - 1 \in Versions
      BY <3>1
    <3>3. FVersions' \in [Kinds -> Versions] /\ owed' \in [Kinds -> Versions]
      BY <3>1, <3>2
    <3>4. \A l \in Kinds : world'[l] = FVersions'[l] + owed'[l]
      BY <3>1
    <3> QED
      BY <3>1, <3>3, <3>4
  <2>4. ASSUME NEW r \in Requests, Send(r) PROVE Base'
    <3>1. queue' \in Seq(Requests)
      BY <2>4 DEF Send
    <3> QED
      BY <2>4, <3>1 DEF Send
  <2>5. ASSUME NEW r \in Requests, Take(r) PROVE queue' \in Seq(Requests)
    <3>1. queue \in Seq(Requests) /\ queue # <<>> /\ queue' = Tail(queue)
      BY <2>5 DEF Take
    <3> QED
      BY <3>1
  <2>6. ASSUME NEW w \in Waiters, ServePoll(w) PROVE Base'
    <3>1. /\ queue' \in Seq(Requests) /\ KindOf[w] \in Kinds
          /\ stage' = [stage EXCEPT ![w] = "serving"]
          /\ pc' = [pc EXCEPT ![w] = IF FStopped THEN "returned" ELSE "waiting"]
          /\ call' = [call EXCEPT ![w] = [kind |-> KindOf[w], seen |-> FVersions[KindOf[w]]]]
          /\ result' = [result EXCEPT ![w] = FALSE]
          /\ base' = [base EXCEPT ![w] = world[KindOf[w]]]
          /\ UNCHANGED <<FVersions, FStopped, world, owed, reply, view>>
      BY <2>5, <2>6 DEF ServePoll, Take, Enter
    <3>2. call' \in [Waiters -> Calls] /\ base' \in [Waiters -> Versions]
      BY <3>1
    <3>3. pc' \in [Waiters -> {"out", "waiting", "returned"}] /\ result' \in [Waiters -> BOOLEAN]
      BY <3>1
    <3>4. /\ stage' \in [Requests -> {"idle", "queued", "serving", "answered", "closed"}]
          /\ \A v \in Waiters : (pc'[v] # "out") <=> (stage'[v] = "serving")
      BY <3>1
    <3> QED
      BY <3>1, <3>2, <3>3, <3>4
  <2>7. ASSUME NEW w \in Waiters, WaitEnds(w) \/ LongPollTimeout(w) PROVE Base'
    <3>1. PICK r \in BOOLEAN : Return(w, r) /\ UNCHANGED <<FVersions, FStopped, call, pushVars>>
      BY <2>7 DEF WaitEnds, LongPollTimeout, Wake, TimeOut, Return
    <3> QED
      BY <3>1 DEF Return, pushVars
  <2>8. ASSUME NEW w \in Waiters, Answer(w) PROVE Base'
    <3>1. /\ KindOf[w] \in Kinds
          /\ pc' = [pc EXCEPT ![w] = "out"] /\ stage' = [stage EXCEPT ![w] = "answered"]
          /\ reply' = [reply EXCEPT ![w] = [ok |-> ~PollFails(w), value |-> world[KindOf[w]]]]
          /\ UNCHANGED <<FVersions, FStopped, call, result, world, owed, queue, base, view>>
      BY <2>8 DEF Answer, Exit, Snapshot
    <3>2. reply' \in [Waiters -> [ok : BOOLEAN, value : Versions]]
      BY <3>1 DEF PollFails
    <3> QED
      BY <3>1, <3>2
  <2>9. ASSUME NEW w \in Waiters, Receive(w) PROVE Base'
    <3>1. PICK st \in {"idle", "closed"} :
            /\ stage[w] = "answered" /\ w \in Requests
            /\ stage' = [stage EXCEPT ![w] = st]
            /\ view' = [view EXCEPT ![w] = IF reply[w].ok THEN reply[w].value ELSE view[w]]
            /\ UNCHANGED <<FVersions, FStopped, pc, call, result, world, owed, queue, base, reply>>
      BY <2>9 DEF Receive, waitVars
    <3>2. reply[w].value \in Versions
      OBVIOUS
    <3>3. view' \in [Waiters -> Versions]
      BY <3>1, <3>2
    <3>4. stage' \in [Requests -> {"idle", "queued", "serving", "answered", "closed"}]
      BY <3>1
    <3>5. \A v \in Waiters : (pc'[v] # "out") <=> (stage'[v] = "serving")
      BY <3>1
    <3> QED
      BY <3>1, <3>3, <3>4, <3>5
  <2>10. ASSUME NEW c \in Commands, ServeCommand(c) PROVE Base'
    BY <2>5, <2>10 DEF ServeCommand, Take
  <2>11. ASSUME NEW c \in Commands, FinishCommand(c) PROVE Base'
    BY <2>11 DEF FinishCommand
  <2>12. CASE StopEvents
    BY <2>12 DEF StopEvents, End, pushVars
  <2>13. CASE UNCHANGED allVars
    BY <2>13 DEF allVars, pushVars
  <2> QED
    BY <2>1, <2>2, <2>3, <2>4, <2>6, <2>7, <2>8, <2>9, <2>10, <2>11, <2>12, <2>13 DEF PushNext
<1> QED
  BY <1>1, <1>2, PTL DEF PushSpec

LEMMA PollsInductive == PushSpec => []IInv
<1>1. PushInit => IInv
  BY DEF PushInit, WaitInit, IInv, PollOK
<1>2. Base /\ Base' /\ IInv /\ [PushNext]_allVars => IInv'
  <2> SUFFICES ASSUME Base, Base', IInv, [PushNext]_allVars, NEW v \in Waiters PROVE PollOK(v)'
    BY DEF IInv
  <2> USE DEF PollOK, waitVars
  <2> DEFINE k == KindOf[v]
  <2>0. /\ world[k] \in Nat /\ FVersions[k] \in Nat /\ owed[k] \in Nat
        /\ world[k] = FVersions[k] + owed[k] /\ world'[k] \in Nat /\ FVersions'[k] \in Nat
    <3>1. k \in Kinds
      OBVIOUS
    <3>2. /\ world \in [Kinds -> Versions] /\ world' \in [Kinds -> Versions]
          /\ FVersions \in [Kinds -> Versions] /\ FVersions' \in [Kinds -> Versions]
          /\ owed \in [Kinds -> Versions]
      BY DEF Base, Typed, WaitTypeOK
    <3>3. world[k] = FVersions[k] + owed[k]
      BY <3>1 DEF Base, Accounts
    <3> QED
      BY <3>1, <3>2, <3>3
  <2>0b. /\ base[v] \in Nat /\ call[v].seen \in Nat /\ result[v] \in BOOLEAN
         /\ (pc[v] # "out") <=> (stage[v] = "serving")
         /\ PollOK(v)
    BY DEF Base, Typed, WaitTypeOK, IInv
  <2>1. ASSUME world[k] <= world'[k], FVersions[k] <= FVersions'[k],
               pc'[v] = pc[v], call'[v] = call[v], result'[v] = result[v], base'[v] = base[v],
               reply'[v] = reply[v], stage'[v] = "answered" => stage[v] = "answered"
        PROVE  PollOK(v)'
    BY <2>0, <2>0b, <2>1
  <2>2. ASSUME NEW m \in Messages, PlayerChange(m) PROVE PollOK(v)'
    <3>1. /\ world'[k] = IF k = ChangedKind[m] THEN world[k] + 1 ELSE world[k]
          /\ FVersions'[k] = FVersions[k] + IF k \in NotifiedKinds(m) THEN 1 ELSE 0
      BY <2>2 DEF PlayerChange, Base, Typed, WaitTypeOK
    <3>2. world[k] <= world'[k] /\ FVersions[k] <= FVersions'[k]
      BY <2>0, <3>1
    <3> QED
      BY <2>1, <2>2, <3>2 DEF PlayerChange
  <2>3. ASSUME NEW l \in DeferredKinds, DeferredChange(l) \/ DeferredNotify(l) PROVE PollOK(v)'
    <3>1. /\ world'[k] \in {world[k], world[k] + 1}
          /\ FVersions'[k] \in {FVersions[k], FVersions[k] + 1}
      <4>1. /\ world \in [Kinds -> Versions] /\ FVersions \in [Kinds -> Versions]
            /\ world' \in {world, [world EXCEPT ![l] = @ + 1]}
            /\ FVersions' \in {FVersions, [FVersions EXCEPT ![l] = @ + 1]}
        BY <2>3 DEF DeferredChange, DeferredNotify, Advance, Base, Typed, WaitTypeOK
      <4> QED
        BY <4>1
    <3>2. world[k] <= world'[k] /\ FVersions[k] <= FVersions'[k]
      BY <2>0, <3>1
    <3> QED
      BY <2>1, <2>3, <3>2 DEF DeferredChange, DeferredNotify, Advance
  <2>4. ASSUME NEW r \in Requests, Send(r) PROVE PollOK(v)'
    BY <2>0, <2>0b, <2>1, <2>4 DEF Send, Base, Typed
  <2>5. ASSUME NEW w \in Waiters, ServePoll(w) PROVE PollOK(v)'
    <3>1. CASE w = v
      <4>1. /\ call'[v] = [kind |-> k, seen |-> FVersions[k]] /\ base'[v] = world[k]
            /\ stage'[v] = "serving" /\ result'[v] = FALSE /\ UNCHANGED <<world, FVersions>>
        BY <2>5, <3>1 DEF ServePoll, Take, Enter, Base, Typed, WaitTypeOK
      <4> QED
        BY <2>0, <4>1
    <3>2. CASE w # v
      BY <2>0, <2>0b, <2>1, <2>5, <3>2 DEF ServePoll, Take, Enter, Base, Typed, WaitTypeOK
    <3> QED
      BY <3>1, <3>2
  <2>6. ASSUME NEW w \in Waiters, WaitEnds(w) \/ LongPollTimeout(w) PROVE PollOK(v)'
    <3>1. CASE w = v
      <4>1. /\ pc[v] = "waiting"
            /\ result'[v] => FVersions[k] # call[v].seen
            /\ UNCHANGED <<FVersions, call, world, base, reply, stage>>
        BY <2>0, <2>0b, <2>6, <3>1
           DEF WaitEnds, LongPollTimeout, Wake, TimeOut, Return, Due, Moved, pushVars, Base, Typed, WaitTypeOK
      <4> QED
        BY <2>0, <2>0b, <4>1
    <3>2. CASE w # v
      BY <2>0, <2>0b, <2>1, <2>6, <3>2
         DEF WaitEnds, LongPollTimeout, Wake, TimeOut, Return, pushVars, Base, Typed, WaitTypeOK
    <3> QED
      BY <3>1, <3>2
  <2>7. ASSUME NEW w \in Waiters, Answer(w) PROVE PollOK(v)'
    <3>1. CASE w = v
      <4>1. /\ pc[v] = "returned" /\ pc'[v] = "out" /\ reply'[v].value = world[k]
            /\ UNCHANGED <<call, result, base>>
        BY <2>7, <3>1 DEF Answer, Exit, Snapshot, Base, Typed, WaitTypeOK
      <4> QED
        BY <2>0, <2>0b, <4>1
    <3>2. CASE w # v
      <4>1. /\ pc'[v] = pc[v] /\ reply'[v] = reply[v] /\ stage'[v] = stage[v]
            /\ UNCHANGED <<call, result, base, world, FVersions>>
        BY <2>7, <3>2 DEF Answer, Exit, Base, Typed, WaitTypeOK
      <4> QED
        BY <2>0, <2>1, <4>1
    <3> QED
      BY <3>1, <3>2
  <2>8. ASSUME NEW w \in Waiters, Receive(w) PROVE PollOK(v)'
    BY <2>0, <2>0b, <2>1, <2>8 DEF Receive, Base, Typed
  <2>9. ASSUME NEW c \in Commands, ServeCommand(c) \/ FinishCommand(c) PROVE PollOK(v)'
    BY <2>0, <2>0b, <2>1, <2>9 DEF ServeCommand, FinishCommand, Take, Base, Typed
  <2>10. CASE StopEvents \/ UNCHANGED allVars
    BY <2>0, <2>0b, <2>1, <2>10 DEF StopEvents, End, allVars, pushVars
  <2> QED
    BY <2>2, <2>3, <2>4, <2>5, <2>6, <2>7, <2>8, <2>9, <2>10 DEF PushNext
<1> QED
  BY <1>1, <1>2, TypedInductive, PTL DEF PushSpec

-----------------------------------------------------------------------------
\* A request that leaves the front of the queue for a thread of the pool.
LEMMA TakeKeepsPool == ASSUME Base, PoolInv, NEW r \in Requests, Take(r) PROVE PoolInv'
<1>1. /\ queue \in Seq(Requests) /\ Len(queue) > 0 /\ r = queue[1] /\ queue' = Tail(queue)
      /\ stage' = [stage EXCEPT ![r] = "serving"]
      /\ stage \in [Requests -> {"idle", "queued", "serving", "answered", "closed"}]
  BY DEF Take, Base, Typed
<1>2. stage[r] = "queued"
  BY <1>1 DEF PoolInv, QueueHoldsQueued
<1>3. /\ Len(queue') = Len(queue) - 1
      /\ \A i \in 1 .. Len(queue') : i + 1 \in 2 .. Len(queue) /\ queue'[i] = queue[i + 1]
  BY <1>1
<1>4. QueueHoldsQueued'
  <2>1. \A i \in 1 .. Len(queue') : queue'[i] # r /\ stage[queue'[i]] = "queued" /\ queue'[i] \in Requests
    BY <1>1, <1>3 DEF PoolInv, QueueHoldsQueued
  <2>2. \A i, j \in 1 .. Len(queue') : queue'[i] = queue'[j] => i = j
    <3> SUFFICES ASSUME NEW i \in 1 .. Len(queue'), NEW j \in 1 .. Len(queue'), queue'[i] = queue'[j]
                 PROVE  i = j
      OBVIOUS
    <3>1. i + 1 = j + 1
      BY <1>1, <1>3 DEF PoolInv, QueueHoldsQueued
    <3> QED
      BY <1>1, <3>1
  <2> QED
    BY <1>1, <2>1, <2>2 DEF QueueHoldsQueued
<1>5. /\ InStage("queued")' = InStage("queued") \ {r} /\ r \in InStage("queued")
      /\ InStage("serving")' = InStage("serving") \cup {r} /\ r \notin InStage("serving")
  BY <1>1, <1>2 DEF InStage
<1>6. Counted(InStage("queued")', Len(queue'))
  <2>1. /\ IsFiniteSet(InStage("queued") \ {r})
        /\ Cardinality(InStage("queued") \ {r}) = Cardinality(InStage("queued")) - 1
    BY <1>5, FS_RemoveElement DEF PoolInv, Counted
  <2> QED
    BY <1>3, <1>5, <2>1 DEF PoolInv, Counted
<1>7. IsFiniteSet(InStage("serving")') /\ Cardinality(InStage("serving")') <= PoolSize
  <2>1. /\ IsFiniteSet(InStage("serving") \cup {r})
        /\ Cardinality(InStage("serving") \cup {r}) = Cardinality(InStage("serving")) + 1
    BY <1>5, FS_AddElement DEF PoolInv
  <2>2. Cardinality(InStage("serving")) \in Nat
    BY FS_CardinalityType DEF PoolInv
  <2>3. Cardinality(InStage("serving")) < PoolSize
    BY DEF Take, PoolHasThread
  <2>4. Cardinality(InStage("serving")) + 1 <= PoolSize
    BY <2>2, <2>3
  <2> QED
    BY <1>5, <2>1, <2>4
<1> QED
  BY <1>4, <1>6, <1>7 DEF PoolInv, Counted

\* A thread that is done with a request, or a client with an answer.
LEMMA LeaveKeepsPool ==
  ASSUME Base, PoolInv, NEW r \in Requests, stage[r] \in {"serving", "answered"},
         NEW st \in {"idle", "answered", "closed"}, stage' = [stage EXCEPT ![r] = st], queue' = queue
  PROVE  PoolInv'
<1>1. /\ InStage("queued")' = InStage("queued")
      /\ InStage("serving")' = InStage("serving") \ {r}
  BY DEF InStage, Base, Typed
<1>2. QueueHoldsQueued'
  BY DEF PoolInv, QueueHoldsQueued, Base, Typed
<1>3. IsFiniteSet(InStage("serving") \ {r}) /\ Cardinality(InStage("serving") \ {r}) <= PoolSize
  <2>1. CASE r \in InStage("serving")
    <3>1. /\ IsFiniteSet(InStage("serving")) /\ Cardinality(InStage("serving")) \in Nat
          /\ Cardinality(InStage("serving")) <= PoolSize
      BY FS_CardinalityType DEF PoolInv
    <3>2. /\ IsFiniteSet(InStage("serving") \ {r})
          /\ Cardinality(InStage("serving") \ {r}) = Cardinality(InStage("serving")) - 1
      BY <2>1, <3>1, FS_RemoveElement
    <3> QED
      BY <3>1, <3>2
  <2>2. CASE r \notin InStage("serving")
    <3>1. InStage("serving") \ {r} = InStage("serving")
      BY <2>2
    <3> QED
      BY <3>1 DEF PoolInv
  <2> QED
    BY <2>1, <2>2
<1> QED
  BY <1>1, <1>2, <1>3 DEF PoolInv, Counted

LEMMA SendKeepsPool == ASSUME Base, PoolInv, NEW r \in Requests, Send(r) PROVE PoolInv'
<1>1. /\ queue \in Seq(Requests) /\ queue' = Append(queue, r) /\ stage[r] = "idle"
      /\ stage' = [stage EXCEPT ![r] = "queued"]
      /\ stage \in [Requests -> {"idle", "queued", "serving", "answered", "closed"}]
  BY DEF Send, Base, Typed
<1>2. /\ Len(queue') = Len(queue) + 1 /\ queue'[Len(queue) + 1] = r
      /\ \A i \in 1 .. Len(queue) : queue'[i] = queue[i] /\ queue[i] # r /\ queue[i] \in Requests
  BY <1>1 DEF PoolInv, QueueHoldsQueued
<1>3. QueueHoldsQueued'
  BY <1>1, <1>2 DEF PoolInv, QueueHoldsQueued
<1>4. /\ InStage("queued")' = InStage("queued") \cup {r} /\ r \notin InStage("queued")
      /\ InStage("serving")' = InStage("serving")
  BY <1>1 DEF InStage
<1>5. Counted(InStage("queued")', Len(queue'))
  <2>1. IsFiniteSet(InStage("queued")) /\ Cardinality(InStage("queued")) = Len(queue)
    BY DEF PoolInv, Counted
  <2>2. /\ IsFiniteSet(InStage("queued") \cup {r})
        /\ Cardinality(InStage("queued") \cup {r}) = Cardinality(InStage("queued")) + 1
    BY <1>4, <2>1, FS_AddElement
  <2> QED
    BY <1>2, <1>4, <2>1, <2>2 DEF Counted
<1> QED
  BY <1>3, <1>4, <1>5 DEF PoolInv, Counted

LEMMA PoolInductive == PushSpec => []PoolInv
<1>1. PushInit => PoolInv
  <2> SUFFICES ASSUME PushInit PROVE PoolInv
    OBVIOUS
  <2>1. queue = <<>> /\ InStage("queued") = {} /\ InStage("serving") = {}
    BY DEF PushInit, InStage
  <2>2. IsFiniteSet({}) /\ Cardinality({}) = 0
    BY FS_EmptySet
  <2>3. QueueHoldsQueued
    BY <2>1 DEF QueueHoldsQueued, InStage
  <2>4. Counted(InStage("queued"), Len(queue))
    <3>1. Len(queue) = 0
      BY <2>1
    <3> QED
      BY <2>1, <2>2, <3>1 DEF Counted
  <2>5. IsFiniteSet(InStage("serving")) /\ Cardinality(InStage("serving")) <= PoolSize
    <3>1. IsFiniteSet(InStage("serving")) /\ Cardinality(InStage("serving")) = 0
      BY ONLY <2>1, <2>2
    <3> QED
      BY <3>1, PoolSizeAssumption
  <2> QED
    BY <2>3, <2>4, <2>5 DEF PoolInv
<1>2. Base /\ PoolInv /\ [PushNext]_allVars => PoolInv'
  <2> SUFFICES ASSUME Base, PoolInv, [PushNext]_allVars PROVE PoolInv'
    OBVIOUS
  <2>1. CASE UNCHANGED <<queue, stage>>
    BY <2>1 DEF PoolInv, QueueHoldsQueued, Counted, InStage
  <2>2. CASE \/ \E m \in Messages : PlayerChange(m)
             \/ \E k \in DeferredKinds : DeferredChange(k) \/ DeferredNotify(k)
             \/ \E w \in Waiters : WaitEnds(w) \/ LongPollTimeout(w)
             \/ StopEvents
             \/ UNCHANGED allVars
    BY <2>1, <2>2
       DEF PlayerChange, DeferredChange, DeferredNotify, WaitEnds, LongPollTimeout, StopEvents,
           allVars, pushVars
  <2>3. ASSUME NEW r \in Requests, Send(r) PROVE PoolInv'
    BY <2>3, SendKeepsPool
  <2>4. ASSUME NEW r \in Requests, Take(r) PROVE PoolInv'
    BY <2>4, TakeKeepsPool
  <2>5. ASSUME NEW w \in Waiters, ServePoll(w) PROVE PoolInv'
    BY <2>4, <2>5 DEF ServePoll
  <2>6. ASSUME NEW w \in Waiters, Answer(w) PROVE PoolInv'
    <3>1. stage[w] = "serving"
      BY <2>6 DEF Answer, Exit, Base, Typed
    <3> QED
      BY <2>6, <3>1, LeaveKeepsPool DEF Answer
  <2>7. ASSUME NEW w \in Waiters, Receive(w) PROVE PoolInv'
    BY <2>7, LeaveKeepsPool DEF Receive
  <2>8. ASSUME NEW c \in Commands, ServeCommand(c) \/ FinishCommand(c) PROVE PoolInv'
    BY <2>4, <2>8, LeaveKeepsPool DEF ServeCommand, FinishCommand
  <2> QED
    BY <2>2, <2>3, <2>5, <2>6, <2>7, <2>8 DEF PushNext
<1> QED
  BY <1>1, <1>2, TypedInductive, PTL DEF PushSpec

-----------------------------------------------------------------------------
\* The pool: a request is queued once, no more are served than there are
\* threads, and a thread is inside Wait only while it serves its poll.
THEOREM TypeCorrect == PushSpec => []PushTypeOK
<1>1. Base /\ PoolInv => PushTypeOK
  BY DEF Base, Typed, PoolInv, Counted, PushTypeOK
<1> QED
  BY <1>1, TypedInductive, PoolInductive, PTL

\* No change of the player escapes a poll that waits for its kind, through
\* whichever message or by-hand notification it is announced.
THEOREM NoChangeIsMissed == PushSpec => []NoChangeMissed
<1>1. Base /\ IInv => NoChangeMissed
  <2> SUFFICES ASSUME Base, IInv, NEW w \in Waiters, pc[w] = "waiting", ~Due(w), owed[KindOf[w]] = 0
               PROVE  world[KindOf[w]] = base[w]
    BY DEF NoChangeMissed
  <2>1. /\ KindOf[w] \in Kinds /\ world[KindOf[w]] = FVersions[KindOf[w]] + owed[KindOf[w]]
        /\ FVersions[KindOf[w]] \in Nat /\ base[w] \in Nat
    BY DEF Base, Accounts, Typed, WaitTypeOK
  <2>2. call[w].kind = KindOf[w] /\ call[w].seen <= base[w] /\ base[w] <= world[KindOf[w]]
    BY DEF IInv, PollOK
  <2> QED
    BY <2>1, <2>2 DEF Due, Moved
<1> QED
  BY <1>1, TypedInductive, PollsInductive, PTL

\* An answer is never older than its poll, and shows the change that ended it.
THEOREM AnswersAreFresh == PushSpec => []FreshAnswer
<1>1. IInv => FreshAnswer
  BY DEF IInv, PollOK, FreshAnswer
<1> QED
  BY <1>1, PollsInductive, PTL

\* The push path uses the events only as EventWait allows, whatever the hooks
\* report and in whichever order requests are served: what the condition
\* variable is shown to provide above is all that the theorems on polls rest on.
THEOREM PollsUseEventWait == PushSpec => WaitSpec
<1>1. PushInit => WaitInit
  BY DEF PushInit
<1>2. Base /\ [PushNext]_allVars => [WaitNext]_waitVars
  <2> SUFFICES ASSUME Base, PushNext
               PROVE  WaitNext \/ UNCHANGED waitVars
    BY DEF allVars
  <2>1. ASSUME NEW m \in Messages, PlayerChange(m)
        PROVE  WaitNext
    <3> DEFINE k == ChangedKind[m]
    <3>1. k \in Kinds /\ NotifiedKinds(m) = {k}
      BY <2>1, EveryMessageIsMapped DEF PlayerChange
    <3>2. /\ world[k] < MaxVersion
          /\ FVersions' = [l \in Kinds |-> FVersions[l] + IF l \in {k} THEN 1 ELSE 0]
          /\ UNCHANGED <<FStopped, pc, call, result>>
      BY <2>1, <3>1 DEF PlayerChange
    <3> HIDE DEF k
    <3>3. /\ FVersions \in [Kinds -> Versions] /\ owed \in [Kinds -> Versions]
          /\ world[k] = FVersions[k] + owed[k]
      BY <3>1 DEF Base, Typed, WaitTypeOK, Accounts
    <3>4. FVersions[k] < MaxVersion
      BY <3>1, <3>2, <3>3
    <3>5. FVersions' = [FVersions EXCEPT ![k] = @ + 1]
      <4> DEFINE more(l) == FVersions[l] + IF l \in {k} THEN 1 ELSE 0
      <4>1. more(k) = FVersions[k] + 1
        OBVIOUS
      <4>2. \A l \in Kinds : l # k => more(l) = FVersions[l]
        BY <3>3
      <4>3. FVersions' = [l \in Kinds |-> more(l)]
        BY <3>2
      <4> HIDE DEF more
      <4> QED
        BY <3>1, <3>3, <4>1, <4>2, <4>3
    <3> QED
      BY <3>1, <3>2, <3>4, <3>5 DEF Advance, WaitNext
  <2>2. ASSUME NEW k \in DeferredKinds, DeferredChange(k) \/ DeferredNotify(k)
        PROVE  WaitNext \/ UNCHANGED waitVars
    BY <2>2 DEF DeferredChange, DeferredNotify, DeferredKinds, WaitNext
  <2>3. ASSUME NEW w \in Waiters, ServePoll(w)
        PROVE  WaitNext
    BY <2>3 DEF ServePoll, WaitNext
  <2>4. ASSUME NEW w \in Waiters, WaitEnds(w) \/ LongPollTimeout(w) \/ Answer(w)
        PROVE  WaitNext
    BY <2>4 DEF WaitEnds, LongPollTimeout, Answer, WaitNext
  <2>5. CASE \/ \E r \in Requests : Send(r)
             \/ \E w \in Waiters : Receive(w)
             \/ \E c \in Commands : ServeCommand(c) \/ FinishCommand(c)
    BY <2>5 DEF Send, Receive, ServeCommand, FinishCommand
  <2>6. CASE StopEvents
    BY <2>6 DEF StopEvents, WaitNext
  <2> QED
    BY <2>1, <2>2, <2>3, <2>4, <2>5, <2>6 DEF PushNext
<1> QED
  BY <1>1, <1>2, TypedInductive, PTL DEF PushSpec, WaitSpec
==============================================================================
