----------------------------- MODULE SleepTimer -----------------------------
(***************************************************************************)
(* src/sleepTimer.cpp: one timer, set and cancelled by pool threads that   *)
(* run the Scheduler command, waited for by a thread of its own (Run), and *)
(* stopped by the main thread.                                             *)
(*                                                                         *)
(* Each section under FMutex is one action; what follows it outside the    *)
(* lock (notify_all, then FEvents->Notify) are later actions of the same   *)
(* thread.  "requested", "revoked", "executed", "times" and "announced"    *)
(* are history variables.                                                  *)
(***************************************************************************)
EXTENDS Naturals

CONSTANTS
    Callers,  \* pool threads that run Scheduler
    Actions,  \* SupportedActions()
    Delays,   \* llround of a positive expiration_delay: 0 is possible
    MaxTime,  \* bound on the clock
    MaxSets,  \* bound on the calls of Set
    Pumps     \* JoinPumpingMessages runs main-thread tasks while it joins:
              \* TRUE on Windows, FALSE on Linux

ASSUME DelaysAssumption == Delays \subseteq Nat
ASSUME BoundsAssumption == MaxTime \in Nat /\ MaxSets \in Nat
ASSUME PumpsAssumption == Pumps \in BOOLEAN

VARIABLES
    now,          \* steady_clock
    FStopped, FActive, FAction, FDeadline, FGeneration,
    FEvents,      \* FEvents is not null
    asleep,       \* Run is in the wait set of FChanged
    runPc,        \* where Run is
    generation,   \* Run's local variable
    action,       \* Run's local variable
    callerPc,     \* where each caller of Set or Cancel is
    mainPc,       \* where the main thread is in Stop
    requested,    \* requested[g]: action and deadline of the g-th Set
    revoked,      \* the sets that were cancelled or replaced while active
    executed,     \* the executions, with the set they belong to and the time
    times,        \* times[g]: number of executions of the g-th Set
    announced     \* the state of the timer at the latest FEvents->Notify

timer == <<FStopped, FActive, FAction, FDeadline, FGeneration>>
run == <<asleep, runPc, generation, action>>
history == <<requested, revoked, executed, times>>
vars == <<now, timer, FEvents, run, callerPc, mainPc, history, announced>>

Time == 0 .. MaxTime
Sets == 1 .. MaxSets

\* What SchedulerCommand::BuildTimerState answers, with the Set it is about.
TimerState == IF FActive THEN FGeneration ELSE 0

\* The type invariant.  Its last two conjuncts say when Run can be in the wait
\* set, and that Stop does not return, with FEvents null, before Run has ended.
TypeOK ==
    /\ now \in Time
    /\ FStopped \in BOOLEAN
    /\ FActive \in BOOLEAN
    /\ FAction \in Actions
    /\ FDeadline \in Time
    /\ FGeneration \in 0 .. MaxSets
    /\ FEvents \in BOOLEAN
    /\ asleep \in BOOLEAN
    /\ runPc \in {"start", "idle", "armed", "execute", "notify", "exited"}
    /\ generation \in 0 .. MaxSets
    /\ action \in Actions
    /\ callerPc \in [Callers -> {"out", "wake", "notify"}]
    /\ mainPc \in {"running", "wake", "joining", "stopped"}
    /\ requested \in [Sets -> [action : Actions, deadline : Time]]
    /\ revoked \subseteq Sets
    /\ executed \subseteq [set : Sets, action : Actions, at : Time]
    /\ times \in [Sets -> Nat]
    /\ announced \in 0 .. MaxSets
    /\ asleep => runPc \in {"idle", "armed"}
    /\ mainPc = "stopped" => runPc = "exited"

Init ==
    /\ now = 0
    /\ FStopped = FALSE
    /\ FActive = FALSE
    /\ FAction \in Actions
    /\ FDeadline = 0
    /\ FGeneration = 0
    /\ FEvents = TRUE
    /\ asleep = FALSE
    /\ runPc = "start"
    /\ generation = 0
    /\ action = FAction
    /\ callerPc = [c \in Callers |-> "out"]
    /\ mainPc = "running"
    /\ requested = [g \in Sets |-> [action |-> FAction, deadline |-> 0]]
    /\ revoked = {}
    /\ executed = {}
    /\ times = [g \in Sets |-> 0]
    /\ announced = 0

Tick ==
    /\ now < MaxTime
    /\ now' = now + 1
    /\ UNCHANGED <<timer, FEvents, run, callerPc, mainPc, history, announced>>

-----------------------------------------------------------------------------
(* Scheduler: Set and Cancel *)

Revoke == revoked' = IF FActive THEN revoked \cup {FGeneration} ELSE revoked

\* (mutant) Set leaves an idle Run asleep.
SetWithoutWaking(c, a, d) ==
    /\ callerPc[c] = "out"
    /\ FGeneration < MaxSets
    /\ now + d <= MaxTime
    /\ FActive' = TRUE
    /\ FAction' = a
    /\ FDeadline' = now + d
    /\ FGeneration' = FGeneration + 1
    /\ requested' = [requested EXCEPT ![FGeneration + 1] =
                        [action |-> a, deadline |-> now + d]]
    /\ Revoke
    /\ callerPc' = [callerPc EXCEPT ![c] = "notify"]
    /\ UNCHANGED <<now, FStopped, FEvents, run, mainPc, executed, times, announced>>

\* Set under the lock.  The state is not looked at: a timer that is active is
\* replaced, and one that is stopped is set all the same.
Set(c, a, d) ==
    /\ callerPc[c] = "out"
    /\ FGeneration < MaxSets
    /\ now + d <= MaxTime
    /\ FActive' = TRUE
    /\ FAction' = a
    /\ FDeadline' = now + d
    /\ FGeneration' = FGeneration + 1
    /\ requested' = [requested EXCEPT ![FGeneration + 1] =
                        [action |-> a, deadline |-> now + d]]
    /\ Revoke
    /\ callerPc' = [callerPc EXCEPT ![c] = "wake"]
    /\ UNCHANGED <<now, FStopped, FEvents, run, mainPc, executed, times, announced>>

\* Cancel under the lock.
Cancel(c) ==
    /\ callerPc[c] = "out"
    /\ FActive' = FALSE
    /\ Revoke
    /\ callerPc' = [callerPc EXCEPT ![c] = "wake"]
    /\ UNCHANGED <<now, FStopped, FAction, FDeadline, FGeneration, FEvents, run,
                   mainPc, requested, executed, times, announced>>

\* FChanged.notify_all()
CallerWakes(c) ==
    /\ callerPc[c] = "wake"
    /\ asleep' = FALSE
    /\ callerPc' = [callerPc EXCEPT ![c] = "notify"]
    /\ UNCHANGED <<now, timer, FEvents, runPc, generation, action, mainPc, history,
                   announced>>

\* if (FEvents) FEvents->Notify(Timer)
Announce == announced' = IF FEvents THEN TimerState ELSE announced

CallerNotifies(c) ==
    /\ callerPc[c] = "notify"
    /\ Announce
    /\ callerPc' = [callerPc EXCEPT ![c] = "out"]
    /\ UNCHANGED <<now, timer, FEvents, run, mainPc, history>>

-----------------------------------------------------------------------------
(* Run *)

\* The top of the loop, up to where the thread sleeps again or ends.
LoopTop ==
    IF FStopped
       THEN runPc' = "exited" /\ asleep' = FALSE /\ UNCHANGED generation
       ELSE IF FActive
            THEN runPc' = "armed" /\ asleep' = TRUE /\ generation' = FGeneration
            ELSE runPc' = "idle" /\ asleep' = TRUE /\ UNCHANGED generation

Start ==
    /\ runPc = "start"
    /\ LoopTop
    /\ UNCHANGED <<now, timer, FEvents, action, callerPc, mainPc, history, announced>>

SpuriousWakeup ==
    /\ asleep
    /\ asleep' = FALSE
    /\ UNCHANGED <<now, timer, FEvents, runPc, generation, action, callerPc, mainPc,
                   history, announced>>

\* FChanged.wait ends, or goes on waiting, which LoopTop covers as well.
WakeIdle ==
    /\ runPc = "idle"
    /\ ~asleep
    /\ LoopTop
    /\ UNCHANGED <<now, timer, FEvents, action, callerPc, mainPc, history, announced>>

\* (mutant) The predicate of wait_until does not look for a cancellation.
ChangedButForCancel == FStopped \/ FGeneration # generation

\* The predicate of wait_until.
Changed == FStopped \/ ~FActive \/ FGeneration # generation

\* steady_clock::now() < FDeadline
TooEarly == now < FDeadline

\* (mutant) The timer stays active when it fires.
FireAndStayActive ==
    /\ action' = FAction
    /\ runPc' = "execute"
    /\ asleep' = FALSE
    /\ UNCHANGED <<generation, FActive>>

\* The timer fires: the action is copied, the timer is inactive again.
Fire ==
    /\ action' = FAction
    /\ FActive' = FALSE
    /\ runPc' = "execute"
    /\ asleep' = FALSE
    /\ UNCHANGED generation

\* wait_until returns: notified, woken spuriously, or at the deadline it was
\* given.  Changed is tested under the lock whatever the reason was.
WakeArmed ==
    /\ runPc = "armed"
    /\ ~asleep \/ now >= requested[generation].deadline
    /\ IF Changed \/ TooEarly
          THEN LoopTop /\ UNCHANGED <<FActive, action>>
          ELSE Fire
    /\ UNCHANGED <<now, FStopped, FAction, FDeadline, FGeneration, FEvents, callerPc,
                   mainPc, history, announced>>

\* (mutant) Execute is given FAction, read again without the lock.
ActionReadAgain == FAction

\* What is passed to Execute.
ActionToExecute == action

\* The main thread takes a task: it is not inside Stop, or it pumps there.
MainTakesTasks == mainPc \in {"running", "stopped"} \/ (mainPc = "joining" /\ Pumps)

\* Execute: the action, on the main thread, which Run waits for.
Execute ==
    /\ runPc = "execute"
    /\ MainTakesTasks
    /\ executed' = executed \cup
          {[set |-> generation, action |-> ActionToExecute, at |-> now]}
    /\ times' = [times EXCEPT ![generation] = @ + 1]
    /\ runPc' = "notify"
    /\ UNCHANGED <<now, timer, FEvents, asleep, generation, action, callerPc, mainPc,
                   requested, revoked, announced>>

\* (mutant) Nobody is told that the timer has fired.
RunNotifiesNobody ==
    /\ runPc = "notify"
    /\ LoopTop
    /\ UNCHANGED <<now, timer, FEvents, action, callerPc, mainPc, history, announced>>

RunNotifies ==
    /\ runPc = "notify"
    /\ Announce
    /\ LoopTop
    /\ UNCHANGED <<now, timer, FEvents, action, callerPc, mainPc, history>>

-----------------------------------------------------------------------------
(* Stop, on the main thread *)

StopBegins ==
    /\ mainPc = "running"
    /\ FStopped' = TRUE
    /\ FActive' = FALSE
    /\ Revoke
    /\ mainPc' = "wake"
    /\ UNCHANGED <<now, FAction, FDeadline, FGeneration, FEvents, run, callerPc,
                   requested, executed, times, announced>>

\* (mutant) Stop does not wake Run.
StopDoesNotWake ==
    /\ mainPc = "wake"
    /\ mainPc' = "joining"
    /\ UNCHANGED <<now, timer, FEvents, run, callerPc, history, announced>>

StopWakes ==
    /\ mainPc = "wake"
    /\ asleep' = FALSE
    /\ mainPc' = "joining"
    /\ UNCHANGED <<now, timer, FEvents, runPc, generation, action, callerPc, history,
                   announced>>

StopJoins ==
    /\ mainPc = "joining"
    /\ runPc = "exited"
    /\ FEvents' = FALSE
    /\ mainPc' = "stopped"
    /\ UNCHANGED <<now, timer, run, callerPc, history, announced>>

Next ==
    \/ Tick
    \/ \E c \in Callers :
          \/ \E a \in Actions, d \in Delays : Set(c, a, d)
          \/ Cancel(c)
          \/ CallerWakes(c)
          \/ CallerNotifies(c)
    \/ Start \/ SpuriousWakeup \/ WakeIdle \/ WakeArmed \/ Execute \/ RunNotifies
    \/ StopBegins \/ StopWakes \/ StopJoins

Spec == Init /\ [][Next]_vars

\* Time passes and threads run.  Nobody has to use the timer or to stop it.
Fairness ==
    /\ WF_vars(Tick)
    /\ \A c \in Callers : WF_vars(CallerWakes(c)) /\ WF_vars(CallerNotifies(c))
    /\ WF_vars(Start) /\ WF_vars(WakeIdle) /\ WF_vars(WakeArmed)
    /\ WF_vars(Execute) /\ WF_vars(RunNotifies)
    /\ WF_vars(StopWakes) /\ WF_vars(StopJoins)

FairSpec == Spec /\ Fairness

-----------------------------------------------------------------------------
\* What is executed is what was asked for: the action of the Set that fires,
\* not of one that replaces it meanwhile, and not before its deadline.
ExecutedAsRequested ==
    \A e \in executed :
        /\ e.action = requested[e.set].action
        /\ e.at >= requested[e.set].deadline

\* A timer that was cancelled, replaced or stopped while it was active never
\* fires.  (One that Run has decided to fire is no longer active: a Cancel that
\* comes after the decision is answered and changes nothing.)
RevokedNeverFires == \A e \in executed : e.set \notin revoked

\* One Set, at most one execution.
FiresAtMostOnce == \A g \in Sets : times[g] <= 1

\* Once nobody is on the way to FEvents->Notify, the latest Notify(Timer) came
\* after the latest change of the timer: a poll woken by it sees the timer as
\* it is.  (Until Stop: then polls are failed by StateUpdateEvents anyway.)
AnnouncedWhenQuiet ==
    /\ \A c \in Callers : callerPc[c] = "out"
    /\ runPc \notin {"execute", "notify"}
    /\ ~FStopped
    => announced = TimerState

\* A timer that is set fires, unless it is cancelled, replaced or stopped.
SetEventuallyFires ==
    \A g \in Sets :
        FActive /\ FGeneration = g /\ ~FStopped
            ~> times[g] > 0 \/ g \in revoked \/ FStopped

\* Stop returns, and Run has ended by then.
StopReturns == mainPc = "wake" ~> mainPc = "stopped" /\ runPc = "exited"
=============================================================================
