--------------------------- MODULE PluginLifecycle ---------------------------
(***************************************************************************)
(* AIMPPlugin::Finalize (src/plugin.cpp) against the threads it has to     *)
(* bring to an end: the watcher, the sleep timer, and the pool threads     *)
(* that serve requests on the HTTP listeners.  Any of them may wait for    *)
(* the main thread (RunOnMainThread), which is the thread that waits for   *)
(* them in Finalize; the watcher may wait for requests.                    *)
(*                                                                         *)
(* NetworkListeners, SleepTimer and StateUpdateEvents model these parts    *)
(* one by one; here each is reduced to what the others wait for.           *)
(***************************************************************************)

CONSTANTS
    Requests,     \* pool threads
    Addresses,    \* the addresses of the HTTP listeners
    Pumps         \* JoinPumpingMessages runs main-thread tasks while it joins

ASSUME PumpsAssumption == Pumps \in BOOLEAN

VARIABLES
    mainPc,       \* where the main thread is in Finalize
    FStopping,    \* of NetworkWatcher
    watcherPc,
    closing,      \* the listener the watcher or CloseAll is joining
    FTimerStopped,  \* FStopped of SleepTimer
    timerPc,
    FEventsStopped, \* FStopped of StateUpdateEvents
    Listeners,    \* the listeners that are bound
    request       \* request[r]: what r is doing, and on which listener

watcher == <<FStopping, watcherPc>>
timer == <<FTimerStopped, timerPc>>
vars == <<mainPc, watcher, closing, timer, FEventsStopped, Listeners, request>>

Idle == [doing |-> "nothing"]

Served(a) == {r \in Requests : request[r] # Idle /\ request[r].on = a}

Joins == {"joinWatcher", "joinTimer", "joinListener"}

\* The type invariant.  Its last conjuncts say in which order the parts end.
TypeOK ==
    /\ mainPc \in Joins \cup {"running", "stopTimer", "stopEvents", "closeAll",
                              "stopDiscovery", "returned"}
    /\ FStopping \in BOOLEAN
    /\ watcherPc \in {"wait", "reconcile", "close", "exited"}
    /\ closing \in SUBSET Addresses /\ \A a, b \in closing : a = b
    /\ FTimerStopped \in BOOLEAN
    /\ timerPc \in {"wait", "execute", "exited"}
    /\ FEventsStopped \in BOOLEAN
    /\ Listeners \subseteq Addresses
    /\ request \in [Requests ->
          {Idle} \cup [doing : {"waiting", "onMain"}, on : Addresses]]
    /\ FTimerStopped => watcherPc = "exited"
    /\ FEventsStopped => timerPc = "exited"

Init ==
    /\ mainPc = "running"
    /\ FStopping = FALSE
    /\ watcherPc = "wait"
    /\ closing = {}
    /\ FTimerStopped = FALSE
    /\ timerPc = "wait"
    /\ FEventsStopped = FALSE
    /\ Listeners = Addresses
    /\ request = [r \in Requests |-> Idle]

\* (mutant) The main thread joins without taking tasks.
OnlyOutsideFinalize == mainPc \in {"running", "returned"}

\* The main thread takes tasks: AIMP's message loop, or JoinPumpingMessages.
MainTakesTasks == mainPc \in {"running", "returned"} \/ (Pumps /\ mainPc \in Joins)

-----------------------------------------------------------------------------
(* Requests *)

\* A long poll, or a command that runs on the main thread.
Arrive(r, a) ==
    /\ request[r] = Idle
    /\ a \in Listeners
    /\ \E d \in {"waiting", "onMain"} :
          request' = [request EXCEPT ![r] = [doing |-> d, on |-> a]]
    /\ UNCHANGED <<mainPc, watcher, closing, timer, FEventsStopped, Listeners>>

\* The event comes: the poll is answered from the main thread's state.
PollWoken(r) ==
    /\ request[r].doing = "waiting"
    /\ request' = [request EXCEPT ![r].doing = "onMain"]
    /\ UNCHANGED <<mainPc, watcher, closing, timer, FEventsStopped, Listeners>>

\* Ten minutes pass: so it is then.
PollTimesOut(r) ==
    /\ request[r].doing = "waiting"
    /\ ~FEventsStopped
    /\ request' = [request EXCEPT ![r].doing = "onMain"]
    /\ UNCHANGED <<mainPc, watcher, closing, timer, FEventsStopped, Listeners>>

\* (mutant) A Wait does not look at FStopped.
NeverSeesStop == FALSE

\* Wait ends at once when StateUpdateEvents is stopped.
SeesStop == FEventsStopped

\* The poll fails with -32000.
PollFails(r) ==
    /\ request[r].doing = "waiting"
    /\ SeesStop
    /\ request' = [request EXCEPT ![r] = Idle]
    /\ UNCHANGED <<mainPc, watcher, closing, timer, FEventsStopped, Listeners>>

\* RunOnMainThread returns, and the request is answered.
MainServes(r) ==
    /\ request[r].doing = "onMain"
    /\ MainTakesTasks
    /\ request' = [request EXCEPT ![r] = Idle]
    /\ UNCHANGED <<mainPc, watcher, closing, timer, FEventsStopped, Listeners>>

-----------------------------------------------------------------------------
(* The watcher and the timer *)

\* The settings, or the network, have changed.
WatcherWakes ==
    /\ watcherPc = "wait"
    /\ ~FStopping
    /\ watcherPc' = "reconcile"
    /\ UNCHANGED <<mainPc, FStopping, closing, timer, FEventsStopped, Listeners, request>>

\* Close: stop the listener, and join its thread.
WatcherCloses(a) ==
    /\ watcherPc = "reconcile"
    /\ a \in Listeners
    /\ Listeners' = Listeners \ {a}
    /\ closing' = {a}
    /\ watcherPc' = "close"
    /\ UNCHANGED <<mainPc, FStopping, timer, FEventsStopped, request>>

WatcherJoins(a) ==
    /\ watcherPc = "close"
    /\ closing = {a}
    /\ Served(a) = {}
    /\ closing' = {}
    /\ watcherPc' = "reconcile"
    /\ UNCHANGED <<mainPc, FStopping, timer, FEventsStopped, Listeners, request>>

\* Then missing listeners are opened, and the watcher waits again.
WatcherOpens(S) ==
    /\ watcherPc = "reconcile"
    /\ Listeners' = Listeners \cup S
    /\ watcherPc' = "wait"
    /\ UNCHANGED <<mainPc, FStopping, closing, timer, FEventsStopped, request>>

WatcherExits ==
    /\ watcherPc = "wait"
    /\ FStopping
    /\ watcherPc' = "exited"
    /\ UNCHANGED <<mainPc, FStopping, closing, timer, FEventsStopped, Listeners, request>>

TimerFires ==
    /\ timerPc = "wait"
    /\ ~FTimerStopped
    /\ timerPc' = "execute"
    /\ UNCHANGED <<mainPc, watcher, closing, FTimerStopped, FEventsStopped, Listeners,
                   request>>

TimerExecutes ==
    /\ timerPc = "execute"
    /\ MainTakesTasks
    /\ timerPc' = "wait"
    /\ UNCHANGED <<mainPc, watcher, closing, FTimerStopped, FEventsStopped, Listeners,
                   request>>

TimerExits ==
    /\ timerPc = "wait"
    /\ FTimerStopped
    /\ timerPc' = "exited"
    /\ UNCHANGED <<mainPc, watcher, closing, FTimerStopped, FEventsStopped, Listeners,
                   request>>

-----------------------------------------------------------------------------
(* Finalize, on the main thread *)

\* FNetworkWatcher.Stop()
StopWatcher ==
    /\ mainPc = "running"
    /\ FStopping' = TRUE
    /\ mainPc' = "joinWatcher"
    /\ UNCHANGED <<watcherPc, closing, timer, FEventsStopped, Listeners, request>>

JoinWatcher ==
    /\ mainPc = "joinWatcher"
    /\ watcherPc = "exited"
    /\ mainPc' = "stopTimer"
    /\ UNCHANGED <<watcher, closing, timer, FEventsStopped, Listeners, request>>

\* FSleepTimer.Stop()
StopTimer ==
    /\ mainPc = "stopTimer"
    /\ FTimerStopped' = TRUE
    /\ mainPc' = "joinTimer"
    /\ UNCHANGED <<watcher, closing, timerPc, FEventsStopped, Listeners, request>>

JoinTimer ==
    /\ mainPc = "joinTimer"
    /\ timerPc = "exited"
    /\ mainPc' = "stopEvents"
    /\ UNCHANGED <<watcher, closing, timer, FEventsStopped, Listeners, request>>

\* FStateEvents.Stop()
StopEvents ==
    /\ mainPc = "stopEvents"
    /\ FEventsStopped' = TRUE
    /\ mainPc' = "closeAll"
    /\ UNCHANGED <<watcher, closing, timer, Listeners, request>>

\* FRemoteControlServer->Stop(): one listener after the other.
CloseListener(a) ==
    /\ mainPc = "closeAll"
    /\ a \in Listeners
    /\ Listeners' = Listeners \ {a}
    /\ closing' = {a}
    /\ mainPc' = "joinListener"
    /\ UNCHANGED <<watcher, timer, FEventsStopped, request>>

\* (mutant) The listener's thread is not joined.
LeaveListener(a) ==
    /\ mainPc = "joinListener"
    /\ closing = {a}
    /\ closing' = {}
    /\ mainPc' = "closeAll"
    /\ UNCHANGED <<watcher, timer, FEventsStopped, Listeners, request>>

JoinListener(a) ==
    /\ mainPc = "joinListener"
    /\ closing = {a}
    /\ Served(a) = {}
    /\ closing' = {}
    /\ mainPc' = "closeAll"
    /\ UNCHANGED <<watcher, timer, FEventsStopped, Listeners, request>>

AllClosed ==
    /\ mainPc = "closeAll"
    /\ Listeners = {}
    /\ mainPc' = "stopDiscovery"
    /\ UNCHANGED <<watcher, closing, timer, FEventsStopped, Listeners, request>>

\* FDiscoveryServer.Stop(), whose thread waits for nobody.
StopDiscovery ==
    /\ mainPc = "stopDiscovery"
    /\ mainPc' = "returned"
    /\ UNCHANGED <<watcher, closing, timer, FEventsStopped, Listeners, request>>

Finalize ==
    \/ StopWatcher \/ JoinWatcher \/ StopTimer \/ JoinTimer \/ StopEvents
    \/ \E a \in Addresses : CloseListener(a) \/ JoinListener(a)
    \/ AllClosed \/ StopDiscovery

Next ==
    \/ Finalize
    \/ \E r \in Requests :
          \/ \E a \in Addresses : Arrive(r, a)
          \/ PollWoken(r) \/ PollTimesOut(r) \/ PollFails(r) \/ MainServes(r)
    \/ \E a \in Addresses : WatcherCloses(a) \/ WatcherJoins(a)
    \/ WatcherWakes \/ WatcherExits
    \/ \E S \in SUBSET Addresses : WatcherOpens(S)
    \/ TimerFires \/ TimerExecutes \/ TimerExits

Spec == Init /\ [][Next]_vars

\* Threads run; no event has to come, and no ten minutes have to pass.
Fairness ==
    /\ WF_vars(mainPc # "running" /\ Finalize)
    /\ \A r \in Requests : WF_vars(PollFails(r)) /\ WF_vars(MainServes(r))
    /\ WF_vars(\E a \in Addresses : WatcherJoins(a))
    /\ WF_vars(\E S \in SUBSET Addresses : WatcherOpens(S))
    /\ WF_vars(WatcherExits)
    /\ WF_vars(TimerExecutes) /\ WF_vars(TimerExits)

PromptSpec == Spec /\ Fairness

\* What needs patience relies on this as well: a long poll ends after ten minutes.
PollsTimeOut == \A r \in Requests : WF_vars(PollTimesOut(r))

-----------------------------------------------------------------------------
\* When Finalize returns, and AIMP unloads the library, no thread is inside it
\* and no port is open.
NobodyLeftBehind ==
    mainPc = "returned" =>
        /\ watcherPc = "exited"
        /\ timerPc = "exited"
        /\ Listeners = {}
        /\ \A r \in Requests : request[r] = Idle

\* Finalize returns, if polls time out: the main thread and those it waits for
\* do not wait for each other in a circle.
FinalizeReturns == PollsTimeOut => (mainPc # "running" ~> mainPc = "returned")

\* From the moment the watcher waits for no listener, Finalize returns without
\* any poll having to time out: StateUpdateEvents is stopped before the HTTP
\* server waits for its polls.
FinalizeIsPrompt ==
    mainPc # "running" /\ FStopping /\ watcherPc \in {"wait", "exited"}
        ~> mainPc = "returned"

\* docs/remote-control-protocol.md: "on server shutdown pending polls fail
\* with -32000"; at any rate they do not keep waiting for an event.
ShutdownEndsPolls ==
    \A r \in Requests :
        mainPc # "running" /\ request[r].doing = "waiting" ~> request[r].doing # "waiting"
=============================================================================
