------------------------ MODULE PluginLifecycleProofs ------------------------
(***************************************************************************)
(* Proofs about PluginLifecycle, for any number of requests and            *)
(* listeners, on Windows and on Linux.                                     *)
(***************************************************************************)
EXTENDS PluginLifecycle, TLAPS

WatcherJoined == {"stopTimer", "joinTimer", "stopEvents", "closeAll", "joinListener",
                  "stopDiscovery", "returned"}
TimerJoined == {"stopEvents", "closeAll", "joinListener", "stopDiscovery", "returned"}

\* What has been joined stays ended.
JoinedEnded ==
    /\ FTimerStopped => mainPc \in WatcherJoined
    /\ FEventsStopped => mainPc \in TimerJoined
    /\ mainPc \in WatcherJoined => watcherPc = "exited"
    /\ mainPc \in TimerJoined => timerPc = "exited"

\* Every request is served by a listener that is bound or being joined, and
\* only the watcher or CloseAll joins one.
RequestsOwned ==
    /\ \A r \in Requests : request[r] # Idle => request[r].on \in Listeners \cup closing
    /\ closing # {} => watcherPc = "close" \/ mainPc = "joinListener"
    /\ mainPc \in {"stopDiscovery", "returned"} => Listeners = {}

IInv == TypeOK /\ JoinedEnded /\ RequestsOwned

LEMMA Inductive == Spec => []IInv
<1> USE DEF Joins, WatcherJoined, TimerJoined, Idle
<1>1. Init => IInv
  BY DEF Init, IInv, TypeOK, JoinedEnded, RequestsOwned
<1>2. IInv /\ [Next]_vars => IInv'
  <2> SUFFICES ASSUME IInv, [Next]_vars PROVE IInv'
    OBVIOUS
  <2> USE DEF IInv, TypeOK, JoinedEnded, RequestsOwned
  <2>1. CASE StopWatcher
    BY <2>1 DEF StopWatcher, timer
  <2>1b. CASE JoinWatcher
    BY <2>1b DEF JoinWatcher, watcher, timer
  <2>2. CASE StopTimer
    BY <2>2 DEF StopTimer, watcher
  <2>2b. CASE JoinTimer
    BY <2>2b DEF JoinTimer, watcher, timer
  <2>3. CASE StopEvents \/ AllClosed \/ StopDiscovery
    BY <2>3 DEF StopEvents, AllClosed, StopDiscovery, watcher, timer
  <2>4. ASSUME NEW a \in Addresses, CloseListener(a) PROVE IInv'
    BY <2>4 DEF CloseListener, watcher, timer
  <2>5. ASSUME NEW a \in Addresses, JoinListener(a) PROVE IInv'
    BY <2>5 DEF JoinListener, Served, watcher, timer
  <2>6. ASSUME NEW r \in Requests, NEW a \in Addresses, Arrive(r, a) PROVE IInv'
    <3>1. PICK d \in {"waiting", "onMain"} :
             request' = [request EXCEPT ![r] = [doing |-> d, on |-> a]]
      BY <2>6 DEF Arrive
    <3>2. request' \in [Requests -> {Idle} \cup [doing : {"waiting", "onMain"}, on : Addresses]]
      BY <3>1
    <3> QED
      BY <2>6, <3>1, <3>2 DEF Arrive, watcher, timer
  <2>7. ASSUME NEW r \in Requests, PollWoken(r) \/ PollTimesOut(r) PROVE IInv'
    <3>1. request[r] # Idle /\ request' = [request EXCEPT ![r].doing = "onMain"]
      BY <2>7 DEF PollWoken, PollTimesOut
    <3>2. request[r] \in [doing : {"waiting", "onMain"}, on : Addresses]
      BY <3>1
    <3>3. /\ request' \in [Requests -> {Idle} \cup [doing : {"waiting", "onMain"}, on : Addresses]]
          /\ request'[r].on = request[r].on
          /\ \A q \in Requests : q # r => request'[q] = request[q]
      BY <3>1, <3>2
    <3> QED
      BY <2>7, <3>1, <3>3 DEF PollWoken, PollTimesOut, watcher, timer
  <2>8. ASSUME NEW r \in Requests, PollFails(r) \/ MainServes(r) PROVE IInv'
    BY <2>8 DEF PollFails, MainServes, watcher, timer
  <2>9. ASSUME NEW a \in Addresses, WatcherCloses(a) PROVE IInv'
    BY <2>9 DEF WatcherCloses, watcher, timer
  <2>10. ASSUME NEW a \in Addresses, WatcherJoins(a) PROVE IInv'
    BY <2>10 DEF WatcherJoins, Served, watcher, timer
  <2>11. CASE WatcherWakes \/ WatcherExits
    BY <2>11 DEF WatcherWakes, WatcherExits, watcher, timer
  <2>12. ASSUME NEW S \in SUBSET Addresses, WatcherOpens(S) PROVE IInv'
    BY <2>12 DEF WatcherOpens, watcher, timer
  <2>13. CASE TimerFires \/ TimerExecutes \/ TimerExits
    BY <2>13 DEF TimerFires, TimerExecutes, TimerExits, watcher, timer
  <2>14. CASE UNCHANGED vars
    BY <2>14 DEF vars, watcher, timer
  <2> QED
    BY <2>1, <2>2, <2>3, <2>4, <2>5, <2>6, <2>7, <2>8, <2>9, <2>10, <2>11, <2>12,
       <2>13, <2>14, <2>1b, <2>2b DEF Next, Finalize
<1> QED
  BY <1>1, <1>2, PTL DEF Spec

\* The parts of the plugin end in the order of Finalize, each before the next
\* one is stopped.
THEOREM TypeCorrect == Spec => []TypeOK
BY Inductive, PTL DEF IInv

\* No thread is inside the library when Finalize returns, however many
\* requests and listeners there are.
THEOREM NobodyIsLeftBehind == Spec => []NobodyLeftBehind
<1>1. IInv => NobodyLeftBehind
  BY DEF IInv, JoinedEnded, RequestsOwned, TypeOK, WatcherJoined, TimerJoined,
         NobodyLeftBehind
<1> QED
  BY <1>1, Inductive, PTL
=============================================================================
