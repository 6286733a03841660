--------------------------- MODULE NetworkListeners ---------------------------
(***************************************************************************)
(* src/helpers/networkWatcher.cpp and the two servers it drives: the HTTP  *)
(* server keeps one listener per allowed address                          *)
(* (src/remoteControlServer.cpp, Reconcile), the discovery server one UDP  *)
(* socket per allowed address (src/serviceDiscoveryServer.cpp).            *)
(*                                                                         *)
(* The environment moves addresses between interfaces, takes and frees     *)
(* ports, and keeps long polls pending on listeners.  Three threads are    *)
(* modelled: the main thread (mainPc), the watcher (watcherPc) and the     *)
(* thread that hears of network changes from the OS.                       *)
(***************************************************************************)
EXTENDS Naturals, FiniteSets

CONSTANTS
    Addresses,          \* IPv4 addresses the computer may have
    Interfaces,         \* network interfaces
    Nowhere,            \* the interface of an address the computer has not
    SavedExclusions,    \* the excluded interfaces of the settings as loaded
    MaxMoves            \* bound on what environment and user change

ASSUME NowhereAssumption == Nowhere \notin Interfaces
ASSUME SavedAssumption == SavedExclusions \subseteq Interfaces
ASSUME MaxMovesAssumption == MaxMoves \in Nat

VARIABLES
    net,          \* net[a]: the interface that has address a
    taken,        \* addresses whose TCP port another program has bound
    polls,        \* addresses with a long poll pending on their listener
    pendingOs,    \* a network change is on its way to OsNotifications
    moves,        \* number of changes so far
    unheard,      \* (history) the network has changed before the registration
                  \* and has not been listed since
    episodes,     \* episodes[a]: (history) reasons to report a failure of a
    notices,      \* notices[a]: (history) bind failures of a reported
    FExcludedIds, FRefreshRequested, FStopping,
    registered,   \* FNotifications is not null
    mainPc,
    watcherPc,
    retry,        \* Run's local variable
    excluded,     \* AllowedAddresses' copy of FExcludedIds
    allowed,      \* the vector passed to the handlers: allowed[a], or Nowhere
    closing,      \* the listener that Close is joining
    Running, Listeners, ReportedBindFailures,  \* of the HTTP server
    Devices       \* of the discovery server: Devices[a] is the interface the
                  \* socket of a was opened for, Nowhere if a has no socket

environment == <<net, taken, polls, pendingOs, moves, unheard, episodes>>
watched == <<FExcludedIds, FRefreshRequested, FStopping, registered>>
watcher == <<watcherPc, retry, excluded, allowed, closing>>
http == <<Running, Listeners, ReportedBindFailures, notices>>
vars == <<environment, watched, mainPc, watcher, http, Devices>>

Places == Interfaces \cup {Nowhere}

\* The type invariant.  A port is taken by one program only, and the listeners
\* of the HTTP server are closed only by the watcher or after it has ended.
TypeOK ==
    /\ net \in [Addresses -> Places]
    /\ taken \subseteq Addresses
    /\ polls \subseteq Addresses
    /\ pendingOs \in BOOLEAN
    /\ moves \in 0 .. MaxMoves
    /\ unheard \in BOOLEAN
    /\ episodes \in [Addresses -> Nat]
    /\ notices \in [Addresses -> Nat]
    /\ FExcludedIds \subseteq Interfaces
    /\ FRefreshRequested \in BOOLEAN
    /\ FStopping \in BOOLEAN
    /\ registered \in BOOLEAN
    /\ mainPc \in {"starting", "running", "refresh", "stop", "join", "closeAll",
                   "closing", "stopDiscovery", "stopped"}
    /\ watcherPc \in {"wait", "copy", "list", "discovery", "httpClose", "httpJoin",
                      "exited"}
    /\ retry \in BOOLEAN
    /\ excluded \subseteq Interfaces
    /\ allowed \in [Addresses -> Places]
    /\ closing \subseteq Addresses
    /\ Running \in BOOLEAN
    /\ Listeners \subseteq Addresses
    /\ ReportedBindFailures \subseteq Addresses
    /\ Devices \in [Addresses -> Places]
    /\ Listeners \cap taken = {}
    /\ mainPc \in {"closeAll", "closing", "stopDiscovery", "stopped"}
          => watcherPc = "exited"

Init ==
    /\ net \in [Addresses -> Places]
    /\ taken = {}
    /\ polls = {}
    /\ pendingOs = FALSE
    /\ moves = 0
    /\ unheard = FALSE
    /\ episodes = [a \in Addresses |-> 1]
    /\ notices = [a \in Addresses |-> 0]
    /\ FExcludedIds = SavedExclusions
    /\ FRefreshRequested = TRUE
    /\ FStopping = FALSE
    /\ registered = FALSE
    /\ mainPc = "starting"
    /\ watcherPc = "wait"
    /\ retry = FALSE
    /\ excluded = {}
    /\ allowed = [a \in Addresses |-> Nowhere]
    /\ closing = {}
    /\ Running = TRUE
    /\ Listeners = {}
    /\ ReportedBindFailures = {}
    /\ Devices = [a \in Addresses |-> Nowhere]

\* The addresses to listen on, if everything were up to date.
CurrentlyAllowed == {a \in Addresses : net[a] \notin FExcludedIds \cup {Nowhere}}

Wanted == {a \in Addresses : allowed[a] # Nowhere}

-----------------------------------------------------------------------------
(* The environment *)

Move == moves < MaxMoves /\ moves' = moves + 1

NewEpisode(S) == episodes' = [a \in Addresses |-> episodes[a] + IF a \in S THEN 1 ELSE 0]

\* An address appears, disappears or moves to another interface.
NetworkChanges(a, i) ==
    /\ Move
    /\ net[a] # i
    /\ net' = [net EXCEPT ![a] = i]
    /\ pendingOs' = (pendingOs \/ registered)
    /\ unheard' = (unheard \/ ~registered)
    /\ NewEpisode({a})
    /\ UNCHANGED <<taken, polls, watched, mainPc, watcher, http, Devices>>

PortTaken(a) ==
    /\ Move
    /\ a \notin Listeners \cup taken
    /\ taken' = taken \cup {a}
    /\ UNCHANGED <<net, polls, pendingOs, unheard, episodes, watched, mainPc, watcher, http,
                   Devices>>

PortFreed(a) ==
    /\ a \in taken
    /\ taken' = taken \ {a}
    /\ NewEpisode({a})
    /\ UNCHANGED <<net, polls, pendingOs, moves, unheard, watched, mainPc, watcher, http,
                   Devices>>

\* A client polls; the poll ends with a change or after ten minutes.
PollBegins(a) ==
    /\ a \in Listeners \ polls
    /\ polls' = polls \cup {a}
    /\ UNCHANGED <<net, taken, pendingOs, moves, unheard, episodes, watched, mainPc, watcher,
                   http, Devices>>

PollEnds(a) ==
    /\ a \in polls
    /\ polls' = polls \ {a}
    /\ UNCHANGED <<net, taken, pendingOs, moves, unheard, episodes, watched, mainPc, watcher,
                   http, Devices>>

\* OnAddressChange, OnInterfaceChange, Listen: Owner.Refresh()
OsNotifies ==
    /\ pendingOs
    /\ registered
    /\ pendingOs' = FALSE
    /\ FRefreshRequested' = TRUE
    /\ UNCHANGED <<net, taken, polls, moves, unheard, episodes, FExcludedIds, FStopping,
                   registered, mainPc, watcher, http, Devices>>

-----------------------------------------------------------------------------
(* The main thread *)

\* Start: the watcher's thread is running before the OS is asked for changes.
RegisterNotifications ==
    /\ mainPc = "starting"
    /\ registered' = TRUE
    /\ mainPc' = "running"
    /\ UNCHANGED <<environment, FExcludedIds, FRefreshRequested, FStopping, watcher,
                   http, Devices>>

\* SetExcludedInterfaces, from the options dialog ...
SetExcludedInterfaces(S) ==
    /\ mainPc = "running"
    /\ Move
    /\ FExcludedIds' = S
    /\ NewEpisode(Addresses)
    /\ mainPc' = "refresh"
    /\ UNCHANGED <<net, taken, polls, pendingOs, unheard, FRefreshRequested, FStopping,
                   registered, watcher, http, Devices>>

\* ... and its Refresh.
Refresh ==
    /\ mainPc = "refresh"
    /\ FRefreshRequested' = TRUE
    /\ mainPc' = "running"
    /\ UNCHANGED <<environment, FExcludedIds, FStopping, registered, watcher, http,
                   Devices>>

\* Stop of the watcher: FNotifications.reset(), the flag, the join.
StopNotifications ==
    /\ mainPc = "running"
    /\ registered' = FALSE
    /\ mainPc' = "stop"
    /\ UNCHANGED <<environment, FExcludedIds, FRefreshRequested, FStopping, watcher,
                   http, Devices>>

SetStopping ==
    /\ mainPc = "stop"
    /\ FStopping' = TRUE
    /\ mainPc' = "join"
    /\ UNCHANGED <<environment, FExcludedIds, FRefreshRequested, registered, watcher,
                   http, Devices>>

\* (mutant) Stop does not join the watcher.
DoNotJoinWatcher ==
    /\ mainPc = "join"
    /\ mainPc' = "closeAll"
    /\ UNCHANGED <<environment, watched, watcher, http, Devices>>

JoinWatcher ==
    /\ mainPc = "join"
    /\ watcherPc = "exited"
    /\ mainPc' = "closeAll"
    /\ UNCHANGED <<environment, watched, watcher, http, Devices>>

\* CloseAll: every listener is stopped; its thread ends when the requests it
\* serves have ended.
CloseAll ==
    /\ mainPc = "closeAll"
    /\ Running' = FALSE
    /\ Listeners' = {}
    /\ mainPc' = "closing"
    /\ UNCHANGED <<environment, watched, watcher, ReportedBindFailures, notices, Devices>>

JoinListeners ==
    /\ mainPc = "closing"
    /\ polls = {}
    /\ mainPc' = "stopDiscovery"
    /\ UNCHANGED <<environment, watched, watcher, http, Devices>>

DiscoveryStop ==
    /\ mainPc = "stopDiscovery"
    /\ Devices' = [a \in Addresses |-> Nowhere]
    /\ mainPc' = "stopped"
    /\ UNCHANGED <<environment, watched, watcher, http>>

-----------------------------------------------------------------------------
(* The watcher: NetworkWatcher::Run *)

\* The wait ends because of a Refresh ...
WakeForRefresh ==
    /\ watcherPc = "wait"
    /\ FRefreshRequested /\ ~FStopping
    /\ FRefreshRequested' = FALSE
    /\ watcherPc' = "copy"
    /\ UNCHANGED <<environment, FExcludedIds, FStopping, registered, mainPc, retry,
                   excluded, allowed, closing, http, Devices>>

\* (mutant) ... never for a retry, ...
NeverWakeForRetry == FALSE /\ UNCHANGED vars

\* ... or, after a failure, because RetryInterval is over, ...
WakeForRetry ==
    /\ watcherPc = "wait"
    /\ retry /\ ~FStopping
    /\ FRefreshRequested' = FALSE
    /\ watcherPc' = "copy"
    /\ UNCHANGED <<environment, FExcludedIds, FStopping, registered, mainPc, retry,
                   excluded, allowed, closing, http, Devices>>

\* ... or because of Stop.
Exit ==
    /\ watcherPc = "wait"
    /\ FStopping
    /\ watcherPc' = "exited"
    /\ UNCHANGED <<environment, watched, mainPc, retry, excluded, allowed, closing,
                   http, Devices>>

\* AllowedAddresses: the excluded interfaces are copied under the lock ...
CopyExcluded ==
    /\ watcherPc = "copy"
    /\ excluded' = FExcludedIds
    /\ watcherPc' = "list"
    /\ UNCHANGED <<environment, watched, mainPc, retry, allowed, closing, http, Devices>>

\* (mutant) A request made meanwhile is forgotten.
ListAndForget ==
    /\ watcherPc = "list"
    /\ allowed' = [a \in Addresses |-> IF net[a] \in excluded THEN Nowhere ELSE net[a]]
    /\ retry' = FALSE
    /\ FRefreshRequested' = FALSE
    /\ unheard' = FALSE
    /\ watcherPc' = "discovery"
    /\ UNCHANGED <<net, taken, polls, pendingOs, moves, episodes, FExcludedIds, FStopping,
                   registered, mainPc, excluded, closing, http, Devices>>

\* ... and then the addresses are listed.
ListIPv4Addresses ==
    /\ watcherPc = "list"
    /\ allowed' = [a \in Addresses |-> IF net[a] \in excluded THEN Nowhere ELSE net[a]]
    /\ retry' = FALSE
    /\ unheard' = FALSE
    /\ watcherPc' = "discovery"
    /\ UNCHANGED <<net, taken, polls, pendingOs, moves, episodes, watched, mainPc, excluded,
                   closing, http, Devices>>

\* The discovery server: sockets are keyed by the address alone.  The watcher
\* waits for this; any of the missing sockets may fail to open.
DiscoveryReconcile ==
    /\ watcherPc = "discovery"
    /\ LET kept == {a \in Wanted : Devices[a] # Nowhere}
       IN \E opened \in SUBSET (Wanted \ kept) :
             /\ Devices' = [a \in Addresses |->
                               IF a \in kept THEN Devices[a]
                               ELSE IF a \in opened THEN allowed[a] ELSE Nowhere]
             /\ retry' = (kept \cup opened # Wanted)
    /\ watcherPc' = "httpClose"
    /\ UNCHANGED <<environment, watched, mainPc, excluded, allowed, closing, http>>

\* The HTTP server.  Close stops one unwanted listener ...
HttpClose(a) ==
    /\ watcherPc = "httpClose"
    /\ Running
    /\ a \in Listeners \ Wanted
    /\ Listeners' = Listeners \ {a}
    /\ closing' = {a}
    /\ watcherPc' = "httpJoin"
    /\ UNCHANGED <<environment, watched, mainPc, retry, excluded, allowed, Running,
                   ReportedBindFailures, notices, Devices>>

\* ... and joins its thread, which serves its requests to the end.
HttpJoin ==
    /\ watcherPc = "httpJoin"
    /\ closing \cap polls = {}
    /\ closing' = {}
    /\ watcherPc' = "httpClose"
    /\ UNCHANGED <<environment, watched, mainPc, retry, excluded, allowed, http, Devices>>

\* (mutant) A failure is reported at every attempt.
ReportAlways(failed) == failed

\* Failures that have not been reported yet.
ReportOnce(failed) == failed \ ReportedBindFailures

\* Then ReportedBindFailures is trimmed, the missing listeners are opened, and
\* failures are reported.  bind fails for a port that is taken and for an
\* address that the computer has no longer.
HttpOpen ==
    /\ watcherPc = "httpClose"
    /\ Running => Listeners \subseteq Wanted
    /\ IF Running
          THEN LET missing == Wanted \ Listeners
                   failed == {a \in missing : a \in taken \/ net[a] = Nowhere}
               IN /\ Listeners' = Listeners \cup (missing \ failed)
                  /\ ReportedBindFailures' = (ReportedBindFailures \cap Wanted \cap failed)
                                                \cup failed
                  /\ notices' = [a \in Addresses |-> notices[a]
                                   + IF a \in ReportOnce(failed) THEN 1 ELSE 0]
                  /\ retry' = (retry \/ failed # {})
          ELSE UNCHANGED <<Listeners, ReportedBindFailures, notices, retry>>
    /\ watcherPc' = "wait"
    /\ UNCHANGED <<environment, watched, mainPc, excluded, allowed, closing, Running,
                   Devices>>

-----------------------------------------------------------------------------
Environment ==
    \/ \E a \in Addresses :
          \/ \E i \in Places : NetworkChanges(a, i)
          \/ PortTaken(a) \/ PortFreed(a)
          \/ PollBegins(a) \/ PollEnds(a)
    \/ OsNotifies

MainThread ==
    \/ RegisterNotifications
    \/ \E S \in SUBSET Interfaces : SetExcludedInterfaces(S)
    \/ Refresh
    \/ StopNotifications \/ SetStopping \/ JoinWatcher
    \/ CloseAll \/ JoinListeners \/ DiscoveryStop

Watcher ==
    \/ WakeForRefresh \/ WakeForRetry \/ Exit
    \/ CopyExcluded \/ ListIPv4Addresses
    \/ DiscoveryReconcile
    \/ \E a \in Addresses : HttpClose(a)
    \/ HttpJoin
    \/ HttpOpen

Next == Environment \/ MainThread \/ Watcher

Spec == Init /\ [][Next]_vars

\* Threads run, the OS reports changes, long polls end (at the latest after
\* ten minutes).  The main thread need not change settings or stop.
Fairness ==
    /\ WF_vars(Watcher)
    /\ WF_vars(OsNotifies)
    /\ WF_vars(RegisterNotifications) /\ WF_vars(Refresh)
    /\ WF_vars(SetStopping) /\ WF_vars(JoinWatcher) /\ WF_vars(CloseAll)
    /\ WF_vars(JoinListeners) /\ WF_vars(DiscoveryStop)
    /\ \A a \in Addresses : WF_vars(PollEnds(a))

FairSpec == Spec /\ Fairness

-----------------------------------------------------------------------------
\* Nothing is on its way to the watcher.  (A change that came after the first
\* listing and before the registration is not: nobody hears of it until the next
\* refresh.)
Settled == mainPc = "running" /\ ~FRefreshRequested /\ ~pendingOs /\ ~unheard

\* When nothing is on its way to the watcher and it waits without a retry, both
\* servers have exactly one listener per allowed address: no request to refresh
\* is lost while a reconciliation is under way.
UpToDateWhenQuiet ==
    Settled /\ watcherPc = "wait" /\ ~retry =>
        /\ Listeners = CurrentlyAllowed
        /\ {a \in Addresses : Devices[a] # Nowhere} = CurrentlyAllowed

\* The user is told once per reason: a bind failure of an address is reported
\* again only after its port was freed or its address or exclusion changed.
ReportedOncePerReason == \A a \in Addresses : notices[a] <= episodes[a]

\* After Finalize nothing is open, and no request is being served.
AllClosedAfterStop ==
    mainPc = "stopped" =>
        /\ Listeners = {}
        /\ polls = {}
        /\ \A a \in Addresses : Devices[a] = Nowhere

\* Once changes cease the server listens on every allowed address whose port
\* it can have, for good: also after failures, which only the retry can heal.
EventuallyUpToDate ==
    <>[](\/ mainPc \notin {"running", "refresh"}
         \/ unheard
         \/ Listeners = CurrentlyAllowed \ taken)
=============================================================================
