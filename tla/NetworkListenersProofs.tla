------------------------ MODULE NetworkListenersProofs ------------------------
(***************************************************************************)
(* Proofs about NetworkListeners, for any addresses and interfaces, any    *)
(* settings and any number of changes.                                     *)
(***************************************************************************)
EXTENDS NetworkListeners, TLAPS

\* Only CloseAll closes the HTTP server, and nothing is opened after it.
ClosedInOrder ==
    /\ Running <=> mainPc \notin {"closing", "stopDiscovery", "stopped"}
    /\ ~Running => Listeners = {}
    /\ mainPc \in {"stopDiscovery", "stopped"} => polls = {}
    /\ mainPc = "stopped" => \A a \in Addresses : Devices[a] = Nowhere

Listing == watcherPc = "list"
Using == watcherPc \in {"discovery", "httpClose", "httpJoin"}

\* The interface of a to listen on as it is now, and as the watcher has seen it
\* or is about to.
Current(a) == IF net[a] \in FExcludedIds THEN Nowhere ELSE net[a]
Listed(a) == IF net[a] \in excluded THEN Nowhere ELSE net[a]
Seen(a) == CASE Listing -> Listed(a) [] Using -> allowed[a] [] OTHER -> Current(a)

\* The watcher may try an address as it was before its latest episode.
Stale(a) == Seen(a) # Nowhere /\ Seen(a) # Current(a)

\* The address goes on failing for the same reason.
Stuck(a) == a \in taken /\ Current(a) # Nowhere /\ Seen(a) # Nowhere

\* Every report has used up an episode; an address whose failure is not known
\* has one left, and one more if the watcher may fail because of an old one.
Paid(a) ==
    /\ notices[a] <= episodes[a]
    /\ a \notin ReportedBindFailures => notices[a] < episodes[a]
    /\ a \notin ReportedBindFailures /\ Stale(a) => notices[a] + 1 < episodes[a]
    /\ a \in ReportedBindFailures => Stuck(a) \/ notices[a] < episodes[a]

ReportsPaid == \A a \in Addresses : Paid(a)

Sockets == {a \in Addresses : Devices[a] # Nowhere}

\* What the watcher works with is up to date unless a refresh is on its way,
\* and what it has done so far follows what it works with.
ListsFollow ==
    /\ ~FRefreshRequested /\ mainPc # "refresh" /\ Listing => excluded = FExcludedIds
    /\ /\ ~FRefreshRequested /\ mainPc # "refresh" /\ ~pendingOs /\ ~unheard
       /\ Using \/ watcherPc = "wait"
       => \A a \in Addresses : allowed[a] = Current(a)
    /\ watcherPc \in {"httpClose", "httpJoin", "wait"} /\ ~retry /\ Running => Sockets = Wanted
    /\ watcherPc = "wait" /\ ~retry /\ Running => Listeners = Wanted

IInv == TypeOK /\ ClosedInOrder /\ ReportsPaid /\ ListsFollow

USE NowhereAssumption, SavedAssumption, MaxMovesAssumption DEF Places

-----------------------------------------------------------------------------
LEMMA TypeInductive == Spec => []TypeOK
<1>1. Init => TypeOK
  <2> SUFFICES ASSUME Init PROVE TypeOK
    OBVIOUS
  <2>1. /\ moves \in 0 .. MaxMoves
        /\ episodes \in [Addresses -> Nat] /\ notices \in [Addresses -> Nat]
        /\ allowed \in [Addresses -> Places] /\ Devices \in [Addresses -> Places]
    BY DEF Init
  <2> QED
    BY <2>1 DEF Init, TypeOK
<1>2. TypeOK /\ [Next]_vars => TypeOK'
  <2> SUFFICES ASSUME TypeOK, [Next]_vars PROVE TypeOK'
    OBVIOUS
  <2> USE DEF TypeOK, environment, watched, watcher, http
  <2>1. ASSUME NEW a \in Addresses, NEW i \in Places, NetworkChanges(a, i) PROVE TypeOK'
    BY <2>1 DEF NetworkChanges, Move, NewEpisode
  <2>2. ASSUME NEW a \in Addresses, PortTaken(a) PROVE TypeOK'
    BY <2>2 DEF PortTaken, Move
  <2>3. ASSUME NEW a \in Addresses, PortFreed(a) PROVE TypeOK'
    BY <2>3 DEF PortFreed, NewEpisode
  <2>4. ASSUME NEW a \in Addresses, PollBegins(a) \/ PollEnds(a) PROVE TypeOK'
    BY <2>4 DEF PollBegins, PollEnds
  <2>5. CASE OsNotifies
    BY <2>5 DEF OsNotifies
  <2>6. CASE RegisterNotifications \/ StopNotifications
    <3>1. CASE RegisterNotifications
      BY <3>1 DEF RegisterNotifications
    <3>2. CASE StopNotifications
      BY <3>2 DEF StopNotifications
    <3> QED
      BY <2>6, <3>1, <3>2
  <2>6b. CASE Refresh \/ SetStopping
    <3>1. CASE Refresh
      BY <3>1 DEF Refresh
    <3>2. CASE SetStopping
      BY <3>2 DEF SetStopping
    <3> QED
      BY <2>6b, <3>1, <3>2
  <2>7. ASSUME NEW S \in SUBSET Interfaces, SetExcludedInterfaces(S) PROVE TypeOK'
    BY <2>7 DEF SetExcludedInterfaces, Move, NewEpisode
  <2>8. CASE JoinWatcher \/ CloseAll \/ JoinListeners \/ DiscoveryStop
    <3>1. CASE JoinWatcher
      BY <3>1 DEF JoinWatcher
    <3>2. CASE CloseAll
      BY <3>2 DEF CloseAll
    <3>3. CASE JoinListeners
      BY <3>3 DEF JoinListeners
    <3>4. CASE DiscoveryStop
      BY <3>4 DEF DiscoveryStop
    <3> QED
      BY <2>8, <3>1, <3>2, <3>3, <3>4
  <2>9. CASE WakeForRefresh \/ WakeForRetry \/ Exit \/ CopyExcluded
    <3>1. CASE WakeForRefresh
      BY <3>1 DEF WakeForRefresh
    <3>2. CASE WakeForRetry
      BY <3>2 DEF WakeForRetry
    <3>3. CASE Exit
      BY <3>3 DEF Exit
    <3>4. CASE CopyExcluded
      BY <3>4 DEF CopyExcluded
    <3> QED
      BY <2>9, <3>1, <3>2, <3>3, <3>4
  <2>10. CASE ListIPv4Addresses
    BY <2>10 DEF ListIPv4Addresses
  <2>11. CASE DiscoveryReconcile
    <3> DEFINE kept == {a \in Wanted : Devices[a] # Nowhere}
    <3>1. PICK opened \in SUBSET (Wanted \ kept) :
            /\ Devices' = [a \in Addresses |->
                              IF a \in kept THEN Devices[a]
                              ELSE IF a \in opened THEN allowed[a] ELSE Nowhere]
            /\ retry' = (kept \cup opened # Wanted)
      BY <2>11 DEF DiscoveryReconcile
    <3>2. Devices' \in [Addresses -> Places]
      BY <3>1
    <3>3. retry' \in BOOLEAN
      BY <3>1
    <3> QED
      BY <2>11, <3>2, <3>3 DEF DiscoveryReconcile
  <2>12. ASSUME NEW a \in Addresses, HttpClose(a) PROVE TypeOK'
    BY <2>12 DEF HttpClose
  <2>13. CASE HttpJoin
    BY <2>13 DEF HttpJoin
  <2>14. CASE HttpOpen
    <3>1. /\ Listeners' \subseteq Addresses /\ Listeners' \cap taken = {}
          /\ ReportedBindFailures' \subseteq Addresses
      BY <2>14 DEF HttpOpen, Wanted
    <3>2. notices' \in [Addresses -> Nat]
      <4> DEFINE failed == {a \in Wanted \ Listeners : a \in taken \/ net[a] = Nowhere}
      <4>1. \/ notices' = notices
            \/ notices' = [a \in Addresses |-> notices[a] + IF a \in ReportOnce(failed) THEN 1 ELSE 0]
        BY <2>14 DEF HttpOpen
      <4> HIDE DEF failed
      <4>2. \A a \in Addresses : notices[a] + (IF a \in ReportOnce(failed) THEN 1 ELSE 0) \in Nat
        OBVIOUS
      <4> QED
        BY <4>1, <4>2
    <3>3. retry' \in BOOLEAN
      BY <2>14 DEF HttpOpen
    <3> QED
      BY <2>14, <3>1, <3>2, <3>3 DEF HttpOpen
  <2>15. CASE UNCHANGED vars
    BY <2>15 DEF vars
  <2> QED
    BY <2>1, <2>2, <2>3, <2>4, <2>5, <2>6, <2>6b, <2>7, <2>8, <2>9, <2>10, <2>11, <2>12,
       <2>13, <2>14, <2>15 DEF Next, Environment, MainThread, Watcher
<1> QED
  BY <1>1, <1>2, PTL DEF Spec

LEMMA ClosedInductive == Spec => []ClosedInOrder
<1>1. Init => ClosedInOrder
  BY DEF Init, ClosedInOrder
<1>2. TypeOK /\ ClosedInOrder /\ [Next]_vars => ClosedInOrder'
  <2> SUFFICES ASSUME TypeOK, ClosedInOrder, [Next]_vars PROVE ClosedInOrder'
    OBVIOUS
  <2> USE DEF TypeOK, ClosedInOrder, environment, watched, watcher, http
  <2>1. CASE Environment
    <3>1. /\ UNCHANGED <<mainPc, Running, Listeners, Devices>>
          /\ polls' # {} => polls # {} \/ Listeners # {}
      BY <2>1 DEF Environment, NetworkChanges, PortTaken, PortFreed, PollBegins, PollEnds,
                  OsNotifies
    <3> QED
      BY <3>1
  <2>2. CASE MainThread
    BY <2>2 DEF MainThread, RegisterNotifications, SetExcludedInterfaces, Refresh,
                StopNotifications, SetStopping, JoinWatcher, CloseAll, JoinListeners,
                DiscoveryStop
  <2>3. CASE Watcher
    <3>1. /\ watcherPc # "exited" /\ mainPc' = mainPc /\ Running' = Running /\ polls' = polls
          /\ ~Running => Listeners' = Listeners
      BY <2>3 DEF Watcher, WakeForRefresh, WakeForRetry, Exit, CopyExcluded,
                  ListIPv4Addresses, DiscoveryReconcile, HttpClose, HttpJoin, HttpOpen
    <3> QED
      BY <3>1
  <2>4. CASE UNCHANGED vars
    BY <2>4 DEF vars
  <2> QED
    BY <2>1, <2>2, <2>3, <2>4 DEF Next
<1> QED
  BY <1>1, <1>2, TypeInductive, PTL DEF Spec

-----------------------------------------------------------------------------
\* A step that changes neither the account of an address nor how it is seen.
LEMMA PaidWhenUntouched ==
  ASSUME NEW a \in Addresses, Paid(a),
         notices'[a] = notices[a], episodes'[a] = episodes[a],
         a \in ReportedBindFailures' <=> a \in ReportedBindFailures,
         Seen(a)' = Seen(a), Current(a)' = Current(a), a \in taken => a \in taken'
  PROVE  Paid(a)'
BY DEF Paid, Stale, Stuck

\* An episode more pays for whatever is seen then.
LEMMA PaidByEpisode ==
  ASSUME NEW a \in Addresses, TypeOK, Paid(a),
         notices'[a] = notices[a], episodes'[a] = episodes[a] + 1,
         a \in ReportedBindFailures' <=> a \in ReportedBindFailures
  PROVE  Paid(a)'
BY DEF Paid, TypeOK

LEMMA ReportsInductive == Spec => []ReportsPaid
<1>1. Init => ReportsPaid
  BY DEF Init, ReportsPaid, Paid, Stale, Seen, Current, Listing, Using
<1>2. TypeOK /\ ReportsPaid /\ [Next]_vars => ReportsPaid'
  <2> SUFFICES ASSUME TypeOK, ReportsPaid, [Next]_vars, NEW a \in Addresses PROVE Paid(a)'
    BY DEF ReportsPaid
  <2>0. Paid(a)
    BY DEF ReportsPaid
  <2> USE DEF environment, watched, watcher, http
  <2>1. ASSUME NEW b \in Addresses, NEW i \in Places, NetworkChanges(b, i) PROVE Paid(a)'
    <3>1. /\ episodes' = [c \in Addresses |-> episodes[c] + IF c \in {b} THEN 1 ELSE 0]
          /\ net' = [net EXCEPT ![b] = i]
          /\ UNCHANGED <<taken, FExcludedIds, watcher, http>>
      BY <2>1 DEF NetworkChanges, NewEpisode
    <3>2. CASE a = b
      BY <2>0, <3>1, <3>2, PaidByEpisode
    <3>3. CASE a # b
      <4>1. net'[a] = net[a] /\ episodes'[a] = episodes[a]
        BY <3>1, <3>3 DEF TypeOK
      <4> QED
        BY <2>0, <3>1, <4>1, PaidWhenUntouched DEF Seen, Current, Listed, Listing, Using
    <3> QED
      BY <3>2, <3>3
  <2>2. ASSUME NEW b \in Addresses, PortTaken(b) PROVE Paid(a)'
    BY <2>0, <2>2, PaidWhenUntouched DEF PortTaken, Seen, Current, Listed, Listing, Using
  <2>3. ASSUME NEW b \in Addresses, PortFreed(b) PROVE Paid(a)'
    <3>1. /\ episodes' = [c \in Addresses |-> episodes[c] + IF c \in {b} THEN 1 ELSE 0]
          /\ taken' = taken \ {b}
          /\ UNCHANGED <<net, FExcludedIds, watcher, http>>
      BY <2>3 DEF PortFreed, NewEpisode
    <3>2. CASE a = b
      BY <2>0, <3>1, <3>2, PaidByEpisode
    <3>3. CASE a # b
      <4>1. episodes'[a] = episodes[a]
        BY <3>1, <3>3 DEF TypeOK
      <4> QED
        BY <2>0, <3>1, <3>3, <4>1, PaidWhenUntouched DEF Seen, Current, Listed, Listing, Using
    <3> QED
      BY <3>2, <3>3
  <2>4. ASSUME NEW S \in SUBSET Interfaces, SetExcludedInterfaces(S) PROVE Paid(a)'
    <3>1. episodes'[a] = episodes[a] + 1 /\ UNCHANGED http
      BY <2>4 DEF SetExcludedInterfaces, NewEpisode
    <3> QED
      BY <2>0, <3>1, PaidByEpisode
  <2>5. CASE \/ \E b \in Addresses : PollBegins(b) \/ PollEnds(b)
             \/ OsNotifies
    BY <2>0, <2>5, PaidWhenUntouched
       DEF PollBegins, PollEnds, OsNotifies, Seen, Current, Listed, Listing, Using
  <2>6. CASE \/ RegisterNotifications \/ Refresh \/ StopNotifications \/ SetStopping
             \/ JoinWatcher \/ CloseAll \/ JoinListeners \/ DiscoveryStop
    BY <2>0, <2>6, PaidWhenUntouched
       DEF RegisterNotifications, Refresh, StopNotifications, SetStopping, JoinWatcher, CloseAll,
           JoinListeners, DiscoveryStop, Seen, Current, Listed, Listing, Using
  <2>7. CASE WakeForRefresh \/ WakeForRetry \/ Exit \/ CopyExcluded
    BY <2>0, <2>7, PaidWhenUntouched
       DEF WakeForRefresh, WakeForRetry, Exit, CopyExcluded, Seen, Current, Listed, Listing, Using
  <2>8. CASE ListIPv4Addresses
    <3>1. /\ allowed'[a] = Listed(a) /\ watcherPc = "list" /\ watcherPc' = "discovery"
          /\ UNCHANGED <<net, taken, episodes, FExcludedIds, http>>
      BY <2>8 DEF ListIPv4Addresses, Listed
    <3> QED
      BY <2>0, <3>1, PaidWhenUntouched DEF Seen, Current, Listing, Using
  <2>9. CASE DiscoveryReconcile \/ (\E b \in Addresses : HttpClose(b)) \/ HttpJoin
    <3>1. /\ Using /\ Using' /\ ~Listing /\ ~Listing'
          /\ UNCHANGED <<net, taken, episodes, FExcludedIds, allowed, ReportedBindFailures, notices>>
      BY <2>9 DEF DiscoveryReconcile, HttpClose, HttpJoin, Using, Listing
    <3> QED
      BY <2>0, <3>1, PaidWhenUntouched DEF Seen, Current
  <2>10. CASE HttpOpen
    <3>1. /\ Using /\ ~Listing /\ ~Using' /\ ~Listing'
          /\ UNCHANGED <<net, taken, episodes, FExcludedIds>>
      BY <2>10 DEF HttpOpen, Using, Listing
    <3>2. Seen(a) = allowed[a] /\ Seen(a)' = Current(a) /\ Current(a)' = Current(a)
      BY <3>1 DEF Seen, Current
    <3>3. ~Stale(a)' /\ (Stuck(a) => Stuck(a)')
      BY <3>1, <3>2 DEF Stale, Stuck
    <3>4. CASE ~Running
      <4>1. UNCHANGED <<notices, ReportedBindFailures>>
        BY <2>10, <3>4 DEF HttpOpen
      <4> QED
        BY <2>0, <3>1, <3>3, <4>1 DEF Paid
    <3>5. CASE Running
      <4> DEFINE missing == Wanted \ Listeners
                 failed == {b \in missing : b \in taken \/ net[b] = Nowhere}
      <4>1. /\ ReportedBindFailures' = (ReportedBindFailures \cap Wanted \cap failed) \cup failed
            /\ notices'[a] = notices[a] + IF a \in failed \ ReportedBindFailures THEN 1 ELSE 0
        BY <2>10, <3>5 DEF HttpOpen, ReportOnce
      <4>2. a \in ReportedBindFailures' <=> a \in failed
        BY <4>1
      <4>3. CASE a \in failed /\ a \in ReportedBindFailures
        <5>1. notices'[a] = notices[a]
          BY <4>1, <4>3 DEF TypeOK
        <5> QED
          BY <2>0, <3>1, <3>3, <4>2, <4>3, <5>1 DEF Paid
      <4>4. CASE a \in failed /\ a \notin ReportedBindFailures
        <5>1. notices'[a] = notices[a] + 1 /\ notices[a] < episodes[a]
          BY <2>0, <4>1, <4>4 DEF Paid
        <5>2. allowed[a] # Nowhere /\ (a \in taken \/ net[a] = Nowhere)
          BY <4>4 DEF Wanted
        <5>3. CASE Stale(a)
          BY <2>0, <3>1, <4>2, <4>4, <5>1, <5>3 DEF Paid, TypeOK
        <5>4. CASE ~Stale(a)
          <6>1. Current(a) = allowed[a]
            BY <3>2, <5>2, <5>4 DEF Stale
          <6>2. Stuck(a)'
            BY <3>1, <3>2, <5>2, <6>1 DEF Stuck, Current
          <6> QED
            BY <3>1, <4>2, <4>4, <5>1, <6>2 DEF Paid, TypeOK
        <5> QED
          BY <5>3, <5>4
      <4>5. CASE a \notin failed
        <5>1. notices'[a] = notices[a]
          BY <4>1, <4>5 DEF TypeOK
        <5>2. ~Stuck(a)
          BY <3>2, <4>5 DEF Stuck, Wanted, TypeOK
        <5> QED
          BY <2>0, <3>1, <3>3, <4>2, <4>5, <5>1, <5>2 DEF Paid
      <4> QED
        BY <4>3, <4>4, <4>5
    <3> QED
      BY <3>4, <3>5
  <2>11. CASE UNCHANGED vars
    BY <2>0, <2>11, PaidWhenUntouched DEF vars, Seen, Current, Listed, Listing, Using
  <2> QED
    BY <2>1, <2>2, <2>3, <2>4, <2>5, <2>6, <2>7, <2>8, <2>9, <2>10, <2>11
       DEF Next, Environment, MainThread, Watcher
<1> QED
  BY <1>1, <1>2, TypeInductive, PTL DEF Spec

-----------------------------------------------------------------------------
LEMMA ListsInductive == Spec => []ListsFollow
<1>1. Init => ListsFollow
  BY DEF Init, ListsFollow, Listing, Using, Sockets, Wanted
<1>2. TypeOK /\ ClosedInOrder /\ ListsFollow /\ [Next]_vars => ListsFollow'
  <2> SUFFICES ASSUME TypeOK, ClosedInOrder, ListsFollow, [Next]_vars PROVE ListsFollow'
    OBVIOUS
  <2> USE DEF ListsFollow, environment, watched, watcher, http
  <2>1. ASSUME NEW a \in Addresses, NEW i \in Places, NetworkChanges(a, i) PROVE ListsFollow'
    BY <2>1 DEF NetworkChanges, Listing, Using, Sockets, Wanted
  <2>2. CASE OsNotifies
    BY <2>2 DEF OsNotifies, Listing, Using, Sockets, Wanted
  <2>3. CASE \E a \in Addresses : PortTaken(a) \/ PortFreed(a) \/ PollBegins(a) \/ PollEnds(a)
    BY <2>3 DEF PortTaken, PortFreed, PollBegins, PollEnds, Current, Listing, Using, Sockets, Wanted
  <2>4. CASE RegisterNotifications \/ StopNotifications \/ SetStopping \/ JoinWatcher \/ JoinListeners
    BY <2>4 DEF RegisterNotifications, StopNotifications, SetStopping, JoinWatcher, JoinListeners,
                Current, Listing, Using, Sockets, Wanted
  <2>5. CASE Refresh \/ (\E S \in SUBSET Interfaces : SetExcludedInterfaces(S))
    BY <2>5 DEF Refresh, SetExcludedInterfaces, Current, Listing, Using, Sockets, Wanted
  <2>6. CASE CloseAll \/ DiscoveryStop
    BY <2>6 DEF CloseAll, DiscoveryStop, ClosedInOrder, TypeOK, Current, Listing, Using, Sockets, Wanted
  <2>7. CASE WakeForRefresh \/ WakeForRetry \/ Exit \/ CopyExcluded
    BY <2>7 DEF WakeForRefresh, WakeForRetry, Exit, CopyExcluded, Listing, Using
  <2>8. CASE ListIPv4Addresses
    BY <2>8 DEF ListIPv4Addresses, Current, Listing, Using
  <2>9. CASE DiscoveryReconcile
    <3> DEFINE kept == {a \in Wanted : Devices[a] # Nowhere}
    <3>1. PICK opened \in SUBSET (Wanted \ kept) :
            /\ Devices' = [a \in Addresses |->
                              IF a \in kept THEN Devices[a]
                              ELSE IF a \in opened THEN allowed[a] ELSE Nowhere]
            /\ retry' = (kept \cup opened # Wanted)
      BY <2>9 DEF DiscoveryReconcile
    <3>2. Wanted' = Wanted
      BY <2>9 DEF DiscoveryReconcile, Wanted
    <3>3. Sockets' = kept \cup opened
      BY <3>1 DEF Sockets, Wanted
    <3>4. ~retry' => Sockets' = Wanted'
      BY <3>1, <3>2, <3>3
    <3> QED
      BY <2>9, <3>4 DEF DiscoveryReconcile, Current, Listing, Using
  <2>10. CASE HttpJoin \/ (\E a \in Addresses : HttpClose(a))
    BY <2>10 DEF HttpJoin, HttpClose, Current, Listing, Using, Sockets, Wanted
  <2>11. CASE HttpOpen
    <3>1. /\ UNCHANGED <<environment, watched, mainPc, allowed, Running, Devices>>
          /\ watcherPc = "httpClose" /\ watcherPc' = "wait"
      BY <2>11 DEF HttpOpen
    <3>2. ~retry' /\ Running => ~retry /\ Listeners' = Wanted
      BY <2>11 DEF HttpOpen
    <3> QED
      BY <3>1, <3>2 DEF Current, Listing, Using, Sockets, Wanted
  <2>12. CASE UNCHANGED vars
    BY <2>12 DEF vars, Current, Listing, Using, Sockets, Wanted
  <2> QED
    BY <2>1, <2>2, <2>3, <2>4, <2>5, <2>6, <2>7, <2>8, <2>9, <2>10, <2>11, <2>12
       DEF Next, Environment, MainThread, Watcher
<1> QED
  BY <1>1, <1>2, TypeInductive, ClosedInductive, PTL DEF Spec

-----------------------------------------------------------------------------
LEMMA Inductive == Spec => []IInv
BY TypeInductive, ClosedInductive, ReportsInductive, ListsInductive, PTL DEF IInv

\* The servers' and the watcher's state is well formed, no port belongs to two
\* programs, and the main thread closes the servers only after the watcher.
THEOREM TypeCorrect == Spec => []TypeOK
BY TypeInductive

\* No request to refresh is lost while the watcher lists, closes and opens: when
\* none is on its way and it waits without a retry, both servers follow.
THEOREM FollowsWhenQuiet == Spec => []UpToDateWhenQuiet
<1>1. IInv => UpToDateWhenQuiet
  BY DEF IInv, TypeOK, ClosedInOrder, ListsFollow, UpToDateWhenQuiet, Settled, Using, Sockets,
         Wanted, Current, CurrentlyAllowed
<1> QED
  BY <1>1, Inductive, PTL

\* However often binding fails and is tried again, an address is reported once
\* per reason at most.
THEOREM ReportedOnce == Spec => []ReportedOncePerReason
<1>1. IInv => ReportedOncePerReason
  BY DEF IInv, ReportsPaid, Paid, ReportedOncePerReason
<1> QED
  BY <1>1, Inductive, PTL

\* Stop leaves no listener, socket or request behind, whatever the watcher was
\* doing when it was stopped.
THEOREM NothingIsOpenAfterStop == Spec => []AllClosedAfterStop
<1>1. IInv => AllClosedAfterStop
  BY DEF IInv, ClosedInOrder, AllClosedAfterStop
<1> QED
  BY <1>1, Inductive, PTL

-----------------------------------------------------------------------------
(***************************************************************************)
(* The watcher in PluginLifecycle.                                         *)
(***************************************************************************)

\* Finalize as far as the watcher is concerned: before SetStopping, in the join,
\* and afterwards.
MainPart == CASE mainPc \in {"starting", "running", "refresh", "stop"} -> "running"
              [] mainPc = "join" -> "joinWatcher"
              [] OTHER -> "stopTimer"

\* The watcher as PluginLifecycle sees it: waiting, in a pass, joining a
\* listener, or ended.  A poll is a request on its address.
Lifecycle == INSTANCE PluginLifecycle WITH
    Requests <- Addresses,
    Pumps <- TRUE,
    mainPc <- MainPart,
    watcherPc <- CASE watcherPc \in {"copy", "list", "discovery", "httpClose"} -> "reconcile"
                   [] watcherPc = "httpJoin" -> "close"
                   [] OTHER -> watcherPc,
    FTimerStopped <- FALSE,
    timerPc <- "wait",
    FEventsStopped <- FALSE,
    request <- [a \in Addresses |-> IF a \in polls THEN [doing |-> "waiting", on |-> a]
                                    ELSE [doing |-> "nothing"]]

\* The watcher's steps of PluginLifecycle, and Finalize's that stop and join it.
LifecycleStep ==
    \/ Lifecycle!StopWatcher \/ Lifecycle!JoinWatcher
    \/ Lifecycle!WatcherWakes \/ Lifecycle!WatcherExits
    \/ \E a \in Addresses : Lifecycle!WatcherCloses(a) \/ Lifecycle!WatcherJoins(a)
    \/ \E S \in SUBSET Addresses : Lifecycle!WatcherOpens(S)

\* What those steps change.
lifecycleVars == <<Lifecycle!watcher, closing, MainPart>>

\* The watcher joins one listener at a time.
JoinsOne == watcherPc = "httpJoin" => \E a \in Addresses : closing = {a}

LEMMA JoinsOneInductive == Spec => []JoinsOne
<1>1. Init => JoinsOne
  BY DEF Init, JoinsOne
<1>2. JoinsOne /\ [Next]_vars => JoinsOne'
  <2> SUFFICES ASSUME JoinsOne, [Next]_vars PROVE JoinsOne'
    OBVIOUS
  <2>1. ASSUME UNCHANGED watcherPc, UNCHANGED closing PROVE JoinsOne'
    BY <2>1 DEF JoinsOne
  <2>2. ASSUME watcherPc' # "httpJoin" PROVE JoinsOne'
    BY <2>2 DEF JoinsOne
  <2>3. ASSUME NEW a \in Addresses, HttpClose(a) PROVE JoinsOne'
    BY <2>3 DEF JoinsOne, HttpClose
  <2>4. CASE Environment
    BY <2>1, <2>4 DEF Environment, NetworkChanges, PortTaken, PortFreed, PollBegins, PollEnds,
       OsNotifies, watcher
  <2>5. CASE MainThread
    BY <2>1, <2>5 DEF MainThread, RegisterNotifications, SetExcludedInterfaces, Refresh,
       StopNotifications, SetStopping, JoinWatcher, CloseAll, JoinListeners, DiscoveryStop, watcher
  <2>6. CASE Watcher
    BY <2>2, <2>3, <2>6 DEF Watcher, WakeForRefresh, WakeForRetry, Exit, CopyExcluded,
       ListIPv4Addresses, DiscoveryReconcile, HttpJoin, HttpOpen
  <2>7. CASE UNCHANGED vars
    BY <2>1, <2>7 DEF vars, watcher
  <2> QED
    BY <2>4, <2>5, <2>6, <2>7 DEF Next
<1> QED
  BY <1>1, <1>2, PTL DEF Spec

\* Every step of the watcher, and of the main thread until it has joined it, is
\* one that PluginLifecycle allows, or is not seen there.
LEMMA EachStepIsReduced ==
  ASSUME TypeOK, JoinsOne, [Next]_vars
  PROVE  LifecycleStep \/ UNCHANGED lifecycleVars
<1> USE DEF LifecycleStep, lifecycleVars, MainPart, Lifecycle!watcher, Lifecycle!timer
<1>1. ASSUME UNCHANGED <<FStopping, watcherPc, closing, mainPc>>
      PROVE  UNCHANGED lifecycleVars
  BY <1>1
<1>2. CASE Environment
  BY <1>1, <1>2 DEF Environment, NetworkChanges, PortTaken, PortFreed, PollBegins, PollEnds,
     OsNotifies, watcher, watched
<1>3. CASE RegisterNotifications \/ Refresh \/ StopNotifications
           \/ \E S \in SUBSET Interfaces : SetExcludedInterfaces(S)
  BY <1>3 DEF RegisterNotifications, Refresh, StopNotifications, SetExcludedInterfaces, watcher
<1>4. CASE SetStopping
  BY <1>4 DEF SetStopping, Lifecycle!StopWatcher, watcher, http, environment
<1>5. CASE JoinWatcher
  BY <1>5 DEF JoinWatcher, Lifecycle!JoinWatcher, watcher, watched, http, environment
<1>6. CASE CloseAll \/ JoinListeners \/ DiscoveryStop
  BY <1>6 DEF CloseAll, JoinListeners, DiscoveryStop, watcher, watched
<1>7. CASE WakeForRefresh \/ WakeForRetry
  BY <1>7 DEF WakeForRefresh, WakeForRetry, Lifecycle!WatcherWakes, http, environment
<1>8. CASE Exit
  BY <1>8 DEF Exit, Lifecycle!WatcherExits, watched, http, environment
<1>9. CASE CopyExcluded \/ ListIPv4Addresses \/ DiscoveryReconcile
  BY <1>9 DEF CopyExcluded, ListIPv4Addresses, DiscoveryReconcile, watched
<1>10. ASSUME NEW a \in Addresses, HttpClose(a)
       PROVE  Lifecycle!WatcherCloses(a)
  BY <1>10 DEF HttpClose, Lifecycle!WatcherCloses, watched, environment
<1>11. CASE HttpJoin
  <2>1. PICK a \in Addresses : closing = {a}
    BY <1>11 DEF HttpJoin, JoinsOne
  <2>2. a \notin polls
    BY <1>11, <2>1 DEF HttpJoin
  <2>3. Lifecycle!Served(a) = {}
    BY <2>2 DEF Lifecycle!Served, Lifecycle!Idle
  <2> QED
    BY <1>11, <2>1, <2>3 DEF HttpJoin, Lifecycle!WatcherJoins, watched, http, environment
<1>12. CASE HttpOpen
  <2>1. PICK S \in SUBSET Addresses : Listeners' = Listeners \cup S
    <3>1. CASE Running
      <4> DEFINE missing == Wanted \ Listeners
                 failed == {a \in missing : a \in taken \/ net[a] = Nowhere}
      <4>1. Listeners' = Listeners \cup (missing \ failed)
        BY <1>12, <3>1 DEF HttpOpen
      <4>2. missing \ failed \in SUBSET Addresses
        BY DEF Wanted
      <4> QED
        BY <4>1, <4>2
    <3>2. CASE ~Running
      <4>1. Listeners' = Listeners \cup {}
        BY <1>12, <3>2 DEF HttpOpen
      <4> QED
        BY <4>1
    <3> QED
      BY <3>1, <3>2
  <2>2. Lifecycle!WatcherOpens(S)
    BY <1>12, <2>1 DEF HttpOpen, Lifecycle!WatcherOpens, watched, environment
  <2> QED
    BY <2>2
<1>13. CASE UNCHANGED vars
  BY <1>1, <1>13 DEF vars, watched, watcher
<1> QED
  BY <1>2, <1>3, <1>4, <1>5, <1>6, <1>7, <1>8, <1>9, <1>10, <1>11, <1>12, <1>13
     DEF Next, MainThread, Watcher

\* What PluginLifecycle takes for granted of the watcher is what it does: it
\* wakes only until it was told to stop, ends only afterwards and between two
\* passes, and waits for nobody but the requests of the one listener it closes.
THEOREM WatcherIsReduced == Spec => [][LifecycleStep]_lifecycleVars
<1>1. TypeOK /\ JoinsOne /\ [Next]_vars => [LifecycleStep]_lifecycleVars
  BY EachStepIsReduced
<1> QED
  BY <1>1, TypeInductive, JoinsOneInductive, PTL DEF Spec
===============================================================================
