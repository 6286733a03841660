----------------------------- MODULE LongPolling -----------------------------
(***************************************************************************)
(* The push path of the server: a change in the player, the hook that      *)
(* reports it (src/stateUpdateEvents.cpp), the pool thread that waits for  *)
(* it in SubscribeOnAIMPStateUpdateEvent, the answer, and the client that  *)
(* polls again.  Waiting itself is EventWait; a waiter is one poll, that   *)
(* is, one event type of one client, and the pool thread that serves it.   *)
(***************************************************************************)
EXTENDS EventWait, Sequences, FiniteSets

CONSTANTS
    KindOf,    \* KindOf[w]: KindFor of the event name poll w asks for
    Commands,  \* ordinary requests, which need a pool thread but do not wait
    PoolSize   \* httplib::ThreadPool(32): pool threads of one listener

ASSUME KindOfAssumption == KindOf \in [Waiters -> Kinds]
ASSUME CommandsAssumption == Waiters \cap Commands = {}
ASSUME PoolSizeAssumption == PoolSize \in Nat \ {0}

VARIABLES
    world,   \* world[k]: number of changes made to the state behind kind k
    owed,    \* owed[k]: changes made but not yet announced with Notify
    queue,   \* requests accepted by the listener, waiting for a pool thread
    stage,   \* stage[r]: where request r is
    base,    \* base[w]: (history) the state when w's Wait began
    reply,   \* reply[w]: the answer to w's latest poll
    view     \* view[w]: the state the client last received

pushVars == <<world, owed, queue, stage, base, reply, view>>
allVars == <<waitVars, pushVars>>

Requests == Waiters \cup Commands

InStage(st) == {r \in Requests : stage[r] = st}

\* The type invariant, with the bookkeeping of the pool: a request is queued
\* once, a thread is inside Wait only while it serves its poll, and no more
\* requests are served than there are threads.
PushTypeOK ==
    /\ WaitTypeOK
    /\ world \in [Kinds -> Versions]
    /\ owed \in [Kinds -> Versions]
    /\ queue \in Seq(Requests)
    /\ stage \in [Requests -> {"idle", "queued", "serving", "answered", "closed"}]
    /\ base \in [Waiters -> Versions]
    /\ reply \in [Waiters -> [ok : BOOLEAN, value : Versions]]
    /\ view \in [Waiters -> Versions]
    /\ Len(queue) = Cardinality(InStage("queued"))
    /\ \A w \in Waiters : (pc[w] # "out") <=> (stage[w] = "serving")
    /\ Cardinality(InStage("serving")) <= PoolSize

PushInit ==
    /\ WaitInit
    /\ call = [w \in Waiters |-> [kind |-> KindOf[w], seen |-> 0]]
    /\ world = [k \in Kinds |-> 0]
    /\ owed = [k \in Kinds |-> 0]
    /\ queue = <<>>
    /\ stage = [r \in Requests |-> "idle"]
    /\ base = [w \in Waiters |-> 0]
    /\ reply = [w \in Waiters |-> [ok |-> TRUE, value |-> 0]]
    /\ view = [w \in Waiters |-> 0]

-----------------------------------------------------------------------------
(* Changes of the player's state *)

\* What AIMP tells its hooks and the playlist listeners, by the part of the
\* state that has just changed.
PanelChanges ==
    {"PLAYER_STATE", "STREAM_START", "STREAM_START_SUBTRACK", "STREAM_END",
     "PLAYING_FILE_INFO", "VOLUME", "MUTE", "REPEAT", "SHUFFLE", "RADIOCAP",
     "PLAYER_POSITION"}
PlaylistChanges ==
    {"PlaylistAdded", "PlaylistRemoved", "Removed", "NOTIFY_NAME",
     "NOTIFY_CONTENT", "NOTIFY_FILEINFO", "NOTIFY_READONLY",
     "NOTIFY_PLAYINGSWITCHS"}
Messages == PanelChanges \cup {"PLAYBACK_QUEUE"} \cup PlaylistChanges

ChangedKind ==
    [m \in Messages |->
        IF m \in PanelChanges THEN "ControlPanel"
        ELSE IF m = "PLAYBACK_QUEUE" THEN "Queue" ELSE "Playlists"]

\* MessageHook::CoreMessage: its switch on the message ...
MessageCases ==
    {"PLAYER_STATE", "STREAM_START", "STREAM_START_SUBTRACK", "STREAM_END",
     "PLAYING_FILE_INFO"}

\* (mutant) One case is missing.
PropertyCasesWithoutShuffle ==
    {"VOLUME", "MUTE", "REPEAT", "RADIOCAP", "PLAYER_POSITION"}

\* ... and, for AIMP_MSG_EVENT_PROPERTY_VALUE, on the property.
PropertyCases ==
    {"VOLUME", "MUTE", "REPEAT", "SHUFFLE", "RADIOCAP", "PLAYER_POSITION"}

\* PlaylistListener::Changed (the flags of its mask) and Removed,
\* PlaylistManagerListener::PlaylistAdded and PlaylistRemoved.
PlaylistCases ==
    {"PlaylistAdded", "PlaylistRemoved", "Removed", "NOTIFY_NAME",
     "NOTIFY_CONTENT", "NOTIFY_FILEINFO", "NOTIFY_READONLY",
     "NOTIFY_PLAYINGSWITCHS"}

\* The kind that is passed to Notify for a message; none for any other.
NotifiedKinds(m) ==
    {k \in Kinds :
        \/ k = "ControlPanel" /\ m \in MessageCases \cup PropertyCases
        \/ k = "Queue" /\ m = "PLAYBACK_QUEUE"
        \/ k = "Playlists" /\ m \in PlaylistCases}

\* The hooks run on AIMP's main thread inside the change they report; the
\* snapshots are taken on the same thread, so none falls between the two.
PlayerChange(m) ==
    /\ ChangedKind[m] \in Kinds
    /\ world[ChangedKind[m]] < MaxVersion
    /\ world' = [world EXCEPT ![ChangedKind[m]] = @ + 1]
    /\ FVersions' = [k \in Kinds |-> FVersions[k]
                                        + IF k \in NotifiedKinds(m) THEN 1 ELSE 0]
    /\ UNCHANGED <<FStopped, pc, call, result, owed, queue, stage, base, reply, view>>

\* Two sources change the state first and call Notify later from a thread of
\* their own: SleepTimer (Set, Cancel, the timer firing) and PlayNext or
\* PlayPrevious of a stopped player, which move the focus.
DeferredKinds == {"Timer", "ControlPanel"} \cap Kinds

DeferredChange(k) ==
    /\ world[k] < MaxVersion
    /\ world' = [world EXCEPT ![k] = @ + 1]
    /\ owed' = [owed EXCEPT ![k] = @ + 1]
    /\ UNCHANGED <<waitVars, queue, stage, base, reply, view>>

DeferredNotify(k) ==
    /\ owed[k] > 0
    /\ owed' = [owed EXCEPT ![k] = @ - 1]
    /\ Advance(k)
    /\ UNCHANGED <<world, queue, stage, base, reply, view>>

-----------------------------------------------------------------------------
(* Requests *)

\* A client sends a request; the listener hands it to its pool.
Send(r) ==
    /\ stage[r] = "idle"
    /\ stage' = [stage EXCEPT ![r] = "queued"]
    /\ queue' = Append(queue, r)
    /\ UNCHANGED <<waitVars, world, owed, base, reply, view>>

\* (mutant) One thread of the pool never serves requests.
PoolHasOneLess == Cardinality(InStage("serving")) + 1 < PoolSize

\* A pool thread takes the oldest request.
PoolHasThread == Cardinality(InStage("serving")) < PoolSize

\* (mutant) The request stays in the queue.
TakeAndLeave(r) ==
    /\ PoolHasThread
    /\ queue # <<>>
    /\ r = Head(queue)
    /\ UNCHANGED queue
    /\ stage' = [stage EXCEPT ![r] = "serving"]

Take(r) ==
    /\ PoolHasThread
    /\ queue # <<>>
    /\ r = Head(queue)
    /\ queue' = Tail(queue)
    /\ stage' = [stage EXCEPT ![r] = "serving"]

\* SubscribeOnAIMPStateUpdateEvent up to its call of Wait.
ServePoll(w) ==
    /\ Take(w)
    /\ Enter(w, KindOf[w])
    /\ base' = [base EXCEPT ![w] = world[KindOf[w]]]
    /\ UNCHANGED <<world, owed, reply, view>>

ServeCommand(c) ==
    /\ Take(c)
    /\ UNCHANGED <<waitVars, world, owed, base, reply, view>>

FinishCommand(c) ==
    /\ stage[c] = "serving"
    /\ stage' = [stage EXCEPT ![c] = "idle"]
    /\ UNCHANGED <<waitVars, world, owed, queue, base, reply, view>>

WaitEnds(w) ==
    /\ Wake(w)
    /\ UNCHANGED pushVars

LongPollTimeout(w) ==
    /\ TimeOut(w)
    /\ UNCHANGED pushVars

\* (mutant) IsStopped is not asked: a timeout is an error too.
PollFailsOnTimeout(w) == ~result[w]

\* (mutant) A stopped poll is answered with a snapshot.
PollNeverFails(w) == FALSE

\* !events.Wait(...) && events.IsStopped(): the poll fails with -32000.
PollFails(w) == ~result[w] /\ FStopped

\* (mutant) The state is read before the wait.
SnapshotBeforeWait(w) == base[w]

\* BuildState, BuildPlaylists, BuildTimerState: the state as it is now.  The
\* answer for the queue is {"changed": true}; what the client then fetches is
\* at least as new.
Snapshot(w) == world[KindOf[w]]

Answer(w) ==
    /\ Exit(w)
    /\ stage' = [stage EXCEPT ![w] = "answered"]
    /\ reply' = [reply EXCEPT ![w] = [ok |-> ~PollFails(w), value |-> Snapshot(w)]]
    /\ UNCHANGED <<world, owed, queue, base, view>>

\* The client gets the answer; after a failure it does not poll again.
Receive(w) ==
    /\ stage[w] = "answered"
    /\ IF reply[w].ok
          THEN /\ view' = [view EXCEPT ![w] = reply[w].value]
               /\ stage' = [stage EXCEPT ![w] = "idle"]
          ELSE /\ stage' = [stage EXCEPT ![w] = "closed"]
               /\ UNCHANGED view
    /\ UNCHANGED <<waitVars, world, owed, queue, base, reply>>

StopEvents ==
    /\ ~FStopped
    /\ End
    /\ UNCHANGED pushVars

PushNext ==
    \/ \E m \in Messages : PlayerChange(m)
    \/ \E k \in DeferredKinds : DeferredChange(k) \/ DeferredNotify(k)
    \/ \E r \in Requests : Send(r)
    \/ \E w \in Waiters :
          \/ ServePoll(w)
          \/ WaitEnds(w)
          \/ LongPollTimeout(w)
          \/ Answer(w)
          \/ Receive(w)
    \/ \E c \in Commands : ServeCommand(c) \/ FinishCommand(c)
    \/ StopEvents

PushSpec == PushInit /\ [][PushNext]_allVars

\* Threads run, a change is announced once its author gets to it, and the
\* client polls again after each answer (docs/remote-control-protocol.md, 8).
\* Nobody has to change anything or to stop the server.
PushFairness ==
    /\ \A k \in DeferredKinds : WF_allVars(DeferredNotify(k))
    /\ \A w \in Waiters :
          /\ WF_allVars(Send(w))
          /\ WF_allVars(ServePoll(w))
          /\ WF_allVars(WaitEnds(w))
          /\ WF_allVars(Answer(w))
          /\ WF_allVars(Receive(w))
    /\ \A c \in Commands : WF_allVars(ServeCommand(c)) /\ WF_allVars(FinishCommand(c))

\* ... without any poll having to reach LongPollTimeout.
PromptSpec == PushSpec /\ PushFairness

\* What needs patience relies on this as well: polls time out after ten minutes.
PollsTimeOut == \A w \in Waiters : WF_allVars(LongPollTimeout(w))

-----------------------------------------------------------------------------
\* A change made while a poll waits is not missed: once its author has
\* announced it, a poll that has no reason to end began in the very state the
\* player is in now.  It needs every message of the player to be mapped to its
\* kind, and every change without a message to be announced by hand.
NoChangeMissed ==
    \A w \in Waiters :
        /\ pc[w] = "waiting"
        /\ ~Due(w)
        /\ owed[KindOf[w]] = 0
        => world[KindOf[w]] = base[w]

\* An answer is never older than the poll, and one that a change brought about
\* contains that change: changes are made before they are announced, and the
\* snapshot is taken after Wait.
FreshAnswer ==
    \A w \in Waiters :
        stage[w] = "answered" /\ reply[w].ok =>
            /\ reply[w].value >= base[w]
            /\ result[w] => reply[w].value > call[w].seen

\* The client catches up with every change until the server stops, although
\* it has no poll waiting between an answer and its next request: at the latest
\* when the poll that missed the change times out.
EventuallyCurrent ==
    PollsTimeOut =>
        \A w \in Waiters :
            view[w] # world[KindOf[w]] ~> view[w] = world[KindOf[w]] \/ FStopped

\* A poll that waits when the events are stopped is answered, with an error.
StopFailsPolls ==
    \A w \in Waiters :
        FStopped /\ pc[w] = "waiting" ~> stage[w] = "answered" /\ ~reply[w].ok

\* An ordinary request is served although polls occupy pool threads, and no
\* poll has to time out for it.
CommandsServed ==
    \A c \in Commands : stage[c] = "queued" ~> stage[c] = "idle"
=============================================================================
