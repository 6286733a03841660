---------------------------- MODULE PlayerControl ----------------------------
(***************************************************************************)
(* The commands of the player's buttons: Play, Pause, Stop, PlayNext and   *)
(* PlayPrevious (src/remoteControlCommands), with the track the clients    *)
(* are shown as the current one (getPlayerControlPanelStateCommand.cpp)    *)
(* and the focus that moves while the player is stopped (aimpHelper.cpp),  *)
(* and the properties of StatusCommand.                                    *)
(*                                                                         *)
(* Each command is one task on the main thread.  Its answer is the state   *)
(* before, and the notification that follows a move of the focus is in     *)
(* LongPolling.                                                            *)
(***************************************************************************)
EXTENDS StatusCommand

CONSTANTS
    Playlists,
    Sizes,     \* how many tracks a playlist may have
    None       \* no playlist

ASSUME SizesAssumption == Sizes \subseteq Nat
ASSUME PlaylistsAssumption == None \notin Playlists

VARIABLES
    topic,     \* (bound) a behaviour is about playback or about properties,
               \* which have no state in common
    size,      \* size[l]: GetItemCount
    playback,  \* AIMP_PLAYER_STATE
    item,      \* the player's GetPlaylistItem: a set of one track, or of none
               \* while it is stopped
    playing,   \* GetPlayingPlaylist
    active,    \* GetActivePlaylist
    focus,     \* focus[l]: a set of one index or of none
    cursor,    \* cursor[l]: a set of one index or of none
    pressed    \* (history) the direction of the latest command, if it was a
               \* PlayNext or PlayPrevious of a stopped player, and what the
               \* clients were shown before

controlVars == <<size, playback, item, playing, active, focus, cursor, pressed>>
playerVars == <<topic, statusVars, controlVars>>

Tracks == UNION {[list : {l}, index : 0 .. size[l] - 1] : l \in Playlists}

PlayerInit ==
    /\ StatusInit
    /\ \/ topic = "playback" /\ size \in [Playlists -> Sizes] /\ active \in Playlists
       \/ topic = "properties" /\ size = [l \in Playlists |-> 0] /\ active = CHOOSE l \in Playlists : TRUE
    /\ playback = "stopped"
    /\ item = {}
    /\ playing = None
    /\ focus = [l \in Playlists |-> {}]
    /\ cursor = [l \in Playlists |-> {}]
    /\ pressed = {}

-----------------------------------------------------------------------------
At(l, indices) == {[list |-> l, index |-> i] : i \in indices}

\* The track that is shown as the current one: the one being played, or in the
\* playlist that was played last, or else the active one, the focused track, the
\* playback cursor, the first track.
CurrentItemOf ==
    LET l == IF playing # None THEN playing ELSE active
    IN  CASE item # {} -> item
          [] item = {} /\ focus[l] # {} -> At(l, focus[l])
          [] item = {} /\ focus[l] = {} /\ cursor[l] # {} -> At(l, cursor[l])
          [] OTHER -> At(l, {0} \cap 0 .. size[l] - 1)

\* What AddCurrentTrack and BuildState tell the clients: the times of the track
\* only while there are any.
AddCurrentTrack == [track |-> CurrentItemOf, timed |-> CurrentItemOf # {} /\ playback # "stopped"]
Modes == BoolIds \cap {"mute", "repeat", "shuffle", "radioCapture"}
BuildState == [playback_state |-> playback, volume |-> PanelVolume, modes |-> [id \in Modes |-> flag[id]],
               current |-> AddCurrentTrack]

\* The remainder of C++, which has the sign of the dividend.
Remainder(a, n) == IF a >= 0 THEN a % n ELSE -((-a) % n)

\* (mutant) One remainder only.
MoveFocusOneRemainder(track, delta) ==
    LET n == size[track.list]
        target == Remainder(track.index + delta, n)
    IN  focus' = IF n > 0 /\ target \in 0 .. n - 1 THEN [focus EXCEPT ![track.list] = {target}] ELSE focus

\* MoveFocus: the player refuses an index outside the playlist.
MoveFocus(track, delta) ==
    LET n == size[track.list]
        target == Remainder(Remainder(track.index + delta, n) + n, n)
    IN  focus' = IF n > 0 /\ target \in 0 .. n - 1 THEN [focus EXCEPT ![track.list] = {target}] ELSE focus

\* The player plays a track; it may also move the focus there.
Play2(track) ==
    /\ playback' = "playing"
    /\ item' = {track}
    /\ playing' = track.list
    /\ cursor' = [cursor EXCEPT ![track.list] = {track.index}]
    /\ focus' \in {focus, [focus EXCEPT ![track.list] = {track.index}]}
    /\ UNCHANGED <<size, active>>

\* Play, with an id that FindPlaylistItem knows; with another nothing happens.
Play(track) == Play2(track)

Pause ==
    \/ /\ playback \in {"playing", "paused"}
       /\ playback' = IF playback = "playing" THEN "paused" ELSE "playing"
       /\ UNCHANGED <<size, item, playing, active, focus, cursor>>
    \/ /\ playback = "stopped"
       /\ \E track \in CurrentItemOf : Play2(track)

\* The player stops, by the command, by itself or by its own button.
Stop ==
    /\ playback' = "stopped"
    /\ item' = {}
    /\ UNCHANGED <<size, playing, active, focus, cursor>>

\* GoToNext and GoToPrev: which track that is depends on the player's modes.
GoTo == \E track \in Tracks : track.list = playing /\ Play2(track)

\* PlayNext with delta 1, PlayPrevious with delta -1.
PlayAdjacent(delta) ==
    \/ /\ playback = "stopped"
       /\ \E track \in CurrentItemOf : MoveFocus(track, delta)
       /\ UNCHANGED <<size, playback, item, playing, active, cursor>>
    \/ playback # "stopped" /\ GoTo
PlayNext == PlayAdjacent(1)
PlayPrevious == PlayAdjacent(-1)

\* The user chooses another playlist, or another track in one.
UserActivates ==
    /\ active' \in Playlists \ {active}
    /\ UNCHANGED <<size, playback, item, playing, focus, cursor>>
UserFocuses ==
    /\ \E track \in Tracks : focus' = [focus EXCEPT ![track.list] = {track.index}]
    /\ UNCHANGED <<size, playback, item, playing, active, cursor>>

\* The tracks of a playlist that is not being played are replaced.
UserReplaces ==
    /\ \E l \in Playlists, n \in Sizes :
          /\ \A track \in item : track.list # l
          /\ size' = [size EXCEPT ![l] = n]
          /\ focus' = [focus EXCEPT ![l] = {}]
          /\ cursor' = [cursor EXCEPT ![l] = {}]
    /\ UNCHANGED <<playback, item, playing, active>>

Press(delta) == IF playback = "stopped" THEN {[delta |-> delta, shown |-> BuildState]} ELSE {}

ControlNext ==
    \/ PlayNext /\ pressed' = Press(1)
    \/ PlayPrevious /\ pressed' = Press(-1)
    \/ /\ \/ \E track \in Tracks : Play(track)
          \/ Pause
          \/ Stop
          \/ UserActivates
          \/ UserFocuses
          \/ UserReplaces
       /\ pressed' = {}

PlayerNext ==
    /\ UNCHANGED topic
    /\ \/ topic = "playback" /\ ControlNext /\ UNCHANGED statusVars
       \/ topic = "properties" /\ StatusNext /\ UNCHANGED controlVars

PlayerSpec == PlayerInit /\ [][PlayerNext]_playerVars

-----------------------------------------------------------------------------
\* While the player is stopped, PlayNext and PlayPrevious move the track that
\* all clients are shown by one, around the ends, wherever that track came from
\* - the focus, the playback cursor or the first track - and nothing else of
\* what the clients see.
SelectionMovesByOne ==
    \A press \in pressed : \A track \in press.shown.current.track :
       LET n == size[track.list]
           next == [track EXCEPT !.index = (@ + press.delta + n) % n]
       IN  BuildState = [press.shown EXCEPT !.current.track = {next}]
=============================================================================
