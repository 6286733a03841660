--------------------------- MODULE PlaylistCommands ---------------------------
(***************************************************************************)
(* The commands of src/remoteControlCommands that list and edit playlists  *)
(* and the play queue, and the look-ups of src/helpers/aimpHelper.cpp they *)
(* share.  Each command is received by a pool thread (call) and executed   *)
(* in one task on AIMP's main thread; between the two, other clients and   *)
(* the user at the player may edit the playlist.                           *)
(*                                                                         *)
(* The id of a track stands for a playlist and an index.  It is modelled   *)
(* by that pair: RemoteControlIdManagerProofs shows that an id leads back  *)
(* to what it was given for.  AIMP is external: its playlists are          *)
(* sequences of items, its queue holds an item at most once.               *)
(***************************************************************************)
EXTENDS Integers, SequencesExt, FiniteSets

CONSTANTS
    Playlists,    \* AIMP's ids of playlists, each used once
    Tracks,       \* items of playlists, each used once, with a file each
    Clients,
    None,
    Initial,      \* Initial[p]: the items of p when the clients connect
    Titles,       \* names a playlist may be given
    Ratings,      \* values of the parameter "rating"
    MaxEdits      \* bound on the changes made to AIMP's state

ASSUME NoneAssumption == None \notin Tracks
ASSUME TracksAssumption == IsFiniteSet(Tracks) /\ Playlists \cap Tracks = {}
ASSUME InitialAssumption ==
    /\ Initial \in [Playlists -> Seq(Tracks)]
    /\ \A p \in Playlists : IsInjective(Initial[p])
    /\ \A p, q \in Playlists : p # q => ToSet(Initial[p]) \cap ToSet(Initial[q]) = {}
ASSUME RatingsAssumption == Ratings \subseteq Int
ASSUME MaxEditsAssumption == MaxEdits \in Nat

VARIABLES
    loaded,       \* the playlists AIMP has loaded
    content,      \* content[p]: the items of p
    title,        \* title[p]
    queue,        \* AIMP's play queue
    enabled, rating,  \* properties of the items
    disk,         \* the items whose file exists
    used,         \* the items and playlists that exist or existed
    PhysicalDeletion, \* the setting
    known,        \* the ids of playlists that were handed out
    told,         \* the ids of tracks that were handed out: each with the track
                  \* it was handed out for, and the version of the playlist then
    call,         \* call[c]: the command of c on its way to the main thread
    version,      \* version[p]: (history) number of changes to the items of p
    asked,        \* (history) items found by a RemoveTrack with "physically"
    edits         \* number of changes so far

items == <<loaded, content, queue, version>>
properties == <<title, enabled, rating>>
files == <<disk, asked>>
aimp == <<items, properties, files, used, edits>>
ids == <<known, told>>
vars == <<aimp, PhysicalDeletion, ids, call>>

TrackIds == Playlists \X (0 .. Cardinality(Tracks) - 1)

Versions == 0 .. MaxEdits

Idle == [op |-> "none"]

\* The type invariant.  Items are in one place of one playlist, and the queue
\* holds items of loaded playlists.
TypeOK ==
    /\ loaded \subseteq Playlists
    /\ content \in [Playlists -> Seq(Tracks)]
    /\ title \in [Playlists -> Titles]
    /\ queue \in Seq(Tracks)
    /\ enabled \subseteq Tracks
    /\ rating \in [Tracks -> 0 .. 5]
    /\ disk \subseteq Tracks
    /\ used \subseteq Tracks \cup Playlists
    /\ PhysicalDeletion \in BOOLEAN
    /\ known \subseteq Playlists
    /\ told \subseteq [id : TrackIds, track : Tracks, since : Versions]
    /\ call \in [Clients ->
          {Idle} \cup [op : {"track"}, physically : BOOLEAN, id : TrackIds,
                       track : Tracks \cup {None}, since : Versions]
                 \cup [op : {"CreatePlaylist"}, playlist : Playlists]]
    /\ version \in [Playlists -> Versions]
    /\ asked \subseteq Tracks
    /\ edits \in 0 .. MaxEdits
    /\ \A p \in Playlists : IsInjective(content[p])
    /\ \A p, q \in Playlists : p # q => ToSet(content[p]) \cap ToSet(content[q]) = {}
    /\ IsInjective(queue)
    /\ ToSet(queue) \subseteq UNION {ToSet(content[p]) : p \in loaded}

Init ==
    /\ loaded = {p \in Playlists : Initial[p] # <<>>}
    /\ content = Initial
    /\ title \in [Playlists -> Titles]
    /\ queue = <<>>
    /\ enabled = Tracks
    /\ rating = [t \in Tracks |-> 0]
    /\ disk = Tracks
    /\ used = loaded \cup UNION {ToSet(Initial[p]) : p \in Playlists}
    /\ PhysicalDeletion \in BOOLEAN
    /\ known = {}
    /\ told = {}
    /\ call = [c \in Clients |-> Idle]
    /\ version = [p \in Playlists |-> 0]
    /\ asked = {}
    /\ edits = 0

Edit == edits < MaxEdits /\ edits' = edits + 1

-----------------------------------------------------------------------------
(* AIMP's playlists *)

\* The items of s that are not in S, in their order.
Kept(s, S) == {i \in DOMAIN s : s[i] \notin S}
Rank(K, i) == Cardinality({j \in K : j <= i})
Without(s, S) ==
    [n \in 1 .. Cardinality(Kept(s, S)) |-> s[CHOOSE i \in Kept(s, S) : Rank(Kept(s, S), i) = n]]

\* The items of p become s; items that are gone leave the queue as well.
SetContent(p, s) ==
    /\ content' = [content EXCEPT ![p] = s]
    /\ version' = [version EXCEPT ![p] = @ + 1]
    /\ queue' = Without(queue, ToSet(content[p]) \ ToSet(s))

\* (mutant) The new items come first.
AddListAtBeginning(p, new) ==
    /\ SetContent(p, new \o content[p])
    /\ used' = used \cup ToSet(new)

\* IAIMPPlaylist::AddList with the index -1: the new items come last.
AddList(p, new) ==
    /\ SetContent(p, content[p] \o new)
    /\ used' = used \cup ToSet(new)

\* The user at the player adds, removes or moves an item.
UserEdits(p) ==
    /\ Edit
    /\ p \in loaded
    /\ \/ \E t \in Tracks \ used, k \in 1 .. Len(content[p]) + 1 :
             /\ SetContent(p, InsertAt(content[p], k, t))
             /\ used' = used \cup {t}
       \/ \E t \in ToSet(content[p]) :
             SetContent(p, Without(content[p], {t})) /\ UNCHANGED used
       \/ \E t \in ToSet(content[p]), k \in 1 .. Len(content[p]) :
             SetContent(p, InsertAt(Without(content[p], {t}), k, t)) /\ UNCHANGED used
    /\ UNCHANGED <<loaded, properties, files, PhysicalDeletion, ids, call>>

UserChangesSettings ==
    /\ Edit
    /\ PhysicalDeletion' = ~PhysicalDeletion
    /\ UNCHANGED <<items, properties, files, used, ids, call>>

-----------------------------------------------------------------------------
(* Look-ups *)

\* FindPlaylist: the id is known and its playlist is loaded.
FindPlaylist(p) == p \in known /\ p \in loaded

\* FindPlaylistItem: the item that is at the id's index now, if any.
FindPlaylistItem(i) ==
    IF (\E n \in told : n.id = i) /\ i[1] \in loaded /\ i[2] < Len(content[i[1]])
       THEN {content[i[1]][i[2] + 1]} ELSE {}

-----------------------------------------------------------------------------
(* Listing *)

\* An id is handed out for index k - 1 of p, with the k-th item.
News(p, k) == [id |-> <<p, k - 1>>, track |-> content[p][k], since |-> version[p]]

\* GetPlaylists: the ids of all loaded playlists, if the field "id" is asked for.
GetPlaylists ==
    /\ known' = known \cup loaded
    /\ UNCHANGED <<aimp, PhysicalDeletion, told, call>>

\* CollectEntries hands out an id for every item, whether it matches the search
\* or not.
ListEntries(P) ==
    /\ known' = known \cup P
    /\ told' = told \cup UNION {{News(p, k) : k \in DOMAIN content[p]} : p \in P}
    /\ UNCHANGED <<aimp, PhysicalDeletion, call>>

\* GetPlaylistEntries for one playlist, or for all that are loaded.
GetPlaylistEntries ==
    \/ \E p \in Playlists : FindPlaylist(p) /\ ListEntries({p})
    \/ ListEntries(loaded)

\* (mutant) The id of a queued item is made of its position in the queue.
QueueNewsByPosition(n) ==
    LET p == CHOOSE q \in loaded : queue[n] \in ToSet(content[q])
    IN [id |-> <<p, n - 1>>, track |-> queue[n], since |-> version[p]]

\* The n-th item of the queue, with its playlist and its index in it.
QueueNews(n) ==
    LET p == CHOOSE q \in loaded : queue[n] \in ToSet(content[q])
    IN News(p, CHOOSE k \in DOMAIN content[p] : content[p][k] = queue[n])

GetQueuedEntries ==
    /\ told' = told \cup {QueueNews(n) : n \in DOMAIN queue}
    /\ known' = known \cup {QueueNews(n).id[1] : n \in DOMAIN queue}
    /\ UNCHANGED <<aimp, PhysicalDeletion, call>>

-----------------------------------------------------------------------------
(* Commands about a track *)

\* The pool thread checks the setting before it calls the main thread.
Permitted(physically) == physically => PhysicalDeletion

\* A client sends a command with an id it was told, a moment or long ago, or one
\* it has kept from an earlier run of the player and that means nothing in this.
\* What the command does matters only when it runs, but for deleting a file.
Receive(c, i) ==
    /\ call[c] = Idle
    /\ \E physically \in BOOLEAN :
          /\ Permitted(physically)
          /\ \/ \E n \in told :
                   /\ n.id = i
                   /\ call' = [call EXCEPT ![c] =
                         [op |-> "track", physically |-> physically, id |-> i,
                          track |-> n.track, since |-> n.since]]
             \/ /\ \A n \in told : n.id # i
                /\ call' = [call EXCEPT ![c] =
                      [op |-> "track", physically |-> physically, id |-> i,
                       track |-> None, since |-> 0]]
    /\ UNCHANGED <<aimp, PhysicalDeletion, ids>>

\* The task of a command about a track ends.
Ends(c, physically) ==
    /\ call[c].op = "track"
    /\ call[c].physically = physically
    /\ call' = [call EXCEPT ![c] = Idle]
    /\ UNCHANGED <<PhysicalDeletion, ids>>

\* Error 21, "track not found".
TrackNotFound(c) ==
    /\ \E physically \in BOOLEAN : Ends(c, physically)
    /\ FindPlaylistItem(call[c].id) = {}
    /\ UNCHANGED aimp

\* The track is found, but AIMP refuses (errors 18, 19 and 28), or nothing had
\* to be done but to read it (GetPlaylistEntryInfo).
TrackUnchanged(c, t) ==
    /\ \E physically \in BOOLEAN : Ends(c, physically)
    /\ t \in FindPlaylistItem(call[c].id)
    /\ UNCHANGED aimp

EnqueueTrack(c, t, atBeginning) ==
    /\ Ends(c, FALSE)
    /\ t \in FindPlaylistItem(call[c].id)
    /\ Edit
    /\ queue' = IF atBeginning THEN <<t>> \o Without(queue, {t})
                               ELSE Append(Without(queue, {t}), t)
    /\ UNCHANGED <<loaded, content, version, properties, files, used>>

RemoveTrackFromPlayQueue(c, t) ==
    /\ Ends(c, FALSE)
    /\ t \in FindPlaylistItem(call[c].id)
    /\ Edit
    /\ queue' = Without(queue, {t})
    /\ UNCHANGED <<loaded, content, version, properties, files, used>>

SetTrackEnabled(c, t, on) ==
    /\ Ends(c, FALSE)
    /\ t \in FindPlaylistItem(call[c].id)
    /\ Edit
    /\ enabled' = IF on THEN enabled \cup {t} ELSE enabled \ {t}
    /\ UNCHANGED <<items, title, rating, files, used>>

\* std::clamp(value, 0.0, 5.0)
Clamp(value) == IF value < 0 THEN 0 ELSE IF value > 5 THEN 5 ELSE value

SetTrackRating(c, t, value) ==
    /\ Ends(c, FALSE)
    /\ t \in FindPlaylistItem(call[c].id)
    /\ Edit
    /\ rating' = [rating EXCEPT ![t] = Clamp(value)]
    /\ UNCHANGED <<items, title, enabled, files, used>>

RemoveTrack(c, t) ==
    /\ Ends(c, FALSE)
    /\ t \in FindPlaylistItem(call[c].id)
    /\ Edit
    /\ SetContent(call[c].id[1], Without(content[call[c].id[1]], {t}))
    /\ UNCHANGED <<loaded, properties, files, used>>

\* (mutant) The callback accepts every item from the given one on.
DeleteFromIndex(p, index) == {content[p][k] : k \in {j \in DOMAIN content[p] : j >= index}}

\* DeleteOnlyIndex, called by Delete3 for every item of the playlist.
DeleteOnlyIndex(p, index) == {content[p][k] : k \in {j \in DOMAIN content[p] : j = index}}

RemoveTrackPhysically(c, t) ==
    LET p == call[c].id[1]
        deleted == DeleteOnlyIndex(p, CHOOSE k \in DOMAIN content[p] : content[p][k] = t)
    IN /\ Ends(c, TRUE)
       /\ t \in FindPlaylistItem(call[c].id)
       /\ Edit
       /\ SetContent(p, Without(content[p], deleted))
       /\ disk' = disk \ deleted
       /\ asked' = asked \cup {t}
       /\ UNCHANGED <<loaded, properties, used>>

\* The command of c acts on track t, or shows it to the client.
ActsOn(c, t) ==
    \/ TrackUnchanged(c, t)
    \/ \E atBeginning \in BOOLEAN : EnqueueTrack(c, t, atBeginning)
    \/ RemoveTrackFromPlayQueue(c, t)
    \/ \E on \in BOOLEAN : SetTrackEnabled(c, t, on)
    \/ \E value \in Ratings : SetTrackRating(c, t, value)
    \/ RemoveTrack(c, t)
    \/ RemoveTrackPhysically(c, t)

-----------------------------------------------------------------------------
(* Commands about a playlist: nothing between their arrival and their task  *)
(* depends on what others do, so each is one action.                        *)

\* What a command may add: the list of AddFiles or the one URL of
\* AddURLToPlaylist.
NewItems == {s \in SeqOf(Tracks \ used, 2) : s # <<>> /\ IsInjective(s)}

\* AddFiles and AddURLToPlaylist: AddFilesToPlaylist appends.
AddFiles(p) ==
    /\ FindPlaylist(p)
    /\ Edit
    /\ \E new \in NewItems : AddList(p, new)
    /\ UNCHANGED <<loaded, properties, files, PhysicalDeletion, ids, call>>

\* The items of a playlist that is closed are gone, their files are not.
PlaylistRemove(p) ==
    /\ FindPlaylist(p)
    /\ Edit
    /\ loaded' = loaded \ {p}
    /\ SetContent(p, <<>>)
    /\ UNCHANGED <<properties, files, used, PhysicalDeletion, ids, call>>

PlaylistRename(p, newName) ==
    /\ FindPlaylist(p)
    /\ Edit
    /\ title' = [title EXCEPT ![p] = newName]
    /\ UNCHANGED <<items, enabled, rating, files, used, PhysicalDeletion, ids, call>>

\* CreatePlaylist creates the playlist in a task on the main thread ...
CreatePlaylist(c, p, name) ==
    /\ call[c] = Idle
    /\ Edit
    /\ p \notin used
    /\ used' = used \cup {p}
    /\ loaded' = loaded \cup {p}
    /\ title' = [title EXCEPT ![p] = name]
    /\ call' = [call EXCEPT ![c] = [op |-> "CreatePlaylist", playlist |-> p]]
    /\ UNCHANGED <<content, queue, version, enabled, rating, files, PhysicalDeletion, ids>>

\* ... and asks for its id on the pool thread.
CreatePlaylistAnswers(c) ==
    /\ call[c].op = "CreatePlaylist"
    /\ known' = known \cup {call[c].playlist}
    /\ call' = [call EXCEPT ![c] = Idle]
    /\ UNCHANGED <<aimp, PhysicalDeletion, told>>

Next ==
    \/ UserChangesSettings
    \/ GetPlaylists \/ GetPlaylistEntries \/ GetQueuedEntries
    \/ \E p \in Playlists :
          \/ UserEdits(p)
          \/ AddFiles(p)
          \/ PlaylistRemove(p)
          \/ \E newName \in Titles : PlaylistRename(p, newName)
    \/ \E c \in Clients :
          \/ \E i \in TrackIds : Receive(c, i)
          \/ TrackNotFound(c)
          \/ \E t \in Tracks : ActsOn(c, t)
          \/ \E p \in Playlists, name \in Titles : CreatePlaylist(c, p, name)
          \/ CreatePlaylistAnswers(c)

Spec == Init /\ [][Next]_vars

-----------------------------------------------------------------------------
\* The playlist is as it was when the client was told the id it uses.
UpToDate(c) == call[c].track # None /\ call[c].since = version[call[c].id[1]]

\* A command about a track finds the track the client means, and no other, if
\* the playlist has not changed since the client was told its id, whatever
\* happened to other playlists and to the queue: all listings and the look-up
\* agree about what an id stands for.
FindsWhatIsMeant ==
    \A c \in Clients :
        call[c].op = "track" /\ UpToDate(c) => FindPlaylistItem(call[c].id) = {call[c].track}

\* Adding tracks leaves every id right: a client need not list the playlist
\* again to go on using the ids it has.
AddingKeepsIds ==
    [][\A p \in Playlists : AddFiles(p) =>
          \A i \in TrackIds : FindPlaylistItem(i) \subseteq FindPlaylistItem(i)']_vars

\* No file is deleted but that of a track which a command to delete the file has
\* found: not the files of its neighbours, and none by the other commands.
OnlyAskedFilesDeleted == Tracks \ disk \subseteq asked
=============================================================================
