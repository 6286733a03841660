------------------------------ MODULE UploadTrack ------------------------------
(***************************************************************************)
(* POST /uploadTrack (src/remoteControlCommands/uploadTrackCommand.cpp):   *)
(* the files of a request are written into the upload folder under names   *)
(* that are free, and appended to a playlist.  The request runs on a pool  *)
(* thread and looks at the playlist, the tags and the playlist again in    *)
(* three kinds of tasks on AIMP's main thread; other uploads run at the    *)
(* same time.                                                              *)
(*                                                                         *)
(* A file name is a base and a number: <<b, 1>> is the name b itself,      *)
(* <<b, n>> is "b (n)".  WriteFile is one step: of two threads that write  *)
(* the same file the last one wins.                                        *)
(***************************************************************************)
EXTENDS Naturals, Sequences

CONSTANTS
    Uploads,      \* requests
    Bases,        \* file names
    Requests,     \* the lists of file names a client may send; a name is a
                  \* record of a base and whether it contains "?"
    MaxNumber,    \* bound on the numbers of file names
    Before,       \* the files that are in the folder from the beginning
    None

ASSUME RequestsAssumption ==
    Requests \subseteq Seq([base : Bases, question : BOOLEAN]) /\ <<>> \notin Requests
ASSUME MaxNumberAssumption == MaxNumber \in Nat \ {0}

Names == Bases \X (1 .. MaxNumber)

ASSUME BeforeAssumption == Before \subseteq Names

\* The content of a file: the k-th file of an upload, or what was there before.
Old == <<None, 0>>
Parts == (Uploads \X Nat) \cup {Old}

ASSUME NoneAssumption == None \notin Names \cup Uploads \cup Parts

VARIABLES
    loaded,       \* the playlist of the uploads exists
    playlist,     \* the files that were added to it
    disk,         \* disk[f]: the content of file f; None if there is no such file
    pc,           \* where each upload is
    files,        \* files[u]: the file names of the request
    target,       \* target[u]: the name chosen for the current file
    written,      \* written[u]: the name the current file was written under
    saved,        \* saved[u]: the files that are finished
    status,       \* status[u]: the HTTP status, once the upload has ended
    existed,      \* existed[u]: (history) the playlist existed when u arrived
    overlapped    \* overlapped[u]: (history) another upload ran at the same time

local == <<pc, files, target, written, saved, status>>
vars == <<loaded, playlist, disk, local, existed, overlapped>>

\* The type invariant.
TypeOK ==
    /\ loaded \in BOOLEAN
    /\ playlist \in Seq(Names)
    /\ disk \in [Names -> Parts \cup {None}]
    /\ pc \in [Uploads -> {"idle", "check", "choose", "write", "tags", "rename", "add", "ended"}]
    /\ files \in [Uploads -> Requests \cup {<<>>}]
    /\ target \in [Uploads -> Names \cup {None}]
    /\ written \in [Uploads -> Names \cup {None}]
    /\ saved \in [Uploads -> Seq(Names)]
    /\ status \in [Uploads -> {0, 200, 400, 403, 404, 500}]
    /\ existed \in [Uploads -> BOOLEAN]
    /\ overlapped \in [Uploads -> BOOLEAN]
    /\ \A u \in Uploads :
          /\ Len(saved[u]) <= Len(files[u])
          /\ pc[u] \in {"choose", "write", "tags", "rename"} => Len(saved[u]) < Len(files[u])
          /\ pc[u] = "ended" <=> status[u] # 0

Init ==
    /\ loaded \in BOOLEAN
    /\ playlist = <<>>
    /\ disk = [f \in Names |-> IF f \in Before THEN Old ELSE None]
    /\ pc = [u \in Uploads |-> "idle"]
    /\ files = [u \in Uploads |-> <<>>]
    /\ target = [u \in Uploads |-> None]
    /\ written = [u \in Uploads |-> None]
    /\ saved = [u \in Uploads |-> <<>>]
    /\ status = [u \in Uploads |-> 0]
    /\ existed = [u \in Uploads |-> FALSE]
    /\ overlapped = [u \in Uploads |-> FALSE]

Active == {u \in Uploads : pc[u] \notin {"idle", "ended"}}

\* The upload ends with an HTTP status.
Answer(u, code) ==
    /\ pc' = [pc EXCEPT ![u] = "ended"]
    /\ status' = [status EXCEPT ![u] = code]

Goto(u, label) ==
    /\ pc' = [pc EXCEPT ![u] = label]
    /\ UNCHANGED status

\* The file being handled, and the name the client gave it.
Current(u) == Len(saved[u]) + 1
ClientFileName(u) == files[u][Current(u)]

-----------------------------------------------------------------------------
\* The user or another client removes the playlist: its id never comes back.
PlaylistRemoved ==
    /\ loaded
    /\ loaded' = FALSE
    /\ playlist' = <<>>
    /\ UNCHANGED <<disk, local, existed, overlapped>>

\* A request with files comes in and uploading is enabled.
Arrive(u, request) ==
    /\ pc[u] = "idle"
    /\ Goto(u, "check")
    /\ files' = [files EXCEPT ![u] = request]
    /\ existed' = [existed EXCEPT ![u] = loaded]
    /\ overlapped' = [v \in Uploads |->
          overlapped[v] \/ (Active # {} /\ v \in Active \cup {u})]
    /\ UNCHANGED <<loaded, playlist, disk, target, written, saved>>

\* Uploading is disabled (403), or there are no files (400).
Refuse(u) ==
    /\ pc[u] = "idle"
    /\ \E code \in {403, 400} : Answer(u, code)
    /\ UNCHANGED <<loaded, playlist, disk, files, target, written, saved, existed, overlapped>>

\* The task that looks for the playlist.
CheckPlaylist(u) ==
    /\ pc[u] = "check"
    /\ IF loaded THEN Goto(u, "choose") ELSE Answer(u, 404)
    /\ UNCHANGED <<loaded, playlist, disk, files, target, written, saved, existed, overlapped>>

\* (mutant) The number of a name is never increased past 2.
UniqueUpToTwo(b) == {IF disk[<<b, 1>>] = None THEN <<b, 1>> ELSE <<b, 2>>}

\* UniqueTarget: the first of "b", "b (2)", "b (3)" ... that does not exist.
UniqueTarget(b) ==
    {f \in Names :
        /\ f[1] = b
        /\ disk[f] = None
        /\ \A n \in 1 .. f[2] - 1 : disk[<<b, n>>] # None}

ChooseTarget(u) ==
    /\ pc[u] = "choose"
    /\ \E f \in UniqueTarget(ClientFileName(u).base) : target' = [target EXCEPT ![u] = f]
    /\ Goto(u, "write")
    /\ UNCHANGED <<loaded, playlist, disk, files, written, saved, existed, overlapped>>

\* The current file is finished under the name f: the next one, or all are saved.
Save(u, f) ==
    /\ saved' = [saved EXCEPT ![u] = Append(@, f)]
    /\ Goto(u, IF Current(u) < Len(files[u]) THEN "choose" ELSE "add")

\* WriteFile: the file is created or overwritten.
WriteFile(u) ==
    /\ pc[u] = "write"
    /\ disk' = [disk EXCEPT ![target[u]] = <<u, Current(u)>>]
    /\ written' = [written EXCEPT ![u] = target[u]]
    /\ IF ClientFileName(u).question
          THEN Goto(u, "tags") /\ UNCHANGED saved
          ELSE Save(u, target[u])
    /\ UNCHANGED <<loaded, playlist, files, target, existed, overlapped>>

\* It cannot be opened, or only a part of it can be written.
WriteFails(u) ==
    /\ pc[u] = "write"
    /\ \/ UNCHANGED disk
       \/ disk' = [disk EXCEPT ![target[u]] = <<u, Current(u)>>]
    /\ Answer(u, 500)
    /\ UNCHANGED <<loaded, playlist, files, target, written, saved, existed, overlapped>>

\* RestoreName: the task that reads the tags finds no title, ...
NoTags(u) ==
    /\ pc[u] = "tags"
    /\ Save(u, written[u])
    /\ UNCHANGED <<loaded, playlist, disk, files, target, written, existed, overlapped>>

\* (mutant) The restored name is taken whether it is free or not.
RestoreAnyName(b) == {<<b, 1>>}

\* ... or a name b, and the thread looks for a free form of it ...
RestoredTarget(b) == UniqueTarget(b)

ReadTags(u, b) ==
    /\ pc[u] = "tags"
    /\ \E f \in RestoredTarget(b) : target' = [target EXCEPT ![u] = f]
    /\ Goto(u, "rename")
    /\ UNCHANGED <<loaded, playlist, disk, files, written, saved, existed, overlapped>>

\* ... and renames the file, over one that has come into being meanwhile.
Rename(u) ==
    /\ pc[u] = "rename"
    /\ disk[written[u]] # None
    /\ disk' = [disk EXCEPT ![written[u]] = None, ![target[u]] = disk[written[u]]]
    /\ Save(u, target[u])
    /\ UNCHANGED <<loaded, playlist, files, target, written, existed, overlapped>>

\* The error of rename is ignored: the file keeps its name.
RenameFails(u) ==
    /\ pc[u] = "rename"
    /\ Save(u, written[u])
    /\ UNCHANGED <<loaded, playlist, disk, files, target, written, existed, overlapped>>

\* (mutant) Only the last file is remembered.
AddLast(u) ==
    /\ pc[u] = "add"
    /\ IF loaded
          THEN /\ playlist' = Append(playlist, saved[u][Len(saved[u])])
               /\ Answer(u, 200)
          ELSE /\ Answer(u, 404)
               /\ UNCHANGED playlist
    /\ UNCHANGED <<loaded, disk, files, target, written, saved, existed, overlapped>>

\* The task that adds the files, AddFilesToPlaylist.
AddSaved(u) ==
    /\ pc[u] = "add"
    /\ IF loaded
          THEN /\ playlist' = playlist \o saved[u]
               /\ Answer(u, 200)
          ELSE /\ Answer(u, 404)
               /\ UNCHANGED playlist
    /\ UNCHANGED <<loaded, disk, files, target, written, saved, existed, overlapped>>

\* AddList fails; its E_INVALIDARG is taken for a playlist that is not found.
AddFails(u) ==
    /\ pc[u] = "add"
    /\ loaded
    /\ \E code \in {404, 500} : Answer(u, code)
    /\ UNCHANGED <<loaded, playlist, disk, files, target, written, saved, existed, overlapped>>

Next ==
    \/ PlaylistRemoved
    \/ \E u \in Uploads :
          \/ \E request \in Requests : Arrive(u, request)
          \/ Refuse(u)
          \/ CheckPlaylist(u)
          \/ ChooseTarget(u)
          \/ WriteFile(u) \/ WriteFails(u)
          \/ NoTags(u)
          \/ \E b \in Bases : ReadTags(u, b)
          \/ Rename(u) \/ RenameFails(u)
          \/ AddSaved(u) \/ AddFails(u)

Spec == Init /\ [][Next]_vars

-----------------------------------------------------------------------------
\* What was in the folder before is never overwritten or renamed, also when
\* uploads take each other's names.
OldFilesKept == \A f \in Before : disk[f] = Old

Intact(u) == \A k \in DOMAIN saved[u] : disk[saved[u][k]] = <<u, k>>

\* The files of an upload that succeeded while no other upload ran stay as they
\* were sent, under different names, whatever is uploaded later.
AloneIsKept == \A u \in Uploads : status[u] = 200 /\ ~overlapped[u] => Intact(u)

\* The places in the playlist of the files of u, if they come after the first n.
Share(u, n) == n + 1 .. n + Len(saved[u])

\* An upload that is answered with 200 has all its files in the playlist, each
\* once, together and in the order of the request; any other has none of them.
AllOrNothing ==
    LET succeeded == {u \in Uploads : status[u] = 200}
    IN loaded => \E first \in [succeeded -> 0 .. Len(playlist)] :
          /\ \A u \in succeeded :
                /\ Len(saved[u]) = Len(files[u])
                /\ \A k \in DOMAIN saved[u] :
                      first[u] + k <= Len(playlist) /\ playlist[first[u] + k] = saved[u][k]
          /\ \A u, v \in succeeded :
                u # v => Share(u, first[u]) \cap Share(v, first[v]) = {}
          /\ DOMAIN playlist = UNION {Share(u, first[u]) : u \in succeeded}

\* docs/remote-control-protocol.md: "404: unknown playlist (checked before
\* anything is written)".  It is so if the playlist did not exist when the
\* upload came; one that is removed later leaves the files behind.
UnknownPlaylistWritesNothing ==
    \A u \in Uploads : ~existed[u] => \A f \in Names : disk[f] \notin {u} \X Nat

\* docs/remote-control-protocol.md: "a clash gets a ` (2)`, ` (3)`... suffix".
\* Then a file that was uploaded would be there when its upload is answered.
ClashGetsSuffix == \A u \in Uploads : status[u] = 200 => Intact(u)
=============================================================================
