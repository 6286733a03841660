--------------------------- MODULE UploadTrackProofs ---------------------------
(***************************************************************************)
(* Proofs about UploadTrack for any uploads, requests, file names and      *)
(* bound on their numbers.                                                 *)
(***************************************************************************)
EXTENDS UploadTrack, TLAPS

USE RequestsAssumption, MaxNumberAssumption, BeforeAssumption, NoneAssumption

Writing == {"write", "rename"}    \* about to write under target[u]
Written == {"tags", "rename"}     \* has written the current file
Handling == {"choose", "write", "tags", "rename"}

\* What an upload knows at each point.
Progress ==
    \A u \in Uploads :
        /\ pc[u] \in {"idle", "check"} => saved[u] = <<>>
        /\ pc[u] \notin {"idle", "ended"} => files[u] \in Requests
        /\ pc[u] \in Writing => target[u] \in Names
        /\ pc[u] \in Written => written[u] \in Names

LInv == TypeOK /\ Progress

\* A request has files.
LEMMA RequestHasFiles == \A r \in Requests : Len(r) \in Nat /\ Len(r) > 0
<1>1. \A S : \A s \in Seq(S) : s # <<>> => Len(s) \in Nat /\ Len(s) > 0
  OBVIOUS
<1>2. \A r \in Requests : r \in Seq([base : Bases, question : BOOLEAN]) /\ r # <<>>
  BY Zenon
<1> QED
  BY <1>1, <1>2, Zenon

\* The current file is finished: one more name is saved, and there are not
\* more names than files.
LEMMA SaveStep ==
    ASSUME LInv, NEW u \in Uploads, NEW f \in Names, pc[u] \in Handling, Save(u, f)
    PROVE  /\ saved' \in [Uploads -> Seq(Names)]
           /\ saved'[u] = Append(saved[u], f)
           /\ \A v \in Uploads \ {u} : saved'[v] = saved[v] /\ pc'[v] = pc[v]
           /\ Len(saved'[u]) = Len(saved[u]) + 1
           /\ Len(saved'[u]) <= Len(files[u])
           /\ pc' \in [Uploads -> {"idle", "check", "choose", "write", "tags", "rename", "add", "ended"}]
           /\ pc'[u] \in {"choose", "add"}
           /\ pc'[u] = "choose" => Len(saved'[u]) < Len(files[u])
           /\ pc'[u] = "add" => Len(saved'[u]) = Len(files[u])
           /\ status' = status
<1>1. saved[u] \in Seq(Names) /\ Len(saved[u]) \in Nat /\ Len(saved[u]) < Len(files[u])
  BY DEF LInv, TypeOK, Handling
<1>2. Len(files[u]) \in Nat
  BY RequestHasFiles DEF LInv, Progress, Handling
<1>3. saved' = [saved EXCEPT ![u] = Append(saved[u], f)] /\ saved'[u] = Append(saved[u], f)
  BY DEF Save, LInv, TypeOK
<1>4. Len(saved'[u]) = Len(saved[u]) + 1 /\ saved'[u] \in Seq(Names)
  BY <1>1, <1>3
<1>5. saved' \in [Uploads -> Seq(Names)] /\ \A v \in Uploads \ {u} : saved'[v] = saved[v]
  BY <1>3, <1>4 DEF LInv, TypeOK
<1>6. status' = status /\ pc' = [pc EXCEPT ![u] = IF Len(saved[u]) + 1 < Len(files[u]) THEN "choose" ELSE "add"]
  BY DEF Save, Goto, Current
<1>7. pc' \in [Uploads -> {"idle", "check", "choose", "write", "tags", "rename", "add", "ended"}]
  BY <1>6 DEF LInv, TypeOK
<1> QED
  BY <1>1, <1>2, <1>3, <1>4, <1>5, <1>6, <1>7 DEF LInv, TypeOK

-----------------------------------------------------------------------------
\* LInv is inductive.
LEMMA LInvInit == Init => LInv
<1> SUFFICES ASSUME Init PROVE LInv
  OBVIOUS
<1>1. TypeOK
  <2>1. disk \in [Names -> Parts \cup {None}]
    BY DEF Init, Parts
  <2> QED
    BY <2>1 DEF Init, TypeOK
<1> QED
  BY <1>1 DEF Init, LInv, Progress, Writing, Written

\* A step that finishes the current file, with the disk still of its type.
LEMMA SavePreserves ==
    ASSUME LInv, NEW u \in Uploads, NEW f \in Names, pc[u] \in Handling, Save(u, f),
           disk' \in [Names -> Parts \cup {None}],
           written' \in [Uploads -> Names \cup {None}],
           \A v \in Uploads \ {u} : written'[v] = written[v],
           UNCHANGED <<loaded, playlist, files, target, existed, overlapped>>
    PROVE  LInv'
<1>1. TypeOK'
  BY SaveStep DEF LInv, TypeOK, Handling
<1>2. Progress'
  <2> SUFFICES ASSUME NEW v \in Uploads
               PROVE /\ pc'[v] \in {"idle", "check"} => saved'[v] = <<>>
                     /\ pc'[v] \notin {"idle", "ended"} => files'[v] \in Requests
                     /\ pc'[v] \in Writing => target'[v] \in Names
                     /\ pc'[v] \in Written => written'[v] \in Names
    BY DEF Progress
  <2>1. CASE v = u
    <3>1. pc'[u] \in {"choose", "add"}
      BY SaveStep
    <3>2. pc[u] \notin {"idle", "ended"} /\ files' = files
      BY DEF Handling
    <3>3. files[u] \in Requests
      BY <3>2 DEF LInv, Progress
    <3> QED
      BY <2>1, <3>1, <3>2, <3>3 DEF Writing, Written
  <2>2. CASE v # u
    <3>1. pc'[v] = pc[v] /\ saved'[v] = saved[v] /\ written'[v] = written[v]
          /\ files' = files /\ target' = target
      BY <2>2, SaveStep
    <3> QED
      BY <3>1 DEF LInv, Progress
  <2> QED
    BY <2>1, <2>2
<1> QED
  BY <1>1, <1>2 DEF LInv

\* A step that ends an upload, with the playlist and the disk still of their types.
LEMMA AnswerPreserves ==
    ASSUME LInv, NEW u \in Uploads, NEW code \in {200, 400, 403, 404, 500}, Answer(u, code),
           playlist' \in Seq(Names),
           disk' \in [Names -> Parts \cup {None}],
           UNCHANGED <<loaded, files, target, written, saved, existed, overlapped>>
    PROVE  LInv'
<1>1. /\ pc' = [pc EXCEPT ![u] = "ended"]
      /\ status' = [status EXCEPT ![u] = code]
      /\ code # 0
  BY DEF Answer
<1>2. status' \in [Uploads -> {0, 200, 400, 403, 404, 500}]
  BY <1>1 DEF LInv, TypeOK
<1>3. pc' \in [Uploads -> {"idle", "check", "choose", "write", "tags", "rename", "add", "ended"}]
  BY <1>1 DEF LInv, TypeOK
<1>4. \A v \in Uploads :
          /\ Len(saved'[v]) <= Len(files'[v])
          /\ pc'[v] \in {"choose", "write", "tags", "rename"} => Len(saved'[v]) < Len(files'[v])
          /\ pc'[v] = "ended" <=> status'[v] # 0
  BY <1>1 DEF LInv, TypeOK
<1>5. TypeOK'
  BY <1>2, <1>3, <1>4 DEF LInv, TypeOK
<1>6. Progress'
  BY <1>1 DEF LInv, TypeOK, Progress, Writing, Written
<1> QED
  BY <1>5, <1>6 DEF LInv

LEMMA LInvStep == LInv /\ [Next]_vars => LInv'
<1> SUFFICES ASSUME LInv, [Next]_vars PROVE LInv'
  OBVIOUS
<1> USE DEF LInv
<1>1. CASE UNCHANGED vars
  BY <1>1 DEF vars, local, TypeOK, Progress
<1>2. CASE PlaylistRemoved
  <2>1. playlist' \in Seq(Names)
    BY <1>2 DEF PlaylistRemoved
  <2> QED
    BY <1>2, <2>1 DEF PlaylistRemoved, local, TypeOK, Progress
<1>3. ASSUME NEW u \in Uploads, NEW request \in Requests, Arrive(u, request) PROVE LInv'
  <2>1. TypeOK'
    BY <1>3, RequestHasFiles DEF Arrive, Goto, TypeOK, Progress
  <2>2. Progress'
    BY <1>3 DEF Arrive, Goto, TypeOK, Progress, Writing, Written
  <2> QED
    BY <2>1, <2>2
<1>4. ASSUME NEW u \in Uploads, Refuse(u) PROVE LInv'
  <2> PICK code \in {403, 400} : Answer(u, code)
    BY <1>4 DEF Refuse
  <2> QED
    BY <1>4, AnswerPreserves DEF Refuse, TypeOK
<1>5. ASSUME NEW u \in Uploads, CheckPlaylist(u) PROVE LInv'
  <2>1. Len(files[u]) > 0 /\ Len(saved[u]) = 0
    BY <1>5, RequestHasFiles DEF CheckPlaylist, Progress
  <2>2. CASE Goto(u, "choose")
    BY <1>5, <2>1, <2>2 DEF CheckPlaylist, Goto, TypeOK, Progress, Writing, Written
  <2>3. CASE Answer(u, 404)
    BY <1>5, <2>3, AnswerPreserves DEF CheckPlaylist, TypeOK
  <2> QED
    BY <1>5, <2>2, <2>3 DEF CheckPlaylist
<1>6. ASSUME NEW u \in Uploads, ChooseTarget(u) PROVE LInv'
  <2> PICK f \in Names : target' = [target EXCEPT ![u] = f]
    BY <1>6 DEF ChooseTarget, UniqueTarget
  <2> QED
    BY <1>6 DEF ChooseTarget, Goto, TypeOK, Progress, Writing, Written
<1>7. ASSUME NEW u \in Uploads, WriteFile(u) PROVE LInv'
  <2>1. pc[u] = "write" /\ target[u] \in Names /\ Current(u) \in Nat
    BY <1>7 DEF WriteFile, TypeOK, Progress, Writing, Current
  <2>2. /\ disk' \in [Names -> Parts \cup {None}]
        /\ written' \in [Uploads -> Names \cup {None}]
        /\ written'[u] = target[u]
        /\ \A v \in Uploads \ {u} : written'[v] = written[v]
        /\ UNCHANGED <<loaded, playlist, files, target, existed, overlapped>>
    BY <1>7, <2>1 DEF WriteFile, TypeOK, Parts
  <2>3. CASE Goto(u, "tags") /\ UNCHANGED saved
    BY <2>1, <2>2, <2>3 DEF Goto, TypeOK, Progress, Writing, Written
  <2>4. CASE Save(u, target[u])
    BY <2>1, <2>2, <2>4, SavePreserves DEF Handling
  <2> QED
    BY <1>7, <2>3, <2>4 DEF WriteFile
<1>8. ASSUME NEW u \in Uploads, WriteFails(u) PROVE LInv'
  <2>1. target[u] \in Names /\ Current(u) \in Nat
    BY <1>8 DEF WriteFails, TypeOK, Progress, Writing, Current
  <2>2. disk' \in [Names -> Parts \cup {None}]
    <3>1. <<u, Current(u)>> \in Parts
      BY <2>1 DEF Parts
    <3>2. CASE UNCHANGED disk
      BY <3>2 DEF TypeOK
    <3>3. CASE disk' = [disk EXCEPT ![target[u]] = <<u, Current(u)>>]
      BY <2>1, <3>1, <3>3 DEF TypeOK
    <3> QED
      BY <1>8, <3>2, <3>3 DEF WriteFails
  <2> QED
    BY <1>8, <2>2, AnswerPreserves DEF WriteFails, TypeOK
<1>9. ASSUME NEW u \in Uploads, NoTags(u) PROVE LInv'
  <2>1. written[u] \in Names /\ pc[u] = "tags"
    BY <1>9 DEF NoTags, Progress, Written
  <2> QED
    BY <1>9, <2>1, SavePreserves DEF NoTags, TypeOK, Handling
<1>10. ASSUME NEW u \in Uploads, NEW b \in Bases, ReadTags(u, b) PROVE LInv'
  <2> PICK f \in Names : target' = [target EXCEPT ![u] = f]
    BY <1>10 DEF ReadTags, RestoredTarget, UniqueTarget
  <2> QED
    BY <1>10 DEF ReadTags, Goto, TypeOK, Progress, Writing, Written
<1>11. ASSUME NEW u \in Uploads, Rename(u) PROVE LInv'
  <2>1. written[u] \in Names /\ target[u] \in Names /\ pc[u] = "rename"
    BY <1>11 DEF Rename, Progress, Writing, Written
  <2>2. disk' \in [Names -> Parts \cup {None}]
    <3> DEFINE moved == [disk EXCEPT ![written[u]] = None]
    <3>1. moved \in [Names -> Parts \cup {None}] /\ disk[written[u]] \in Parts \cup {None}
      BY <2>1 DEF TypeOK
    <3>2. disk' = [moved EXCEPT ![target[u]] = disk[written[u]]]
      BY <1>11 DEF Rename
    <3> QED
      BY <2>1, <3>1, <3>2
  <2> QED
    BY <1>11, <2>1, <2>2, SavePreserves DEF Rename, TypeOK, Handling
<1>12. ASSUME NEW u \in Uploads, RenameFails(u) PROVE LInv'
  <2>1. written[u] \in Names /\ pc[u] = "rename"
    BY <1>12 DEF RenameFails, Progress, Written
  <2> QED
    BY <1>12, <2>1, SavePreserves DEF RenameFails, TypeOK, Handling
<1>13. ASSUME NEW u \in Uploads, AddSaved(u) PROVE LInv'
  <2>1. saved[u] \in Seq(Names) /\ playlist \in Seq(Names)
    BY DEF TypeOK
  <2>2. playlist \o saved[u] \in Seq(Names)
    BY <2>1
  <2>3. playlist' \in Seq(Names)
    BY <1>13, <2>1, <2>2 DEF AddSaved
  <2> PICK code \in {200, 404} : Answer(u, code)
    BY <1>13 DEF AddSaved
  <2> QED
    BY <1>13, <2>3, AnswerPreserves DEF AddSaved, TypeOK
<1>14. ASSUME NEW u \in Uploads, AddFails(u) PROVE LInv'
  <2> PICK code \in {404, 500} : Answer(u, code)
    BY <1>14 DEF AddFails
  <2> QED
    BY <1>14, AnswerPreserves DEF AddFails, TypeOK
<1> QED
  BY <1>1, <1>2, <1>3, <1>4, <1>5, <1>6, <1>7, <1>8, <1>9, <1>10, <1>11, <1>12, <1>13, <1>14 DEF Next

LEMMA LInvAlways == Spec => []LInv
BY LInvInit, LInvStep, PTL DEF Spec

\* The type invariant holds in every reachable state.
THEOREM TypeCorrect == Spec => []TypeOK
<1>1. LInv => TypeOK
  BY DEF LInv
<1> QED
  BY <1>1, LInvAlways, PTL

-----------------------------------------------------------------------------
\* No upload is about to write or rename a file that was there before.
Fresh ==
    \A u \in Uploads :
        /\ pc[u] \in Writing => target[u] \notin Before
        /\ pc[u] \in Written => written[u] \notin Before

OInv == Fresh /\ OldFilesKept

\* A free name is not the name of a file that was there before.
LEMMA FreeIsNotOld ==
    ASSUME OldFilesKept, NEW b, NEW f \in UniqueTarget(b)
    PROVE  f \notin Before
<1>1. None # Old
  BY DEF Parts
<1> QED
  BY <1>1 DEF OldFilesKept, UniqueTarget

LEMMA OInvStep == LInv /\ OInv /\ [Next]_vars => OInv'
<1> SUFFICES ASSUME LInv, OInv, [Next]_vars PROVE OInv'
  OBVIOUS
<1>0. /\ pc \in [Uploads -> {"idle", "check", "choose", "write", "tags", "rename", "add", "ended"}]
      /\ target \in [Uploads -> Names \cup {None}]
      /\ written \in [Uploads -> Names \cup {None}]
      /\ disk \in [Names -> Parts \cup {None}]
  BY DEF LInv, TypeOK
<1> USE DEF OInv
\* After a step of u that changes no name and does not make u write.
<1>a. ASSUME NEW u \in Uploads, NEW label, label \notin Writing \cup Written,
             pc' = [pc EXCEPT ![u] = label], UNCHANGED <<target, written>>
      PROVE  Fresh'
  BY <1>0, <1>a DEF Fresh
<1>1. CASE UNCHANGED vars
  BY <1>1 DEF vars, local, Fresh, OldFilesKept
<1>2. CASE PlaylistRemoved
  BY <1>2 DEF PlaylistRemoved, local, Fresh, OldFilesKept
<1>3. ASSUME NEW u \in Uploads, NEW request \in Requests, Arrive(u, request) PROVE OInv'
  BY <1>3, <1>a DEF Arrive, Goto, OldFilesKept, Writing, Written
<1>4. ASSUME NEW u \in Uploads, Refuse(u) PROVE OInv'
  BY <1>4, <1>a DEF Refuse, Answer, OldFilesKept, Writing, Written
<1>5. ASSUME NEW u \in Uploads, CheckPlaylist(u) PROVE OInv'
  BY <1>5, <1>a DEF CheckPlaylist, Goto, Answer, OldFilesKept, Writing, Written
<1>6. ASSUME NEW u \in Uploads, ChooseTarget(u) PROVE OInv'
  <2> PICK f \in UniqueTarget(ClientFileName(u).base) : target' = [target EXCEPT ![u] = f]
    BY <1>6 DEF ChooseTarget
  <2>1. f \notin Before
    BY FreeIsNotOld
  <2> QED
    BY <1>0, <1>6, <2>1 DEF ChooseTarget, Goto, OldFilesKept, Fresh, Writing, Written
<1>7. ASSUME NEW u \in Uploads, WriteFile(u) PROVE OInv'
  <2>1. target[u] \notin Before
    BY <1>7 DEF WriteFile, Fresh, Writing
  <2>2. OldFilesKept'
    BY <1>0, <1>7, <2>1 DEF WriteFile, OldFilesKept
  <2>3. PICK label \in {"choose", "add", "tags"} : pc' = [pc EXCEPT ![u] = label]
    BY <1>7 DEF WriteFile, Save, Goto
  <2>4. Fresh'
    BY <1>0, <1>7, <2>1, <2>3 DEF WriteFile, Fresh, Writing, Written
  <2> QED
    BY <2>2, <2>4
<1>8. ASSUME NEW u \in Uploads, WriteFails(u) PROVE OInv'
  <2>1. target[u] \notin Before
    BY <1>8 DEF WriteFails, Fresh, Writing
  <2>2. OldFilesKept'
    BY <1>0, <1>8, <2>1 DEF WriteFails, OldFilesKept
  <2> QED
    BY <1>8, <1>a, <2>2 DEF WriteFails, Answer, Writing, Written
<1>9. ASSUME NEW u \in Uploads, NoTags(u) PROVE OInv'
  <2>1. PICK label \in {"choose", "add"} : pc' = [pc EXCEPT ![u] = label]
    BY <1>9 DEF NoTags, Save, Goto
  <2> QED
    BY <1>9, <1>a, <2>1 DEF NoTags, OldFilesKept, Writing, Written
<1>10. ASSUME NEW u \in Uploads, NEW b \in Bases, ReadTags(u, b) PROVE OInv'
  <2> PICK f \in UniqueTarget(b) : target' = [target EXCEPT ![u] = f]
    BY <1>10 DEF ReadTags, RestoredTarget
  <2>1. f \notin Before
    BY FreeIsNotOld
  <2> QED
    BY <1>0, <1>10, <2>1 DEF ReadTags, Goto, OldFilesKept, Fresh, Writing, Written
<1>11. ASSUME NEW u \in Uploads, Rename(u) PROVE OInv'
  <2>1. target[u] \notin Before /\ written[u] \notin Before
    BY <1>11 DEF Rename, Fresh, Writing, Written
  <2>2. OldFilesKept'
    BY <1>0, <1>11, <2>1 DEF Rename, OldFilesKept
  <2>3. PICK label \in {"choose", "add"} : pc' = [pc EXCEPT ![u] = label]
    BY <1>11 DEF Rename, Save, Goto
  <2> QED
    BY <1>11, <1>a, <2>2, <2>3 DEF Rename, Writing, Written
<1>12. ASSUME NEW u \in Uploads, RenameFails(u) PROVE OInv'
  <2>1. PICK label \in {"choose", "add"} : pc' = [pc EXCEPT ![u] = label]
    BY <1>12 DEF RenameFails, Save, Goto
  <2> QED
    BY <1>12, <1>a, <2>1 DEF RenameFails, OldFilesKept, Writing, Written
<1>13. ASSUME NEW u \in Uploads, AddSaved(u) PROVE OInv'
  <2>1. UNCHANGED <<disk, target, written>> /\ pc' = [pc EXCEPT ![u] = "ended"]
    BY <1>13 DEF AddSaved, Answer
  <2>2. Fresh'
    BY <1>a, <2>1 DEF Writing, Written
  <2> QED
    BY <2>1, <2>2 DEF OldFilesKept
<1>14. ASSUME NEW u \in Uploads, AddFails(u) PROVE OInv'
  <2>1. UNCHANGED <<disk, target, written>> /\ pc' = [pc EXCEPT ![u] = "ended"]
    BY <1>14 DEF AddFails, Answer
  <2>2. Fresh'
    BY <1>a, <2>1 DEF Writing, Written
  <2> QED
    BY <2>1, <2>2 DEF OldFilesKept
<1> QED
  BY <1>1, <1>2, <1>3, <1>4, <1>5, <1>6, <1>7, <1>8, <1>9, <1>10, <1>11, <1>12, <1>13, <1>14 DEF Next

\* What was in the folder before is never overwritten or renamed: every name an
\* upload writes under was free at some moment since the beginning.
THEOREM OldFilesAreKept == Spec => []OldFilesKept
<1>1. Init => OInv
  BY DEF Init, OInv, Fresh, OldFilesKept, Writing, Written
<1>2. OInv => OldFilesKept
  BY DEF OInv
<1> QED
  BY <1>1, <1>2, LInvAlways, OInvStep, PTL DEF Spec

-----------------------------------------------------------------------------
\* An upload whose playlist did not exist never gets past the check, for a
\* playlist that is gone does not come back.
Refused ==
    \A u \in Uploads :
        /\ pc[u] = "idle" => ~existed[u]
        /\ ~existed[u] => pc[u] \in {"idle", "check", "ended"}
        /\ ~existed[u] /\ pc[u] = "check" => ~loaded

UInv == Refused /\ UnknownPlaylistWritesNothing

LEMMA UInvStep == LInv /\ UInv /\ [Next]_vars => UInv'
<1> SUFFICES ASSUME LInv, UInv, [Next]_vars PROVE UInv'
  OBVIOUS
<1>0. /\ pc \in [Uploads -> {"idle", "check", "choose", "write", "tags", "rename", "add", "ended"}]
      /\ existed \in [Uploads -> BOOLEAN]
      /\ loaded \in BOOLEAN
      /\ disk \in [Names -> Parts \cup {None}]
  BY DEF LInv, TypeOK
<1> USE DEF UInv
\* After a step of an upload that got past the check, or goes no further, and
\* that leaves the disk alone.
<1>a. ASSUME NEW u \in Uploads, NEW label, existed[u] \/ label = "ended", label # "idle",
             pc' = [pc EXCEPT ![u] = label], UNCHANGED <<loaded, existed>>
      PROVE  Refused'
  BY <1>0, <1>a DEF Refused
<1>b. ASSUME UNCHANGED <<disk, existed>>
      PROVE  UnknownPlaylistWritesNothing'
  BY <1>b DEF UnknownPlaylistWritesNothing
<1>c. ASSUME NEW u \in Uploads, NEW f, NEW k,
             existed[u], disk' = [disk EXCEPT ![f] = <<u, k>>], UNCHANGED existed
      PROVE  UnknownPlaylistWritesNothing'
  BY <1>0, <1>c DEF UnknownPlaylistWritesNothing
<1>d. ASSUME NEW u \in Uploads, pc[u] \notin {"idle", "check", "ended"}
      PROVE  existed[u]
  BY <1>d DEF Refused
<1>1. CASE UNCHANGED vars
  BY <1>1 DEF vars, local, Refused, UnknownPlaylistWritesNothing
<1>2. CASE PlaylistRemoved
  BY <1>0, <1>2, <1>b DEF PlaylistRemoved, local, Refused
<1>3. ASSUME NEW u \in Uploads, NEW request \in Requests, Arrive(u, request) PROVE UInv'
  <2>1. Refused'
    BY <1>0, <1>3 DEF Arrive, Goto, Refused
  <2>2. UnknownPlaylistWritesNothing'
    <3>1. ~existed[u]
      BY <1>3 DEF Arrive, Refused
    <3> QED
      BY <1>0, <1>3, <3>1 DEF Arrive, UnknownPlaylistWritesNothing
  <2> QED
    BY <2>1, <2>2
<1>4. ASSUME NEW u \in Uploads, Refuse(u) PROVE UInv'
  <2>1. pc' = [pc EXCEPT ![u] = "ended"]
    BY <1>4 DEF Refuse, Answer
  <2>2. UNCHANGED <<loaded, existed, disk>>
    BY <1>4 DEF Refuse
  <2>3. Refused'
    BY <2>1, <2>2, <1>a
  <2>4. UnknownPlaylistWritesNothing'
    BY <2>2, <1>b
  <2> QED
    BY <2>3, <2>4
<1>5. ASSUME NEW u \in Uploads, CheckPlaylist(u) PROVE UInv'
  <2>1. CASE loaded
    BY <1>0, <1>5, <2>1, <1>a, <1>b DEF CheckPlaylist, Goto, Refused
  <2>2. CASE ~loaded
    BY <1>5, <2>2, <1>a, <1>b DEF CheckPlaylist, Answer
  <2> QED
    BY <2>1, <2>2
<1>6. ASSUME NEW u \in Uploads, ChooseTarget(u) PROVE UInv'
  BY <1>6, <1>a, <1>b, <1>d DEF ChooseTarget, Goto
<1>7. ASSUME NEW u \in Uploads, WriteFile(u) PROVE UInv'
  <2>1. PICK label \in {"choose", "add", "tags"} : pc' = [pc EXCEPT ![u] = label]
    BY <1>7 DEF WriteFile, Save, Goto
  <2> QED
    BY <1>7, <2>1, <1>a, <1>c, <1>d DEF WriteFile
<1>8. ASSUME NEW u \in Uploads, WriteFails(u) PROVE UInv'
  BY <1>8, <1>a, <1>b, <1>c, <1>d DEF WriteFails, Answer
<1>9. ASSUME NEW u \in Uploads, NoTags(u) PROVE UInv'
  BY <1>9, <1>a, <1>b, <1>d DEF NoTags, Save, Goto
<1>10. ASSUME NEW u \in Uploads, NEW b \in Bases, ReadTags(u, b) PROVE UInv'
  BY <1>10, <1>a, <1>b, <1>d DEF ReadTags, Goto
<1>11. ASSUME NEW u \in Uploads, Rename(u) PROVE UInv'
  <2>1. written[u] \in Names /\ target[u] \in Names
    BY <1>11 DEF Rename, LInv, Progress, Writing, Written
  <2>2. \A f \in Names : disk'[f] = None \/ \E g \in Names : disk'[f] = disk[g]
    BY <1>0, <1>11, <2>1 DEF Rename
  <2>3. \A v \in Uploads : None \notin {v} \X Nat
    BY DEF Parts
  <2>4. UnknownPlaylistWritesNothing'
    BY <1>11, <2>2, <2>3 DEF Rename, UnknownPlaylistWritesNothing
  <2> QED
    BY <1>11, <2>4, <1>a, <1>d DEF Rename, Save, Goto
<1>12. ASSUME NEW u \in Uploads, RenameFails(u) PROVE UInv'
  BY <1>12, <1>a, <1>b, <1>d DEF RenameFails, Save, Goto
<1>13. ASSUME NEW u \in Uploads, AddSaved(u) PROVE UInv'
  BY <1>13, <1>a, <1>b DEF AddSaved, Answer
<1>14. ASSUME NEW u \in Uploads, AddFails(u) PROVE UInv'
  BY <1>14, <1>a, <1>b DEF AddFails, Answer
<1> QED
  BY <1>1, <1>2, <1>3, <1>4, <1>5, <1>6, <1>7, <1>8, <1>9, <1>10, <1>11, <1>12, <1>13, <1>14 DEF Next

\* An upload whose playlist did not exist when it came leaves no file behind.
THEOREM UnknownPlaylistIsRefused == Spec => []UnknownPlaylistWritesNothing
<1>1. Init => UInv
  <2> SUFFICES ASSUME Init PROVE UInv
    OBVIOUS
  <2>1. \A u \in Uploads : Old \notin {u} \X Nat /\ None \notin {u} \X Nat
    BY DEF Old, Parts
  <2> QED
    BY <2>1 DEF Init, UInv, Refused, UnknownPlaylistWritesNothing
<1>2. UInv => UnknownPlaylistWritesNothing
  BY DEF UInv
<1> QED
  BY <1>1, <1>2, LInvAlways, UInvStep, PTL DEF Spec

-----------------------------------------------------------------------------
\* An upload that no other has overlapped is the only one that runs, and has
\* just written its current file.
AloneRuns ==
    \A u \in Uploads : u \in Active /\ ~overlapped[u] =>
        /\ Active = {u}
        /\ pc[u] \in Written => disk[written[u]] = <<u, Current(u)>>

\* An upload whose files must be kept: it runs alone, or did and succeeded.
Kept(u) == ~overlapped[u] /\ (u \in Active \/ status[u] = 200)

\* Its files are as they were sent, and no upload, itself included, is about to
\* write one of them again or to rename it.
KeptFiles ==
    \A u \in Uploads : Kept(u) =>
        /\ Intact(u)
        /\ \A v \in Uploads, k \in DOMAIN saved[u] :
              /\ pc[v] \in Writing => target[v] # saved[u][k]
              /\ pc[v] \in Written => written[v] # saved[u][k]

AInv == AloneRuns /\ KeptFiles

\* A free name is not the name of a file that must be kept.
LEMMA FreeIsNotKept ==
    ASSUME KeptFiles, NEW b, NEW f \in UniqueTarget(b), NEW u \in Uploads, Kept(u),
           NEW k \in DOMAIN saved[u], k \in Nat
    PROVE  f # saved[u][k]
<1>1. None # <<u, k>>
  BY DEF Parts
<1>2. disk[saved[u][k]] = <<u, k>>
  BY DEF KeptFiles, Intact
<1> QED
  BY <1>1, <1>2 DEF UniqueTarget

\* A step of u within its run that saves nothing and leaves the disk alone.
LEMMA RunsOn ==
    ASSUME LInv, AInv, NEW u \in Uploads, u \in Active,
           NEW label \in {"choose", "write", "tags", "rename", "add"},
           pc' = [pc EXCEPT ![u] = label],
           label \in Written => pc[u] \in Written,
           label \in Writing =>
               \A v \in Uploads : Kept(v) => \A k \in DOMAIN saved[v] : target'[u] # saved[v][k],
           \A v \in Uploads \ {u} : target'[v] = target[v],
           UNCHANGED <<disk, written, saved, status, overlapped>>
    PROVE  AInv'
<1>0. pc \in [Uploads -> {"idle", "check", "choose", "write", "tags", "rename", "add", "ended"}]
  BY DEF LInv, TypeOK
<1>1. Active' = Active
  BY <1>0 DEF Active
<1>2. AloneRuns'
  BY <1>0, <1>1 DEF AInv, AloneRuns, Current
<1>3. \A v \in Uploads : Kept(v)' <=> Kept(v)
  BY <1>1 DEF Kept
<1>4. KeptFiles'
  BY <1>0, <1>3 DEF AInv, KeptFiles, Intact, Writing, Written
<1> QED
  BY <1>2, <1>4 DEF AInv

\* A step that ends u, with success only if it was running.
LEMMA Ends ==
    ASSUME LInv, AInv, NEW u \in Uploads, pc[u] # "ended", NEW code,
           code = 200 => u \in Active, Answer(u, code),
           u \notin Active => UNCHANGED disk,
           \A v \in Uploads : Kept(v) => \A k \in DOMAIN saved[v] : disk'[saved[v][k]] = disk[saved[v][k]],
           UNCHANGED <<target, written, saved, overlapped>>
    PROVE  AInv'
<1>0. /\ pc \in [Uploads -> {"idle", "check", "choose", "write", "tags", "rename", "add", "ended"}]
      /\ status \in [Uploads -> {0, 200, 400, 403, 404, 500}]
  BY DEF LInv, TypeOK
<1>1. Active' = Active \ {u}
  BY <1>0 DEF Active, Answer
<1>2. AloneRuns'
  <2> SUFFICES ASSUME NEW v \in Uploads, v \in Active', ~overlapped'[v]
               PROVE  /\ Active' = {v}
                      /\ pc'[v] \in Written => disk'[written'[v]] = <<v, Current(v)'>>
    BY DEF AloneRuns
  <2>1. v \in Active /\ v # u /\ Active = {v}
    BY <1>1 DEF AInv, AloneRuns
  <2>2. u \notin Active
    BY <2>1
  <2>3. pc'[v] = pc[v]
    BY <1>0, <2>1 DEF Answer
  <2> QED
    BY <1>1, <2>1, <2>2, <2>3 DEF AInv, AloneRuns, Current
<1>3. \A v \in Uploads : Kept(v)' => Kept(v)
  BY <1>0, <1>1 DEF Kept, Answer
<1>4. \A v \in Uploads : pc'[v] \in Writing \cup Written => pc'[v] = pc[v]
  BY <1>0 DEF Answer, Writing, Written
<1>5. KeptFiles'
  <2> SUFFICES ASSUME NEW v \in Uploads, Kept(v)'
               PROVE  /\ Intact(v)'
                      /\ \A w \in Uploads, k \in DOMAIN saved'[v] :
                            /\ pc'[w] \in Writing => target'[w] # saved'[v][k]
                            /\ pc'[w] \in Written => written'[w] # saved'[v][k]
    BY DEF KeptFiles
  <2>1. Kept(v) /\ Intact(v)
    BY <1>3 DEF AInv, KeptFiles
  <2>2. Intact(v)'
    BY <2>1 DEF Intact
  <2> QED
    BY <1>4, <2>1, <2>2 DEF AInv, KeptFiles
<1> QED
  BY <1>2, <1>5 DEF AInv

\* A step that finishes the current file of u.
LEMMA Saves ==
    ASSUME LInv, AInv, NEW u \in Uploads, NEW f \in Names, pc[u] \in Handling, Save(u, f),
           ~overlapped[u] => disk'[f] = <<u, Current(u)>>,
           \A v \in Uploads : Kept(v) => \A k \in DOMAIN saved[v] : disk'[saved[v][k]] = disk[saved[v][k]],
           \A v \in Uploads \ {u} : written'[v] = written[v],
           UNCHANGED <<target, overlapped>>
    PROVE  AInv'
<1>0. /\ pc \in [Uploads -> {"idle", "check", "choose", "write", "tags", "rename", "add", "ended"}]
      /\ saved \in [Uploads -> Seq(Names)]
  BY DEF LInv, TypeOK
<1>1. u \in Active /\ Active' = Active
  BY <1>0, SaveStep DEF Active, Handling
<1>2. pc'[u] \notin Writing \cup Written
  BY SaveStep DEF Writing, Written
<1>3. \A v \in Uploads \ {u} : v \in Active => overlapped[v]
  BY <1>1 DEF AInv, AloneRuns
<1>4. AloneRuns'
  BY <1>1, <1>2, <1>3 DEF AInv, AloneRuns
<1>5. \A v \in Uploads : Kept(v)' <=> Kept(v)
  BY <1>1, SaveStep DEF Kept
<1>6. ASSUME NEW v \in Uploads, Kept(v), v # u
      PROVE  /\ Intact(v)'
             /\ \A w \in Uploads, k \in DOMAIN saved'[v] :
                   /\ pc'[w] \in Writing => target'[w] # saved'[v][k]
                   /\ pc'[w] \in Written => written'[w] # saved'[v][k]
  <2>1. saved'[v] = saved[v] /\ \A w \in Uploads \ {u} : pc'[w] = pc[w]
    BY <1>6, SaveStep
  <2>2. Intact(v)'
    BY <1>6, <2>1 DEF AInv, KeptFiles, Intact
  <2>3. \A w \in Uploads : pc'[w] \in Writing \cup Written => w # u /\ pc'[w] = pc[w]
    BY <1>2, <2>1
  <2> QED
    BY <1>6, <2>1, <2>2, <2>3 DEF AInv, KeptFiles
<1>7. ASSUME Kept(u)
      PROVE  /\ Intact(u)'
             /\ \A w \in Uploads, k \in DOMAIN saved'[u] :
                   /\ pc'[w] \in Writing => target'[w] # saved'[u][k]
                   /\ pc'[w] \in Written => written'[w] # saved'[u][k]
  <2>1. saved[u] \in Seq(Names) /\ saved'[u] = Append(saved[u], f)
    BY <1>0, SaveStep
  <2>2. ASSUME NEW k \in DOMAIN saved'[u]
        PROVE  disk'[saved'[u][k]] = <<u, k>>
    <3>1. CASE k = Len(saved[u]) + 1
      BY <1>7, <2>1, <3>1 DEF Kept, Current
    <3>2. CASE k # Len(saved[u]) + 1
      <4>1. k \in DOMAIN saved[u] /\ saved'[u][k] = saved[u][k]
        BY <2>1, <2>2, <3>2
      <4> QED
        BY <1>7, <4>1 DEF AInv, KeptFiles, Intact
    <3> QED
      BY <3>1, <3>2
  <2>3. Active' = {u}
    BY <1>1, <1>7 DEF Kept, AInv, AloneRuns
  <2>4. \A w \in Uploads : pc'[w] \notin Writing \cup Written
    BY <1>2, <2>3 DEF Active, Writing, Written
  <2> QED
    BY <2>2, <2>4 DEF Intact
<1>8. KeptFiles'
  BY <1>5, <1>6, <1>7 DEF KeptFiles
<1> QED
  BY <1>4, <1>8 DEF AInv

LEMMA AInvStep == LInv /\ AInv /\ [Next]_vars => AInv'
<1> SUFFICES ASSUME LInv, AInv, [Next]_vars PROVE AInv'
  OBVIOUS
<1>0. /\ pc \in [Uploads -> {"idle", "check", "choose", "write", "tags", "rename", "add", "ended"}]
      /\ target \in [Uploads -> Names \cup {None}]
      /\ written \in [Uploads -> Names \cup {None}]
      /\ saved \in [Uploads -> Seq(Names)]
      /\ overlapped \in [Uploads -> BOOLEAN]
      /\ disk \in [Names -> Parts \cup {None}]
  BY DEF LInv, TypeOK
<1>00. \A v \in Uploads : \A k \in DOMAIN saved[v] : k \in Nat /\ saved[v][k] \in Names
  BY <1>0
<1>1. CASE UNCHANGED vars
  BY <1>1 DEF vars, local, AInv, AloneRuns, KeptFiles, Kept, Intact, Active, Current
<1>2. CASE PlaylistRemoved
  BY <1>2 DEF PlaylistRemoved, local, AInv, AloneRuns, KeptFiles, Kept, Intact, Active, Current
<1>3. ASSUME NEW u \in Uploads, NEW request \in Requests, Arrive(u, request) PROVE AInv'
  <2>1. /\ pc[u] = "idle" /\ pc' = [pc EXCEPT ![u] = "check"]
        /\ \A v \in Uploads : overlapped'[v] <=> overlapped[v] \/ (Active # {} /\ v \in Active \cup {u})
        /\ UNCHANGED <<disk, target, written, saved, status>>
    BY <1>0, <1>3 DEF Arrive, Goto
  <2>2. Active' = Active \cup {u} /\ u \notin Active
    BY <1>0, <2>1 DEF Active
  <2>3. AloneRuns'
    BY <1>0, <2>1, <2>2 DEF AloneRuns, Written
  <2>4. saved[u] = <<>> /\ DOMAIN saved[u] = {}
    BY <2>1 DEF LInv, Progress
  <2>5. \A v \in Uploads \ {u} : Kept(v)' => Kept(v)
    BY <2>1, <2>2 DEF Kept
  <2>6. KeptFiles'
    BY <1>0, <2>1, <2>4, <2>5 DEF AInv, KeptFiles, Intact, Writing, Written
  <2> QED
    BY <2>3, <2>6 DEF AInv
<1>4. ASSUME NEW u \in Uploads, Refuse(u) PROVE AInv'
  BY <1>4, Ends DEF Refuse
<1>5. ASSUME NEW u \in Uploads, CheckPlaylist(u) PROVE AInv'
  <2>1. CASE loaded
    BY <1>5, <2>1, RunsOn DEF CheckPlaylist, Goto, Active, Writing, Written
  <2>2. CASE ~loaded
    BY <1>5, <2>2, Ends DEF CheckPlaylist
  <2> QED
    BY <2>1, <2>2
<1>6. ASSUME NEW u \in Uploads, ChooseTarget(u) PROVE AInv'
  <2> PICK f \in UniqueTarget(ClientFileName(u).base) : target' = [target EXCEPT ![u] = f]
    BY <1>6 DEF ChooseTarget
  <2>1. \A v \in Uploads : Kept(v) => \A k \in DOMAIN saved[v] : f # saved[v][k]
    BY <1>00, FreeIsNotKept DEF AInv
  <2>2. target'[u] = f /\ \A v \in Uploads \ {u} : target'[v] = target[v]
    BY <1>0
  <2>3. /\ u \in Active
        /\ pc' = [pc EXCEPT ![u] = "write"]
        /\ UNCHANGED <<disk, written, saved, status, overlapped>>
    BY <1>6 DEF ChooseTarget, Goto, Active
  <2>4. \A v \in Uploads : Kept(v) => \A k \in DOMAIN saved[v] : target'[u] # saved[v][k]
    BY <2>1, <2>2
  <2>5. "write" \notin Written
    BY DEF Written
  <2> QED
    BY <2>2, <2>3, <2>4, <2>5, RunsOn
<1>7. ASSUME NEW u \in Uploads, WriteFile(u) PROVE AInv'
  <2>1. /\ pc[u] = "write" /\ target[u] \in Names
        /\ disk' = [disk EXCEPT ![target[u]] = <<u, Current(u)>>]
        /\ written'[u] = target[u]
        /\ \A v \in Uploads \ {u} : written'[v] = written[v]
        /\ UNCHANGED <<target, overlapped>>
    BY <1>0, <1>7 DEF WriteFile, LInv, Progress, Writing
  <2>2. \A v \in Uploads : Kept(v) => \A k \in DOMAIN saved[v] :
            target[u] # saved[v][k] /\ disk'[saved[v][k]] = disk[saved[v][k]]
    BY <1>0, <1>00, <2>1 DEF AInv, KeptFiles, Writing
  <2>3. CASE Save(u, target[u])
    <3>1. pc[u] \in Handling /\ disk'[target[u]] = <<u, Current(u)>>
      BY <1>0, <2>1 DEF Handling
    <3> QED
      BY <2>1, <2>2, <2>3, <3>1, Saves
  <2>4. CASE Goto(u, "tags") /\ UNCHANGED saved
    <3>1. pc' = [pc EXCEPT ![u] = "tags"] /\ status' = status
      BY <2>4 DEF Goto
    <3>2. Active' = Active /\ u \in Active
      BY <1>0, <2>1, <3>1 DEF Active
    <3>3. AloneRuns'
      <4>1. disk'[written'[u]] = <<u, Current(u)'>>
        BY <1>0, <2>1, <2>4 DEF Current
      <4>2. \A v \in Active : ~overlapped[v] => v = u /\ Active = {u}
        BY <3>2 DEF AInv, AloneRuns, Active
      <4> QED
        BY <2>1, <3>2, <4>1, <4>2 DEF AloneRuns
    <3>4. \A v \in Uploads : Kept(v)' <=> Kept(v)
      BY <2>1, <3>1, <3>2 DEF Kept
    <3>5. KeptFiles'
      BY <1>0, <2>1, <2>2, <2>4, <3>1, <3>4 DEF AInv, KeptFiles, Intact, Writing, Written
    <3> QED
      BY <3>3, <3>5 DEF AInv
  <2> QED
    BY <1>7, <2>3, <2>4 DEF WriteFile
<1>8. ASSUME NEW u \in Uploads, WriteFails(u) PROVE AInv'
  <2>1. \A v \in Uploads : Kept(v) => \A k \in DOMAIN saved[v] : disk'[saved[v][k]] = disk[saved[v][k]]
    BY <1>0, <1>00, <1>8 DEF WriteFails, AInv, KeptFiles, Writing
  <2>2. u \in Active
    BY <1>8 DEF WriteFails, Active
  <2> QED
    BY <1>8, <2>1, <2>2, Ends DEF WriteFails
<1>9. ASSUME NEW u \in Uploads, NoTags(u) PROVE AInv'
  <2>1. written[u] \in Names /\ pc[u] = "tags"
    BY <1>9 DEF NoTags, LInv, Progress, Written
  <2>2. ~overlapped[u] => disk[written[u]] = <<u, Current(u)>>
    BY <2>1 DEF AInv, AloneRuns, Active, Written
  <2> QED
    BY <1>9, <2>1, <2>2, Saves DEF NoTags, Handling
<1>10. ASSUME NEW u \in Uploads, NEW b \in Bases, ReadTags(u, b) PROVE AInv'
  <2> PICK f \in UniqueTarget(b) : target' = [target EXCEPT ![u] = f]
    BY <1>10 DEF ReadTags, RestoredTarget
  <2>1. \A v \in Uploads : Kept(v) => \A k \in DOMAIN saved[v] : f # saved[v][k]
    BY <1>00, FreeIsNotKept DEF AInv
  <2>2. target'[u] = f /\ \A v \in Uploads \ {u} : target'[v] = target[v]
    BY <1>0
  <2>3. /\ u \in Active /\ pc[u] \in Written
        /\ pc' = [pc EXCEPT ![u] = "rename"]
        /\ UNCHANGED <<disk, written, saved, status, overlapped>>
    BY <1>10 DEF ReadTags, Goto, Active, Written
  <2>4. \A v \in Uploads : Kept(v) => \A k \in DOMAIN saved[v] : target'[u] # saved[v][k]
    BY <2>1, <2>2
  <2> QED
    BY <2>2, <2>3, <2>4, RunsOn
<1>11. ASSUME NEW u \in Uploads, Rename(u) PROVE AInv'
  <2>1. /\ written[u] \in Names /\ target[u] \in Names /\ pc[u] = "rename"
        /\ disk' = [disk EXCEPT ![written[u]] = None, ![target[u]] = disk[written[u]]]
        /\ Save(u, target[u])
        /\ UNCHANGED <<target, written, overlapped>>
    BY <1>11 DEF Rename, LInv, Progress, Writing, Written
  <2>2. \A v \in Uploads : Kept(v) => \A k \in DOMAIN saved[v] : disk'[saved[v][k]] = disk[saved[v][k]]
    BY <1>0, <1>00, <2>1 DEF AInv, KeptFiles, Writing, Written
  <2>3. ~overlapped[u] => disk'[target[u]] = <<u, Current(u)>>
    <3>1. ~overlapped[u] => disk[written[u]] = <<u, Current(u)>>
      BY <2>1 DEF AInv, AloneRuns, Active, Written
    <3>2. disk'[target[u]] = disk[written[u]]
      BY <1>0, <2>1
    <3> QED
      BY <3>1, <3>2
  <2> QED
    BY <2>1, <2>2, <2>3, Saves DEF Handling
<1>12. ASSUME NEW u \in Uploads, RenameFails(u) PROVE AInv'
  <2>1. written[u] \in Names /\ pc[u] = "rename"
    BY <1>12 DEF RenameFails, LInv, Progress, Written
  <2>2. ~overlapped[u] => disk[written[u]] = <<u, Current(u)>>
    BY <2>1 DEF AInv, AloneRuns, Active, Written
  <2> QED
    BY <1>12, <2>1, <2>2, Saves DEF RenameFails, Handling
<1>13. ASSUME NEW u \in Uploads, AddSaved(u) PROVE AInv'
  <2>1. u \in Active
    BY <1>13 DEF AddSaved, Active
  <2> PICK code \in {200, 404} : Answer(u, code)
    BY <1>13 DEF AddSaved
  <2> QED
    BY <1>13, <2>1, Ends DEF AddSaved
<1>14. ASSUME NEW u \in Uploads, AddFails(u) PROVE AInv'
  BY <1>14, Ends DEF AddFails, Active
<1> QED
  BY <1>1, <1>2, <1>3, <1>4, <1>5, <1>6, <1>7, <1>8, <1>9, <1>10, <1>11, <1>12, <1>13, <1>14 DEF Next

\* The files of an upload that succeeded and that nothing overlapped stay as
\* they were sent, whatever is uploaded later.
THEOREM AloneUploadsAreKept == Spec => []AloneIsKept
<1>1. Init => AInv
  BY DEF Init, AInv, AloneRuns, KeptFiles, Kept, Active
<1>2. AInv => AloneIsKept
  BY DEF AInv, KeptFiles, Kept, AloneIsKept
<1> QED
  BY <1>1, <1>2, LInvAlways, AInvStep, PTL DEF Spec

-----------------------------------------------------------------------------
Succeeded == {u \in Uploads : status[u] = 200}

\* The files of the uploads that succeeded begin after the places in first.
Holds(first) ==
    /\ \A u \in Succeeded :
          /\ Len(saved[u]) = Len(files[u])
          /\ \A k \in DOMAIN saved[u] :
                first[u] + k <= Len(playlist) /\ playlist[first[u] + k] = saved[u][k]
    /\ \A u, v \in Succeeded : u # v => Share(u, first[u]) \cap Share(v, first[v]) = {}
    /\ DOMAIN playlist = UNION {Share(u, first[u]) : u \in Succeeded}

\* An upload adds its files when all of them are saved.
Complete == \A u \in Uploads : pc[u] = "add" => Len(saved[u]) = Len(files[u])

PInv == Complete /\ AllOrNothing

LEMMA AllOrNothingHolds ==
    /\ AllOrNothing <=> (loaded => \E first \in [Succeeded -> 0 .. Len(playlist)] : Holds(first))
    /\ AllOrNothing' <=>
          (loaded' => \E first \in [Succeeded' -> 0 .. Len(playlist')] : Holds(first)')
BY DEF AllOrNothing, Holds, Succeeded

\* A step of u, before its end, that adds nothing and is no success.
LEMMA AddsNothing ==
    ASSUME LInv, AllOrNothing, NEW u \in Uploads, pc[u] # "ended",
           \A v \in Uploads \ {u} :
               saved'[v] = saved[v] /\ files'[v] = files[v] /\ status'[v] = status[v],
           status'[u] # 200, loaded' => loaded, UNCHANGED playlist
    PROVE  AllOrNothing'
<1>1. Succeeded' = Succeeded /\ u \notin Succeeded
  BY DEF LInv, TypeOK, Succeeded
<1>2. \A v \in Succeeded : v \in Uploads \ {u}
  BY <1>1 DEF Succeeded
<1>3. \A v \in Succeeded : saved'[v] = saved[v] /\ files'[v] = files[v]
  BY <1>2
<1>4. \A v \in Succeeded : \A n : Share(v, n)' = Share(v, n)
  BY <1>3 DEF Share
<1>5. ASSUME NEW first \in [Succeeded -> 0 .. Len(playlist)], Holds(first)
      PROVE  \E g \in [Succeeded' -> 0 .. Len(playlist')] : Holds(g)'
  <2>1. {Share(v, first[v])' : v \in Succeeded} = {Share(v, first[v]) : v \in Succeeded}
    BY <1>4
  <2>2. Holds(first)'
    BY <1>1, <1>3, <1>4, <1>5, <2>1 DEF Holds
  <2> QED
    BY <1>1, <2>2
<1> QED
  BY <1>5, AllOrNothingHolds

\* The step that adds the files of u, after all that are there.
LEMMA AddsAll ==
    ASSUME LInv, PInv, NEW u \in Uploads, pc[u] = "add", loaded,
           playlist' = playlist \o saved[u], Answer(u, 200),
           UNCHANGED <<loaded, saved, files>>
    PROVE  AllOrNothing'
<1> PICK n, m : n = Len(playlist) /\ m = Len(saved[u])
  OBVIOUS
<1>1. /\ playlist \in Seq(Names) /\ saved[u] \in Seq(Names)
      /\ n \in Nat /\ m \in Nat /\ DOMAIN playlist = 1 .. n /\ DOMAIN saved[u] = 1 .. m
  BY DEF LInv, TypeOK
<1>2. /\ Len(playlist') = n + m /\ DOMAIN playlist' = 1 .. n + m
      /\ \A i \in 1 .. n : playlist'[i] = playlist[i]
      /\ \A k \in 1 .. m : playlist'[n + k] = saved[u][k]
  BY <1>1
<1>3. Succeeded' = Succeeded \cup {u} /\ u \notin Succeeded
  <2>1. /\ \A v \in Uploads \ {u} : status'[v] = status[v]
        /\ status[u] = 0 /\ status'[u] = 200
    BY DEF Answer, LInv, TypeOK
  <2> QED
    BY <2>1 DEF Succeeded
<1>4. PICK first \in [Succeeded -> 0 .. n] : Holds(first)
  BY AllOrNothingHolds DEF PInv
<1> PICK g : g = [v \in Succeeded' |-> IF v = u THEN n ELSE first[v]]
  OBVIOUS
<1>5. /\ g[u] = n
      /\ \A v \in Succeeded : g[v] = first[v] /\ first[v] \in 0 .. n
  BY <1>3, <1>4
<1>6. g \in [Succeeded' -> 0 .. Len(playlist')]
  BY <1>1, <1>2, <1>3, <1>5
<1>7. /\ Share(u, n)' = n + 1 .. n + m
      /\ \A v \in Succeeded : Share(v, g[v])' = Share(v, first[v])
  BY <1>5 DEF Share
<1>8. \A v \in Succeeded : Share(v, first[v]) \subseteq 1 .. n
  <2>1. \A v \in Succeeded : Share(v, first[v]) \subseteq DOMAIN playlist
    BY <1>4 DEF Holds
  <2> QED
    BY <1>1, <2>1, Zenon
<1>9. ASSUME NEW v \in Succeeded'
      PROVE  /\ Len(saved'[v]) = Len(files'[v])
             /\ \A k \in DOMAIN saved'[v] :
                   g[v] + k <= Len(playlist') /\ playlist'[g[v] + k] = saved'[v][k]
  <2>1. CASE v = u
    <3>1. Len(saved[u]) = Len(files[u])
      BY DEF PInv, Complete
    <3> QED
      BY <1>1, <1>2, <1>5, <2>1, <3>1
  <2>2. CASE v # u
    <3>1. v \in Succeeded /\ saved[v] \in Seq(Names)
      BY <1>3, <2>2 DEF LInv, TypeOK, Succeeded
    <3>2. Len(saved[v]) = Len(files[v])
      BY <1>4, <3>1 DEF Holds
    <3>3. ASSUME NEW k \in DOMAIN saved[v]
          PROVE  g[v] + k <= n + m /\ playlist'[g[v] + k] = saved[v][k]
      <4>1. k \in Nat \ {0} /\ first[v] \in Nat /\ g[v] = first[v]
        <5>1. first[v] \in Nat /\ g[v] = first[v]
          <6>1. n \in Nat
            BY <1>1
          <6>2. \A x \in 0 .. n : x \in Nat
            BY <6>1
          <6> QED
            BY <1>5, <3>1, <6>2, Zenon
        <5>2. DOMAIN saved[v] = 1 .. Len(saved[v]) /\ Len(saved[v]) \in Nat
          BY <3>1
        <5> QED
          BY <3>3, <5>1, <5>2
      <4>2. first[v] + k <= n /\ playlist[first[v] + k] = saved[v][k]
        BY <1>4, <3>1 DEF Holds
      <4>3. first[v] + k \in 1 .. n
        BY <1>1, <4>1, <4>2
      <4> QED
        BY <1>1, <1>2, <4>1, <4>2, <4>3
    <3> QED
      BY <1>2, <3>2, <3>3
  <2> QED
    BY <2>1, <2>2
<1>10. ASSUME NEW v \in Succeeded', NEW w \in Succeeded', v # w
       PROVE  Share(v, g[v])' \cap Share(w, g[w])' = {}
  <2>1. (1 .. n) \cap (n + 1 .. n + m) = {}
    BY <1>1
  <2>2. CASE v = u
    <3>1. w \in Succeeded
      BY <1>3, <1>10, <2>2
    <3>2. Share(w, g[w])' \subseteq 1 .. n
      BY <1>7, <1>8, <3>1
    <3>3. Share(v, g[v])' = n + 1 .. n + m
      BY <1>5, <2>2 DEF Share
    <3> QED
      BY <2>1, <3>2, <3>3
  <2>3. CASE w = u
    <3>1. v \in Succeeded
      BY <1>3, <1>10, <2>3
    <3>2. Share(v, g[v])' \subseteq 1 .. n
      BY <1>7, <1>8, <3>1
    <3>3. Share(w, g[w])' = n + 1 .. n + m
      BY <1>5, <2>3 DEF Share
    <3> QED
      BY <2>1, <3>2, <3>3
  <2>4. CASE v # u /\ w # u
    <3>1. v \in Succeeded /\ w \in Succeeded
      BY <1>3, <2>4
    <3> QED
      BY <1>4, <1>7, <1>10, <3>1 DEF Holds
  <2> QED
    BY <2>2, <2>3, <2>4
<1>11. DOMAIN playlist' = UNION {Share(v, g[v])' : v \in Succeeded'}
  <2>1. 1 .. n + m = (1 .. n) \cup (n + 1 .. n + m)
    BY <1>1
  <2>2. 1 .. n = UNION {Share(v, first[v]) : v \in Succeeded}
    BY <1>1, <1>4 DEF Holds
  <2>3. UNION {Share(v, g[v])' : v \in Succeeded'}
            = (UNION {Share(v, first[v]) : v \in Succeeded}) \cup (n + 1 .. n + m)
    <3>1. Share(u, g[u])' = n + 1 .. n + m
      BY <1>5, <1>7
    <3> DEFINE before == {Share(v, first[v]) : v \in Succeeded}
               after == {Share(v, g[v])' : v \in Succeeded'}
    <3>2. after = before \cup {n + 1 .. n + m}
      BY <1>3, <1>7, <3>1
    <3> HIDE DEF before, after
    <3>3. UNION after = (UNION before) \cup (n + 1 .. n + m)
      BY <3>2
    <3> QED
      BY <3>3 DEF before, after
  <2> QED
    BY <1>2, <2>1, <2>2, <2>3
<1>12. Holds(g)'
  BY <1>9, <1>10, <1>11 DEF Holds
<1> QED
  BY <1>6, <1>12, AllOrNothingHolds

LEMMA PInvStep == LInv /\ PInv /\ [Next]_vars => PInv'
<1> SUFFICES ASSUME LInv, PInv, [Next]_vars PROVE PInv'
  OBVIOUS
<1>0. /\ pc \in [Uploads -> {"idle", "check", "choose", "write", "tags", "rename", "add", "ended"}]
      /\ status \in [Uploads -> {0, 200, 400, 403, 404, 500}]
      /\ \A u \in Uploads : pc[u] = "ended" <=> status[u] # 0
  BY DEF LInv, TypeOK
\* A step of u that neither adds nor ends with success.
<1>a. ASSUME NEW u \in Uploads, pc[u] # "ended",
             \A v \in Uploads \ {u} :
                 /\ saved'[v] = saved[v] /\ files'[v] = files[v]
                 /\ status'[v] = status[v] /\ pc'[v] = pc[v],
             status'[u] # 200, UNCHANGED <<loaded, playlist>>,
             pc'[u] = "add" => Len(saved'[u]) = Len(files'[u])
      PROVE  PInv'
  <2>1. Complete'
    BY <1>a DEF PInv, Complete
  <2>2. AllOrNothing'
    BY <1>a, AddsNothing DEF PInv
  <2> QED
    BY <2>1, <2>2 DEF PInv
\* A step of u to another place of its run.
<1>b. ASSUME NEW u \in Uploads, pc[u] # "ended", NEW label, label # "add", Goto(u, label),
             \A v \in Uploads \ {u} : files'[v] = files[v],
             UNCHANGED <<loaded, playlist, saved>>
      PROVE  PInv'
  BY <1>0, <1>a, <1>b DEF Goto
\* The end of u without success.
<1>c. ASSUME NEW u \in Uploads, pc[u] # "ended", NEW code, code # 200, Answer(u, code),
             UNCHANGED <<loaded, playlist, saved, files>>
      PROVE  PInv'
  BY <1>0, <1>a, <1>c DEF Answer
\* The current file of u is finished.
<1>d. ASSUME NEW u \in Uploads, pc[u] \in Handling, NEW f \in Names, Save(u, f),
             UNCHANGED <<loaded, playlist, files>>
      PROVE  PInv'
  <2>1. pc[u] # "ended" /\ status[u] = 0
    BY <1>0, <1>d DEF Handling
  <2> QED
    BY <1>a, <1>d, <2>1, SaveStep
<1>1. CASE UNCHANGED vars
  <2>1. UNCHANGED <<loaded, playlist, pc, files, saved, status>>
    BY <1>1 DEF vars, local
  <2>2. Succeeded' = Succeeded /\ \A u, n : Share(u, n)' = Share(u, n)
    BY <2>1 DEF Succeeded, Share
  <2>3. \A first : Holds(first)' <=> Holds(first)
    <3> TAKE first
    <3>1. {Share(u, first[u])' : u \in Succeeded} = {Share(u, first[u]) : u \in Succeeded}
      BY <2>2
    <3> QED
      BY <2>1, <2>2, <3>1 DEF Holds
  <2> QED
    BY <2>1, <2>2, <2>3, AllOrNothingHolds DEF PInv, Complete
<1>2. CASE PlaylistRemoved
  BY <1>2 DEF PlaylistRemoved, local, PInv, Complete, AllOrNothing
<1>3. ASSUME NEW u \in Uploads, NEW request \in Requests, Arrive(u, request) PROVE PInv'
  <2>1. \A v \in Uploads \ {u} : files'[v] = files[v]
    BY <1>3 DEF Arrive, LInv, TypeOK
  <2> QED
    BY <1>3, <1>b, <2>1 DEF Arrive
<1>4. ASSUME NEW u \in Uploads, Refuse(u) PROVE PInv'
  BY <1>4, <1>c DEF Refuse
<1>5. ASSUME NEW u \in Uploads, CheckPlaylist(u) PROVE PInv'
  <2>1. pc[u] = "check" /\ UNCHANGED <<loaded, playlist, saved, files>>
    BY <1>5 DEF CheckPlaylist
  <2>2. CASE Goto(u, "choose")
    BY <1>b, <2>1, <2>2
  <2>3. CASE Answer(u, 404)
    BY <1>c, <2>1, <2>3
  <2> QED
    BY <1>5, <2>2, <2>3 DEF CheckPlaylist
<1>6. ASSUME NEW u \in Uploads, ChooseTarget(u) PROVE PInv'
  BY <1>6, <1>b DEF ChooseTarget
<1>7. ASSUME NEW u \in Uploads, WriteFile(u) PROVE PInv'
  <2>1. pc[u] = "write" /\ target[u] \in Names
    BY <1>7 DEF WriteFile, LInv, Progress, Writing
  <2>2. CASE Goto(u, "tags") /\ UNCHANGED saved
    BY <1>7, <1>b, <2>1, <2>2 DEF WriteFile
  <2>3. CASE Save(u, target[u])
    BY <1>7, <1>d, <2>1, <2>3 DEF WriteFile, Handling
  <2> QED
    BY <1>7, <2>2, <2>3 DEF WriteFile
<1>8. ASSUME NEW u \in Uploads, WriteFails(u) PROVE PInv'
  BY <1>8, <1>c DEF WriteFails
<1>9. ASSUME NEW u \in Uploads, NoTags(u) PROVE PInv'
  <2>1. pc[u] = "tags" /\ written[u] \in Names
    BY <1>9 DEF NoTags, LInv, Progress, Written
  <2> QED
    BY <1>9, <1>d, <2>1 DEF NoTags, Handling
<1>10. ASSUME NEW u \in Uploads, NEW b \in Bases, ReadTags(u, b) PROVE PInv'
  BY <1>10, <1>b DEF ReadTags
<1>11. ASSUME NEW u \in Uploads, Rename(u) PROVE PInv'
  <2>1. pc[u] = "rename" /\ target[u] \in Names
    BY <1>11 DEF Rename, LInv, Progress, Writing
  <2> QED
    BY <1>11, <1>d, <2>1 DEF Rename, Handling
<1>12. ASSUME NEW u \in Uploads, RenameFails(u) PROVE PInv'
  <2>1. pc[u] = "rename" /\ written[u] \in Names
    BY <1>12 DEF RenameFails, LInv, Progress, Written
  <2> QED
    BY <1>12, <1>d, <2>1 DEF RenameFails, Handling
<1>13. ASSUME NEW u \in Uploads, AddSaved(u) PROVE PInv'
  <2>1. pc[u] = "add" /\ UNCHANGED <<loaded, saved, files>>
    BY <1>13 DEF AddSaved
  <2>2. CASE loaded /\ playlist' = playlist \o saved[u] /\ Answer(u, 200)
    <3>1. AllOrNothing'
      BY <2>1, <2>2, AddsAll
    <3>2. Complete'
      BY <1>0, <2>1, <2>2 DEF Answer, PInv, Complete
    <3> QED
      BY <3>1, <3>2 DEF PInv
  <2>3. CASE Answer(u, 404) /\ UNCHANGED playlist
    BY <1>c, <2>1, <2>3
  <2> QED
    BY <1>13, <2>2, <2>3 DEF AddSaved
<1>14. ASSUME NEW u \in Uploads, AddFails(u) PROVE PInv'
  BY <1>14, <1>c DEF AddFails
<1> QED
  BY <1>1, <1>2, <1>3, <1>4, <1>5, <1>6, <1>7, <1>8, <1>9, <1>10, <1>11, <1>12, <1>13, <1>14 DEF Next

\* While the playlist exists it holds the files of the uploads that were
\* answered with 200, in runs that do not overlap, and nothing of any other.
THEOREM UploadsAreAllOrNothing == Spec => []AllOrNothing
<1>1. Init => PInv
  <2> SUFFICES ASSUME Init PROVE PInv
    OBVIOUS
  <2>1. Succeeded = {} /\ playlist = <<>>
    BY DEF Init, Succeeded
  <2>2. \A first : Holds(first)
    BY <2>1 DEF Holds
  <2>3. [v \in Succeeded |-> 0] \in [Succeeded -> 0 .. Len(playlist)]
    BY <2>1
  <2>4. AllOrNothing
    BY <2>2, <2>3, AllOrNothingHolds
  <2> QED
    BY <2>4 DEF Init, PInv, Complete
<1>2. PInv => AllOrNothing
  BY DEF PInv
<1> QED
  BY <1>1, <1>2, LInvAlways, PInvStep, PTL DEF Spec
=============================================================================
