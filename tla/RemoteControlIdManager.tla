------------------------ MODULE RemoteControlIdManager ------------------------
(***************************************************************************)
(* src/remoteControlIdManager.cpp: the 32-bit ids that the protocol uses   *)
(* for AIMP's playlists and for the entries of playlists.                  *)
(*                                                                         *)
(* Two tables share FMutex: "playlist" (FPlaylistByAIMPId and              *)
(* FPlaylistByPluginId) and "item" (FItemByAIMPKey and FItemByPluginId).   *)
(* Their keys are disjoint, so byKey holds the first map of both tables,   *)
(* and byId[t] the second map of table t.  The look-up under the shared    *)
(* lock and the look-up and insertion under the exclusive lock are two     *)
(* actions.  A restart of the player begins with empty tables.             *)
(***************************************************************************)
EXTENDS Integers

CONSTANTS
    Playlists,   \* AIMP's ids of playlists
    Indexes,     \* positions in a playlist
    Hashes,      \* the values of CRC32 & 0x7fffffff that occur
    MaxInt,      \* std::numeric_limits<std::int32_t>::max()
    Callers,     \* threads that ask for ids: the main thread, CreatePlaylist's
    MaxRuns      \* bound on the runs of the player

ASSUME MaxIntAssumption == MaxInt \in Nat \ {0}
ASSUME HashesAssumption == Hashes \subseteq 0 .. MaxInt
ASSUME IndexesAssumption == Indexes \subseteq Nat
ASSUME KeysAssumption == Playlists \cap (Playlists \X Indexes) = {}
ASSUME MaxRunsAssumption == MaxRuns \in Nat

VARIABLES
    crc,         \* the CRC32 of each key: never changes
    byKey,       \* key -> plugin id
    byId,        \* table -> (plugin id -> key)
    FItemsByPlaylist,  \* playlist -> plugin ids of its entries
    missed,      \* missed[c]: the key c looked up in vain and asks for, if any
    given,       \* (history) answers of this run, for keys not removed since
    remembered,  \* (history) answers of earlier runs
    runs         \* number of runs of the player so far

tables == <<byKey, byId, FItemsByPlaylist>>
vars == <<crc, tables, missed, given, remembered, runs>>

Items == Playlists \X Indexes
Keys == Playlists \cup Items

\* The values of std::int32_t.
Ids == -(MaxInt + 1) .. MaxInt

Table(k) == IF k \in Playlists THEN "playlist" ELSE "item"

\* unordered_map: emplace does nothing when the key is there already.
Emplace(f, k, v) == IF k \in DOMAIN f THEN f
                    ELSE [x \in DOMAIN f \cup {k} |-> IF x = k THEN v ELSE f[x]]
Erase(f, S) == [x \in DOMAIN f \ S |-> f[x]]

\* The type invariant.
TypeOK ==
    /\ crc \in [Keys -> Hashes]
    /\ DOMAIN byKey \subseteq Keys
    /\ \A k \in DOMAIN byKey : byKey[k] \in Ids
    /\ DOMAIN byId = {"playlist", "item"}
    /\ \A t \in {"playlist", "item"} :
          /\ DOMAIN byId[t] \subseteq Ids \ {0}
          /\ \A i \in DOMAIN byId[t] : byId[t][i] \in {k \in Keys : Table(k) = t}
    /\ FItemsByPlaylist \in [Playlists -> SUBSET Ids]
    /\ missed \in [Callers -> SUBSET Keys]
    /\ given \subseteq Keys \X Ids
    /\ remembered \subseteq Keys \X Ids
    /\ runs \in 1 .. MaxRuns + 1

Nothing == [x \in {} |-> 0]

Init ==
    /\ crc \in [Keys -> Hashes]
    /\ byKey = Nothing
    /\ byId = [t \in {"playlist", "item"} |-> Nothing]
    /\ FItemsByPlaylist = [p \in Playlists |-> {}]
    /\ missed = [c \in Callers |-> {}]
    /\ given = {}
    /\ remembered = {}
    /\ runs = 1

-----------------------------------------------------------------------------
\* The number of times ++ is applied to get from "from" to "to", in two's
\* complement.
Steps(from, to) == IF to >= from THEN to - from ELSE to - from + 2 * (MaxInt + 1)

Free(t) == {i \in Ids : i # 0 /\ i \notin DOMAIN byId[t]}

\* (mutant) do ... while instead of while.
FirstFreeAfter(k, i) ==
    /\ i \in Free(Table(k)) \ {crc[k]}
    /\ \A j \in Free(Table(k)) \ {crc[k]} : Steps(crc[k], i) <= Steps(crc[k], j)

\* The result of the loop that steps over 0 and the ids in use.
FirstFree(k, i) ==
    /\ i \in Free(Table(k))
    /\ \A j \in Free(Table(k)) : Steps(crc[k], i) <= Steps(crc[k], j)

Answer(k, i) == given' = given \cup {<<k, i>>}

\* GetOrGeneratePluginId under the shared lock.
Find(c, k) ==
    /\ missed[c] = {}
    /\ IF k \in DOMAIN byKey
          THEN Answer(k, byKey[k]) /\ UNCHANGED missed
          ELSE missed' = [missed EXCEPT ![c] = {k}] /\ UNCHANGED given
    /\ UNCHANGED <<crc, tables, remembered, runs>>

\* (mutant) The exclusive lock is taken and nothing is looked up again.
FoundMeanwhileIgnored(k) == FALSE

\* The second look-up.
FoundMeanwhile(k) == k \in DOMAIN byKey

\* GetOrGeneratePluginId under the exclusive lock.  If no id is free the loop
\* does not end.
Generate(c) ==
    \E k \in missed[c] :
        /\ IF FoundMeanwhile(k)
              THEN Answer(k, byKey[k]) /\ UNCHANGED tables
              ELSE \E i \in Ids :
                      /\ FirstFree(k, i)
                      /\ byKey' = Emplace(byKey, k, i)
                      /\ byId' = [byId EXCEPT ![Table(k)] = Emplace(@, i, k)]
                      /\ FItemsByPlaylist' =
                            IF k \in Playlists THEN FItemsByPlaylist
                            ELSE [FItemsByPlaylist EXCEPT ![k[1]] = @ \cup {i}]
                      /\ Answer(k, i)
        /\ missed' = [missed EXCEPT ![c] = {}]
        /\ UNCHANGED <<crc, remembered, runs>>

\* PlaylistGetKey and PlaylistItemGetKey.
GetKey(t, i) == IF i \in DOMAIN byId[t] THEN {byId[t][i]} ELSE {}

Forget(S) == given' = {a \in given : a[1] \notin S}

\* (mutant) The entries are left in FItemByAIMPKey.
ForgetItemsById(p) ==
    LET gone == FItemsByPlaylist[p]
        keys == {byId["item"][i] : i \in gone \cap DOMAIN byId["item"]}
    IN /\ byKey' = byKey
       /\ byId' = [byId EXCEPT !["item"] = Erase(@, gone)]
       /\ FItemsByPlaylist' = [FItemsByPlaylist EXCEPT ![p] = {}]
       /\ Forget(keys)

\* PlaylistItemsRemoveByPlaylistKeyUnlocked.
ForgetItems(p) ==
    LET gone == FItemsByPlaylist[p]
        keys == {byId["item"][i] : i \in gone \cap DOMAIN byId["item"]}
    IN /\ byKey' = Erase(byKey, keys)
       /\ byId' = [byId EXCEPT !["item"] = Erase(@, gone)]
       /\ FItemsByPlaylist' = [FItemsByPlaylist EXCEPT ![p] = {}]
       /\ Forget(keys)

PlaylistItemsRemoveByPlaylistKey(p) ==
    /\ ForgetItems(p)
    /\ UNCHANGED <<crc, missed, remembered, runs>>

\* The entries are removed before their playlist, under one lock.
PlaylistRemoveByKey(p) ==
    LET gone == FItemsByPlaylist[p]
        keys == {byId["item"][i] : i \in gone \cap DOMAIN byId["item"]} \cup {p}
    IN /\ byKey' = Erase(byKey, keys)
       /\ byId' = [byId EXCEPT !["item"] = Erase(@, gone),
                               !["playlist"] = IF p \in DOMAIN byKey
                                                  THEN Erase(@, {byKey[p]}) ELSE @]
       /\ FItemsByPlaylist' = [FItemsByPlaylist EXCEPT ![p] = {}]
       /\ Forget(keys)
       /\ UNCHANGED <<crc, missed, remembered, runs>>

\* The player ends and is started again; clients keep what they were told.
Restart ==
    /\ runs <= MaxRuns
    /\ runs' = runs + 1
    /\ byKey' = Nothing
    /\ byId' = [t \in {"playlist", "item"} |-> Nothing]
    /\ FItemsByPlaylist' = [p \in Playlists |-> {}]
    /\ missed' = [c \in Callers |-> {}]
    /\ given' = {}
    /\ remembered' = remembered \cup given
    /\ UNCHANGED crc

Next ==
    \/ \E c \in Callers : (\E k \in Keys : Find(c, k)) \/ Generate(c)
    \/ \E p \in Playlists : PlaylistItemsRemoveByPlaylistKey(p) \/ PlaylistRemoveByKey(p)
    \/ Restart

Spec == Init /\ [][Next]_vars

-----------------------------------------------------------------------------
\* The maps of a table are inverse to each other, and FItemsByPlaylist groups
\* the ids of the item table: five maps that are updated together or not.
TablesAgree ==
    /\ \A k \in DOMAIN byKey : GetKey(Table(k), byKey[k]) = {k}
    /\ \A t \in {"playlist", "item"} : \A i \in DOMAIN byId[t] :
          byId[t][i] \in DOMAIN byKey /\ byKey[byId[t][i]] = i
    /\ \A p \in Playlists :
          FItemsByPlaylist[p] = {i \in DOMAIN byId["item"] : byId["item"][i][1] = p}

\* Whatever threads were told in one run, at whatever time, still leads back to
\* what they asked for, and all that asked for the same were told the same.
AnswersHold ==
    /\ \A a \in given : GetKey(Table(a[1]), a[2]) = {a[1]}
    /\ \A a, b \in given : a[1] = b[1] => a[2] = b[2]

NoCollision(t) ==
    \A k, m \in {x \in Keys : Table(x) = t} :
        crc[k] # 0 /\ (crc[k] = crc[m] => k = m)

\* Without collisions in a table its ids are the hashes, in every run of the
\* player: what a client remembers stays right.
StableWithoutCollision ==
    \A a \in given \cup remembered : NoCollision(Table(a[1])) => a[2] = crc[a[1]]

\* The five maps and their two locks are one table of which each call is one
\* step: the look-up under the shared lock that finds nothing changes nothing,
\* and the second look-up takes account of what came in between.
Abs == INSTANCE IdTable WITH idOf <- byKey, answers <- given
ImplementsIdTable == Abs!IdSpec
=============================================================================
