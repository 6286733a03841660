--------------------- MODULE RemoteControlIdManagerProofs ---------------------
(***************************************************************************)
(* Proofs about RemoteControlIdManager, for any number of playlists,       *)
(* callers and runs, any width of the ids and any hashes.                  *)
(***************************************************************************)
EXTENDS RemoteControlIdManager, TLAPS

USE MaxIntAssumption, HashesAssumption, KeysAssumption, MaxRunsAssumption

TableNames == {"playlist", "item"}

\* The keys are partitioned into the two tables.
LEMMA TableOfKey ==
    ASSUME NEW k \in Keys
    PROVE  /\ Table(k) \in TableNames
           /\ Table(k) = "item" <=> k \in Items
           /\ k \in Items => k[1] \in Playlists /\ k \notin Playlists
           /\ k \notin Items => k \in Playlists
BY DEF Table, Keys, Items, TableNames

-----------------------------------------------------------------------------
\* Every value of every variable is of its type, in every reachable state.
THEOREM TypeCorrect == Spec => []TypeOK
<1>1. Init => TypeOK
  BY DEF Init, TypeOK, Nothing
<1>2. TypeOK /\ [Next]_vars => TypeOK'
  <2> SUFFICES ASSUME TypeOK, [Next]_vars PROVE TypeOK'
    OBVIOUS
  <2>1. ASSUME NEW c \in Callers, NEW k \in Keys, Find(c, k) PROVE TypeOK'
    BY <2>1 DEF TypeOK, Find, Answer, tables
  <2>2. ASSUME NEW c \in Callers, Generate(c) PROVE TypeOK'
    <3> PICK k \in missed[c] :
          /\ IF FoundMeanwhile(k)
                THEN Answer(k, byKey[k]) /\ UNCHANGED tables
                ELSE \E i \in Ids :
                        /\ FirstFree(k, i)
                        /\ byKey' = Emplace(byKey, k, i)
                        /\ byId' = [byId EXCEPT ![Table(k)] = Emplace(@, i, k)]
                        /\ FItemsByPlaylist' =
                              IF k \in Playlists THEN FItemsByPlaylist
                              ELSE [FItemsByPlaylist EXCEPT ![k[1]] = @ \cup {i}]
                        /\ Answer(k, i)
          /\ missed' = [missed EXCEPT ![c] = {}]
          /\ UNCHANGED <<crc, remembered, runs>>
      BY <2>2 DEF Generate
    <3> k \in Keys
      BY DEF TypeOK
    <3>1. CASE FoundMeanwhile(k)
      BY <3>1 DEF TypeOK, FoundMeanwhile, Answer, tables
    <3>2. CASE ~FoundMeanwhile(k)
      <4> PICK i \in Ids :
             /\ FirstFree(k, i)
             /\ byKey' = Emplace(byKey, k, i)
             /\ byId' = [byId EXCEPT ![Table(k)] = Emplace(@, i, k)]
             /\ FItemsByPlaylist' =
                   IF k \in Playlists THEN FItemsByPlaylist
                   ELSE [FItemsByPlaylist EXCEPT ![k[1]] = @ \cup {i}]
             /\ Answer(k, i)
        BY <3>2
      <4> i # 0 /\ i \notin DOMAIN byId[Table(k)]
        BY DEF FirstFree, Free
      <4>1. DOMAIN byKey' \subseteq Keys /\ \A m \in DOMAIN byKey' : byKey'[m] \in Ids
        BY DEF TypeOK, Emplace
      <4>2. /\ DOMAIN byId' = TableNames
            /\ \A t \in TableNames :
                  /\ DOMAIN byId'[t] \subseteq Ids \ {0}
                  /\ \A j \in DOMAIN byId'[t] : byId'[t][j] \in {m \in Keys : Table(m) = t}
        BY TableOfKey DEF TypeOK, Emplace, TableNames
      <4>3. FItemsByPlaylist' \in [Playlists -> SUBSET Ids]
        BY TableOfKey DEF TypeOK
      <4> QED
        BY <4>1, <4>2, <4>3 DEF TypeOK, Answer, TableNames
    <3> QED
      BY <3>1, <3>2
  <2>3. ASSUME NEW p \in Playlists, PlaylistItemsRemoveByPlaylistKey(p) PROVE TypeOK'
    BY <2>3 DEF TypeOK, PlaylistItemsRemoveByPlaylistKey, ForgetItems, Forget, Erase
  <2>4. ASSUME NEW p \in Playlists, PlaylistRemoveByKey(p) PROVE TypeOK'
    BY <2>4 DEF TypeOK, PlaylistRemoveByKey, Forget, Erase
  <2>5. CASE Restart
    BY <2>5 DEF TypeOK, Restart, Nothing
  <2>6. CASE UNCHANGED vars
    BY <2>6 DEF TypeOK, vars, tables
  <2> QED
    BY <2>1, <2>2, <2>3, <2>4, <2>5, <2>6 DEF Next
<1> QED
  BY <1>1, <1>2, PTL DEF Spec

-----------------------------------------------------------------------------
(* The tables are inverse to each other. *)

\* The two maps of a table, key by key and id by id.
Inverse ==
    /\ \A k \in DOMAIN byKey :
          byKey[k] \in DOMAIN byId[Table(k)] /\ byId[Table(k)][byKey[k]] = k
    /\ \A t \in TableNames : \A i \in DOMAIN byId[t] :
          byId[t][i] \in DOMAIN byKey /\ byKey[byId[t][i]] = i

Grouped ==
    \A p \in Playlists :
        FItemsByPlaylist[p] = {i \in DOMAIN byId["item"] : byId["item"][i][1] = p}

\* What has been answered is what the first map says.
GivenIsStored == \A a \in given : a[1] \in DOMAIN byKey /\ byKey[a[1]] = a[2]

IInv == TypeOK /\ Inverse /\ Grouped /\ GivenIsStored

\* A new key with a new id keeps the maps inverse.
LEMMA GenerateKeepsIInv ==
    ASSUME IInv, TypeOK', NEW c \in Callers, Generate(c)
    PROVE  IInv'
<1> PICK k \in missed[c] :
      /\ IF FoundMeanwhile(k)
            THEN Answer(k, byKey[k]) /\ UNCHANGED tables
            ELSE \E i \in Ids :
                    /\ FirstFree(k, i)
                    /\ byKey' = Emplace(byKey, k, i)
                    /\ byId' = [byId EXCEPT ![Table(k)] = Emplace(@, i, k)]
                    /\ FItemsByPlaylist' =
                          IF k \in Playlists THEN FItemsByPlaylist
                          ELSE [FItemsByPlaylist EXCEPT ![k[1]] = @ \cup {i}]
                    /\ Answer(k, i)
      /\ missed' = [missed EXCEPT ![c] = {}]
      /\ UNCHANGED <<crc, remembered, runs>>
  BY DEF Generate
<1> k \in Keys
  BY DEF IInv, TypeOK
<1>1. CASE FoundMeanwhile(k)
  BY <1>1 DEF IInv, Inverse, Grouped, GivenIsStored, FoundMeanwhile, Answer, tables
<1>2. CASE ~FoundMeanwhile(k)
  <2> PICK i \in Ids :
         /\ FirstFree(k, i)
         /\ byKey' = Emplace(byKey, k, i)
         /\ byId' = [byId EXCEPT ![Table(k)] = Emplace(@, i, k)]
         /\ FItemsByPlaylist' =
               IF k \in Playlists THEN FItemsByPlaylist
               ELSE [FItemsByPlaylist EXCEPT ![k[1]] = @ \cup {i}]
         /\ Answer(k, i)
    BY <1>2
  <2> DEFINE t == Table(k)
  <2> t \in TableNames
    BY TableOfKey
  <2>1. k \notin DOMAIN byKey /\ i \notin DOMAIN byId[t]
    BY <1>2 DEF FirstFree, Free, FoundMeanwhile
  <2>2. /\ DOMAIN byKey' = DOMAIN byKey \cup {k}
        /\ byKey'[k] = i
        /\ \A m \in DOMAIN byKey : byKey'[m] = byKey[m]
    BY <2>1 DEF Emplace
  <2>3. /\ DOMAIN byId'[t] = DOMAIN byId[t] \cup {i}
        /\ byId'[t][i] = k
        /\ \A j \in DOMAIN byId[t] : byId'[t][j] = byId[t][j]
        /\ \A u \in TableNames : u # t => byId'[u] = byId[u]
    BY <2>1 DEF Emplace, IInv, TypeOK, TableNames
  <2>4. \A u \in TableNames : \A j \in DOMAIN byId[u] : Table(byId[u][j]) = u
    BY DEF IInv, TypeOK, TableNames
  <2>5. \A m \in DOMAIN byKey : m \in Keys /\ Table(m) \in TableNames
    BY TableOfKey DEF IInv, TypeOK
  <2>6. Inverse'
    BY <2>1, <2>2, <2>3, <2>4, <2>5 DEF IInv, Inverse
  <2>7. Grouped'
    <3>1. CASE t = "item"
      <4>1. k \in Items /\ k[1] \in Playlists
        BY <3>1, TableOfKey
      <4>2. FItemsByPlaylist' = [FItemsByPlaylist EXCEPT ![k[1]] = @ \cup {i}]
        BY <4>1, TableOfKey
      <4> QED
        BY <3>1, <4>1, <4>2, <2>1, <2>3 DEF IInv, Grouped, TypeOK
    <3>2. CASE t = "playlist"
      BY <3>2, <2>3 DEF IInv, Grouped, TableNames, Table
    <3> QED
      BY <3>1, <3>2 DEF TableNames
  <2>8. GivenIsStored'
    BY <2>1, <2>2 DEF IInv, GivenIsStored, Answer
  <2> QED
    BY <2>6, <2>7, <2>8 DEF IInv
<1> QED
  BY <1>1, <1>2

\* The keys of the entries of p, found through FItemsByPlaylist.
EntryKeys(p) ==
    {byId["item"][i] : i \in FItemsByPlaylist[p] \cap DOMAIN byId["item"]}

\* The entries of p are all the item keys of p that are stored.
LEMMA EntriesOfPlaylist ==
    ASSUME IInv, NEW p \in Playlists
    PROVE  /\ \A k \in DOMAIN byKey :
                 Table(k) = "item" => (byKey[k] \in FItemsByPlaylist[p] <=> k \in EntryKeys(p))
           /\ \A k \in EntryKeys(p) : k \in Items /\ k[1] = p /\ Table(k) = "item"
           /\ \A k \in DOMAIN byKey : Table(k) = "item" /\ k[1] = p => k \in EntryKeys(p)
BY TableOfKey DEF EntryKeys, IInv, TypeOK, Inverse, Grouped, TableNames

\* Removing a playlist, or only its entries, removes matching parts of the maps.
LEMMA RemovingKeepsIInv ==
    ASSUME IInv, TypeOK', NEW p \in Playlists,
           \/ PlaylistItemsRemoveByPlaylistKey(p)
           \/ PlaylistRemoveByKey(p)
    PROVE  IInv'
<1> DEFINE gone == FItemsByPlaylist[p]
           keys == EntryKeys(p)
<1>1. /\ FItemsByPlaylist' = [FItemsByPlaylist EXCEPT ![p] = {}]
      /\ DOMAIN byId'["item"] = DOMAIN byId["item"] \ gone
      /\ \A i \in DOMAIN byId'["item"] : byId'["item"][i] = byId["item"][i]
      /\ \A i \in DOMAIN byId'["playlist"] :
            i \in DOMAIN byId["playlist"] /\ byId'["playlist"][i] = byId["playlist"][i]
  BY DEF PlaylistItemsRemoveByPlaylistKey, PlaylistRemoveByKey, ForgetItems, Erase, IInv, TypeOK
<1>2. Grouped'
  BY <1>1 DEF IInv, Grouped, TypeOK
<1>3. CASE PlaylistItemsRemoveByPlaylistKey(p)
  <2>1. /\ DOMAIN byKey' = DOMAIN byKey \ keys
        /\ \A k \in DOMAIN byKey' : byKey'[k] = byKey[k]
        /\ byId'["playlist"] = byId["playlist"]
        /\ given' = {a \in given : a[1] \notin keys}
    BY <1>3 DEF PlaylistItemsRemoveByPlaylistKey, ForgetItems, Forget, EntryKeys, Erase, IInv, TypeOK
  <2>2. Inverse'
    BY <1>1, <2>1, TableOfKey, EntriesOfPlaylist DEF IInv, Inverse, TypeOK, TableNames, Grouped
  <2>3. GivenIsStored'
    BY <2>1 DEF IInv, GivenIsStored
  <2> QED
    BY <1>2, <2>2, <2>3 DEF IInv
<1>4. CASE PlaylistRemoveByKey(p)
  <2>1. /\ DOMAIN byKey' = DOMAIN byKey \ (keys \cup {p})
        /\ \A k \in DOMAIN byKey' : byKey'[k] = byKey[k]
        /\ DOMAIN byId'["playlist"] = DOMAIN byId["playlist"]
                                         \ (IF p \in DOMAIN byKey THEN {byKey[p]} ELSE {})
        /\ given' = {a \in given : a[1] \notin keys \cup {p}}
    BY <1>4 DEF PlaylistRemoveByKey, Forget, EntryKeys, Erase, IInv, TypeOK
  <2>2. Table(p) = "playlist" /\ p \in Keys
    BY DEF Table, Keys
  <2>3. Inverse'
    BY <1>1, <2>1, <2>2, TableOfKey, EntriesOfPlaylist DEF IInv, Inverse, TypeOK, TableNames, Grouped
  <2>4. GivenIsStored'
    BY <2>1 DEF IInv, GivenIsStored
  <2> QED
    BY <1>2, <2>3, <2>4 DEF IInv
<1> QED
  BY <1>3, <1>4

\* IInv is inductive.
LEMMA Inductive == Spec => []IInv
<1>1. Init => IInv
  BY DEF Init, IInv, TypeOK, Inverse, Grouped, GivenIsStored, Nothing, TableNames
<1>2. IInv /\ TypeOK' /\ [Next]_vars => IInv'
  <2> SUFFICES ASSUME IInv, TypeOK', [Next]_vars PROVE IInv'
    OBVIOUS
  <2>1. ASSUME NEW c \in Callers, NEW k \in Keys, Find(c, k) PROVE IInv'
    BY <2>1 DEF IInv, Inverse, Grouped, GivenIsStored, Find, Answer, tables
  <2>2. ASSUME NEW c \in Callers, Generate(c) PROVE IInv'
    BY <2>2, GenerateKeepsIInv
  <2>3. ASSUME NEW p \in Playlists,
               PlaylistItemsRemoveByPlaylistKey(p) \/ PlaylistRemoveByKey(p)
        PROVE  IInv'
    BY <2>3, RemovingKeepsIInv
  <2>4. CASE Restart
    BY <2>4 DEF IInv, Inverse, Grouped, GivenIsStored, Restart, Nothing, TableNames
  <2>5. CASE UNCHANGED vars
    BY <2>5 DEF IInv, Inverse, Grouped, GivenIsStored, vars, tables
  <2> QED
    BY <2>1, <2>2, <2>3, <2>4, <2>5 DEF Next
<1> QED
  BY <1>1, <1>2, TypeCorrect, PTL DEF Spec

\* The maps of remoteControlIdManager.cpp never disagree, whatever ids collide
\* and wherever other threads come between the two locks.
THEOREM TablesNeverDisagree == Spec => []TablesAgree
<1>1. IInv => TablesAgree
  BY TableOfKey DEF IInv, TypeOK, Inverse, Grouped, TablesAgree, GetKey, TableNames
<1> QED
  BY <1>1, Inductive, PTL

\* Every answer of GetOrGeneratePluginId stays good until its key is removed,
\* and all threads that ask for a key are told the same.
THEOREM AnswersAlwaysHold == Spec => []AnswersHold
<1>1. IInv => AnswersHold
  BY TableOfKey DEF IInv, TypeOK, Inverse, GivenIsStored, AnswersHold, GetKey
<1> QED
  BY <1>1, Inductive, PTL

-----------------------------------------------------------------------------
(* Seen from outside the maps are one table, and every call is one step. *)

\* The first map is a function, which TypeOK does not say.
IsFunction == byKey = [k \in DOMAIN byKey |-> byKey[k]]

\* Emplace and Erase make functions.
LEMMA FunctionAlways == Spec => []IsFunction
<1>1. Init => IsFunction
  BY DEF Init, IsFunction, Nothing
<1>2. IsFunction /\ [Next]_vars => IsFunction'
  <2> SUFFICES ASSUME IsFunction, [Next]_vars PROVE IsFunction'
    OBVIOUS
  <2>1. ASSUME UNCHANGED byKey PROVE IsFunction'
    BY <2>1 DEF IsFunction
  <2>2. ASSUME NEW k, NEW i, byKey' = Emplace(byKey, k, i) PROVE IsFunction'
    BY <2>2 DEF IsFunction, Emplace
  <2>3. ASSUME NEW S, byKey' = Erase(byKey, S) PROVE IsFunction'
    BY <2>3 DEF IsFunction, Erase
  <2>4. ASSUME NEW c \in Callers, NEW k \in Keys, Find(c, k) PROVE IsFunction'
    BY <2>1, <2>4 DEF Find, tables
  <2>5. ASSUME NEW c \in Callers, Generate(c) PROVE IsFunction'
    BY <2>1, <2>2, <2>5 DEF Generate, tables
  <2>6. ASSUME NEW p \in Playlists, PlaylistItemsRemoveByPlaylistKey(p) PROVE IsFunction'
    BY <2>3, <2>6 DEF PlaylistItemsRemoveByPlaylistKey, ForgetItems
  <2>7. ASSUME NEW p \in Playlists, PlaylistRemoveByKey(p) PROVE IsFunction'
    BY <2>3, <2>7 DEF PlaylistRemoveByKey
  <2>8. CASE Restart
    BY <2>8 DEF Restart, IsFunction, Nothing
  <2>9. CASE UNCHANGED vars
    BY <2>1, <2>9 DEF vars, tables
  <2> QED
    BY <2>4, <2>5, <2>6, <2>7, <2>8, <2>9 DEF Next
<1> QED
  BY <1>1, <1>2, PTL DEF Spec

\* To find an id, under either lock.
LEMMA FoundIsOneStep ==
    ASSUME IInv, IsFunction, NEW k \in DOMAIN byKey, Answer(k, byKey[k]), UNCHANGED byKey
    PROVE  Abs!GetOrGenerate(k)
<1>1. byKey[k] \in Ids \ {0}
  BY TableOfKey DEF IInv, TypeOK, Inverse, TableNames
<1>2. DOMAIN byKey \cup {k} = DOMAIN byKey
  OBVIOUS
<1>3. byKey = [m \in DOMAIN byKey \cup {k} |-> IF m = k THEN byKey[k] ELSE byKey[m]]
  BY <1>2 DEF IsFunction
<1> QED
  BY <1>1, <1>3 DEF Answer, Abs!GetOrGenerate

\* To generate one: no stored key of the same table has it, because the maps
\* are inverse.
LEMMA NewIsOneStep ==
    ASSUME IInv, NEW k \in Keys, k \notin DOMAIN byKey, NEW i \in Ids, FirstFree(k, i),
           byKey' = Emplace(byKey, k, i), Answer(k, i)
    PROVE  Abs!GetOrGenerate(k)
<1>1. i # 0 /\ i \notin DOMAIN byId[Table(k)]
  BY DEF FirstFree, Free
<1>2. ASSUME NEW m \in DOMAIN byKey, Abs!SameTable(k, m)
      PROVE  byKey[m] # i
  <2>1. Table(m) = Table(k)
    BY <1>2 DEF Abs!SameTable, Table
  <2>2. byKey[m] \in DOMAIN byId[Table(m)]
    BY DEF IInv, Inverse
  <2> QED
    BY <1>1, <2>1, <2>2
<1> QED
  BY <1>1, <1>2 DEF Emplace, Answer, Abs!GetOrGenerate

\* To remove keys: the entries of a playlist that are stored are those that
\* FItemsByPlaylist leads to.
LEMMA RemovalIsOneStep ==
    ASSUME IInv, NEW S, NEW keys, keys \subseteq S, S \cap DOMAIN byKey \subseteq keys,
           byKey' = Erase(byKey, keys), Forget(keys)
    PROVE  Abs!Remove(S)
<1>1. DOMAIN byKey \ keys = DOMAIN byKey \ S
  OBVIOUS
<1>2. \A a \in given : a[1] \notin keys <=> a[1] \notin S
  BY DEF IInv, GivenIsStored
<1>3. {a \in given : a[1] \notin keys} = {a \in given : a[1] \notin S}
  BY <1>2
<1> QED
  BY <1>1, <1>3 DEF Erase, Forget, Abs!Remove

\* Every step of the manager is a step of the table, or a look-up in vain.
LEMMA EachCallIsOneStep ==
    ASSUME IInv, IsFunction, [Next]_vars
    PROVE  Abs!IdNext \/ UNCHANGED Abs!idVars
<1> USE DEF Abs!idVars
<1>0. Abs!Keys = Keys
  BY DEF Abs!Keys, Keys, Items
<1>1. ASSUME NEW c \in Callers, NEW k \in Keys, Find(c, k)
      PROVE  Abs!GetOrGenerate(k) \/ UNCHANGED Abs!idVars
  <2>1. CASE k \in DOMAIN byKey
    BY <1>1, <2>1, FoundIsOneStep DEF Find, tables
  <2>2. CASE k \notin DOMAIN byKey
    BY <1>1, <2>2 DEF Find, tables
  <2> QED
    BY <2>1, <2>2
<1>2. ASSUME NEW c \in Callers, Generate(c)
      PROVE  \E k \in Keys : Abs!GetOrGenerate(k)
  <2>1. PICK k \in missed[c] :
          IF FoundMeanwhile(k)
             THEN Answer(k, byKey[k]) /\ UNCHANGED tables
             ELSE \E i \in Ids : FirstFree(k, i) /\ byKey' = Emplace(byKey, k, i) /\ Answer(k, i)
    BY <1>2 DEF Generate
  <2>2. k \in Keys
    BY DEF IInv, TypeOK
  <2>3. CASE FoundMeanwhile(k)
    BY <2>1, <2>2, <2>3, FoundIsOneStep DEF FoundMeanwhile, tables
  <2>4. CASE ~FoundMeanwhile(k)
    BY <2>1, <2>2, <2>4, NewIsOneStep DEF FoundMeanwhile
  <2> QED
    BY <2>3, <2>4
<1>3. ASSUME NEW p \in Playlists
      PROVE  /\ EntryKeys(p) \subseteq Abs!Entries(p)
             /\ Abs!Entries(p) \cap DOMAIN byKey \subseteq EntryKeys(p)
  <2>1. ASSUME NEW k \in EntryKeys(p) PROVE k \in {p} \X Indexes
    BY <1>3, EntriesOfPlaylist DEF Items
  <2>2. ASSUME NEW k \in {p} \X Indexes, k \in DOMAIN byKey PROVE k \in EntryKeys(p)
    <3>1. k \in Items /\ k[1] = p /\ k \in Keys
      BY <1>3 DEF Items, Keys
    <3> QED
      BY <1>3, <2>2, <3>1, TableOfKey, EntriesOfPlaylist
  <2> QED
    BY <2>1, <2>2 DEF Abs!Entries
<1>4. ASSUME NEW p \in Playlists, PlaylistItemsRemoveByPlaylistKey(p)
      PROVE  Abs!Remove(Abs!Entries(p))
  <2>1. byKey' = Erase(byKey, EntryKeys(p)) /\ Forget(EntryKeys(p))
    BY <1>4 DEF PlaylistItemsRemoveByPlaylistKey, ForgetItems, EntryKeys
  <2> QED
    BY <1>3, <2>1, RemovalIsOneStep
<1>5. ASSUME NEW p \in Playlists, PlaylistRemoveByKey(p)
      PROVE  Abs!Remove({p} \cup Abs!Entries(p))
  <2>1. byKey' = Erase(byKey, EntryKeys(p) \cup {p}) /\ Forget(EntryKeys(p) \cup {p})
    BY <1>5 DEF PlaylistRemoveByKey, EntryKeys
  <2>2. EntryKeys(p) \cup {p} \subseteq {p} \cup Abs!Entries(p)
    BY <1>3
  <2>3. ({p} \cup Abs!Entries(p)) \cap DOMAIN byKey \subseteq EntryKeys(p) \cup {p}
    BY <1>3
  <2> QED
    BY <2>1, <2>2, <2>3, RemovalIsOneStep
<1>6. CASE Restart
  <2>1. DOMAIN byKey \ Keys = {} /\ {a \in given : a[1] \notin Keys} = {}
    BY DEF IInv, TypeOK
  <2>2. [k \in DOMAIN byKey \ Keys |-> byKey[k]] = Nothing
    BY <2>1 DEF Nothing
  <2> QED
    BY <1>0, <1>6, <2>1, <2>2 DEF Restart, Abs!Remove, Abs!IdNext
<1>7. CASE UNCHANGED vars
  BY <1>7 DEF vars, tables
<1> QED
  BY <1>0, <1>1, <1>2, <1>4, <1>5, <1>6, <1>7 DEF Next, Abs!IdNext

\* The manager implements the abstract table: whatever threads do between the
\* two locks of each other, they get what one atomic table would give them.
THEOREM TablesAreOneTable == Spec => ImplementsIdTable
<1>1. Init => Abs!IdInit
  BY DEF Init, Abs!IdInit, Nothing
<1>2. IInv /\ IsFunction /\ [Next]_vars => [Abs!IdNext]_Abs!idVars
  BY EachCallIsOneStep
<1> QED
  BY <1>1, <1>2, Inductive, FunctionAlways, PTL DEF Spec, ImplementsIdTable, Abs!IdSpec

-----------------------------------------------------------------------------
(* Without collisions the ids are the hashes. *)

StoredIsHash == \A k \in DOMAIN byKey : NoCollision(Table(k)) => byKey[k] = crc[k]

SInv == IInv /\ StoredIsHash /\ StableWithoutCollision

\* The loop ends at once when the hash is free.
LEMMA FreeHashIsTaken ==
    ASSUME TypeOK, NEW k \in Keys, NEW i \in Ids, FirstFree(k, i),
           crc[k] \in Free(Table(k))
    PROVE  i = crc[k]
<1>1. crc[k] \in Int /\ i \in Int /\ MaxInt \in Nat
  BY DEF TypeOK, Ids
<1>2. i >= -(MaxInt + 1) /\ crc[k] <= MaxInt
  BY DEF TypeOK, Ids
<1>3. Steps(crc[k], i) <= Steps(crc[k], crc[k])
  BY DEF FirstFree
<1> QED
  BY <1>1, <1>2, <1>3 DEF Steps

\* Another key of the table would have to have the same hash to take it.
LEMMA HashIsFree ==
    ASSUME SInv, NEW k \in Keys, k \notin DOMAIN byKey, NoCollision(Table(k))
    PROVE  crc[k] \in Free(Table(k))
<1>1. crc[k] \in Ids /\ crc[k] # 0 /\ Table(k) \in TableNames
  BY TableOfKey DEF SInv, IInv, TypeOK, Ids, NoCollision
<1>2. ASSUME crc[k] \in DOMAIN byId[Table(k)] PROVE FALSE
  <2> DEFINE m == byId[Table(k)][crc[k]]
  <2>1. m \in DOMAIN byKey /\ byKey[m] = crc[k] /\ m \in Keys /\ Table(m) = Table(k)
    BY <1>1, <1>2 DEF SInv, IInv, Inverse, TypeOK, TableNames
  <2>2. byKey[m] = crc[m]
    BY <2>1 DEF SInv, StoredIsHash
  <2>3. k = m
    BY <2>1, <2>2 DEF NoCollision
  <2> QED
    BY <2>1, <2>3
<1> QED
  BY <1>1, <1>2 DEF Free

\* Clients may keep the ids of a table whose hashes do not collide across
\* restarts of the player.
THEOREM StableIfNoCollision == Spec => []StableWithoutCollision
<1>1. Init => SInv
  <2>1. Init => IInv
    BY DEF Init, IInv, TypeOK, Inverse, Grouped, GivenIsStored, Nothing, TableNames
  <2> QED
    BY <2>1 DEF Init, SInv, StoredIsHash, StableWithoutCollision, Nothing
<1>2. SInv /\ IInv' /\ [Next]_vars => SInv'
  <2> SUFFICES ASSUME SInv, IInv', [Next]_vars PROVE StoredIsHash' /\ StableWithoutCollision'
    BY DEF SInv
  <2>1. crc' = crc /\ \A t : NoCollision(t)' <=> NoCollision(t)
    <3>1. crc' = crc
      BY DEF Next, Find, Generate, PlaylistItemsRemoveByPlaylistKey, PlaylistRemoveByKey,
             Restart, vars
    <3> QED
      BY <3>1 DEF NoCollision
  <2>2. StoredIsHash' /\ UNCHANGED remembered => StableWithoutCollision'
    BY <2>1 DEF SInv, IInv, GivenIsStored, StoredIsHash, StableWithoutCollision
  <2>3. ASSUME NEW c \in Callers, NEW k \in Keys, Find(c, k)
        PROVE  StoredIsHash' /\ UNCHANGED remembered
    BY <2>1, <2>3 DEF Find, tables, SInv, StoredIsHash
  <2>4. ASSUME NEW c \in Callers, Generate(c)
        PROVE  StoredIsHash' /\ UNCHANGED remembered
    <3>1. PICK k \in missed[c] :
            \/ UNCHANGED byKey
            \/ /\ k \notin DOMAIN byKey
               /\ \E i \in Ids : FirstFree(k, i) /\ byKey' = Emplace(byKey, k, i)
      BY <2>4 DEF Generate, tables, FoundMeanwhile
    <3>2. k \in Keys
      BY DEF SInv, IInv, TypeOK
    <3>3. UNCHANGED remembered
      BY <2>4 DEF Generate
    <3>4. CASE UNCHANGED byKey
      BY <3>3, <3>4, <2>1 DEF SInv, StoredIsHash
    <3>5. ASSUME k \notin DOMAIN byKey,
                 NEW i \in Ids, FirstFree(k, i), byKey' = Emplace(byKey, k, i)
          PROVE  StoredIsHash'
      <4>1. NoCollision(Table(k)) => i = crc[k]
        BY <3>2, <3>5, HashIsFree, FreeHashIsTaken DEF SInv, IInv
      <4>2. /\ DOMAIN byKey' = DOMAIN byKey \cup {k}
            /\ byKey'[k] = i
            /\ \A m \in DOMAIN byKey : byKey'[m] = byKey[m]
        BY <3>5 DEF Emplace
      <4> QED
        BY <4>1, <4>2, <2>1 DEF SInv, StoredIsHash
    <3> QED
      BY <3>1, <3>3, <3>4, <3>5
  <2>5. ASSUME NEW p \in Playlists,
               PlaylistItemsRemoveByPlaylistKey(p) \/ PlaylistRemoveByKey(p)
        PROVE  StoredIsHash' /\ UNCHANGED remembered
    <3>1. \A k \in DOMAIN byKey' : k \in DOMAIN byKey /\ byKey'[k] = byKey[k]
      BY <2>5 DEF PlaylistItemsRemoveByPlaylistKey, PlaylistRemoveByKey, ForgetItems, Erase
    <3>2. UNCHANGED remembered
      BY <2>5 DEF PlaylistItemsRemoveByPlaylistKey, PlaylistRemoveByKey
    <3> QED
      BY <3>1, <3>2, <2>1 DEF SInv, StoredIsHash
  <2>6. CASE Restart
    BY <2>1, <2>6 DEF SInv, StoredIsHash, StableWithoutCollision, Restart, Nothing
  <2>7. CASE UNCHANGED vars
    BY <2>1, <2>7 DEF SInv, StoredIsHash, StableWithoutCollision, vars, tables
  <2> QED
    BY <2>2, <2>3, <2>4, <2>5, <2>6, <2>7 DEF Next
<1>3. SInv => StableWithoutCollision
  BY DEF SInv
<1> QED
  BY <1>1, <1>2, <1>3, Inductive, PTL DEF Spec
=============================================================================
