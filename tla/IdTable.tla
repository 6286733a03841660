------------------------------- MODULE IdTable -------------------------------
(***************************************************************************)
(* What RemoteControlIdManager promises its callers, without locks, hashes *)
(* and second maps: a key keeps the id it was given until it is removed,   *)
(* two playlists, and two entries, never have the same id, and to ask for  *)
(* an id is one step, whoever asks for the same at the same time.          *)
(* RemoteControlIdManager implements this specification.                   *)
(***************************************************************************)
CONSTANTS
    Playlists,  \* AIMP's ids of playlists
    Indexes,    \* positions in a playlist
    Ids         \* the values of an id; 0 is none

VARIABLES
    idOf,       \* key -> id
    answers     \* what was answered for keys not removed since

idVars == <<idOf, answers>>

Entries(p) == {p} \X Indexes
Keys == Playlists \cup Playlists \X Indexes

SameTable(k, m) == k \in Playlists <=> m \in Playlists

IdInit ==
    /\ idOf = [k \in {} |-> 0]
    /\ answers = {}

\* The id of k, a new one if k has none.
GetOrGenerate(k) ==
    \E i \in Ids \ {0} :
        /\ IF k \in DOMAIN idOf
              THEN i = idOf[k]
              ELSE \A m \in DOMAIN idOf : SameTable(k, m) => idOf[m] # i
        /\ idOf' = [m \in DOMAIN idOf \cup {k} |-> IF m = k THEN i ELSE idOf[m]]
        /\ answers' = answers \cup {<<k, i>>}

\* The keys in S are removed, stored or not, and no other.
Remove(S) ==
    /\ idOf' = [k \in DOMAIN idOf \ S |-> idOf[k]]
    /\ answers' = {a \in answers : a[1] \notin S}

IdNext ==
    \/ \E k \in Keys : GetOrGenerate(k)
    \/ \E p \in Playlists : Remove(Entries(p)) \/ Remove({p} \cup Entries(p))
    \/ Remove(Keys)

IdSpec == IdInit /\ [][IdNext]_idVars
==============================================================================
