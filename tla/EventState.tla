----------------------------- MODULE EventState -----------------------------
(***************************************************************************)
(* What the callers of StateUpdateEvents see of it: the version counters,  *)
(* the stop flag, and the latest Wait of each thread.  EventWait says how  *)
(* this may change, StateUpdateEvents how the code changes it.             *)
(***************************************************************************)
EXTENDS Naturals

CONSTANTS
    Kinds,       \* enum StateUpdateEvents::Kind
    Waiters,     \* pool threads inside SubscribeOnAIMPStateUpdateEvent
    MaxVersion   \* bound on the calls of Notify per kind

ASSUME MaxVersionAssumption == MaxVersion \in Nat

VARIABLES
    FVersions,   \* std::uint64_t FVersions[KindCount]: number of Notify(k) so far
    FStopped,    \* bool FStopped
    pc,          \* pc[w]: "out" of Wait, "waiting" in it, "returned" from it
    call,        \* call[w]: kind and seen of w's latest Wait
    result       \* result[w]: the value w's latest Wait returned

Versions == 0 .. MaxVersion

Calls == [kind : Kinds, seen : Versions]
=============================================================================
