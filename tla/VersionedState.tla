--------------------------- MODULE VersionedState ---------------------------
(***************************************************************************)
(* What the state manager promises a caller who makes one call at a time:  *)
(* each entity has a current state and a durable one.  An update extends   *)
(* the current state, the durable state catches up with it, and what may   *)
(* be lost is only the part that is not durable yet.                       *)
(***************************************************************************)
EXTENDS Integers

CONSTANTS
    Entities,     \* the keys that hold a state
    DefaultState  \* the state of an entity that was never updated

VARIABLES
    current,  \* the state that the next call reads
    durable   \* the state that survives the loss of the cache

\* t comes after s: a higher version that keeps every update of s.
Extends(t, s) == t.version > s.version /\ s.data \subseteq t.data

Init ==
    /\ current = [e \in Entities |-> DefaultState]
    /\ durable = current

Others(e) ==
    \A f \in Entities \ {e} : current'[f] = current[f] /\ durable'[f] = durable[f]

\* An update takes effect.
Advance(e) ==
    /\ Extends(current'[e], current[e])
    /\ durable'[e] = durable[e]

\* The update that took effect last is saved.  If the current state was lost
\* in the meantime, the save brings it back.
Persist(e) ==
    /\ Extends(durable'[e], durable[e])
    /\ current'[e] = durable'[e]
    /\ current'[e] = current[e] \/ current[e] = durable[e]

\* The current state is lost, down to what is durable.
Lose(e) ==
    /\ current'[e] = durable[e]
    /\ durable'[e] = durable[e]

Next == \E e \in Entities : Others(e) /\ (Advance(e) \/ Persist(e) \/ Lose(e))

Spec == Init /\ [][Next]_<<current, durable>>
=============================================================================
