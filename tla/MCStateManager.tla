--------------------------- MODULE MCStateManager ---------------------------
(***************************************************************************)
(* Instances of StateManager for TLC.                                      *)
(***************************************************************************)
EXTENDS StateManager, TLC

CONSTANTS r1, r2, r3, e1, e2

\* Every kind of call, those that leave the version alone, and updates alone.
AnyKind     == AllKinds
NoVersion   == AllKinds \ {"versioned"}
OnlyPlain   == {"plain"}

\* A call may carry a version below the first one, the others one that exists.
Versions == [r \in Requests |-> IF r = r1 THEN -1 ELSE 1]

\* Either way of decoding a JSONB column, and the way of the code as it stands.
AnyDecoding == {"text", "json"}
AsBuilt     == {"text"}

\* The calls that carry the same version may be exchanged, and the entities.
Symmetry == Permutations(Requests \ {r1}) \union Permutations(Entities)
=============================================================================
