------------------------- MODULE PostgresPoolProofs -------------------------
(***************************************************************************)
(* Theorems about PostgresPool, for any number of connections and calls.   *)
(***************************************************************************)
EXTENDS PostgresPool, FiniteSetTheorems, TLAPS

(***************************************************************************)
(* The inductive invariant: where a call stands says what it holds.        *)
(***************************************************************************)

StagesOK ==
    /\ \A c \in Calls :
          /\ outer[c] # None <=> pc[c] \notin {"new", "wait", "ended"}
          /\ pc[c] \in {"wait_from", "from", "wait_to", "to"} => c \in Diffs
    /\ \A c \in Diffs : inner[c] # None <=> pc[c] \in {"from", "to"}

PoolInv == TypeOK /\ StagesOK /\ ConnectionsAreKept

LEMMA InitPoolInv == Init => PoolInv
BY PoolAssumption
DEF Init, PoolInv, TypeOK, Stages, StagesOK, ConnectionsAreKept, Holds

LEMMA NextPoolInv == PoolInv /\ [Next]_vars => PoolInv'
<1> SUFFICES ASSUME PoolInv, [Next]_vars PROVE PoolInv'
  OBVIOUS
<1> USE PoolAssumption DEF PoolInv
<1>1. ASSUME NEW c \in Calls, Call(c) PROVE PoolInv'
  BY <1>1 DEF Call, GoTo, TypeOK, Stages, StagesOK, ConnectionsAreKept, Holds
<1>2. ASSUME NEW c \in Calls, Enter(c) PROVE PoolInv'
  <2>1. PICK conn \in free :
           free' = free \ {conn} /\ outer' = [outer EXCEPT ![c] = conn]
    BY <1>2 DEF Enter
  <2>2. conn \in Conns /\ conn # None
    BY <2>1 DEF TypeOK
  <2>3. TypeOK' /\ StagesOK'
    BY <1>2, <2>1, <2>2 DEF Enter, GoTo, TypeOK, Stages, StagesOK
  <2>4. ConnectionsAreKept'
    BY <1>2, <2>1, <2>2 DEF Enter, GoTo, TypeOK, StagesOK, ConnectionsAreKept, Holds
  <2> QED
    BY <2>3, <2>4
<1>3. ASSUME NEW c \in Calls, Query(c) PROVE PoolInv'
  BY <1>3 DEF Query, GoTo, TypeOK, Stages, StagesOK, ConnectionsAreKept, Holds
<1>4. ASSUME NEW c \in Calls, EnterGetState(c) PROVE PoolInv'
  <2>1. PICK conn \in free :
           free' = free \ {conn} /\ inner' = [inner EXCEPT ![c] = conn]
    BY <1>4 DEF EnterGetState
  <2>2. conn \in Conns /\ conn # None
    BY <2>1 DEF TypeOK
  <2>3. TypeOK' /\ StagesOK'
    BY <1>4, <2>1, <2>2 DEF EnterGetState, GoTo, TypeOK, Stages, StagesOK
  <2>4. ConnectionsAreKept'
    BY <1>4, <2>1, <2>2 DEF EnterGetState, GoTo, TypeOK, StagesOK, ConnectionsAreKept, Holds
  <2> QED
    BY <2>3, <2>4
<1>5. ASSUME NEW c \in Calls, LeaveGetState(c) PROVE PoolInv'
  <2>1. TypeOK' /\ StagesOK'
    BY <1>5 DEF LeaveGetState, GoTo, TypeOK, Stages, StagesOK
  <2>2. ConnectionsAreKept'
    BY <1>5 DEF LeaveGetState, GoTo, TypeOK, StagesOK, ConnectionsAreKept, Holds
  <2> QED
    BY <2>1, <2>2
<1>6. ASSUME NEW c \in Calls, Leave(c) PROVE PoolInv'
  <2>1. TypeOK' /\ StagesOK'
    BY <1>6 DEF Leave, GoTo, TypeOK, Stages, StagesOK
  <2>2. ConnectionsAreKept'
    BY <1>6 DEF Leave, GoTo, TypeOK, StagesOK, ConnectionsAreKept, Holds
  <2> QED
    BY <2>1, <2>2
<1>7. ASSUME NEW c \in Calls, FailWaiting(c) PROVE PoolInv'
  BY <1>7 DEF FailWaiting, GoTo, TypeOK, Stages, StagesOK, ConnectionsAreKept, Holds
<1>8. ASSUME NEW c \in Calls, FailInside(c) PROVE PoolInv'
  BY <1>8 DEF FailInside, GoTo, TypeOK, Stages, StagesOK, ConnectionsAreKept, Holds
<1>9. ASSUME NEW c \in Calls, FailInGetState(c) PROVE PoolInv'
  <2>1. TypeOK' /\ StagesOK'
    BY <1>9 DEF FailInGetState, GoTo, TypeOK, Stages, StagesOK
  <2>2. ConnectionsAreKept'
    BY <1>9 DEF FailInGetState, GoTo, TypeOK, StagesOK, ConnectionsAreKept, Holds
  <2> QED
    BY <2>1, <2>2
<1>10. CASE UNCHANGED vars
  BY <1>10 DEF vars, TypeOK, StagesOK, ConnectionsAreKept, Holds
<1> QED
  BY <1>1, <1>2, <1>3, <1>4, <1>5, <1>6, <1>7, <1>8, <1>9, <1>10 DEF Next, Step, Fail

\* A call stands at a stage of its method and holds connections of the pool only.
THEOREM PoolTypeCorrect == Spec => []TypeOK
<1>1. PoolInv => TypeOK
  BY DEF PoolInv
<1> QED
  BY <1>1, InitPoolInv, NextPoolInv, PTL DEF Spec

\* No connection leaks and none is shared, whatever fails.
THEOREM ConnectionsKept == Spec => []ConnectionsAreKept
<1>1. PoolInv => ConnectionsAreKept
  BY DEF PoolInv
<1> QED
  BY <1>1, InitPoolInv, NextPoolInv, PTL DEF Spec

\* With fewer calls of get_diff than connections the pool never locks up: were
\* it locked, every connection would be the outer one of a waiting get_diff.
THEOREM PoolDoesNotLockUp ==
    ASSUME Cardinality(Diffs) < Cardinality(Conns)
    PROVE  Spec => []NoLockup
<1>1. PoolInv => NoLockup
  <2> SUFFICES ASSUME PoolInv, free = {}, \A c \in Calls : ~Proceeds(c)
               PROVE  FALSE
    BY DEF NoLockup
  <2> DEFINE D == {c \in Diffs : outer[c] # None}
  <2> DEFINE f == [c \in D |-> outer[c]]
  <2>1. \A conn \in Conns : \E c \in D : f[c] = conn
    <3> SUFFICES ASSUME NEW conn \in Conns PROVE \E c \in D : f[c] = conn
      OBVIOUS
    <3>1. PICK c \in Calls : Holds(c, conn)
      BY DEF PoolInv, ConnectionsAreKept
    <3>2. pc[c] \in {"wait_from", "wait_to"}
      BY <3>1 DEF PoolInv, ConnectionsAreKept, TypeOK, Stages, Proceeds
    <3>3. c \in Diffs /\ inner[c] = None /\ outer[c] # None
      BY <3>2 DEF PoolInv, StagesOK
    <3>4. outer[c] = conn
      BY <3>1, <3>3, PoolAssumption DEF Holds
    <3> QED
      BY <3>3, <3>4
  <2>2. f \in Surjection(D, Conns)
    <3>1. f \in [D -> Conns]
      BY PoolAssumption DEF PoolInv, TypeOK
    <3> QED
      BY <2>1, <3>1 DEF Surjection
  <2>3. IsFiniteSet(Diffs) /\ IsFiniteSet(D) /\ Cardinality(D) <= Cardinality(Diffs)
    BY PoolAssumption, FS_Subset
  <2>4. Cardinality(Conns) <= Cardinality(D)
    BY <2>2, <2>3, FS_Surjection
  <2>5. Cardinality(Diffs) \in Nat /\ Cardinality(D) \in Nat /\ Cardinality(Conns) \in Nat
    BY <2>3, PoolAssumption, FS_CardinalityType
  <2> QED
    BY <2>3, <2>4, <2>5
<1> QED
  BY <1>1, InitPoolInv, NextPoolInv, PTL DEF Spec
=============================================================================
