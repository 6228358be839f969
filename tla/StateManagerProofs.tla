------------------------- MODULE StateManagerProofs -------------------------
(***************************************************************************)
(* Theorems about StateManager, for every value of its constants: any      *)
(* number of entities and of calls, interleaved or one at a time, with or  *)
(* without faults, and whichever way a row is decoded.                     *)
(***************************************************************************)
EXTENDS StateManager, TLAPS

-----------------------------------------------------------------------------
(***************************************************************************)
(* What the update methods compute.                                        *)
(***************************************************************************)

\* Applying updates to a state gives a state.
LEMMA AppliedIsState ==
    ASSUME NEW s \in State, NEW r \in Requests, NEW k
    PROVE  Applied(s, r, k) \in State
BY ConstantsAssumption DEF Applied, Assigned, State

\* Without a client's own version, an update makes the next version.
LEMMA AppliedIsNext ==
    ASSUME NEW s \in State, NEW r \in Requests, NEW k, k # "versioned"
    PROVE  /\ Applied(s, r, k).version = s.version + 1
           /\ s.version >= 1 => Applied(s, r, k).version >= 2
           /\ s.data \subseteq Applied(s, r, k).data
BY DEF Applied, Assigned, State

LEMMA DefaultIsState == DefaultState \in State
BY DEF DefaultState, State

-----------------------------------------------------------------------------
(***************************************************************************)
(* Type correctness.  It is inductive only together with what a request's  *)
(* program counter says of its locals: a request that goes on to write has *)
(* an entity, is an update, and holds the state that it read.              *)
(***************************************************************************)

LocalsOK ==
    \A r \in Requests :
        /\ pc[r] = "new" => entity[r] = None /\ kind[r] = None
        /\ pc[r] # "new" => entity[r] \in Entities /\ kind[r] \in Kinds
        /\ pc[r] \in {"new", "get", "pgget"} => previous[r] = None
        /\ pc[r] \in {"refill", "republish"} => previous[r] # None
        /\ pc[r] \in {"set", "publish", "save", "record", "returning", "unrecorded"} =>
              kind[r] \in WriteKinds /\ previous[r] # None
        /\ pc[r] = "done" /\ kind[r] \in WriteKinds => previous[r] # None

TypeInv == TypeOK /\ LocalsOK

\* A request that holds a state goes where its kind says.
LEMMA ResumeType ==
    ASSUME TypeOK, NEW r \in Requests, kind[r] \in AllKinds
    PROVE  /\ Resume(r) \in {"done", "rejected", "set"}
           /\ Resume(r) = "done" <=> kind[r] \in ReadKinds
           /\ Resume(r) = "set" <=> kind[r] \in WriteKinds
BY DEF Resume, AllKinds, ReadKinds, WriteKinds

\* The state that a request computes, and its transition, are well formed.
LEMMA NewType ==
    ASSUME TypeOK, NEW r \in Requests, previous[r] # None, entity[r] \in Entities
    PROVE  /\ previous[r] \in State
           /\ New(r) \in State
           /\ TransitionOf(r) \in Transition
<1>1. previous[r] \in State
  BY DEF TypeOK
<1>2. New(r) \in State
  BY <1>1, AppliedIsState DEF New
<1>3. New(r).version \in Int /\ New(r).version - 1 \in Int
  BY <1>2 DEF State
<1>4. TransitionOf(r) \in Transition
  BY <1>1, <1>2, <1>3 DEF TransitionOf, Transition
<1> QED
  BY <1>1, <1>2, <1>4

LEMMA InitTypeInv == Init => TypeInv
BY DefaultIsState DEF Init, TypeInv, TypeOK, HasRead, LocalsOK, Awaiting, Ended

LEMMA NextTypeInv == TypeInv /\ [Next]_vars => TypeInv'
<1> SUFFICES ASSUME TypeInv, [Next]_vars PROVE TypeInv'
  OBVIOUS
<1> USE DEF TypeInv, HasRead
<1>1. ASSUME NEW r \in Requests, Call(r) PROVE TypeInv'
  <2>1. PICK e \in Entities, k \in Kinds :
           entity' = [entity EXCEPT ![r] = e] /\ kind' = [kind EXCEPT ![r] = k]
    BY <1>1 DEF Call
  <2>2. k \in AllKinds
    BY ConstantsAssumption
  <2> QED
    BY <1>1, <2>1, <2>2 DEF Call, GoTo, TypeOK, LocalsOK, stores, Awaiting
<1>2. ASSUME NEW r \in Requests, GetHit(r) PROVE TypeInv'
  <2>1. entity[r] \in Entities /\ kind[r] \in AllKinds /\ cache[entity[r]] \in State
    BY <1>2, ConstantsAssumption DEF GetHit, TypeOK, LocalsOK
  <2> QED
    BY <1>2, <2>1, ResumeType, NoneAssumption
    DEF GetHit, GoTo, TypeOK, LocalsOK, stores, Awaiting, Ended, ReadKinds, WriteKinds
<1>3. ASSUME NEW r \in Requests, GetMiss(r) PROVE TypeInv'
  BY <1>3 DEF GetMiss, GoTo, TypeOK, LocalsOK, stores, Awaiting
<1>4. ASSUME NEW r \in Requests, QueryEmpty(r) PROVE TypeInv'
  <2>1. kind[r] \in AllKinds
    BY <1>4, ConstantsAssumption DEF QueryEmpty, LocalsOK
  <2> QED
    BY <1>4, <2>1, ResumeType, DefaultIsState, NoneAssumption
    DEF QueryEmpty, GoTo, TypeOK, LocalsOK, stores, Awaiting, Ended, ReadKinds, WriteKinds
<1>5. ASSUME NEW r \in Requests, QueryText(r) PROVE TypeInv'
  BY <1>5 DEF QueryText, GoTo, TypeOK, LocalsOK, stores, Ended
<1>6. ASSUME NEW r \in Requests, QueryRow(r) PROVE TypeInv'
  <2>1. PICK s \in rows[entity[r]] : previous' = [previous EXCEPT ![r] = s]
    BY <1>6 DEF QueryRow
  <2>2. entity[r] \in Entities /\ s \in State /\ s # None
    BY <1>6, <2>1, NoneAssumption DEF QueryRow, TypeOK, LocalsOK
  <2> QED
    BY <1>6, <2>1, <2>2 DEF QueryRow, GoTo, TypeOK, LocalsOK, stores, Awaiting
<1>7. ASSUME NEW r \in Requests, Refill(r) PROVE TypeInv'
  <2>1. entity[r] \in Entities /\ previous[r] \in State
    BY <1>7 DEF Refill, TypeOK, LocalsOK
  <2> QED
    BY <1>7, <2>1 DEF Refill, GoTo, TypeOK, LocalsOK, stores, Awaiting
<1>8. ASSUME NEW r \in Requests, Republish(r) PROVE TypeInv'
  <2>1. entity[r] \in Entities /\ previous[r] \in State /\ kind[r] \in AllKinds
    BY <1>8, ConstantsAssumption DEF Republish, TypeOK, LocalsOK
  <2> QED
    BY <1>8, <2>1, ResumeType
    DEF Republish, GoTo, TypeOK, LocalsOK, stores, Awaiting, Ended, ReadKinds, WriteKinds
<1>9. ASSUME NEW r \in Requests, SetCache(r) PROVE TypeInv'
  <2>1. entity[r] \in Entities /\ New(r) \in State
    BY <1>9, NewType DEF SetCache, LocalsOK
  <2> QED
    BY <1>9, <2>1 DEF SetCache, GoTo, TypeOK, LocalsOK, Awaiting
<1>10. ASSUME NEW r \in Requests, Publish(r) PROVE TypeInv'
  <2>1. entity[r] \in Entities /\ New(r) \in State
    BY <1>10, NewType DEF Publish, LocalsOK
  <2> QED
    BY <1>10, <2>1 DEF Publish, GoTo, TypeOK, LocalsOK, Awaiting
<1>11. ASSUME NEW r \in Requests, Save(r) PROVE TypeInv'
  <2>1. entity[r] \in Entities /\ New(r) \in State
    BY <1>11, NewType DEF Save, LocalsOK
  <2>2. Upsert(rows[entity[r]], New(r)) \in SUBSET State
    BY <2>1 DEF Upsert, TypeOK
  <2> QED
    BY <1>11, <2>1, <2>2 DEF Save, GoTo, TypeOK, LocalsOK, Awaiting, Ended
<1>12. ASSUME NEW r \in Requests, Record(r) PROVE TypeInv'
  <2>1. TransitionOf(r) \in Transition
    BY <1>12, NewType DEF Record, LocalsOK
  <2> QED
    BY <1>12, <2>1 DEF Record, GoTo, TypeOK, LocalsOK, Awaiting
<1>13. ASSUME NEW r \in Requests, Return(r) PROVE TypeInv'
  BY <1>13 DEF Return, GoTo, TypeOK, LocalsOK, stores, Ended
<1>14. ASSUME NEW r \in Requests, Fault(r) PROVE TypeInv'
  BY <1>14 DEF Fault, Active, Awaiting, GoTo, TypeOK, LocalsOK, stores, Ended
<1>15. ASSUME NEW e \in Entities, Expire(e) PROVE TypeInv'
  BY <1>15 DEF Expire, TypeOK, LocalsOK, locals
<1>16. CASE UNCHANGED vars
  BY <1>16 DEF vars, stores, locals, TypeOK, LocalsOK
<1> QED
  BY <1>1, <1>2, <1>3, <1>4, <1>5, <1>6, <1>7, <1>8, <1>9, <1>10, <1>11, <1>12,
     <1>13, <1>14, <1>15, <1>16 DEF Next, Get, Update

\* Every variable keeps its type, whatever versions the callers assign: in
\* particular no call goes on to write without a state that it has read.
THEOREM TypeCorrect == Spec => []TypeOK
<1>1. TypeInv => TypeOK
  BY DEF TypeInv
<1> QED
  BY <1>1, InitTypeInv, NextTypeInv, PTL DEF Spec

-----------------------------------------------------------------------------
(***************************************************************************)
(* What a step may change of a request that has read its state: nothing    *)
(* but its program counter, which only the request's own actions move.     *)
(***************************************************************************)

Late == {"set", "publish", "save", "record", "returning"} \union Ended

Beyond == {"publish", "save", "record", "returning", "done", "unrecorded", "faulted"}

Frame(q) ==
    /\ pc[q] \in Late =>
          /\ entity'[q] = entity[q] /\ kind'[q] = kind[q] /\ previous'[q] = previous[q]
          /\ pc'[q] \in Late
    /\ pc[q] \in Beyond => pc'[q] \in Beyond
    /\ pc[q] \in Ended => pc'[q] = pc[q]
    /\ pc'[q] \in {"record", "unrecorded"} => pc'[q] = pc[q] \/ Save(q)
    /\ pc'[q] = "returning" => pc[q] = "returning" \/ Record(q)
    /\ pc'[q] = "done" /\ kind'[q] \in WriteKinds => pc[q] \in {"done", "returning"}
    /\ pc[q] = "record" => pc'[q] \in {"record", "faulted"} \/ Record(q)

LEMMA NextFrame ==
    ASSUME TypeInv, [Next]_vars, NEW q \in Requests
    PROVE  Frame(q)
<1> USE DEF TypeInv, Late, Beyond
<1>1. ASSUME NEW r \in Requests, Call(r) PROVE Frame(q)
  BY <1>1 DEF Call, GoTo, Frame, TypeOK, LocalsOK, Ended
<1>2. ASSUME NEW r \in Requests, GetHit(r) PROVE Frame(q)
  BY <1>2, ResumeType, ConstantsAssumption
  DEF GetHit, GoTo, Frame, TypeOK, LocalsOK, Ended, ReadKinds, WriteKinds
<1>3. ASSUME NEW r \in Requests, GetMiss(r) PROVE Frame(q)
  BY <1>3 DEF GetMiss, GoTo, Frame, TypeOK, Ended
<1>4. ASSUME NEW r \in Requests, QueryEmpty(r) PROVE Frame(q)
  BY <1>4, ResumeType, ConstantsAssumption
  DEF QueryEmpty, GoTo, Frame, TypeOK, LocalsOK, Ended, ReadKinds, WriteKinds
<1>5. ASSUME NEW r \in Requests, QueryText(r) PROVE Frame(q)
  BY <1>5 DEF QueryText, GoTo, Frame, TypeOK, Ended
<1>6. ASSUME NEW r \in Requests, QueryRow(r) PROVE Frame(q)
  BY <1>6 DEF QueryRow, GoTo, Frame, TypeOK, Ended
<1>7. ASSUME NEW r \in Requests, Refill(r) PROVE Frame(q)
  BY <1>7 DEF Refill, GoTo, Frame, TypeOK, Ended
<1>8. ASSUME NEW r \in Requests, Republish(r) PROVE Frame(q)
  BY <1>8, ResumeType, ConstantsAssumption
  DEF Republish, GoTo, Frame, TypeOK, LocalsOK, Ended, ReadKinds, WriteKinds
<1>9. ASSUME NEW r \in Requests, SetCache(r) PROVE Frame(q)
  BY <1>9 DEF SetCache, GoTo, Frame, TypeOK, Ended
<1>10. ASSUME NEW r \in Requests, Publish(r) PROVE Frame(q)
  BY <1>10 DEF Publish, GoTo, Frame, TypeOK, Ended
<1>11. ASSUME NEW r \in Requests, Save(r) PROVE Frame(q)
  <2>1. pc' = [pc EXCEPT ![r] = pc'[r]] /\ pc'[r] \in {"record", "unrecorded"}
    BY <1>11 DEF Save, GoTo, TypeOK
  <2>2. pc[r] = "save" /\ UNCHANGED <<entity, kind, previous>>
    BY <1>11 DEF Save
  <2>3. pc'[q] \in {"record", "unrecorded"} => pc'[q] = pc[q] \/ Save(q)
    BY <1>11, <2>1 DEF TypeOK
  <2> QED
    BY <2>1, <2>2, <2>3 DEF Frame, TypeOK, Ended
<1>12. ASSUME NEW r \in Requests, Record(r) PROVE Frame(q)
  <2>1. pc' = [pc EXCEPT ![r] = "returning"]
    BY <1>12 DEF Record, GoTo
  <2>2. pc[r] = "record" /\ UNCHANGED <<entity, kind, previous>>
    BY <1>12 DEF Record
  <2>3. pc'[q] = "returning" => pc[q] = "returning" \/ Record(q)
    BY <1>12, <2>1 DEF TypeOK
  <2>4. pc[q] = "record" => pc'[q] = "record" \/ Record(q)
    BY <1>12, <2>1 DEF TypeOK
  <2> QED
    BY <2>1, <2>2, <2>3, <2>4 DEF Frame, TypeOK, Ended
<1>13. ASSUME NEW r \in Requests, Return(r) PROVE Frame(q)
  BY <1>13 DEF Return, GoTo, Frame, TypeOK, Ended
<1>14. ASSUME NEW r \in Requests, Fault(r) PROVE Frame(q)
  BY <1>14 DEF Fault, Active, Awaiting, GoTo, Frame, TypeOK, Ended
<1>15. ASSUME NEW e \in Entities, Expire(e) PROVE Frame(q)
  BY <1>15 DEF Expire, locals, Frame, TypeOK, Ended
<1>16. CASE UNCHANGED vars
  BY <1>16 DEF vars, locals, Frame, TypeOK, Ended
<1> QED
  BY <1>1, <1>2, <1>3, <1>4, <1>5, <1>6, <1>7, <1>8, <1>9, <1>10, <1>11, <1>12,
     <1>13, <1>14, <1>15, <1>16 DEF Next, Get, Update

-----------------------------------------------------------------------------
(***************************************************************************)
(* The table and the transitions.  Beside the two invariants that relate   *)
(* them, the strengthening says what a request knows to be stored from     *)
(* where it stands.                                                        *)
(***************************************************************************)

Saved(r) ==
    \/ pc[r] \in {"record", "returning", "unrecorded"}
    \/ pc[r] = "done" /\ kind[r] \in WriteKinds

Recorded(r) ==
    \/ pc[r] = "returning"
    \/ pc[r] = "done" /\ kind[r] \in WriteKinds

\* t's state is in the table under its version, or r is about to say so.
Explains(r, e, s) ==
    /\ pc[r] \in {"record", "unrecorded", "faulted"}
    /\ entity[r] = e
    /\ previous[r] # None
    /\ New(r) = s

ProgressOK ==
    \A r \in Requests :
        /\ Saved(r) => Has(rows[entity[r]], New(r).version)
        /\ Recorded(r) => TransitionOf(r) \in transitions

StoreInv == ProgressOK /\ RecordedIsStored /\ RowsAreRecorded

\* A save keeps every version that was there, adds its own, and adds or
\* replaces nothing else.
LEMMA UpsertKeepsVersions ==
    ASSUME NEW saved, NEW s
    PROVE  /\ \A v : Has(saved, v) => Has(Upsert(saved, s), v)
           /\ Has(Upsert(saved, s), s.version)
           /\ \A x \in Upsert(saved, s) : x \in saved \/ x = s
BY DEF Has, Upsert

\* Only save_state writes the table, and only save_transition the other.
LEMMA WhoWrites ==
    ASSUME [Next]_vars
    PROVE  \/ \E r \in Requests : Save(r)
           \/ \E r \in Requests : Record(r)
           \/ rows' = rows /\ transitions' = transitions
BY DEF Next, vars, stores, locals, Get, Update, Call, GetHit, GetMiss, QueryEmpty,
       QueryText, QueryRow, Refill, Republish, SetCache, Publish, Return, Fault, Expire

\* What a request computed stays what it was.
LEMMA NewKept ==
    ASSUME NEW q \in Requests, Frame(q), pc[q] \in Late
    PROVE  /\ New(q)' = New(q)
           /\ TransitionOf(q)' = TransitionOf(q)
           /\ entity'[q] = entity[q] /\ kind'[q] = kind[q] /\ previous'[q] = previous[q]
BY DEF Frame, New, TransitionOf

LEMMA InitStoreInv == Init => StoreInv
BY DEF Init, StoreInv, ProgressOK, Saved, Recorded, RecordedIsStored, RowsAreRecorded

LEMMA NextStoreInv == TypeInv /\ StoreInv /\ [Next]_vars => StoreInv'
<1> SUFFICES ASSUME TypeInv, StoreInv, [Next]_vars PROVE StoreInv'
  OBVIOUS
<1> USE DEF StoreInv
<1>f. \A q \in Requests : Frame(q)
  BY NextFrame
<1>l. \A q \in Requests :
        /\ Saved(q)' => Saved(q) \/ Save(q)
        /\ Recorded(q)' => Recorded(q) \/ Record(q)
        /\ Saved(q) \/ Recorded(q) => pc[q] \in Late
  <2> TAKE q \in Requests
  <2>1. Frame(q)
    BY <1>f
  <2>2. pc'[q] = "done" /\ kind'[q] \in WriteKinds =>
          pc[q] \in {"done", "returning"} /\ kind[q] \in WriteKinds
    BY <2>1 DEF Frame, Late, Ended
  <2>3. Saved(q)' => Saved(q) \/ Save(q)
    <3>1. CASE Save(q)
      BY <3>1
    <3>2. CASE ~Save(q)
      <4>1. pc'[q] = "returning" => pc[q] \in {"returning", "record"}
        BY <2>1 DEF Frame, Record
      <4>2. pc'[q] \in {"record", "unrecorded"} => pc'[q] = pc[q]
        BY <2>1, <3>2 DEF Frame
      <4> QED
        BY <2>2, <4>1, <4>2 DEF Saved
    <3> QED
      BY <3>1, <3>2
  <2>4. Recorded(q)' => Recorded(q) \/ Record(q)
    BY <2>1, <2>2 DEF Frame, Recorded
  <2> QED
    BY <2>3, <2>4 DEF Saved, Recorded, Late, Ended
<1>e. ASSUME NEW q \in Requests, NEW e, NEW s, Explains(q, e, s), ~Record(q)
      PROVE  Explains(q, e, s)'
  <2>1. pc[q] \in Late /\ pc'[q] \in {"record", "unrecorded", "faulted"}
    BY <1>e, <1>f DEF Explains, Frame, Late, Ended
  <2> QED
    BY <1>e, <1>f, <2>1, NewKept DEF Explains
<1>w. \A e \in Entities : \A s \in rows[e] :
        \/ \E t \in transitions : t.entity = e /\ t.new = s
        \/ \E q \in Requests : Explains(q, e, s)
  BY DEF RowsAreRecorded, Explains
<1>1. ASSUME NEW r \in Requests, Save(r) PROVE StoreInv'
  <2>1. /\ pc[r] = "save" /\ pc'[r] \in {"record", "unrecorded"}
        /\ rows' = [rows EXCEPT ![entity[r]] = Upsert(@, New(r))]
        /\ transitions' = transitions
    BY <1>1 DEF Save, GoTo, TypeInv, TypeOK
  <2>2. entity[r] \in Entities /\ previous[r] # None /\ rows \in [Entities -> SUBSET State]
    BY <2>1 DEF TypeInv, TypeOK, LocalsOK
  <2>3. \A e \in Entities : \A v : Has(rows[e], v) => Has(rows'[e], v)
    BY <2>1, <2>2, UpsertKeepsVersions
  <2>4. /\ Has(rows'[entity[r]], New(r).version)
        /\ \A e \in Entities : \A s \in rows'[e] :
              s \in rows[e] \/ (e = entity[r] /\ s = New(r))
    BY <2>1, <2>2, UpsertKeepsVersions
  <2>5. New(r)' = New(r) /\ entity'[r] = entity[r] /\ previous'[r] = previous[r]
    BY <1>f, <2>1, NewKept DEF Late
  <2>6. ProgressOK'
    <3> SUFFICES ASSUME NEW q \in Requests
                 PROVE  /\ Saved(q)' => Has(rows[entity[q]], New(q).version)'
                        /\ Recorded(q)' => TransitionOf(q)' \in transitions'
      BY DEF ProgressOK
    <3>1. pc[q] \in Late => entity'[q] = entity[q] /\ New(q)' = New(q)
                            /\ TransitionOf(q)' = TransitionOf(q)
      BY <1>f, NewKept
    <3>2. Saved(q) => entity[q] \in Entities
      BY DEF Saved, TypeInv, LocalsOK
    <3>3. ~Record(q)
      BY <1>1, <2>1 DEF Record, Save, GoTo, TypeInv, TypeOK
    <3>4. CASE q = r
      BY <1>l, <2>1, <2>4, <2>5, <3>3, <3>4 DEF ProgressOK, Recorded, Has
    <3>5. CASE q # r
      <4>1. ~Save(q)
        BY <1>1, <2>1, <3>5 DEF Save, GoTo, TypeInv, TypeOK
      <4> QED
        BY <1>l, <2>1, <2>3, <3>1, <3>2, <3>3, <4>1 DEF ProgressOK, Has
    <3> QED
      BY <3>4, <3>5
  <2>7. RecordedIsStored'
    BY <2>1, <2>3 DEF RecordedIsStored, TypeInv, TypeOK, Transition, Has
  <2>8. RowsAreRecorded'
    <3> SUFFICES ASSUME NEW e \in Entities, NEW s \in rows'[e]
                 PROVE  \/ \E t \in transitions' : t.entity = e /\ t.new = s
                        \/ \E q \in Requests : Explains(q, e, s)'
      BY DEF RowsAreRecorded, Explains
    <3>1. CASE s \in rows[e]
      <4>1. \A q \in Requests : ~Record(q)
        BY <1>1, <2>1 DEF Record, Save, GoTo, TypeInv, TypeOK
      <4> QED
        BY <1>e, <1>w, <2>1, <3>1, <4>1
    <3>2. CASE e = entity[r] /\ s = New(r)
      BY <2>1, <2>2, <2>5, <3>2 DEF Explains
    <3> QED
      BY <2>4, <3>1, <3>2
  <2> QED
    BY <2>6, <2>7, <2>8
<1>2. ASSUME NEW r \in Requests, Record(r) PROVE StoreInv'
  <2>1. /\ pc[r] = "record" /\ rows' = rows
        /\ transitions' = transitions \union {TransitionOf(r)}
        /\ pc' = [pc EXCEPT ![r] = "returning"]
    BY <1>2 DEF Record, GoTo
  <2>2. /\ TransitionOf(r).entity = entity[r] /\ TransitionOf(r).new = New(r)
        /\ TransitionOf(r).after = New(r).version
    BY DEF TransitionOf
  <2>3. \A q \in Requests : ~Save(q) /\ (Record(q) => q = r)
    BY <1>2, <2>1 DEF Record, Save, GoTo, TypeInv, TypeOK
  <2>4. ProgressOK'
    <3> SUFFICES ASSUME NEW q \in Requests
                 PROVE  /\ Saved(q)' => Has(rows[entity[q]], New(q).version)'
                        /\ Recorded(q)' => TransitionOf(q)' \in transitions'
      BY DEF ProgressOK
    <3>1. pc[q] \in Late => entity'[q] = entity[q] /\ New(q)' = New(q)
                            /\ TransitionOf(q)' = TransitionOf(q)
      BY <1>f, NewKept
    <3>2. pc[r] \in Late
      BY <2>1 DEF Late
    <3> QED
      BY <1>l, <2>1, <2>3, <3>1, <3>2 DEF ProgressOK, Has
  <2>5. RecordedIsStored'
    BY <2>1, <2>2 DEF RecordedIsStored, ProgressOK, Saved
  <2>6. RowsAreRecorded'
    <3> SUFFICES ASSUME NEW e \in Entities, NEW s \in rows[e]
                 PROVE  \/ \E t \in transitions' : t.entity = e /\ t.new = s
                        \/ \E q \in Requests : Explains(q, e, s)'
      BY <2>1 DEF RowsAreRecorded, Explains
    <3>1. CASE \E t \in transitions : t.entity = e /\ t.new = s
      BY <2>1, <3>1
    <3>2. ASSUME NEW q \in Requests, Explains(q, e, s)
          PROVE  \/ \E t \in transitions' : t.entity = e /\ t.new = s
                 \/ Explains(q, e, s)'
      <4>1. CASE q = r
        BY <2>1, <2>2, <3>2, <4>1 DEF Explains
      <4>2. CASE q # r
        BY <1>e, <2>3, <3>2, <4>2
      <4> QED
        BY <4>1, <4>2
    <3> QED
      BY <1>w, <3>1, <3>2
  <2> QED
    BY <2>4, <2>5, <2>6
<1>3. ASSUME rows' = rows, transitions' = transitions,
             \A q \in Requests : ~Save(q) /\ ~Record(q)
      PROVE  StoreInv'
  <2>1. ProgressOK'
    <3> SUFFICES ASSUME NEW q \in Requests
                 PROVE  /\ Saved(q)' => Has(rows[entity[q]], New(q).version)'
                        /\ Recorded(q)' => TransitionOf(q)' \in transitions'
      BY DEF ProgressOK
    <3>1. pc[q] \in Late => entity'[q] = entity[q] /\ New(q)' = New(q)
                            /\ TransitionOf(q)' = TransitionOf(q)
      BY <1>f, NewKept
    <3> QED
      BY <1>l, <1>3, <3>1 DEF ProgressOK, Has
  <2>2. RecordedIsStored'
    BY <1>3 DEF RecordedIsStored, Has
  <2>3. RowsAreRecorded'
    BY <1>3, <1>e, <1>w DEF RowsAreRecorded, Explains
  <2> QED
    BY <2>1, <2>2, <2>3
<1> QED
  BY <1>1, <1>2, <1>3, WhoWrites

\* For any number of calls, entities and faults: a recorded transition has its
\* row in the table.
THEOREM RecordedTransitionsAreStored == Spec => []RecordedIsStored
<1>1. StoreInv => RecordedIsStored
  BY DEF StoreInv
<1> QED
  BY <1>1, InitTypeInv, NextTypeInv, InitStoreInv, NextStoreInv, PTL DEF Spec

\* A saved state has a transition that records exactly it, or a call that was
\* stopped between its two writes to PostgreSQL.
THEOREM SavedStatesAreRecorded == Spec => []RowsAreRecorded
<1>1. StoreInv => RowsAreRecorded
  BY DEF StoreInv
<1> QED
  BY <1>1, InitTypeInv, NextTypeInv, InitStoreInv, NextStoreInv, PTL DEF Spec

\* An update that returned is recorded and stored.
THEOREM AcknowledgedUpdatesAreStored == Spec => []AcknowledgedIsStored
<1>1. StoreInv => AcknowledgedIsStored
  BY DEF StoreInv, ProgressOK, Saved, Recorded, AcknowledgedIsStored
<1> QED
  BY <1>1, InitTypeInv, NextTypeInv, InitStoreInv, NextStoreInv, PTL DEF Spec

-----------------------------------------------------------------------------
(***************************************************************************)
(* Lineage: behind every state that is stored, announced or held, and for  *)
(* every version below its own, some update computed a state of that       *)
(* version whose content the state still has.  Both GapsAreFailures and    *)
(* LostUpdatesCollide follow from it; neither is inductive, since a call   *)
(* may write long after its state was overwritten or expired.              *)
(* A caller that assigns "version" breaks the chain of its entity: only    *)
(* the entities that no call does that to have a lineage.                  *)
(***************************************************************************)

Held(e) ==
    Seen(e) \union ({previous[r] : r \in {q \in Requests : entity[q] = e}} \ {None})

Computes(q, e, v, s) ==
    /\ Computed(q, e)
    /\ New(q).version = v
    /\ New(q).data \subseteq s.data

LineageOf(e) ==
    \A s \in Held(e) :
        /\ s.version >= 1
        /\ \A v \in 2..s.version : \E q \in Requests : Computes(q, e, v, s)

Lineage == \A e \in Entities : Unversioned(e) => LineageOf(e)

AfterFirst == \A t \in transitions : Unversioned(t.entity) => t.after >= 2

LineageInv == Lineage /\ AfterFirst

\* What a call is, and which entity it is about, is settled when it is made.
LEMMA CallIsSettled ==
    ASSUME TypeInv, [Next]_vars, NEW q \in Requests, pc[q] # "new"
    PROVE  entity'[q] = entity[q] /\ kind'[q] = kind[q]
<1>1. ASSUME NEW r \in Requests, Call(r)
      PROVE  entity'[q] = entity[q] /\ kind'[q] = kind[q]
  BY <1>1 DEF Call, TypeInv, TypeOK
<1>2. (\E r \in Requests : Call(r)) \/ UNCHANGED <<entity, kind>>
  BY DEF Next, vars, locals, Get, Update, GetHit, GetMiss, QueryEmpty, QueryText,
         QueryRow, Refill, Republish, SetCache, Publish, Save, Record, Return, Fault,
         Expire
<1> QED
  BY <1>1, <1>2

\* An entity that no call has assigned a version of was so before.
LEMMA UnversionedBefore ==
    ASSUME TypeInv, [Next]_vars, NEW e \in Entities, Unversioned(e)'
    PROVE  Unversioned(e)
<1> SUFFICES ASSUME NEW q \in Requests, entity[q] = e PROVE kind[q] # "versioned"
  BY DEF Unversioned
<1>1. pc[q] # "new"
  BY NoneAssumption DEF TypeInv, LocalsOK
<1> QED
  BY <1>1, CallIsSettled DEF Unversioned

\* A state that becomes held was held before, is the default state, or is what
\* an update just wrote.
LEMMA NewlyHeld ==
    ASSUME TypeInv, [Next]_vars, NEW e \in Entities, NEW s \in Held(e)'
    PROVE  \/ s \in Held(e)
           \/ s = DefaultState
           \/ \E r \in Requests :
                 /\ pc[r] \in {"set", "publish", "save"} /\ pc'[r] \in Beyond
                 /\ entity[r] = e
                 /\ s = New(r)
<1> USE DEF TypeInv, Held, Seen
<1>1. ASSUME NEW r \in Requests, Call(r) PROVE s \in Held(e)
  <2>1. previous' = previous /\ previous[r] = None /\ UNCHANGED stores
    BY <1>1 DEF Call, LocalsOK
  <2>2. \A q \in Requests : q # r => entity'[q] = entity[q]
    BY <1>1 DEF Call, TypeOK
  <2> QED
    BY <2>1, <2>2 DEF stores
<1>2. ASSUME NEW r \in Requests, GetHit(r) PROVE s \in Held(e)
  BY <1>2 DEF GetHit, stores, TypeOK, LocalsOK
<1>3. ASSUME NEW r \in Requests, GetMiss(r) PROVE s \in Held(e)
  BY <1>3 DEF GetMiss, stores
<1>4. ASSUME NEW r \in Requests, QueryEmpty(r) PROVE s \in Held(e) \/ s = DefaultState
  BY <1>4 DEF QueryEmpty, stores, TypeOK
<1>5. ASSUME NEW r \in Requests, QueryText(r) PROVE s \in Held(e)
  BY <1>5 DEF QueryText, stores
<1>6. ASSUME NEW r \in Requests, QueryRow(r) PROVE s \in Held(e)
  BY <1>6 DEF QueryRow, stores, TypeOK, LocalsOK
<1>7. ASSUME NEW r \in Requests, Refill(r) PROVE s \in Held(e)
  BY <1>7 DEF Refill, TypeOK, LocalsOK
<1>8. ASSUME NEW r \in Requests, Republish(r) PROVE s \in Held(e)
  BY <1>8 DEF Republish, TypeOK, LocalsOK
<1>9. ASSUME NEW r \in Requests, SetCache(r)
      PROVE  s \in Held(e) \/ (pc[r] = "set" /\ pc'[r] \in Beyond /\ entity[r] = e /\ s = New(r))
  BY <1>9 DEF SetCache, GoTo, TypeOK, LocalsOK, Beyond
<1>10. ASSUME NEW r \in Requests, Publish(r)
       PROVE  s \in Held(e) \/ (pc[r] = "publish" /\ pc'[r] \in Beyond /\ entity[r] = e /\ s = New(r))
  BY <1>10 DEF Publish, GoTo, TypeOK, LocalsOK, Beyond
<1>11. ASSUME NEW r \in Requests, Save(r)
       PROVE  s \in Held(e) \/ (pc[r] = "save" /\ pc'[r] \in Beyond /\ entity[r] = e /\ s = New(r))
  <2>1. /\ pc[r] = "save" /\ pc'[r] \in Beyond
        /\ rows' = [rows EXCEPT ![entity[r]] = Upsert(@, New(r))]
        /\ UNCHANGED <<cache, feed, entity, previous>>
    BY <1>11 DEF Save, GoTo, TypeOK, Beyond
  <2>2. s \in rows'[e] => s \in rows[e] \/ (entity[r] = e /\ s = New(r))
    BY <2>1, UpsertKeepsVersions DEF TypeOK
  <2> QED
    BY <2>1, <2>2
<1>12. ASSUME NEW r \in Requests, Record(r) PROVE s \in Held(e)
  BY <1>12 DEF Record
<1>13. ASSUME NEW r \in Requests, Return(r) PROVE s \in Held(e)
  BY <1>13 DEF Return, stores
<1>14. ASSUME NEW r \in Requests, Fault(r) PROVE s \in Held(e)
  BY <1>14 DEF Fault, stores
<1>15. ASSUME NEW f \in Entities, Expire(f) PROVE s \in Held(e)
  BY <1>15 DEF Expire, locals, TypeOK
<1>16. CASE UNCHANGED vars
  BY <1>16 DEF vars, stores, locals
<1> QED
  BY <1>1, <1>2, <1>3, <1>4, <1>5, <1>6, <1>7, <1>8, <1>9, <1>10, <1>11, <1>12,
     <1>13, <1>14, <1>15, <1>16 DEF Next, Get, Update

\* What an update computed, it has computed for good.
LEMMA ComputesKept ==
    ASSUME NEW q \in Requests, Frame(q), NEW e, NEW v, NEW s, Computes(q, e, v, s)
    PROVE  Computes(q, e, v, s)'
<1>1. pc[q] \in Late /\ pc'[q] \in Beyond
  BY DEF Computes, Computed, Frame, Late, Beyond, Ended
<1>2. New(q)' = New(q) /\ entity'[q] = entity[q] /\ kind'[q] = kind[q] /\ previous'[q] = previous[q]
  BY <1>1, NewKept
<1> QED
  BY <1>1, <1>2 DEF Computes, Computed, Beyond

LEMMA InitLineageInv == TypeOK /\ Init => LineageInv
BY DEF Init, LineageInv, Lineage, LineageOf, AfterFirst, Held, Seen

\* An update's own new state continues the lineage of the state it read.
LEMMA NewHasLineage ==
    ASSUME TypeInv, NEW r \in Requests, pc[r] \in {"set", "publish", "save"},
           LineageOf(entity[r]), kind[r] # "versioned",
           pc'[r] \in Beyond, \A q \in Requests : Frame(q)
    PROVE  /\ New(r).version >= 1
           /\ \A v \in 2..New(r).version :
                 \E q \in Requests : Computes(q, entity[r], v, New(r))'
<1>1. /\ entity[r] \in Entities /\ kind[r] \in WriteKinds
      /\ previous[r] # None /\ previous[r] \in State /\ New(r) \in State
  BY NewType DEF TypeInv, LocalsOK
<1>2. New(r).version = previous[r].version + 1 /\ previous[r].data \subseteq New(r).data
  BY <1>1, AppliedIsNext DEF New
<1>3. New(r)' = New(r) /\ entity'[r] = entity[r] /\ kind'[r] = kind[r] /\ previous'[r] = previous[r]
  BY NewKept DEF Late
<1>4. previous[r] \in Held(entity[r])
  BY <1>1 DEF Held
<1>5. New(r).version >= 1
  <2>1. previous[r].version >= 1
    BY <1>4 DEF LineageOf
  <2> QED
    BY <1>1, <1>2, <2>1 DEF State
<1>6. ASSUME NEW v \in 2..New(r).version
      PROVE  \E q \in Requests : Computes(q, entity[r], v, New(r))'
  <2>1. CASE v = New(r).version
    BY <1>1, <1>3, <2>1 DEF Computes, Computed, Beyond
  <2>2. CASE v # New(r).version
    <3>1. v \in 2..previous[r].version
      BY <1>1, <1>2, <2>2 DEF State
    <3>2. PICK q \in Requests : Computes(q, entity[r], v, previous[r])
      BY <1>4, <3>1 DEF LineageOf
    <3>3. Computes(q, entity[r], v, New(r))
      BY <1>2, <3>2 DEF Computes
    <3>4. Computed(q, entity[r])' /\ (New(q).version = v)' /\ New(q)' = New(q)
      <4>1. pc[q] \in Late /\ pc'[q] \in Beyond
        BY <3>2 DEF Computes, Computed, Frame, Late, Beyond, Ended
      <4>2. New(q)' = New(q) /\ entity'[q] = entity[q] /\ kind'[q] = kind[q]
            /\ previous'[q] = previous[q]
        BY <4>1, NewKept
      <4> QED
        BY <1>3, <3>2, <4>1, <4>2 DEF Computes, Computed, Beyond
    <3> QED
      BY <1>3, <3>3, <3>4 DEF Computes
  <2> QED
    BY <2>1, <2>2
<1> QED
  BY <1>5, <1>6

LEMMA NextLineageInv == TypeInv /\ LineageInv /\ [Next]_vars => LineageInv'
<1> SUFFICES ASSUME TypeInv, LineageInv, [Next]_vars PROVE LineageInv'
  OBVIOUS
<1>f. \A q \in Requests : Frame(q)
  BY NextFrame
<1>1. Lineage'
  <2> SUFFICES ASSUME NEW e \in Entities, Unversioned(e)', NEW s \in Held(e)'
               PROVE  /\ s.version >= 1
                      /\ \A v \in 2..s.version : \E q \in Requests : Computes(q, e, v, s)'
    BY DEF Lineage, LineageOf
  <2>0. Unversioned(e) /\ LineageOf(e)
    BY UnversionedBefore DEF LineageInv, Lineage
  <2>1. CASE s \in Held(e)
    <3> SUFFICES ASSUME NEW v \in 2..s.version
                 PROVE  \E q \in Requests : Computes(q, e, v, s)'
      BY <2>0, <2>1 DEF LineageOf
    <3>1. PICK q \in Requests : Computes(q, e, v, s)
      BY <2>0, <2>1 DEF LineageOf
    <3> QED
      BY <1>f, <3>1, ComputesKept
  <2>2. CASE s = DefaultState
    BY <2>2 DEF DefaultState
  <2>3. ASSUME NEW r \in Requests, pc[r] \in {"set", "publish", "save"},
               pc'[r] \in Beyond, entity[r] = e, s = New(r)
        PROVE  /\ s.version >= 1
               /\ \A v \in 2..s.version : \E q \in Requests : Computes(q, e, v, s)'
    <3>1. kind[r] # "versioned"
      BY <2>0, <2>3 DEF Unversioned
    <3>2. /\ New(r).version >= 1
          /\ \A v \in 2..New(r).version :
                \E q \in Requests : Computes(q, entity[r], v, New(r))'
      BY <1>f, <2>0, <2>3, <3>1, NewHasLineage
    <3>3. New(r)' = New(r) /\ entity'[r] = entity[r]
      BY <1>f, <2>3, NewKept DEF Late
    <3> QED
      BY <2>3, <3>2, <3>3 DEF Computes
  <2> QED
    BY <2>1, <2>2, <2>3, NewlyHeld
<1>2. AfterFirst'
  <2>0. \A t \in transitions : t.entity \in Entities
    BY DEF TypeInv, TypeOK, Transition
  <2>1. ASSUME NEW t \in transitions, Unversioned(t.entity)'
        PROVE  t.after >= 2
    <3>1. Unversioned(t.entity)
      BY <2>0, <2>1, UnversionedBefore
    <3> QED
      BY <3>1 DEF LineageInv, AfterFirst
  <2>2. ASSUME NEW r \in Requests, Record(r),
               NEW e \in Entities, e = entity[r], Unversioned(e)'
        PROVE  TransitionOf(r).after >= 2
    <3>1. previous[r] # None /\ previous[r] \in State
      BY <2>2, NewType DEF Record, TypeInv, LocalsOK
    <3>2. Unversioned(e) /\ LineageOf(e)
      BY <2>2, UnversionedBefore DEF LineageInv, Lineage
    <3>3. kind[r] # "versioned"
      BY <2>2, <3>2 DEF Unversioned
    <3>4. previous[r].version >= 1
      BY <2>2, <3>1, <3>2 DEF LineageOf, Held
    <3> QED
      BY <3>1, <3>3, <3>4, AppliedIsNext DEF TransitionOf, New
  <2>3. ASSUME NEW r \in Requests, Record(r) PROVE AfterFirst'
    <3> SUFFICES ASSUME NEW t \in transitions', Unversioned(t.entity)'
                 PROVE  t.after >= 2
      BY DEF AfterFirst
    <3>1. /\ t \in transitions \/ t = TransitionOf(r)
          /\ TransitionOf(r).entity = entity[r] /\ entity[r] \in Entities
      BY <2>3 DEF Record, TransitionOf, TypeInv, LocalsOK
    <3>2. CASE t = TransitionOf(r)
      <4>1. t.entity = entity[r] /\ t.entity \in Entities
        BY <3>1, <3>2
      <4> QED
        BY <2>2, <2>3, <3>2, <4>1
    <3> QED
      BY <2>1, <3>1, <3>2
  <2>4. CASE transitions' = transitions
    BY <2>1, <2>4 DEF AfterFirst
  <2> QED
    BY <2>3, <2>4, WhoWrites DEF Save
<1> QED
  BY <1>1, <1>2 DEF LineageInv

LEMMA LineageIsInvariant == Spec => [](TypeInv /\ StoreInv /\ LineageInv)
<1>1. Init => TypeInv /\ StoreInv /\ LineageInv
  BY InitTypeInv, InitStoreInv, InitLineageInv DEF TypeInv
<1>2. TypeInv /\ StoreInv /\ LineageInv /\ [Next]_vars => (TypeInv /\ StoreInv /\ LineageInv)'
  BY NextTypeInv, NextStoreInv, NextLineageInv
<1> QED
  BY <1>1, <1>2, PTL DEF Spec

\* The saved history of every entity that no caller assigned a version of has
\* no gap but those left by calls that are under way or that failed.
THEOREM GapsAreExplained == Spec => []GapsAreFailures
<1>1. TypeInv /\ StoreInv /\ LineageInv => GapsAreFailures
  <2> SUFFICES ASSUME TypeInv, StoreInv, LineageInv,
                      NEW e \in Entities, Unversioned(e),
                      NEW s \in Seen(e), NEW v \in 2..s.version
               PROVE  \/ Has(rows[e], v)
                      \/ \E r \in Requests : Owes(r, e, v)
    BY DEF GapsAreFailures
  <2>1. PICK q \in Requests : Computes(q, e, v, s)
    BY DEF LineageInv, Lineage, LineageOf, Held
  <2>2. CASE pc[q] \in {"publish", "save", "faulted"}
    BY <2>1, <2>2 DEF Computes, Computed, Owes
  <2>3. CASE pc[q] \in {"record", "returning", "done", "unrecorded"}
    <3>1. Saved(q)
      BY <2>1, <2>3 DEF Saved, Computes, Computed
    <3> QED
      BY <2>1, <3>1 DEF StoreInv, ProgressOK, Computes, Computed
  <2> QED
    BY <2>1, <2>2, <2>3 DEF Computes, Computed
<1> QED
  BY <1>1, LineageIsInvariant, PTL

\* Of an entity that no caller assigned a version of, an update vanishes from
\* the latest state only if another call computed the same version without it.
THEOREM LostUpdatesAreCollisions == Spec => []LostUpdatesCollide
<1>1. TypeInv /\ StoreInv /\ LineageInv => LostUpdatesCollide
  <2> SUFFICES ASSUME TypeInv, StoreInv, LineageInv,
                      NEW t \in transitions, Unversioned(t.entity),
                      NEW s \in rows[t.entity],
                      IsLatest(s, rows[t.entity]), t.request \notin s.data
               PROVE  \E r \in Requests :
                          /\ Computed(r, t.entity)
                          /\ New(r).version = t.after
                          /\ t.request \notin New(r).data
    BY DEF LostUpdatesCollide
  <2>1. t.entity \in Entities /\ t.after \in Int /\ t.after >= 2 /\ s \in State
    BY DEF TypeInv, TypeOK, Transition, LineageInv, AfterFirst
  <2>2. PICK x \in rows[t.entity] : x.version = t.after
    BY DEF StoreInv, RecordedIsStored, Has
  <2>3. t.after \in 2..s.version
    BY <2>1, <2>2 DEF IsLatest, State
  <2>4. PICK q \in Requests : Computes(q, t.entity, t.after, s)
    BY <2>1, <2>3 DEF LineageInv, Lineage, LineageOf, Held, Seen
  <2> QED
    BY <2>4 DEF Computes
<1> QED
  BY <1>1, LineageIsInvariant, PTL

-----------------------------------------------------------------------------
(***************************************************************************)
(* Who leaves a trace.  A read or a rejected call never gets to write, but *)
(* that is not inductive: what matters is that every state anywhere, also  *)
(* the one in the hands of a call, carries updates of writing calls only.  *)
(***************************************************************************)

Writes(r) == pc[r] # "new" /\ kind[r] \in WriteKinds

TraceInv ==
    /\ \A t \in transitions : t.request \in Requests /\ Writes(t.request)
    /\ \A e \in Entities : \A s \in Held(e) : \A r \in s.data : Writes(r)

\* The kind of a call is settled when it is made.
LEMMA WritesKept ==
    ASSUME TypeInv, [Next]_vars, NEW q \in Requests, Writes(q)
    PROVE  Writes(q)'
<1>1. ASSUME NEW r \in Requests, Call(r) PROVE Writes(q)'
  BY <1>1 DEF Call, GoTo, Writes, TypeInv, TypeOK
<1>2. ASSUME NEW r \in Requests, GetHit(r) PROVE Writes(q)'
  BY <1>2, ResumeType, ConstantsAssumption
  DEF GetHit, GoTo, Writes, TypeInv, TypeOK, LocalsOK
<1>3. ASSUME NEW r \in Requests, QueryEmpty(r) PROVE Writes(q)'
  BY <1>3, ResumeType, ConstantsAssumption
  DEF QueryEmpty, GoTo, Writes, TypeInv, TypeOK, LocalsOK
<1>4. ASSUME NEW r \in Requests, Republish(r) PROVE Writes(q)'
  BY <1>4, ResumeType, ConstantsAssumption
  DEF Republish, GoTo, Writes, TypeInv, TypeOK, LocalsOK
<1>5. ASSUME NEW r \in Requests,
             \/ GetMiss(r) \/ QueryText(r) \/ QueryRow(r) \/ Refill(r)
             \/ Update(r) \/ Fault(r)
      PROVE  Writes(q)'
  BY <1>5 DEF GetMiss, QueryText, QueryRow, Refill, Update, SetCache, Publish, Save,
              Record, Return, Fault, GoTo, Writes, TypeInv, TypeOK
<1>6. ASSUME NEW e \in Entities, Expire(e) PROVE Writes(q)'
  BY <1>6 DEF Expire, locals, Writes
<1>7. CASE UNCHANGED vars
  BY <1>7 DEF vars, locals, Writes
<1> QED
  BY <1>1, <1>2, <1>3, <1>4, <1>5, <1>6, <1>7 DEF Next, Get

LEMMA InitTraceInv == Init => TraceInv
BY DEF Init, TraceInv, Held, Seen

LEMMA NextTraceInv == TypeInv /\ TypeInv' /\ TraceInv /\ [Next]_vars => TraceInv'
<1> SUFFICES ASSUME TypeInv, TypeInv', TraceInv, [Next]_vars PROVE TraceInv'
  OBVIOUS
<1>1. \A q \in Requests : Writes(q) => Writes(q)'
  BY WritesKept
<1>2. ASSUME NEW t \in transitions'
      PROVE  t.request \in Requests /\ Writes(t.request)'
  <2>1. CASE t \in transitions
    BY <1>1, <2>1 DEF TraceInv
  <2>2. ASSUME NEW r \in Requests, Record(r), t = TransitionOf(r)
        PROVE  t.request \in Requests /\ Writes(t.request)'
    <3>1. Writes(r)
      BY <2>2 DEF Record, Writes, TypeInv, LocalsOK
    <3> QED
      BY <1>1, <2>2, <3>1 DEF TransitionOf
  <2> QED
    BY <2>1, <2>2, WhoWrites DEF Save, Record
<1>3. ASSUME NEW e \in Entities, NEW s \in Held(e)', NEW q \in s.data
      PROVE  Writes(q)'
  <2>1. s \in State /\ q \in Requests
    BY DEF Held, Seen, TypeInv, TypeOK, State
  <2>2. CASE s \in Held(e)
    BY <1>1, <2>1, <2>2 DEF TraceInv
  <2>3. CASE s = DefaultState
    BY <2>3 DEF DefaultState
  <2>4. ASSUME NEW r \in Requests, pc[r] \in {"set", "publish", "save"},
               entity[r] = e, s = New(r)
        PROVE  Writes(q)'
    <3>1. Writes(r) /\ previous[r] \in Held(e)
      BY <2>4 DEF Writes, Held, TypeInv, LocalsOK
    <3>2. q \in previous[r].data \/ q = r
      BY <2>4 DEF New, Applied, Assigned
    <3>3. Writes(q)
      BY <3>1, <3>2 DEF TraceInv
    <3> QED
      BY <1>1, <2>1, <3>3
  <2> QED
    BY <2>2, <2>3, <2>4, NewlyHeld
<1> QED
  BY <1>2, <1>3 DEF TraceInv

\* For any number of calls: a call that only reads, or that validation rejects,
\* is in no transition and in no state that is stored, announced or built upon.
THEOREM RejectedCallsLeaveNoTrace == Spec => []RejectedLeavesNoTrace
<1>1. TraceInv => RejectedLeavesNoTrace
  BY DEF TraceInv, RejectedLeavesNoTrace, Writes, Held
<1>2. TypeInv /\ [Next]_vars => TypeInv'
  BY NextTypeInv
<1> QED
  BY <1>1, <1>2, InitTypeInv, InitTraceInv, NextTraceInv, PTL DEF Spec
=============================================================================
