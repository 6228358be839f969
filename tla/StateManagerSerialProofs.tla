---------------------- MODULE StateManagerSerialProofs ----------------------
(***************************************************************************)
(* What StateManager guarantees callers who make one call at a time and    *)
(* none of whom assigns "version": for any number of entities and calls,   *)
(* with faults at every await and a cache that may be lost at any time,    *)
(* and whichever way a row is decoded.                                     *)
(***************************************************************************)
EXTENDS StateManagerProofs

-----------------------------------------------------------------------------
(***************************************************************************)
(* The inductive invariant.  The saved states of an entity are a chain:    *)
(* each has all updates of those before it.  What the cache holds, and     *)
(* what the one active call holds, stands at the end of that chain.        *)
(***************************************************************************)

Before(s, t) == s.version < t.version /\ s.data \subseteq t.data

\* s is as new as everything that was saved; it is newer than all of it.
Covers(s, saved)   == \A x \in saved : x = s \/ Before(x, s)
Succeeds(s, saved) == \A x \in saved : Before(x, s)

IsChain(saved) ==
    /\ \A s, t \in saved : s = t \/ Before(s, t) \/ Before(t, s)
    /\ saved # {} => \E s \in saved : IsLatest(s, saved)

OneAtATime == \A q, r \in Requests : Active(q) /\ Active(r) => q = r

RowsAreChains == \A e \in Entities : IsChain(rows[e])

TransitionsOK ==
    /\ \A t \in transitions : t.new \in rows[t.entity] /\ t.new.version = t.after
    /\ VersionIdentifiesUpdate

\* What the call r finds where it stands.
StandsOK(r) ==
    LET e == entity[r] IN
    /\ pc[r] \in {"pgget", "refill"} => cache[e] = None
    /\ pc[r] \in {"refill", "republish", "set"} => Covers(previous[r], rows[e])
    /\ pc[r] = "refill" => previous[r] \in rows[e]
    /\ pc[r] \in {"republish", "set"} => cache[e] \in {None, previous[r]}
    /\ pc[r] \in {"publish", "save", "record", "returning"} => cache[e] \in {None, New(r)}
    /\ pc[r] \in {"publish", "save"} => Succeeds(New(r), rows[e])
    /\ pc[r] \in {"record", "returning"} => New(r) \in rows[e] /\ Covers(New(r), rows[e])
    /\ pc[r] = "record" =>
          \A t \in transitions : t.entity = e => t.after # New(r).version

SerialInv ==
    /\ OneAtATime
    /\ RowsAreChains
    /\ CacheCoversRows
    /\ TransitionsOK
    /\ \A r \in Requests : StandsOK(r)

-----------------------------------------------------------------------------
(***************************************************************************)
(* Lemmas.                                                                 *)
(***************************************************************************)

\* A saved state that is followed by one which succeeds all of a chain makes a
\* chain again, and none of it is overwritten.
LEMMA UpsertExtendsChain ==
    ASSUME NEW saved \in SUBSET State, IsChain(saved), NEW s \in State, Succeeds(s, saved)
    PROVE  /\ Upsert(saved, s) = saved \union {s}
           /\ IsChain(Upsert(saved, s))
           /\ Covers(s, Upsert(saved, s))
<1>1. \A x \in saved : x.version < s.version /\ x.version # s.version
  BY DEF Succeeds, Before, State
<1>2. Upsert(saved, s) = saved \union {s}
  BY <1>1 DEF Upsert
<1>3. IsLatest(s, saved \union {s})
  BY <1>1 DEF IsLatest, State
<1> QED
  BY <1>2, <1>3 DEF IsChain, Covers, Succeeds

\* The latest state of a chain covers the chain.
LEMMA LatestCovers ==
    ASSUME NEW saved \in SUBSET State, IsChain(saved), NEW s, IsLatest(s, saved)
    PROVE  Covers(s, saved)
BY DEF IsChain, IsLatest, Covers, Before, State

\* An update of a state that covers the chain succeeds all of it.
LEMMA NewSucceeds ==
    ASSUME NEW saved \in SUBSET State, NEW r \in Requests, previous[r] \in State,
           kind[r] # "versioned", Covers(previous[r], saved)
    PROVE  Before(previous[r], New(r)) /\ Succeeds(New(r), saved)
<1>1. /\ New(r).version = previous[r].version + 1
      /\ previous[r].data \subseteq New(r).data
  BY AppliedIsNext DEF New
<1>2. Before(previous[r], New(r))
  BY <1>1 DEF Before, State
<1> QED
  BY <1>1, <1>2 DEF Covers, Succeeds, Before, State

\* Where no caller assigns a version, an update leads to version 2 or above.
LEMMA NewIsAfterFirst ==
    ASSUME "versioned" \notin Kinds, TypeInv, LineageInv,
           NEW r \in Requests, pc[r] \in {"set", "save"}
    PROVE  New(r).version >= 2
<1>1. /\ entity[r] \in Entities /\ kind[r] # "versioned"
      /\ previous[r] # None /\ previous[r] \in State
  BY NewType DEF TypeInv, LocalsOK
<1>2. Unversioned(entity[r])
  <2> SUFFICES ASSUME NEW q \in Requests, entity[q] = entity[r]
               PROVE  kind[q] # "versioned"
    BY DEF Unversioned
  <2>1. pc[q] # "new"
    BY <1>1, NoneAssumption DEF TypeInv, LocalsOK
  <2> QED
    BY <2>1 DEF TypeInv, LocalsOK
<1>3. previous[r].version >= 1
  BY <1>1, <1>2 DEF LineageInv, Lineage, LineageOf, Held
<1> QED
  BY <1>1, <1>3, AppliedIsNext DEF New

\* A call that is not under way claims nothing.
LEMMA InactiveStands ==
    ASSUME NEW r \in Requests, ~Active(r)
    PROVE  StandsOK(r)
BY DEF StandsOK, Active, Awaiting

\* The one active call moves on, and the others stay out of the way.
LEMMA OnlyOneMoves ==
    ASSUME TypeInv, OneAtATime, NEW r \in Requests, Active(r), NEW label, GoTo(r, label)
    PROVE  /\ OneAtATime'
           /\ \A q \in Requests : q # r => StandsOK(q)'
<1>1. \A q \in Requests : q # r => ~Active(q) /\ pc'[q] = pc[q]
  BY DEF OneAtATime, GoTo, TypeInv, TypeOK
<1>2. \A q \in Requests : q # r => ~Active(q)'
  BY <1>1 DEF Active
<1>3. OneAtATime'
  BY <1>2 DEF OneAtATime
<1>4. \A q \in Requests : q # r => StandsOK(q)'
  <2> SUFFICES ASSUME NEW q \in Requests, q # r PROVE StandsOK(q)'
    OBVIOUS
  <2>1. ~(pc'[q] \in Awaiting)
    BY <1>2 DEF Active
  <2> QED
    BY <2>1 DEF StandsOK, Awaiting
<1> QED
  BY <1>3, <1>4

\* What holds of the stores holds as long as nothing writes them.
StoresOK == RowsAreChains /\ CacheCoversRows /\ TransitionsOK

LEMMA StoresUntouched == StoresOK /\ UNCHANGED stores => StoresOK'
BY DEF StoresOK, stores, RowsAreChains, CacheCoversRows, TransitionsOK,
       VersionIdentifiesUpdate

LEMMA InitSerialInv == Init => SerialInv
BY DEF Init, SerialInv, OneAtATime, Active, Awaiting, RowsAreChains, IsChain,
       CacheCoversRows, TransitionsOK, VersionIdentifiesUpdate, StandsOK

LEMMA NextSerialInv ==
    ASSUME Serial, "versioned" \notin Kinds
    PROVE  TypeInv /\ SerialInv /\ [Next]_vars => SerialInv'
<1> SUFFICES ASSUME TypeInv, SerialInv, [Next]_vars PROVE SerialInv'
  OBVIOUS
<1>s. StoresOK
  BY DEF SerialInv, StoresOK
<1>t. /\ \A r \in Requests : pc[r] # "new" => entity[r] \in Entities /\ kind[r] \in AllKinds
                                                /\ kind[r] # "versioned"
      /\ \A r \in Requests : previous[r] \in State \union {None}
      /\ \A e \in Entities : rows[e] \in SUBSET State /\ cache[e] \in State \union {None}
  BY ConstantsAssumption DEF TypeInv, TypeOK, LocalsOK
<1>g. ASSUME NEW r \in Requests, Active(r), NEW label, GoTo(r, label), StoresOK',
             StandsOK(r)'
      PROVE  SerialInv'
  BY <1>g, OnlyOneMoves DEF SerialInv, StoresOK
<1>1. ASSUME NEW r \in Requests, Call(r) PROVE SerialInv'
  <2>1. \A q \in Requests : ~Active(q)
    BY <1>1 DEF Call
  <2>2. \A q \in Requests : q # r => ~Active(q)'
    BY <1>1, <2>1 DEF Call, GoTo, Active, TypeInv, TypeOK
  <2>3. pc'[r] = "get"
    BY <1>1 DEF Call, GoTo, TypeInv, TypeOK
  <2>4. StandsOK(r)'
    BY <2>3 DEF StandsOK
  <2>5. OneAtATime'
    BY <2>2 DEF OneAtATime
  <2>6. \A q \in Requests : StandsOK(q)'
    BY <2>2, <2>4 DEF StandsOK, Active, Awaiting
  <2> QED
    BY <1>1, <1>s, <2>5, <2>6, StoresUntouched DEF Call, SerialInv, StoresOK
<1>2. ASSUME NEW r \in Requests, GetHit(r) PROVE SerialInv'
  <2>1. /\ pc[r] = "get" /\ entity[r] \in Entities /\ kind[r] \in AllKinds
        /\ cache[entity[r]] # None /\ cache[entity[r]] \in State
    BY <1>2, <1>t DEF GetHit
  <2>2. Resume(r) \in {"done", "rejected", "set"}
    BY <2>1, ResumeType DEF TypeInv
  <2>3. pc'[r] \in {"done", "rejected", "set"} /\ previous'[r] = cache[entity[r]]
    BY <1>2, <2>2 DEF GetHit, GoTo, TypeInv, TypeOK
  <2>4. Covers(cache[entity[r]], rows[entity[r]])
    BY <2>1 DEF SerialInv, CacheCoversRows, Covers, Before
  <2>5. StandsOK(r)'
    BY <1>2, <2>3, <2>4 DEF GetHit, StandsOK, stores, Covers
  <2> QED
    BY <1>2, <1>g, <1>s, <2>5, StoresUntouched DEF GetHit, Active, Awaiting
<1>3. ASSUME NEW r \in Requests, GetMiss(r) PROVE SerialInv'
  <2>1. pc'[r] = "pgget" /\ UNCHANGED <<cache, entity>> /\ cache[entity[r]] = None
    BY <1>3 DEF GetMiss, GoTo, TypeInv, TypeOK, stores
  <2>2. StandsOK(r)'
    BY <2>1 DEF StandsOK
  <2> QED
    BY <1>3, <1>g, <1>s, <2>2, StoresUntouched DEF GetMiss, Active, Awaiting
<1>4. ASSUME NEW r \in Requests, QueryEmpty(r) PROVE SerialInv'
  <2>1. pc[r] = "pgget" /\ rows[entity[r]] = {} /\ cache[entity[r]] = None
        /\ kind[r] \in AllKinds
    BY <1>4, <1>t DEF QueryEmpty, SerialInv, StandsOK
  <2>2. pc'[r] \in {"done", "rejected", "set"}
    BY <1>4, <2>1, ResumeType DEF QueryEmpty, GoTo, TypeInv, TypeOK
  <2>3. UNCHANGED <<cache, rows, entity>>
    BY <1>4 DEF QueryEmpty, stores
  <2>4. StandsOK(r)'
    BY <2>1, <2>2, <2>3 DEF StandsOK, Covers
  <2> QED
    BY <1>4, <1>g, <1>s, <2>4, StoresUntouched DEF QueryEmpty, Active, Awaiting
<1>5. ASSUME NEW r \in Requests, QueryText(r) PROVE SerialInv'
  <2>1. pc'[r] = "undecoded"
    BY <1>5 DEF QueryText, GoTo, TypeInv, TypeOK
  <2>2. StandsOK(r)'
    BY <2>1 DEF StandsOK
  <2> QED
    BY <1>5, <1>g, <1>s, <2>2, StoresUntouched DEF QueryText, Active, Awaiting
<1>6. ASSUME NEW r \in Requests, QueryRow(r) PROVE SerialInv'
  <2>1. PICK s \in rows[entity[r]] :
           IsLatest(s, rows[entity[r]]) /\ previous' = [previous EXCEPT ![r] = s]
    BY <1>6 DEF QueryRow
  <2>2. pc[r] = "pgget" /\ entity[r] \in Entities /\ cache[entity[r]] = None
    BY <1>6, <1>t DEF QueryRow, SerialInv, StandsOK
  <2>3. Covers(s, rows[entity[r]])
    BY <1>t, <2>1, <2>2, LatestCovers DEF SerialInv, RowsAreChains
  <2>4. pc'[r] = "refill" /\ previous'[r] = s /\ UNCHANGED <<cache, rows, entity>>
    BY <1>6, <2>1 DEF QueryRow, GoTo, stores, TypeInv, TypeOK
  <2>5. StandsOK(r)'
    BY <2>1, <2>2, <2>3, <2>4 DEF StandsOK, Covers
  <2> QED
    BY <1>6, <1>g, <1>s, <2>5, StoresUntouched DEF QueryRow, Active, Awaiting
<1>7. ASSUME NEW r \in Requests, Refill(r) PROVE SerialInv'
  <2>1. /\ pc[r] = "refill" /\ entity[r] \in Entities
        /\ Covers(previous[r], rows[entity[r]])
    BY <1>7, <1>t DEF Refill, SerialInv, StandsOK
  <2>2. /\ pc'[r] = "republish" /\ UNCHANGED <<rows, transitions, entity, previous>>
        /\ cache' = [cache EXCEPT ![entity[r]] = previous[r]]
        /\ cache'[entity[r]] = previous[r]
    BY <1>7, <2>1 DEF Refill, GoTo, TypeInv, TypeOK
  <2>3. StandsOK(r)'
    BY <2>1, <2>2 DEF StandsOK, Covers
  <2>4. CacheCoversRows'
    BY <1>s, <2>1, <2>2 DEF CacheCoversRows, StoresOK, Covers, Before, TypeInv, TypeOK
  <2>5. StoresOK'
    BY <1>s, <2>2, <2>4
    DEF StoresOK, RowsAreChains, TransitionsOK, VersionIdentifiesUpdate
  <2> QED
    BY <1>7, <1>g, <2>3, <2>5 DEF Refill, Active, Awaiting
<1>8. ASSUME NEW r \in Requests, Republish(r) PROVE SerialInv'
  <2>1. /\ pc[r] = "republish" /\ kind[r] \in AllKinds
        /\ Covers(previous[r], rows[entity[r]]) /\ cache[entity[r]] \in {None, previous[r]}
    BY <1>8, <1>t DEF Republish, SerialInv, StandsOK
  <2>2. pc'[r] \in {"done", "rejected", "set"}
    BY <1>8, <2>1, ResumeType DEF Republish, GoTo, TypeInv, TypeOK
  <2>3. UNCHANGED <<cache, rows, transitions, entity, previous>>
    BY <1>8 DEF Republish
  <2>4. StandsOK(r)'
    BY <2>1, <2>2, <2>3 DEF StandsOK, Covers
  <2>5. StoresOK'
    BY <1>s, <2>3 DEF StoresOK, CacheCoversRows, RowsAreChains, TransitionsOK,
                      VersionIdentifiesUpdate
  <2> QED
    BY <1>8, <1>g, <2>4, <2>5 DEF Republish, Active, Awaiting
<1>9. ASSUME NEW r \in Requests, SetCache(r) PROVE SerialInv'
  <2>1. /\ pc[r] = "set" /\ entity[r] \in Entities /\ kind[r] # "versioned"
        /\ previous[r] \in State /\ Covers(previous[r], rows[entity[r]])
    BY <1>9, <1>t DEF SetCache, SerialInv, StandsOK, TypeInv, LocalsOK
  <2>2. Succeeds(New(r), rows[entity[r]])
    BY <1>t, <2>1, NewSucceeds
  <2>3. /\ pc'[r] = "publish" /\ UNCHANGED <<rows, transitions, entity, kind, previous>>
        /\ cache' = [cache EXCEPT ![entity[r]] = New(r)]
        /\ cache'[entity[r]] = New(r)
    BY <1>9, <2>1 DEF SetCache, GoTo, TypeInv, TypeOK
  <2>4. New(r)' = New(r)
    BY <2>3 DEF New
  <2>5. StandsOK(r)'
    BY <2>2, <2>3, <2>4 DEF StandsOK, Succeeds
  <2>6. CacheCoversRows'
    BY <1>s, <2>1, <2>2, <2>3
    DEF CacheCoversRows, StoresOK, Succeeds, Before, TypeInv, TypeOK
  <2>7. StoresOK'
    BY <1>s, <2>3, <2>6
    DEF StoresOK, RowsAreChains, TransitionsOK, VersionIdentifiesUpdate
  <2> QED
    BY <1>9, <1>g, <2>5, <2>7 DEF SetCache, Active, Awaiting
<1>10. ASSUME NEW r \in Requests, Publish(r) PROVE SerialInv'
  <2>1. /\ pc[r] = "publish" /\ cache[entity[r]] \in {None, New(r)}
        /\ Succeeds(New(r), rows[entity[r]])
    BY <1>10 DEF Publish, SerialInv, StandsOK
  <2>2. pc'[r] = "save" /\ UNCHANGED <<cache, rows, transitions, entity, kind, previous>>
    BY <1>10 DEF Publish, GoTo, TypeInv, TypeOK
  <2>3. New(r)' = New(r)
    BY <2>2 DEF New
  <2>4. StandsOK(r)'
    BY <2>1, <2>2, <2>3 DEF StandsOK, Succeeds
  <2>5. StoresOK'
    BY <1>s, <2>2 DEF StoresOK, CacheCoversRows, RowsAreChains, TransitionsOK,
                      VersionIdentifiesUpdate
  <2> QED
    BY <1>10, <1>g, <2>4, <2>5 DEF Publish, Active, Awaiting
<1>11. ASSUME NEW r \in Requests, Save(r) PROVE SerialInv'
  <2> DEFINE e == entity[r]
  <2>1. /\ pc[r] = "save" /\ e \in Entities /\ cache[e] \in {None, New(r)}
        /\ Succeeds(New(r), rows[e]) /\ New(r) \in State
    BY <1>11, <1>t, NewType DEF Save, SerialInv, StandsOK, TypeInv, LocalsOK
  <2>2. /\ pc'[r] \in {"record", "unrecorded"}
        /\ UNCHANGED <<cache, transitions, entity, kind, previous>>
        /\ rows' = [rows EXCEPT ![e] = Upsert(@, New(r))]
        /\ rows'[e] = Upsert(rows[e], New(r))
    BY <1>11, <2>1 DEF Save, GoTo, TypeInv, TypeOK
  <2>3. New(r)' = New(r)
    BY <2>2 DEF New
  <2>4. /\ rows'[e] = rows[e] \union {New(r)}
        /\ IsChain(rows'[e]) /\ Covers(New(r), rows'[e])
    BY <1>t, <2>1, <2>2, UpsertExtendsChain DEF SerialInv, RowsAreChains
  <2>5. \A f \in Entities : f # e => rows'[f] = rows[f]
    BY <2>2 DEF TypeInv, TypeOK
  <2>6. RowsAreChains'
    BY <1>s, <2>4, <2>5 DEF StoresOK, RowsAreChains
  <2>7. CacheCoversRows'
    <3> SUFFICES ASSUME NEW f \in Entities, NEW s \in rows'[f], cache[f] # None
                 PROVE  cache[f] = s \/ Before(s, cache[f])
      BY <2>2 DEF CacheCoversRows, Before
    <3>1. CASE f = e
      BY <2>1, <2>4, <3>1 DEF Covers
    <3>2. CASE f # e
      BY <1>s, <2>5, <3>2 DEF StoresOK, CacheCoversRows, Before
    <3> QED
      BY <3>1, <3>2
  <2>8. TransitionsOK'
    <3>1. \A t \in transitions : t.entity \in Entities
      BY DEF TypeInv, TypeOK, Transition
    <3> QED
      BY <1>s, <2>2, <2>4, <2>5, <3>1 DEF StoresOK, TransitionsOK, VersionIdentifiesUpdate
  <2>9. \A t \in transitions : t.entity = e => t.after # New(r).version
    <3> SUFFICES ASSUME NEW t \in transitions, t.entity = e
                 PROVE  t.after # New(r).version
      OBVIOUS
    <3>1. t.new \in rows[e] /\ t.new.version = t.after
      BY <1>s DEF StoresOK, TransitionsOK
    <3>2. t.new.version < New(r).version /\ t.new \in State
      BY <1>t, <2>1, <3>1 DEF Succeeds, Before
    <3> QED
      BY <2>1, <3>1, <3>2 DEF State
  <2>10. StandsOK(r)'
    BY <2>1, <2>2, <2>3, <2>4, <2>9 DEF StandsOK
  <2> QED
    BY <1>11, <1>g, <2>6, <2>7, <2>8, <2>10 DEF Save, StoresOK, Active, Awaiting
<1>12. ASSUME NEW r \in Requests, Record(r) PROVE SerialInv'
  <2>1. /\ pc[r] = "record" /\ New(r) \in rows[entity[r]]
        /\ Covers(New(r), rows[entity[r]]) /\ cache[entity[r]] \in {None, New(r)}
        /\ \A t \in transitions : t.entity = entity[r] => t.after # New(r).version
    BY <1>12 DEF Record, SerialInv, StandsOK
  <2>2. /\ pc'[r] = "returning" /\ UNCHANGED <<cache, rows, entity, kind, previous>>
        /\ transitions' = transitions \union {TransitionOf(r)}
    BY <1>12 DEF Record, GoTo, TypeInv, TypeOK
  <2>3. New(r)' = New(r)
    BY <2>2 DEF New
  <2>4. StandsOK(r)'
    BY <2>1, <2>2, <2>3 DEF StandsOK, Covers
  <2>5. /\ TransitionOf(r).entity = entity[r] /\ TransitionOf(r).new = New(r)
        /\ TransitionOf(r).after = New(r).version
    BY DEF TransitionOf
  <2>6. TransitionsOK'
    BY <1>s, <2>1, <2>2, <2>5 DEF StoresOK, TransitionsOK, VersionIdentifiesUpdate
  <2>7. StoresOK'
    BY <1>s, <2>2, <2>6 DEF StoresOK, CacheCoversRows, RowsAreChains
  <2> QED
    BY <1>12, <1>g, <2>4, <2>7 DEF Record, Active, Awaiting
<1>13. ASSUME NEW r \in Requests, Return(r) PROVE SerialInv'
  <2>1. pc'[r] = "done"
    BY <1>13 DEF Return, GoTo, TypeInv, TypeOK
  <2>2. StandsOK(r)'
    BY <2>1 DEF StandsOK
  <2> QED
    BY <1>13, <1>g, <1>s, <2>2, StoresUntouched DEF Return, Active, Awaiting
<1>14. ASSUME NEW r \in Requests, Fault(r) PROVE SerialInv'
  <2>1. pc'[r] = "faulted"
    BY <1>14 DEF Fault, GoTo, TypeInv, TypeOK
  <2>2. StandsOK(r)'
    BY <2>1 DEF StandsOK
  <2> QED
    BY <1>14, <1>g, <1>s, <2>2, StoresUntouched DEF Fault
<1>15. ASSUME NEW e \in Entities, Expire(e) PROVE SerialInv'
  <2>1. /\ UNCHANGED <<rows, transitions, pc, entity, kind, previous>>
        /\ \A f \in Entities : cache'[f] = cache[f] \/ cache'[f] = None
    BY <1>15 DEF Expire, locals, TypeInv, TypeOK
  <2>2. OneAtATime' /\ StoresOK'
    BY <1>s, <2>1 DEF SerialInv, OneAtATime, Active, StoresOK, RowsAreChains,
                      CacheCoversRows, TransitionsOK, VersionIdentifiesUpdate
  <2>3. ASSUME NEW r \in Requests PROVE StandsOK(r)'
    <3>1. New(r)' = New(r)
      BY <2>1 DEF New
    <3>2. pc[r] \in Awaiting => cache'[entity[r]] \in {None, cache[entity[r]]}
      BY <1>t, <2>1 DEF Awaiting
    <3> QED
      BY <2>1, <3>1, <3>2 DEF SerialInv, StandsOK, Covers, Succeeds, Awaiting
  <2> QED
    BY <2>2, <2>3 DEF SerialInv, StoresOK
<1>16. CASE UNCHANGED vars
  <2>1. UNCHANGED stores /\ UNCHANGED <<pc, entity, kind, previous>>
    BY <1>16 DEF vars, locals
  <2>2. StoresOK' /\ OneAtATime'
    BY <1>s, <2>1, StoresUntouched DEF SerialInv, OneAtATime, Active
  <2>3. ASSUME NEW r \in Requests PROVE StandsOK(r)'
    BY <2>1 DEF SerialInv, StandsOK, stores, New, Covers, Succeeds
  <2> QED
    BY <2>2, <2>3 DEF SerialInv, StoresOK
<1> QED
  BY <1>1, <1>2, <1>3, <1>4, <1>5, <1>6, <1>7, <1>8, <1>9, <1>10, <1>11, <1>12,
     <1>13, <1>14, <1>15, <1>16 DEF Next, Get, Update

LEMMA SerialInvariant ==
    ASSUME Serial, "versioned" \notin Kinds
    PROVE  Spec => [](TypeInv /\ SerialInv)
<1>1. Init => TypeInv /\ SerialInv
  BY InitTypeInv, InitSerialInv
<1>2. TypeInv /\ SerialInv /\ [Next]_vars => (TypeInv /\ SerialInv)'
  BY NextTypeInv, NextSerialInv
<1> QED
  BY <1>1, <1>2, PTL DEF Spec

-----------------------------------------------------------------------------
(***************************************************************************)
(* The invariants.                                                         *)
(***************************************************************************)

\* Reading the cache before the table is safe: a cached state is the latest row
\* or extends all rows.
THEOREM CacheIsNeverBehind ==
    ASSUME Serial, "versioned" \notin Kinds
    PROVE  Spec => []CacheCoversRows
<1>1. SerialInv => CacheCoversRows
  BY DEF SerialInv
<1> QED
  BY <1>1, SerialInvariant, PTL

\* The latest saved state of an entity holds every update that was recorded.
THEOREM NoRecordedUpdateIsLost ==
    ASSUME Serial, "versioned" \notin Kinds
    PROVE  Spec => []NoLostUpdate
<1>1. TypeInv /\ SerialInv => NoLostUpdate
  <2> SUFFICES ASSUME TypeInv, SerialInv, NEW t \in transitions,
                      NEW s \in rows[t.entity], IsLatest(s, rows[t.entity])
               PROVE  t.new.data \subseteq s.data
    BY DEF NoLostUpdate
  <2>1. t.entity \in Entities /\ rows[t.entity] \in SUBSET State
    BY DEF TypeInv, TypeOK, Transition
  <2>2. t.new \in rows[t.entity]
    BY DEF SerialInv, TransitionsOK
  <2>3. Covers(s, rows[t.entity])
    BY <2>1, LatestCovers DEF SerialInv, RowsAreChains
  <2> QED
    BY <2>2, <2>3 DEF Covers, Before
<1> QED
  BY <1>1, SerialInvariant, PTL

\* No two recorded updates of an entity share a version.
THEOREM VersionsIdentifyUpdates ==
    ASSUME Serial, "versioned" \notin Kinds
    PROVE  Spec => []VersionIdentifiesUpdate
<1>1. SerialInv => VersionIdentifiesUpdate
  BY DEF SerialInv, TransitionsOK
<1> QED
  BY <1>1, SerialInvariant, PTL

\* No step changes or removes a saved state.
THEOREM SavedHistoryIsKept ==
    ASSUME Serial, "versioned" \notin Kinds
    PROVE  Spec => HistoryIsKept
<1>1. TypeInv /\ SerialInv /\ [Next]_vars
         => [\A e \in Entities : rows[e] \subseteq rows'[e]]_rows
  <2> SUFFICES ASSUME TypeInv, SerialInv, [Next]_vars, rows' # rows, NEW e \in Entities
               PROVE  rows[e] \subseteq rows'[e]
    OBVIOUS
  <2>1. PICK r \in Requests : Save(r)
    BY WhoWrites DEF Record
  <2>2. /\ entity[r] \in Entities /\ New(r) \in State
        /\ Succeeds(New(r), rows[entity[r]]) /\ IsChain(rows[entity[r]])
        /\ rows[entity[r]] \in SUBSET State
    BY <2>1, NewType
    DEF Save, SerialInv, StandsOK, RowsAreChains, TypeInv, TypeOK, LocalsOK
  <2>3. Upsert(rows[entity[r]], New(r)) = rows[entity[r]] \union {New(r)}
    BY <2>2, UpsertExtendsChain
  <2> QED
    BY <2>1, <2>2, <2>3 DEF Save, TypeInv, TypeOK
<1> QED
  BY <1>1, SerialInvariant, PTL DEF Spec, HistoryIsKept

-----------------------------------------------------------------------------
(***************************************************************************)
(* The refinement: the manager over its two stores is one versioned state  *)
(* per entity.  An update takes effect with its SETEX and becomes durable  *)
(* with its INSERT; the rest of a call changes nothing of it.              *)
(***************************************************************************)

\* What PostgreSQL answers with, as a function of the saved states.
Top(saved) ==
    IF saved = {} THEN DefaultState ELSE CHOOSE s \in saved : IsLatest(s, saved)

LEMMA DurableIsTop ==
    ASSUME NEW e
    PROVE  Durable(e) = Top(rows[e]) /\ Durable(e)' = Top(rows'[e])
BY DEF Durable, Top, IsLatest

\* The top of a chain is the state that covers it.
LEMMA TopIs ==
    ASSUME NEW saved \in SUBSET State, NEW s \in saved, Covers(s, saved)
    PROVE  Top(saved) = s
<1>1. IsLatest(s, saved)
  BY DEF IsLatest, Covers, Before, State
<1>2. ASSUME NEW t, IsLatest(t, saved) PROVE t = s
  BY <1>2 DEF IsLatest, Covers, Before, State
<1> QED
  BY <1>1, <1>2 DEF Top

LEMMA TopType ==
    ASSUME NEW saved \in SUBSET State, IsChain(saved)
    PROVE  /\ Top(saved) \in State
           /\ saved # {} => Top(saved) \in saved
<1>1. CASE saved = {}
  BY <1>1, DefaultIsState DEF Top
<1>2. CASE saved # {}
  <2>1. PICK s \in saved : IsLatest(s, saved)
    BY <1>2 DEF IsChain
  <2>2. Top(saved) = s
    BY <2>1, LatestCovers, TopIs
  <2> QED
    BY <2>2
<1> QED
  BY <1>1, <1>2

\* An updated state that succeeds all of a chain comes after its top.
LEMMA SucceedsTop ==
    ASSUME NEW saved \in SUBSET State, IsChain(saved),
           NEW s \in State, Succeeds(s, saved), s.version >= 2
    PROVE  Before(Top(saved), s)
<1>1. CASE saved = {}
  BY <1>1 DEF Top, DefaultState, Before, State
<1>2. CASE saved # {}
  BY <1>2, TopType DEF Succeeds
<1> QED
  BY <1>1, <1>2

\* Durable and Current depend on the two stores alone.
LEMMA MappingKept ==
    ASSUME NEW e, rows'[e] = rows[e]
    PROVE  /\ Durable(e)' = Durable(e)
           /\ cache'[e] = cache[e] => Current(e)' = Current(e)
BY DurableIsTop DEF Current

LEMMA InitRefines == Init => Abstract!Init
BY DEF Init, Abstract!Init, Current, Durable

\* A step of one entity, as the abstract specification sees it.
LEMMA StepRefines ==
    ASSUME NEW e \in Entities,
           \A f \in Entities \ {e} : cache'[f] = cache[f] /\ rows'[f] = rows[f],
           \/ Before(Current(e), Current(e)') /\ Durable(e)' = Durable(e)
           \/ /\ Before(Durable(e), Durable(e)') /\ Current(e)' = Durable(e)'
              /\ Current(e)' = Current(e) \/ Current(e) = Durable(e)
           \/ Current(e)' = Durable(e) /\ Durable(e)' = Durable(e),
           Current(e) \in State, Current(e)' \in State,
           Durable(e) \in State, Durable(e)' \in State
    PROVE  Abstract!Next
<1>1. \A f \in Entities \ {e} : Current(f)' = Current(f) /\ Durable(f)' = Durable(f)
  BY MappingKept
<1>2. Abstract!Others(e)
  BY <1>1 DEF Abstract!Others
<1>3. Abstract!Advance(e) \/ Abstract!Persist(e) \/ Abstract!Lose(e)
  BY DEF Abstract!Advance, Abstract!Persist, Abstract!Lose, Abstract!Extends, Before, State
<1> QED
  BY <1>2, <1>3 DEF Abstract!Next

LEMMA NextRefines ==
    ASSUME Serial, "versioned" \notin Kinds
    PROVE  TypeInv /\ SerialInv /\ LineageInv /\ TypeInv' /\ SerialInv' /\ [Next]_vars
              => [Abstract!Next]_<<[e \in Entities |-> Current(e)], [e \in Entities |-> Durable(e)]>>
<1> DEFINE C == [e \in Entities |-> Current(e)]
           D == [e \in Entities |-> Durable(e)]
<1> SUFFICES ASSUME TypeInv, SerialInv, LineageInv, TypeInv', SerialInv', [Next]_vars
             PROVE  Abstract!Next \/ (C' = C /\ D' = D)
  OBVIOUS
<1>t. \A e \in Entities :
         /\ rows[e] \in SUBSET State /\ IsChain(rows[e])
         /\ rows'[e] \in SUBSET State /\ IsChain(rows'[e])
         /\ cache[e] \in State \union {None} /\ cache'[e] \in State \union {None}
  BY DEF SerialInv, RowsAreChains, TypeInv, TypeOK
<1>d. \A e \in Entities : Durable(e) \in State /\ Durable(e)' \in State
                          /\ Current(e) \in State /\ Current(e)' \in State
  <2> TAKE e \in Entities
  <2>1. Durable(e) \in State
    BY <1>t, DurableIsTop, TopType
  <2>2. Durable(e)' \in State
    BY <1>t, DurableIsTop, TopType
  <2> QED
    BY <1>t, <2>1, <2>2 DEF Current
<1>u. ASSUME UNCHANGED <<cache, rows>> PROVE C' = C /\ D' = D
  BY <1>u, MappingKept
<1>1. ASSUME NEW r \in Requests, Refill(r) PROVE C' = C /\ D' = D
  <2>1. /\ entity[r] \in Entities /\ cache[entity[r]] = None /\ previous[r] # None
        /\ previous[r] \in rows[entity[r]] /\ Covers(previous[r], rows[entity[r]])
    BY <1>1 DEF Refill, SerialInv, StandsOK, TypeInv, LocalsOK
  <2>2. Durable(entity[r]) = previous[r]
    BY <1>t, <2>1, DurableIsTop, TopIs
  <2>3. rows' = rows /\ cache' = [cache EXCEPT ![entity[r]] = previous[r]]
    BY <1>1 DEF Refill
  <2>4. \A e \in Entities : Durable(e)' = Durable(e)
    BY <2>3, MappingKept
  <2>5. \A e \in Entities : Current(e)' = Current(e)
    <3> SUFFICES ASSUME NEW e \in Entities PROVE Current(e)' = Current(e)
      OBVIOUS
    <3>1. CASE e = entity[r]
      BY <2>1, <2>2, <2>3, <2>4, <3>1 DEF Current, TypeInv, TypeOK
    <3>2. CASE e # entity[r]
      BY <2>3, <3>2, MappingKept DEF TypeInv, TypeOK
    <3> QED
      BY <3>1, <3>2
  <2> QED
    BY <2>4, <2>5
<1>2. ASSUME NEW r \in Requests, SetCache(r), NEW e \in Entities, e = entity[r]
      PROVE  Abstract!Next
  <2>1. /\ previous[r] \in State /\ previous[r] # None
        /\ kind[r] # "versioned" /\ New(r) \in State /\ New(r) # None
        /\ Covers(previous[r], rows[e]) /\ cache[e] \in {None, previous[r]}
    BY <1>2, NewType, NoneAssumption DEF SetCache, SerialInv, StandsOK, TypeInv, LocalsOK
  <2>2. rows' = rows /\ cache' = [cache EXCEPT ![e] = New(r)]
    BY <1>2 DEF SetCache
  <2>3. Before(previous[r], New(r)) /\ Succeeds(New(r), rows[e]) /\ New(r).version >= 2
    BY <1>2, <1>t, <2>1, NewSucceeds, NewIsAfterFirst DEF SetCache
  <2>4. Before(Durable(e), New(r))
    BY <1>t, <2>1, <2>3, DurableIsTop, SucceedsTop
  <2>5. Current(e)' = New(r)
    BY <2>1, <2>2 DEF Current, TypeInv, TypeOK
  <2>6. Before(Current(e), New(r))
    BY <2>1, <2>3, <2>4 DEF Current
  <2>7. Durable(e)' = Durable(e)
    BY <2>2, MappingKept
  <2>8. \A f \in Entities \ {e} : cache'[f] = cache[f] /\ rows'[f] = rows[f]
    BY <2>2 DEF TypeInv, TypeOK
  <2> QED
    BY <1>d, <2>1, <2>5, <2>6, <2>7, <2>8, StepRefines
<1>3. ASSUME NEW r \in Requests, Save(r), NEW e \in Entities, e = entity[r]
      PROVE  Abstract!Next
  <2>1. /\ previous[r] \in State /\ kind[r] # "versioned"
        /\ New(r) \in State /\ New(r) # None
        /\ Succeeds(New(r), rows[e]) /\ cache[e] \in {None, New(r)}
    BY <1>3, NewType, NoneAssumption DEF Save, SerialInv, StandsOK, TypeInv, LocalsOK
  <2>2. cache' = cache /\ rows' = [rows EXCEPT ![e] = Upsert(@, New(r))]
    BY <1>3 DEF Save
  <2>3. New(r).version >= 2
    BY <1>3, NewIsAfterFirst DEF Save
  <2>4. Before(Durable(e), New(r))
    BY <1>t, <2>1, <2>3, DurableIsTop, SucceedsTop
  <2>5. New(r) \in rows'[e] /\ Covers(New(r), rows'[e])
    BY <1>t, <2>1, <2>2, UpsertExtendsChain DEF TypeInv, TypeOK
  <2>6. Durable(e)' = New(r)
    BY <1>t, <2>5, DurableIsTop, TopIs
  <2>7. Current(e)' = New(r) /\ (Current(e) = New(r) \/ Current(e) = Durable(e))
    BY <2>1, <2>2, <2>6 DEF Current
  <2>8. \A f \in Entities \ {e} : cache'[f] = cache[f] /\ rows'[f] = rows[f]
    BY <2>2 DEF TypeInv, TypeOK
  <2> QED
    BY <1>d, <2>1, <2>4, <2>6, <2>7, <2>8, StepRefines
<1>4. ASSUME NEW e \in Entities, Expire(e) PROVE Abstract!Next
  <2>1. rows' = rows /\ cache' = [cache EXCEPT ![e] = None]
    BY <1>4 DEF Expire
  <2>2. Durable(e)' = Durable(e)
    BY <2>1, MappingKept
  <2>3. Current(e)' = Durable(e)
    BY <2>1, <2>2 DEF Current, TypeInv, TypeOK
  <2>4. \A f \in Entities \ {e} : cache'[f] = cache[f] /\ rows'[f] = rows[f]
    BY <2>1 DEF TypeInv, TypeOK
  <2> QED
    BY <1>d, <2>2, <2>3, <2>4, StepRefines
<1>5. \/ \E r \in Requests : Refill(r) \/ SetCache(r) \/ Save(r)
      \/ \E e \in Entities : Expire(e)
      \/ UNCHANGED <<cache, rows>>
  BY DEF Next, vars, stores, Get, Update, Call, GetHit, GetMiss, QueryEmpty, QueryText,
         QueryRow, Republish, Publish, Record, Return, Fault
<1>6. \A r \in Requests : SetCache(r) \/ Save(r) => entity[r] \in Entities
  BY DEF SetCache, Save, TypeInv, LocalsOK
<1> QED
  BY <1>6, <1>1, <1>2, <1>3, <1>4, <1>5, <1>u

\* With callers who take turns, the two stores, the faults and the losses of the
\* cache look like one versioned state for each entity, of which only the part
\* that was not durable can be lost.
THEOREM ManagerImplementsVersionedState ==
    ASSUME Serial, "versioned" \notin Kinds
    PROVE  Spec => ImplementsVersionedState
<1>1. Spec => [](TypeInv /\ SerialInv)
  BY SerialInvariant
<1>2. Spec => []LineageInv
  BY LineageIsInvariant, PTL
<1> QED
  BY <1>1, <1>2, InitRefines, NextRefines, PTL DEF Spec, ImplementsVersionedState, Abstract!Spec
=============================================================================
