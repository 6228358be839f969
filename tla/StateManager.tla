---------------------------- MODULE StateManager ----------------------------
(***************************************************************************)
(* StateManager (app/state/state_manager.py) over its two stores,          *)
(* RedisStateStore and PostgresStateStore.                                 *)
(*                                                                         *)
(* Each request is one call of a get_*_state or update_*_state method, run *)
(* as an asyncio task.  The manager holds no lock, so tasks interleave at  *)
(* every await.  An action below is one awaited store call together with   *)
(* the local computation that follows it up to the next await.             *)
(*                                                                         *)
(* The three update methods (global, engine, funnel) are the same code     *)
(* over another key, so a request carries its entity.  Of an entity's      *)
(* state the model keeps the version and the set of requests whose updates *)
(* it includes: each request writes an attribute of its own.               *)
(***************************************************************************)
EXTENDS Integers

CONSTANTS
    Entities,        \* the keys (entity_type, entity_id) that hold a state
    Requests,        \* the calls; each happens at most once (bounds the model)
    Kinds,           \* the kinds of call the environment makes
    ClientVersion,   \* what each call carries under "version", if it does
    Decoding,        \* how a connection may return a JSONB column: "text", as
                     \* asyncpg does by default, or "json", by a codec
    Faults,          \* may an awaited call raise, or its task be cancelled?
    Serial,          \* do the callers make one call at a time?
    None

\* read:      a get_*_state call
\* plain:     an update of a declared attribute with a value its type accepts
\* unknown:   an update whose keys are no attribute: hasattr() drops them
\* invalid:   an update that construction or validate_assignment rejects
\* untraced:  an event without a trace parent, so that trace_id is None
\* versioned: an update that also assigns the attribute "version"
ReadKinds  == {"read"}
WriteKinds == {"plain", "unknown", "untraced", "versioned"}
AllKinds   == ReadKinds \union WriteKinds \union {"invalid"}

State == [version : Int, data : SUBSET Requests]

\* GlobalState(), EngineState(...), FunnelState(...): Field(default=1).
DefaultState == [version |-> 1, data |-> {}]

ASSUME ConstantsAssumption ==
    /\ Kinds \subseteq AllKinds
    /\ ClientVersion \in [Requests -> Int]
    /\ Decoding # {} /\ Decoding \subseteq {"text", "json"}
    /\ Faults \in BOOLEAN
    /\ Serial \in BOOLEAN

ASSUME NoneAssumption == None \notin State /\ None \notin Entities

VARIABLES
    cache,       \* Redis: the state under each key, or None
    feed,        \* the last message published on each entity's channel
    rows,        \* table state: the saved states of each entity
    transitions, \* table state_transitions
    pc,          \* what each request awaits, or how it ended
    entity,      \* the entity each request addresses
    kind,        \* the kind of each request
    previous     \* the state each request read (previous_state), or None

stores == <<cache, feed, rows, transitions>>
locals == <<pc, entity, kind, previous>>
vars   == <<stores, locals>>

Awaiting == {"get", "pgget", "refill", "republish",
             "set", "publish", "save", "record", "returning"}
\* done: it returned; rejected: ValidationError before any write;
\* undecoded: TypeError on a row; unrecorded: ValidationError in
\* StateTransition; faulted: a store call raised or the task was cancelled.
Ended == {"done", "rejected", "undecoded", "unrecorded", "faulted"}

Active(r) == pc[r] \in Awaiting

Transition ==
    [request : Requests, entity : Entities, previous : State, new : State,
     before : Int, after : Int]

\* An update goes on to write only once it has a state to start from.
HasRead(r) ==
    pc[r] \in {"set", "publish", "save", "record", "returning"} => previous[r] # None

TypeOK ==
    /\ cache \in [Entities -> State \union {None}]
    /\ feed  \in [Entities -> State \union {None}]
    /\ rows  \in [Entities -> SUBSET State]
    /\ transitions \subseteq Transition
    /\ pc       \in [Requests -> {"new"} \union Awaiting \union Ended]
    /\ entity   \in [Requests -> Entities \union {None}]
    /\ kind     \in [Requests -> AllKinds \union {None}]
    /\ previous \in [Requests -> State \union {None}]
    /\ \A r \in Requests : HasRead(r)

-----------------------------------------------------------------------------
(***************************************************************************)
(* What the stores and the update methods compute.                         *)
(***************************************************************************)

\* Bug: the version is left out of the conflict target.
UpsertEntity(saved, s) == {s}

\* Bug: ON CONFLICT (entity_type, entity_id) DO NOTHING.
InsertOnce(saved, s) == IF saved = {} THEN {s} ELSE saved

\* INSERT ... ON CONFLICT (entity_type, entity_id, version) DO UPDATE.
Upsert(saved, s) == {x \in saved : x.version # s.version} \union {s}

\* Bug: ORDER BY version LIMIT 1.
IsOldest(s, saved) == s \in saved /\ \A x \in saved : s.version <= x.version

\* ORDER BY version DESC LIMIT 1.
IsLatest(s, saved) == s \in saved /\ \A x \in saved : x.version <= s.version

Assigned(s, r, k) == IF k = "unknown" THEN s.data ELSE s.data \union {r}

\* Bugs: the version stays, or skips; the state is built from the updates alone.
AppliedStill(s, r, k) == [version |-> s.version,     data |-> Assigned(s, r, k)]
AppliedTwice(s, r, k) == [version |-> s.version + 2, data |-> Assigned(s, r, k)]
AppliedAfresh(s, r, k) == [version |-> s.version + 1, data |-> {r}]

\* The setattr loop, then version += 1.
Applied(s, r, k) ==
    [version |-> (IF k = "versioned" THEN ClientVersion[r] ELSE s.version) + 1,
     data    |-> Assigned(s, r, k)]

New(r) == Applied(previous[r], r, kind[r])

\* Bug: the model assigns without validating.
ResumeUnvalidated(r) == IF kind[r] \in ReadKinds THEN "done" ELSE "set"

\* Where a request goes once it has the current state in hand.
Resume(r) ==
    CASE kind[r] \in ReadKinds  -> "done"
      [] kind[r] = "invalid"    -> "rejected"
      [] kind[r] \in WriteKinds -> "set"

\* Bug: the record is built from the object before the updates.
TransitionOfPrevious(r) ==
    [request |-> r, entity |-> entity[r], previous |-> previous[r],
     new |-> previous[r], before |-> New(r).version - 1, after |-> New(r).version]

TransitionOf(r) ==
    [request |-> r, entity |-> entity[r], previous |-> previous[r],
     new |-> New(r), before |-> New(r).version - 1, after |-> New(r).version]

-----------------------------------------------------------------------------
Init ==
    /\ cache = [e \in Entities |-> None]
    /\ feed  = [e \in Entities |-> None]
    /\ rows  = [e \in Entities |-> {}]
    /\ transitions = {}
    /\ pc       = [r \in Requests |-> "new"]
    /\ entity   = [r \in Requests |-> None]
    /\ kind     = [r \in Requests |-> None]
    /\ previous = [r \in Requests |-> None]

GoTo(r, label) == pc' = [pc EXCEPT ![r] = label]

\* A route of the API, or a consumer's handler, calls the manager.
Call(r) ==
    /\ pc[r] = "new"
    /\ Serial => \A q \in Requests : ~Active(q)
    /\ \E e \in Entities, k \in Kinds :
          /\ entity' = [entity EXCEPT ![r] = e]
          /\ kind'   = [kind EXCEPT ![r] = k]
    /\ GoTo(r, "get")
    /\ UNCHANGED <<stores, previous>>

\* await self.redis.get_state(...)
GetHit(r) ==
    /\ pc[r] = "get"
    /\ cache[entity[r]] # None
    /\ previous' = [previous EXCEPT ![r] = cache[entity[r]]]
    /\ GoTo(r, Resume(r))
    /\ UNCHANGED <<stores, entity, kind>>

\* Bug: a miss counts as no state, and PostgreSQL is not asked.
GetMissAsEmpty(r) ==
    /\ pc[r] = "get"
    /\ cache[entity[r]] = None
    /\ previous' = [previous EXCEPT ![r] = DefaultState]
    /\ GoTo(r, Resume(r))
    /\ UNCHANGED <<stores, entity, kind>>

GetMiss(r) ==
    /\ pc[r] = "get"
    /\ cache[entity[r]] = None
    /\ GoTo(r, "pgget")
    /\ UNCHANGED <<stores, entity, kind, previous>>

\* Bug: `if not current: current = GlobalState()` is left out.
QueryEmptyWithoutDefault(r) ==
    /\ pc[r] = "pgget"
    /\ rows[entity[r]] = {}
    /\ GoTo(r, Resume(r))
    /\ UNCHANGED <<stores, entity, kind, previous>>

\* await self.postgres.get_state(...): no row.  A get returns None, an update
\* starts from the default state.
QueryEmpty(r) ==
    /\ pc[r] = "pgget"
    /\ rows[entity[r]] = {}
    /\ previous' = [previous EXCEPT
                      ![r] = IF kind[r] \in ReadKinds THEN None ELSE DefaultState]
    /\ GoTo(r, Resume(r))
    /\ UNCHANGED <<stores, entity, kind>>

\* ... a row, whose state_data is text: State(**text) raises TypeError.
QueryText(r) ==
    /\ pc[r] = "pgget"
    /\ rows[entity[r]] # {}
    /\ "text" \in Decoding
    /\ GoTo(r, "undecoded")
    /\ UNCHANGED <<stores, entity, kind, previous>>

\* ... a row, decoded by a codec of the connection.
QueryRow(r) ==
    /\ pc[r] = "pgget"
    /\ "json" \in Decoding
    /\ \E s \in rows[entity[r]] :
          /\ IsLatest(s, rows[entity[r]])
          /\ previous' = [previous EXCEPT ![r] = s]
    /\ GoTo(r, "refill")
    /\ UNCHANGED <<stores, entity, kind>>

\* "Cache in Redis": set_state's SETEX, then its PUBLISH.
Refill(r) ==
    /\ pc[r] = "refill"
    /\ cache' = [cache EXCEPT ![entity[r]] = previous[r]]
    /\ GoTo(r, "republish")
    /\ UNCHANGED <<feed, rows, transitions, entity, kind, previous>>

\* Bug: the state is read back from the cache after the refill.
RepublishAndReread(r) ==
    /\ pc[r] = "republish"
    /\ feed' = [feed EXCEPT ![entity[r]] = previous[r]]
    /\ GoTo(r, "get")
    /\ UNCHANGED <<cache, rows, transitions, entity, kind, previous>>

Republish(r) ==
    /\ pc[r] = "republish"
    /\ feed' = [feed EXCEPT ![entity[r]] = previous[r]]
    /\ GoTo(r, Resume(r))
    /\ UNCHANGED <<cache, rows, transitions, entity, kind, previous>>

\* "Save to Redis": SETEX, then PUBLISH.
SetCache(r) ==
    /\ pc[r] = "set"
    /\ cache' = [cache EXCEPT ![entity[r]] = New(r)]
    /\ GoTo(r, "publish")
    /\ UNCHANGED <<feed, rows, transitions, entity, kind, previous>>

Publish(r) ==
    /\ pc[r] = "publish"
    /\ feed' = [feed EXCEPT ![entity[r]] = New(r)]
    /\ GoTo(r, "save")
    /\ UNCHANGED <<cache, rows, transitions, entity, kind, previous>>

\* Bug: the method returns once the state is saved.
SaveOnly(r) ==
    /\ pc[r] = "save"
    /\ rows' = [rows EXCEPT ![entity[r]] = Upsert(@, New(r))]
    /\ GoTo(r, "returning")
    /\ UNCHANGED <<cache, feed, transitions, entity, kind, previous>>

\* "Save to PostgreSQL", then the StateTransition is built: its trace_id is a
\* required str, so None raises ValidationError here.
Save(r) ==
    /\ pc[r] = "save"
    /\ rows' = [rows EXCEPT ![entity[r]] = Upsert(@, New(r))]
    /\ GoTo(r, IF kind[r] = "untraced" THEN "unrecorded" ELSE "record")
    /\ UNCHANGED <<cache, feed, transitions, entity, kind, previous>>

\* await self.postgres.save_transition(...)
Record(r) ==
    /\ pc[r] = "record"
    /\ transitions' = transitions \union {TransitionOf(r)}
    /\ GoTo(r, "returning")
    /\ UNCHANGED <<cache, feed, rows, entity, kind, previous>>

\* The connection goes back to the pool and the method returns.
Return(r) ==
    /\ pc[r] = "returning"
    /\ GoTo(r, "done")
    /\ UNCHANGED <<stores, entity, kind, previous>>

\* The awaited call raises, or the task is cancelled (shutdown_event cancels
\* the consumer tasks).  A call that took effect and then raised is this
\* action taken after that effect.
Fault(r) ==
    /\ Faults
    /\ Active(r)
    /\ GoTo(r, "faulted")
    /\ UNCHANGED <<stores, entity, kind, previous>>

\* The key's TTL runs out (settings.state_ttl), or Redis evicts it or restarts.
Expire(e) ==
    /\ cache[e] # None
    /\ cache' = [cache EXCEPT ![e] = None]
    /\ UNCHANGED <<feed, rows, transitions, locals>>

\* A get_*_state method, and an update_*_state method after its read.
Get(r) ==
    \/ GetHit(r)   \/ GetMiss(r)
    \/ QueryEmpty(r) \/ QueryText(r) \/ QueryRow(r)
    \/ Refill(r)   \/ Republish(r)

Update(r) ==
    \/ SetCache(r) \/ Publish(r) \/ Save(r) \/ Record(r) \/ Return(r)

Next ==
    \/ \E r \in Requests : Call(r) \/ Get(r) \/ Update(r) \/ Fault(r)
    \/ \E e \in Entities : Expire(e)

Spec == Init /\ [][Next]_vars

\* The event loop runs every ready task and the stores answer, so a request
\* that has been made goes on.  Nothing obliges a caller, a fault or a TTL.
FairSpec == Spec /\ \A r \in Requests : WF_vars(Get(r) \/ Update(r))

-----------------------------------------------------------------------------
(***************************************************************************)
(* What holds of calls that interleave freely, fault at any await and lose *)
(* the cache at any time.                                                  *)
(***************************************************************************)

Has(saved, v) == \E s \in saved : s.version = v

\* The states of e that a reader or a subscriber may see.
Seen(e) == rows[e] \union ({cache[e], feed[e]} \ {None})

\* A transition that was recorded has the row of the version it led to: the
\* state is saved before its transition, and no later save removes a version.
RecordedIsStored ==
    \A t \in transitions : Has(rows[t.entity], t.after)

\* A state in the table came from an update whose transition records exactly
\* that state, or whose record is about to be written or was lost: it stopped
\* between save_state and save_transition.
RowsAreRecorded ==
    \A e \in Entities : \A s \in rows[e] :
        \/ \E t \in transitions : t.entity = e /\ t.new = s
        \/ \E r \in Requests :
              /\ pc[r] \in {"record", "unrecorded", "faulted"}
              /\ entity[r] = e
              /\ previous[r] # None
              /\ New(r) = s

\* An update that returned to its caller is recorded, and its version is in
\* the table, whatever the other calls and the cache did meanwhile.
AcknowledgedIsStored ==
    \A r \in Requests :
        pc[r] = "done" /\ kind[r] \in WriteKinds =>
            /\ TransitionOf(r) \in transitions
            /\ Has(rows[entity[r]], New(r).version)

\* The update r of e to version v stands between its SETEX and its row: it is
\* on its way to save_state, or it stopped before it.
Owes(r, e, v) ==
    /\ pc[r] \in {"publish", "save", "faulted"}
    /\ entity[r] = e
    /\ kind[r] \in WriteKinds
    /\ previous[r] # None
    /\ New(r).version = v

\* No call on e assigns the attribute "version" itself.
Unversioned(e) == \A r \in Requests : entity[r] = e => kind[r] # "versioned"

\* The version history of an entity has no unexplained gap, unless a caller
\* assigned a version itself: below each version that is cached, announced or
\* saved, every version has its row, or a call that reached Redis has not
\* saved it yet or failed in between.
GapsAreFailures ==
    \A e \in Entities : Unversioned(e) =>
        \A s \in Seen(e) : \A v \in 2..s.version :
            \/ Has(rows[e], v)
            \/ \E r \in Requests : Owes(r, e, v)

\* r is an update of e that got as far as computing its new state.
Computed(r, e) ==
    /\ pc[r] \in {"publish", "save", "record", "returning",
                  "done", "unrecorded", "faulted"}
    /\ entity[r] = e
    /\ kind[r] \in WriteKinds
    /\ previous[r] # None

\* Where no caller assigns a version, a recorded update disappears from the
\* latest saved state only in a race: another call then computed the very
\* version that the update was recorded with, from a state that did not hold
\* the update.
LostUpdatesCollide ==
    \A t \in transitions : Unversioned(t.entity) =>
        \A s \in rows[t.entity] :
            IsLatest(s, rows[t.entity]) /\ t.request \notin s.data =>
                \E r \in Requests :
                    /\ Computed(r, t.entity)
                    /\ New(r).version = t.after
                    /\ t.request \notin New(r).data

\* A call that is a read or that validation rejects leaves no trace in either
\* store, nor in the states that later updates build on.
RejectedLeavesNoTrace ==
    \A r \in Requests : kind[r] \notin WriteKinds =>
        /\ \A t \in transitions : t.request # r
        /\ \A e \in Entities : \A s \in Seen(e) : r \notin s.data

-----------------------------------------------------------------------------
(***************************************************************************)
(* What holds besides when the callers make one call at a time (Serial),   *)
(* still with faults, with a cache that may be lost at any time, and with  *)
(* no caller that assigns "version".                                       *)
(***************************************************************************)

\* A cached state is never behind the table: it is the latest row, or a newer
\* state with all its updates, so that reading the cache first is safe.
CacheCoversRows ==
    \A e \in Entities : \A s \in rows[e] :
        cache[e] # None =>
            \/ cache[e] = s
            \/ s.version < cache[e].version /\ s.data \subseteq cache[e].data

\* A recorded update is part of the latest saved state of its entity.
NoLostUpdate ==
    \A t \in transitions : \A s \in rows[t.entity] :
        IsLatest(s, rows[t.entity]) => t.new.data \subseteq s.data

\* A version number names one update of its entity, which is what the history
\* and the diff between two versions rest on.
VersionIdentifiesUpdate ==
    \A t, u \in transitions :
        t.entity = u.entity /\ t.after = u.after => t = u

\* The saved history is never rewritten: a row stays as it was inserted, and
\* ON CONFLICT DO UPDATE never has a conflict ("PostgreSQL for persistent
\* state with versioning").
HistoryIsKept == [][\A e \in Entities : rows[e] \subseteq rows'[e]]_rows

\* The abstract state: what the next get_state finds in Redis or else in
\* PostgreSQL, and what it would find in PostgreSQL alone.
Durable(e) ==
    IF rows[e] = {} THEN DefaultState ELSE CHOOSE s \in rows[e] : IsLatest(s, rows[e])

Current(e) == IF cache[e] # None THEN cache[e] ELSE Durable(e)

Abstract == INSTANCE VersionedState WITH
    current <- [e \in Entities |-> Current(e)],
    durable <- [e \in Entities |-> Durable(e)]

\* The manager over its two stores implements one versioned state per entity.
ImplementsVersionedState == Abstract!Spec

\* Every call ends: a read or an update that was made returns or raises.
EveryCallEnds == \A r \in Requests : Active(r) ~> pc[r] \in Ended

-----------------------------------------------------------------------------
(***************************************************************************)
(* What the repository says of the manager, and the code does not do.      *)
(***************************************************************************)

\* A state that was saved in PostgreSQL can be read back ("Try PostgreSQL").
SavedIsReadable == \A r \in Requests : pc[r] # "undecoded"
=============================================================================
