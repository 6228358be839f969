# TLA+ models of the global state manager

The service keeps the state of the Autonomous Company OS: one global state, and
the states of engines and funnels. It reads and writes them through Redis (fast,
with a TTL) and PostgreSQL (versions, transitions, snapshots), answers an HTTP
API and handles events from RabbitMQ. Everything runs in one asyncio event loop
without locks, so what matters happens at the awaits: calls interleave there,
fail there and are cancelled there. The modules in this directory model that.

Paths such as `state/state_manager.py` are relative to `src/app/`.

## 1. The system's parts

| Part | State it keeps | Operations | Works with | What is hard | What makes it correct |
|---|---|---|---|---|---|
| State manager (`state/state_manager.py`) | none of its own (`_versions` is never used) | `get_*_state`, `update_*_state` for global, engine, funnel; `create_snapshot`; `get_diff`; `get_transitions` | both stores; called by routes and consumers | read-modify-write across awaits; Redis, PostgreSQL and the transition are written one after another | no recorded update without its row; losses only where calls overlap; one versioned state per entity for callers in turn |
| Redis store (`state/redis_store.py`) | keys `state:<type>:<id>` with a TTL, channels `state_changes:...` | `get_state`, `set_state` (SETEX, then PUBLISH), `get_all_states` (KEYS, then GET each), subscribe, `get_next_message` | state manager, WebSocket | expiry at any time; two-step reads and writes | a cached state covers the saved one; announced states get saved |
| PostgreSQL store (`state/postgres_store.py`) | tables `state`, `state_transitions`, `state_snapshots`, `state_alerts`; a pool of connections | `save_state` (upsert by version), `get_state`, `save_transition`, `save_snapshot`, `get_diff`, queries | state manager, alerts route | nested `acquire()`; failures inside the block | every connection comes back; the pool does not lock up |
| Snapshots (`create_snapshot`) | table `state_snapshots` | create, list | both stores | read while states change and expire; ids in seconds | entries were current while it ran; the id finds it |
| Event consumers (`consumers/`) | none | `handle_event` of seven classes, `process_with_retry` | state manager; RabbitMQ | overlapping handlers, retries, cancellation, redelivery, two updates for one event | success means that all was written; losses only between consumers |
| API routes (`controllers/state_controller.py`) | none | update, reads, diff, snapshots, alerts, `/subscribe` | state manager | the expected version, cancelled requests | the update is the one that was asked for |
| Notifications (`redis_store.py`, the WebSocket route) | subscriptions, what Redis has sent and nobody has read | publish, subscribe, poll, send | Redis store, the client, the server that stops | a write and its message are two requests; a client that has left is noticed by sending; channels have to match | an unbroken stream; a drained client knows the current state; sessions end |
| Lifecycle (`main.py`) | the singletons, `_consumer_tasks` | startup, shutdown, health | everything | failures half-way, tasks cancelled and not awaited, requests before the startup | who works is connected; nothing is left open; only a request that never ends delays the stop |
| Transition validator (`transitions/transition_validator.py`) | none | `validate` | nothing calls it | other ranges than the schemas', before their conversions; a NaN | what it accepts stays in the documented ranges |
| Transition emitter (`transitions/transition_emitter.py`) | a publisher | `connect`, `disconnect`; `emit_*` have no caller | `main.py` | | |
| Alerts | a pool for each request | one query | PostgreSQL store | a failure between the pool and its use | the pool is closed |
| Dead-letter queue routes (`controllers/dlq_controller.py`) | a `DLQManager` for each request | wrappers of it (external) | RabbitMQ | | it is closed |
| Tracing (`tracing/`) | none | fresh ids, spans in the log | routes | | |

The hazards of each part are listed with their lines under `hazards` in
PROJECT.json, each with the properties that watch it.

## 2. Modules

| Module | Models | Extends or instantiates |
|---|---|---|
| `StateManager` | gets and updates over the two stores | instance of `VersionedState` |
| `VersionedState` | the abstract promise: a current and a durable state for each entity | |
| `StateManagerProofs` | theorems for any callers | `StateManager` |
| `StateManagerSerialProofs` | theorems for callers in turn, and the refinement | `StateManagerProofs` |
| `PostgresPool` | the use of connections by every method of the store | |
| `PostgresPoolProofs` | theorems | `PostgresPool` |
| `Snapshot` | `create_snapshot` among updates and expiry | |
| `SnapshotProofs` | theorems | `Snapshot` |
| `Consumers` | the seven event consumers | |
| `ConsumersProofs` | theorems | `Consumers` |
| `Notifications` | publication, subscriptions, the sessions of `/state/subscribe`, the server's stop | |
| `NotificationsProofs` | theorems | `Notifications` |
| `Lifecycle` | startup and shutdown, the consumers' tasks, requests and what they open | |
| `LifecycleProofs` | theorems | `Lifecycle` |
| `Transitions` | the fields of an update, validator, recorded diffs, `get_diff` | |
| `TransitionsProofs` | theorems | `Transitions` |
| `MC*` | the constants' values for TLC | the module of that name |

### StateManager

`cache` is Redis, `feed` the last message of each channel, `rows` and
`transitions` are the tables. Each request is one call, run once. `pc` names the
store call it awaits, `previous` is the state it read (`previous_state`). An
action is one awaited store call, with the code that follows it up to the next
await. `Get` has the branches of `get_*_state`: a hit, a miss, no row, a row
decoded and cached, a row that is text. `Update` follows the code: SETEX,
PUBLISH, `save_state`, `save_transition`, return. `Fault` ends a call at any
await, as an exception of a store or a cancellation does, so every prefix of an
update happens. `Expire` drops a key.

The three pairs of methods differ by key and class only, hence one model with an
entity for each request. A state is its version and the set of requests whose
updates it holds. The kinds of call tell apart what the code treats differently:
reads, plain updates, updates of unknown keys (dropped by `hasattr`), invalid ones
(rejected before any write), untraced ones (`StateTransition` is rejected after
both writes) and those that assign `version`, to any integer, each call its own
(`ClientVersion`). An integer that is too large for the column is refused by PostgreSQL,
which is a `Fault` at `save_state`. `Unversioned` names the entities whose version no
call has assigned; the lineage properties speak of them.

`Decoding` says how a connection returns JSONB. As the code stands it is text.
Most properties are checked for both, so that they speak of the manager's own
logic too and not only of its first miss, which fails.

`VersionedState` is what callers in turn may rely on: updates extend the current
state, saves make it durable, and what may be lost is only what is not durable.
`ImplementsVersionedState` maps `current` to what a read would find (Redis, or
else the latest row) and `durable` to the latest row.

### PostgresPool

`free` are the pool's connections. A call waits, enters, queries, leaves.
`get_diff` enters and then calls `get_state` twice, each with an `acquire()` of
its own. A call may fail wherever it awaits, and leaves the blocks it is in.
The pool is asyncpg's and external.

### Snapshot

A state is its version. A snapshot reads the global state twice (condition and
value), then lists and reads the keys of one type after another, then inserts its
row. `moments` is a history variable: what Redis held while the snapshot ran.
A snapshot that a store error stops has written nothing, so that error is left out.

### Consumers

`FailureHandlers`, `EngineHandlers` and so on are the tables of the handlers: the
attributes that each event type assigns. `Updates` gives the calls in their order;
`engine.health_report` makes two. A consumer takes one event, reads and writes the
whole state of an entity for each update, and answers. `Raise` ends an attempt
before or after the write; `Fail` is the retry loop of `process_with_retry`
(`MaxRetries = 0` is `handle_event` registered directly, as `main.py` does).
`Shutdown` stops all consumers wherever they are; the broker gives unanswered
events back. `since`, `written`, `latest` and `lost` are history variables.
An update is two visible steps here; its parts are in `StateManager`. Keys do
not expire in this module.

### Notifications

A call of `set_state` (or `delete_state`) is two steps, the write and `Publish`, and
a message is named by its call. Redis hands a message to whoever is subscribed to its
channel then; `buffer` is what has arrived and was not read. A session follows the
route: accept, connect, subscribe, then poll and send, and `finally` disconnect.
`Watches` lets a session subscribe to one entity too, as the store's arguments allow,
since the route's own choice is a channel that nothing is published on. `present`
is what the server knows of the client; only `Send` looks at it. `Close` and `CloseFails`
are the disconnect, which may raise at the pubsub and leave the client open. `Stop` is
uvicorn's: it closes the WebSockets and waits for their tasks before `shutdown_event`.
`log`, `window` and `torn` are history variables.

### Lifecycle

`step` walks through `StartupSteps` and `ShutdownSteps`, the awaits of the two events
in their order; `open` is what is open of the service's own connections. `raised` tells
the shutdown that an exception cut short from the one that returned. The consumers'
tasks take events, die unnoticed, and after `cancel()` unwind in their own time.
Requests go through the state manager (`state`, and `diff`, which holds a connection while
it waits for another), or open something of their own: a `PostgresStateStore` (`alerts`), a
`DLQManager` (`dlq`), a `RedisStateStore` for a WebSocket session (`session`). `Open` creates
the pool or the client and `Probe` makes connect's first query over it, the schema or the PING;
if that raises, `__aexit__` and `finally` are not reached. Then the request is at work, and
closes what it opened; a session's disconnect may raise before it reaches the client. The
server drains requests and sessions before `shutdown_event`, as uvicorn does. `Arrive` is possible with the phase `off` too: an
application that is called without its startup, which `get_state_manager` answers with 503.

### Transitions

One entity, of each type in turn, with updates one after another: here the fields matter,
and `StateManager` has the interleavings. A value stands for a case that schema,
validator or PostgreSQL tells apart: in and out of range, a NaN, a number's text, `true`, a
member of the enumeration or not, a text that JSONB does not take. A NaN passes the validator's
comparisons and the schema of a rate, which has no bounds; Redis takes it, since `json.dumps`
writes it as it is, and JSONB does not. Of pydantic it is taken that bounds (`load`) refuse a NaN
and that `model_dump(mode="json")` keeps one. A state is a
function from its keys, `version` included, to values, as the JSON document is.
`Update` assigns, converts or rejects as `validate_assignment` does, and writes Redis;
`Save` and `Record` follow, or PostgreSQL refuses (`SaveRefused`), or the transition
cannot be recorded (`Unrecorded`): it has no trace id, or the state that it starts from, read
from Redis, holds what JSONB refuses. `get_diff` reads its two rows in two steps. `vetted` is a
history variable: the verdict of the validator on every update so far, which the code
never asks for. `added` and `removed` are always empty, since the keys are the schema's.

## 3. What the runs show

| Run | Result | Shows |
|---|---|---|
| `manager_concurrent` | holds | three calls on two entities, of every kind, both decodings, faults, expiry, and calls that assign the versions -1 and 1: recorded transitions have rows, rows have transitions unless their call stopped in between, acknowledged updates are recorded, unless a call assigned the entity a version, a missing version has a call that stopped short of saving it and a recorded update is lost only to a call that computed the same version; reads and rejected updates leave no trace |
| `manager_serial` | holds | three calls in turn on one entity, none of which assigns a version, still with faults and expiry: the cache is never behind the table, no update is lost, a version names one update, history is not rewritten, refinement of `VersionedState`, every call ends |
| `persisted_readable` | violated | a saved state cannot be read back once its key has expired |
| `version_overwritten` | violated | overlapping updates write the same version, and the upsert replaces the first |
| `pool` | holds | two diffs and two plain calls over three connections, failures anywhere: no leak, no lock-up, every call ends |
| `pool_lockup` | violated | as many diffs as connections wait for each other |
| `snapshot` | holds | each entry was in Redis while the snapshot ran, what is left out was absent at some moment, the id finds the snapshot, every snapshot ends |
| `consumers` | holds | an attribute shows the event that assigned it last unless another consumer overlapped; success means that one attempt wrote all updates; an active engine has a state; every event is answered |
| `notifications` | holds | three writes of two entities by overlapping calls, with lost announcements and expiry, and one session: the session's stream is what was published since it subscribed, a client that was sent everything knows the current state unless writes overlapped or were not announced, every message that arrived is dealt with, a client that left is noticed once there is a message and its connection is given back unless the disconnect raises, the server stops unless a session hears nothing |
| `subscription` | violated | the route's session is sent nothing: it listens to `state_changes:all` |
| `lifecycle` | holds | nobody works without the connections it needs, a shutdown that returns has closed everything, requests and sessions close what they opened unless their connect raised after opening it or a session's disconnect raised, only a diff or a session that never ends delays the stop |
| `transitions` | holds | a diff between two versions is the recorded diffs in between put together (asked backwards, undone; with 0 for the latest row), updates that the validator accepts keep the documented ranges in the table, and in Redis but for a NaN as the rate of a funnel, Redis is ahead of PostgreSQL between updates only by a value that PostgreSQL refuses |

The violated properties quote the repository's own words; PROJECT.json says
under `findings` which lines disagree.

Other disagreements met while modelling, which no run shows:

- `StateUpdateRequest.version` is the "Expected version for optimistic locking"
  (`schemas/transition_schemas.py:41`), and `update_state` never reads it.
- "Every state change: 1. Validates the transition ... 4. Emits state transition event"
  (`README.md:343-346`): neither the validator nor the emitter is ever called.
- "Create a full state snapshot." and "# Get all states" (`state/state_manager.py:218`, `:222`):
  engines and funnels are the keys that Redis holds, so an entity that is saved and whose key
  has expired is missing. `OmittedWereUncached` holds, and says only that an entity that is in
  Redis all the time is not left out.
- "State snapshot at a point in time." (`schemas/transition_schemas.py:63`): one key is read
  after another, with an await before each, so the states of a snapshot may never have been
  in Redis together. `EntriesWereCurrent` holds, and speaks of each entry by itself.
- "Conversion rate must be between 0 and 1" (`transitions/transition_validator.py:103`,
  `README.md:144`): a NaN is neither below 0 nor above 1 and passes, `FunnelState` has no bound
  for it, and an update with it is cached and announced before PostgreSQL refuses it.
  `VettedStatesAreInRange` excepts this one value, in Redis, and nothing else.
- "`kg.entity_created` - Add entity to global state" (`README.md:318`): the list is
  replaced.

### Bounds

Requests, events and snapshots happen once each; they are the bounds on versions.

- `StateManager`: three calls are two that race and a third that meets the
  result, or that overlaps both; a lost update needs two, a stale refill over a
  newer state three. Two entities show that they do not mix. The versions that calls assign,
  -1 and 1, are one below the first and one that exists. `manager_serial` has one entity.
- `PostgresPool`: three connections and two diffs are the largest number of diffs
  that must not lock up; the violation needs as many as connections.
- `Snapshot`: two snapshots share a second or not (`MaxClock = 1`); one engine,
  the global state with one update and the engine with two, so that a value
  changes between KEYS and GET. A second scan finds nothing. `snapshot` keeps the history
  of the engine only (`Watched`), since that of both multiplies the states; the theorems
  watch any set of entities.
- `Consumers`: two events are enough for an overlap and for a retry, a redelivery
  (`MaxRequeues`) or a restart (`MaxRestarts`) around another event; three attempts.
  The messages have one handler of each shape and each flaw.
- `Notifications`: three writes are two that overlap and one that comes before or
  after; two entities, one without an id; one session, since sessions share nothing
  but Redis. `subscription` needs one write.
- `Lifecycle`: two starts, so that a start follows a stop and a failed start; two
  requests, so that one ends, or hangs, while another is under way.
- `Transitions`: versions 2 to 4, so that a diff spans two transitions or a gap, in
  both directions; at most two fields in an update, which are all that the validator
  looks at; one diff, since diffs only read.

`manager_concurrent` uses the symmetry of the entities and of the requests that would assign
the same version, and checks no liveness.

### Fairness

Only what the event loop does by itself is fair: a task whose awaited call was
answered runs on (`WF` of each call's own steps). New calls, faults, expiry,
time, shutdown and requeueing are not. In `Consumers` the service that was shut
down starts again (`WF_vars(Startup)`), and the retry loop goes on after its
backoff. In `PostgresPool` weak fairness is enough for a waiter because each call
happens once, so the calls that can overtake it run out.
In `Notifications` the session's own steps are fair and the server looks whether its
tasks have ended; no client has to leave and nothing has to be written, so a session may
hear nothing for ever. In `Lifecycle` what was begun goes on (`Boot`, `Halt`, the steps
of a request, the delivery of a cancellation), but for the requests that hang (`Hangs`): a
diff waits for its second connection without a timeout, and a session whose channel is silent
loops. Nor do the requests go on that a hanging diff may keep from a connection (`Starves`).
`OnlyHangingRequestsDelayStop` therefore says that a stop comes to its end or that one and the
same diff or session hangs for ever. A handler's end is not assumed, and a
handler that is never done does not prevent the stop, because it is cancelled.

`CHECK_DEADLOCK FALSE` stands where the calls of an instance may all have ended.

## 4. What is proved

Every safety invariant and every action property that a passing run checks is a
theorem, and so is the refinement of `VersionedState`. TLAPS checks them for every
value of the constants that the modules' `ASSUME`s allow: any number of entities,
calls, connections, snapshots, sessions, events, versions. Each is proved in the same
way: an inductive invariant that implies the property, which holds initially and
which every action keeps. The list is `theorems` in PROJECT.json; below is what each
inductive invariant has to say and why the property alone is not inductive.

**StateManager, any callers** (`StateManagerProofs`). Each rests on the one before:

1. `TypeInv`: `TypeOK` and `LocalsOK`, which ties `pc` to what the request has
   in hand (an entity, a kind, a state it read). It gives `TypeCorrect`.
2. `StoreInv`: `ProgressOK`, `RecordedIsStored` and `RowsAreRecorded`.
   `RecordedIsStored` alone is not inductive: `Record` adds a transition, whose
   row must already be there, so `ProgressOK` says what a request at each stage
   has left in the tables. It gives `RecordedTransitionsAreStored`,
   `SavedStatesAreRecorded` and `AcknowledgedUpdatesAreStored`. The upsert lemma
   (a version that is saved stays saved) is where the conflict target matters.
3. `LineageInv`: `Lineage` says that behind every state that is cached, announced,
   saved or held by a call, and for every version up to its own, some update
   computed a state of that version whose content the state still has. Neither
   `GapsAreFailures` nor `LostUpdatesCollide` is inductive, since a call may write
   long after its state was overwritten or has expired; both follow from `Lineage`
   with `StoreInv`. `AfterFirst` says that recorded versions start at 2. A caller that
   assigns `version` breaks the chain of its entity, so both parts speak of the entities that
   are `Unversioned`, as the two properties do, and a lemma says that such an entity was so
   before. It gives `GapsAreExplained` and `LostUpdatesAreCollisions`, for every kind of call.
4. `TraceInv`: every state anywhere, the one in the hands of a call included, carries
   updates of writing calls only. It gives `RejectedCallsLeaveNoTrace`.

**StateManager, callers in turn** (`StateManagerSerialProofs`), under the assumptions
`Serial` and `"versioned" \notin Kinds`; the runs `manager_serial` and
`version_overwritten` show what each property is without `Serial`. `SerialInv` says that
the rows of an entity are a chain, each with all the updates of those before it, and that
what Redis holds and what the one active call holds (`StandsOK`, stage by stage) stands
at the end of that chain. A fault may leave the cache ahead of the table, never behind
it. It gives `CacheIsNeverBehind`, `NoRecordedUpdateIsLost`, `VersionsIdentifyUpdates`
and, since a save then succeeds all rows, `SavedHistoryIsKept`. For
`ManagerImplementsVersionedState` each action is mapped to a step or a stutter of
`VersionedState`: the `SETEX` of an update is `Advance`, a save is `Persist`, an expiry is
`Lose`, and everything else, a refill included, is a stutter.

**PostgresPool** (`PostgresPoolProofs`). The invariant behind `ConnectionsKept` ties each
stage to the connections that a call holds. `PoolDoesNotLockUp` counts: if nobody proceeds
and nothing is free, only waiting diffs hold connections, one each, so there would be as
many diffs as connections; it assumes `Cardinality(Diffs) < Cardinality(Conns)`.

**Snapshot** (`SnapshotProofs`). `SnapInv`: a running snapshot has lived through what Redis
holds now (`Present`), and each entity that it is done with (`DoneWith`) is accounted for
(`TakenOK`). `TodoOK` and `FreshOK` say what is still to be done and that nothing was taken
before. `SavedOK` is what makes ids unique: a second snapshot with the id of a saved one
fails at its insert.

**Consumers** (`ConsumersProofs`). `ConsInv`: an event belongs to one consumer
(`HandlingOK`), an attempt writes its updates in order (`ProgressOK`), and `LossesOK`
extends `LossesAreOverlaps` to the copies in the hands of consumers: where a copy differs
from what was assigned last, another consumer has assigned since it was read.
`EnginesOK` does the same for the engines that a state or a copy lists, since a copy may be
written after other events, redeliveries and restarts. The lemmas on the handlers say that
only the second update of a health report assigns `active_engines`.

**Notifications** (`NotificationsProofs`). `StreamInv`: what was sent, is in hand and is
buffered makes up the window of the channel's log that the session has heard; a session that
does not poll yet has read nothing. An entity whose writes did not overlap is either
settled (Redis holds what was announced last) or pending (its one call is about to announce).

**Lifecycle** (`LifecycleProofs`). `LifeInv`: the phase, with the place in the list of
steps, says what is open, what the tasks may be doing and who may be under way; the stage of a
request says whether something of its own may be open.

**Transitions** (`TransitionsProofs`). `TransInv`: rows are added in the order of their
versions and a state in hand is newer than all of them (`RowsOK`); a transition belongs to one
row and no two to the same (`TransitionsOK`); and `PathOK`, the induction over the length of a
path: between two rows without a missing transition, a key that no diff mentions has not
changed, and one that some mention went from the first old value to the last new one. It is
stated for all pairs of rows, of which `DiffsAgreeWithHistory` needs the two that a
`get_diff` read; `Record` extends the paths to the row before. `RangeOK` extends
`VettedStatesAreInRange` to the state under way, whose rate may be a NaN; a row's may not,
since only what is `Storable` is saved.

Assumptions about constants are the `ASSUME`s of the modules; TLC evaluates them in
every run. Some say what holds of the values in the code: a channel is made of a type, which is
a text, and an optional id (`NotificationsAssumption`); `None` is no content and no diff
(`ConsumersAssumption`, `TransitionsAssumption`).

**Only model-checked:** the liveness properties (`EveryCallEnds` of the manager and of the
pool, `EverySnapshotEnds`, `EveryEventIsAnswered`, `MessagesAreDelivered`,
`GoneClientsAreNoticed`, `OnlyDeafSessionsDelayStop`, `OnlyHangingRequestsDelayStop`), since TLAPS does no
fairness and no `ENABLED` here. The four runs that expect a violation need a counterexample and
no proof.

## 5. What is not modelled, and why

- Fields that no check looks at, payloads, log lines and the shape of answers: data.
- Tracing: the routes ask `start_span` for fresh ids and put them into the transition
  and the log, and nothing reads them back. `create_child`, the headers and their
  parsing have no caller. What is left is logging and OpenTelemetry. That an event may
  have no trace id is modelled (`untraced`).
- `emit_transition` and `emit_alert`: no caller; they build a message and hand it to
  `EventPublisher` of `autonomy_events`.
- The validator's branches, and the schemas, of products, tasks, governance, resources
  and failures: no code writes such a state, and `update_state` answers 400.
- Ids with a colon, which `_extract_entity_id` cuts: `Snapshot` takes each entity to have
  an entry of its own.
- What a dead-letter route asks of `DLQManager`; `/health` and `/`, which are constants.
- RabbitMQ, the client of `autonomy_events`, uvicorn, Redis, PostgreSQL and asyncpg are
  external: their operations are modelled as `src/` uses them.

## 6. Plan

1. `StateManager`, `VersionedState`, `PostgresPool`, `Snapshot`, `Consumers`, and the
   first theorems: done.
2. `Notifications`, `Lifecycle`, `Transitions`: done.
3. Theorems for all safety properties of the runs, and the refinement: done.
4. Next: for callers in turn, that a caller reads its own acknowledged update, as a theorem
   on top of `SerialInv`; a shorter case split in the proofs of `Consumers` and
   `Notifications`, where the same frame steps recur under each action; and the hazards that
   no property covers, as far as the code gives a promise to state.

## 7. Running

    tlc -config manager_concurrent.cfg MCStateManager
    tlc -config manager_serial.cfg MCStateManager
    tlc -config persisted_readable.cfg MCStateManager
    tlc -config version_overwritten.cfg MCStateManager
    tlc -config pool.cfg MCPostgresPool
    tlc -config pool_lockup.cfg MCPostgresPool
    tlc -config snapshot.cfg MCSnapshot
    tlc -config consumers.cfg MCConsumers
    tlc -config notifications.cfg MCNotifications
    tlc -config subscription.cfg MCNotifications
    tlc -config lifecycle.cfg MCLifecycle
    tlc -config transitions.cfg MCTransitions
    tlapm StateManagerProofs.tla
    tlapm StateManagerSerialProofs.tla
    tlapm PostgresPoolProofs.tla
    tlapm SnapshotProofs.tla
    tlapm ConsumersProofs.tla
    tlapm NotificationsProofs.tla
    tlapm LifecycleProofs.tla
    tlapm TransitionsProofs.tla
