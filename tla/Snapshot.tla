------------------------------ MODULE Snapshot ------------------------------
(***************************************************************************)
(* StateManager.create_snapshot (app/state/state_manager.py) and the calls *)
(* it makes: get_global_state, RedisStateStore.get_all_states for each     *)
(* entity type, PostgresStateStore.save_snapshot.  Updates go on while it  *)
(* reads, and keys expire.                                                 *)
(*                                                                         *)
(* A state is represented by its version.  get_global_state is one step    *)
(* here: StateManager has its steps.  A store call that raises ends the    *)
(* snapshot before its only write, the INSERT, and is left out.            *)
(***************************************************************************)
EXTENDS Integers

CONSTANTS
    Global,        \* the one global state
    Scanned,       \* the entities of the types that get_all_states scans
    TypeOf,        \* the entity type of each, an index into the order of scans
    Types,         \* the number of scans: engine, funnel, product, task
    Snapshots,     \* the calls of create_snapshot; each is made at most once
    Decoding,      \* how a connection may return a JSONB column (StateManager)
    Watched,       \* the entities of which the history keeps track
    MaxVersion,    \* bound on the version of each entity
    MaxClock,      \* bound on the seconds that pass
    None

Entities == {Global} \union Scanned

ASSUME SnapshotAssumption ==
    /\ Global \notin Scanned
    /\ Types \in Nat \ {0}
    /\ TypeOf \in [Scanned -> 1..Types]
    /\ Decoding # {} /\ Decoding \subseteq {"text", "json"}
    /\ Watched \subseteq Entities
    /\ MaxVersion \in [Entities -> Nat] /\ MaxClock \in Nat
    /\ None \notin Nat

\* The first update of the default state makes version 2.
Version(e) == 2..MaxVersion[e]

VARIABLES
    cache,   \* Redis: the version under each key, or None
    table,   \* table state: the latest version of each entity, or None
    clock,   \* datetime.utcnow(), in seconds
    saved,   \* table state_snapshots: the snapshot_id of each saved snapshot
    pc,      \* what each snapshot awaits, or how it ended
    id,      \* its snapshot_id: the second in which it started
    scan,    \* the entity type that it is scanning
    todo,    \* the keys that KEYS returned and that it has not read yet
    taken,   \* what it has read of each entity, or None
    moments  \* history: what Redis held of Watched at each moment since then

stores == <<cache, table, clock>>
locals == <<pc, id, scan, todo, taken>>
vars   == <<stores, saved, locals, moments>>

Awaiting == {"check", "global", "keys", "get", "save"}
Running(s) == pc[s] \in Awaiting

TypeOK ==
    /\ \A e \in Entities : {cache[e], table[e]} \subseteq Version(e) \union {None}
    /\ clock \in 0..MaxClock
    /\ saved \subseteq [snapshot : Snapshots, id : 0..MaxClock]
    /\ pc    \in [Snapshots -> {"new", "done", "failed"} \union Awaiting]
    /\ id    \in [Snapshots -> 0..MaxClock]
    /\ scan  \in [Snapshots -> 1..Types]
    /\ todo  \in [Snapshots -> SUBSET Scanned]
    /\ \A s \in Snapshots, e \in Entities : taken[s][e] \in Version(e) \union {None}

Init ==
    /\ cache = [e \in Entities |-> None]
    /\ table = [e \in Entities |-> None]
    /\ clock = 0
    /\ saved = {}
    /\ pc    = [s \in Snapshots |-> "new"]
    /\ id    = [s \in Snapshots |-> 0]
    /\ scan  = [s \in Snapshots |-> 1]
    /\ todo  = [s \in Snapshots |-> {}]
    /\ taken = [s \in Snapshots |-> [e \in Entities |-> None]]
    /\ moments = [s \in Snapshots |-> {}]

Seen(c) == [e \in Watched |-> c[e]]

\* Redis changes to c, which every running snapshot lives through.
Becomes(c) ==
    /\ cache' = c
    /\ moments' = [s \in Snapshots |->
                     IF Running(s) THEN moments[s] \union {Seen(c)} ELSE moments[s]]

GoTo(s, label) == pc' = [pc EXCEPT ![s] = label]

-----------------------------------------------------------------------------
(***************************************************************************)
(* What happens around a snapshot.                                         *)
(***************************************************************************)

Latest(e) == IF cache[e] # None THEN cache[e] ELSE table[e]

\* An update_*_state call, one at a time for an entity: the new version goes to
\* Redis, then to the table.
UpdateCache(e) ==
    /\ \/ cache[e] = table[e]
       \/ cache[e] = None /\ "json" \in Decoding
    /\ LET next == IF Latest(e) = None THEN 2 ELSE Latest(e) + 1
       IN  /\ next \in Version(e)
           /\ Becomes([cache EXCEPT ![e] = next])
    /\ UNCHANGED <<table, clock, saved, locals>>

UpdateTable(e) ==
    /\ cache[e] # None /\ cache[e] # table[e]
    /\ table' = [table EXCEPT ![e] = cache[e]]
    /\ UNCHANGED <<cache, clock, saved, locals, moments>>

\* The key's TTL runs out, or Redis evicts it or restarts.  If its state has no
\* row yet, the update that wrote it stopped before save_state.
Expire(e) ==
    /\ cache[e] # None
    /\ Becomes([cache EXCEPT ![e] = None])
    /\ UNCHANGED <<table, clock, saved, locals>>

Tick ==
    /\ clock < MaxClock
    /\ clock' = clock + 1
    /\ UNCHANGED <<cache, table, saved, locals, moments>>

-----------------------------------------------------------------------------
(***************************************************************************)
(* create_snapshot.                                                        *)
(***************************************************************************)

\* snapshot_id = f"snapshot_{int(datetime.utcnow().timestamp())}".
Start(s) ==
    /\ pc[s] = "new"
    /\ id' = [id EXCEPT ![s] = clock]
    /\ moments' = [moments EXCEPT ![s] = {Seen(cache)}]
    /\ GoTo(s, "check")
    /\ UNCHANGED <<stores, saved, scan, todo, taken>>

\* (await get_global_state()).model_dump() if await get_global_state() else {}
\* is two calls: the condition, then the value.  Found: the state is in Redis,
\* or in a row that the call decodes and caches.
GlobalFound(s) ==
    /\ pc[s] \in {"check", "global"}
    /\ Latest(Global) # None
    /\ cache[Global] # None \/ "json" \in Decoding
    /\ IF cache[Global] # None THEN UNCHANGED <<cache, moments>>
       ELSE Becomes([cache EXCEPT ![Global] = table[Global]])
    /\ taken' = IF pc[s] = "check" THEN taken
                ELSE [taken EXCEPT ![s][Global] = Latest(Global)]
    /\ GoTo(s, IF pc[s] = "check" THEN "global" ELSE "keys")
    /\ UNCHANGED <<table, clock, saved, id, scan, todo>>

\* No state yet.
GlobalEmpty(s) ==
    /\ pc[s] = "check"
    /\ Latest(Global) = None
    /\ GoTo(s, "keys")
    /\ UNCHANGED <<stores, saved, id, scan, todo, taken, moments>>

\* The state was there for the condition and is gone for the value:
\* None.model_dump() raises AttributeError.
GlobalGone(s) ==
    /\ pc[s] = "global"
    /\ Latest(Global) = None
    /\ GoTo(s, "failed")
    /\ UNCHANGED <<stores, saved, id, scan, todo, taken, moments>>

\* The row is text: TypeError.
GlobalText(s) ==
    /\ pc[s] \in {"check", "global"}
    /\ cache[Global] = None /\ table[Global] # None
    /\ "text" \in Decoding
    /\ GoTo(s, "failed")
    /\ UNCHANGED <<stores, saved, id, scan, todo, taken, moments>>

\* Bug: one scan too many.
EndScanLate(s) ==
    IF scan[s] > Types THEN GoTo(s, "save") /\ UNCHANGED scan
    ELSE GoTo(s, "keys") /\ scan' = [scan EXCEPT ![s] = @ + 1]

\* The scans end when there is no next type.
EndScan(s) ==
    IF scan[s] = Types THEN GoTo(s, "save") /\ UNCHANGED scan
    ELSE GoTo(s, "keys") /\ scan' = [scan EXCEPT ![s] = @ + 1]

\* Bug: the pattern names the next entity type.
KeysOfNext(t) == {e \in Scanned : TypeOf[e] = t + 1 /\ cache[e] # None}

\* The keys that match state:<type>:*.
KeysOf(t) == {e \in Scanned : TypeOf[e] = t /\ cache[e] # None}

\* get_all_states: KEYS ...
ListKeys(s) ==
    /\ pc[s] = "keys"
    /\ todo' = [todo EXCEPT ![s] = KeysOf(scan[s])]
    /\ IF KeysOf(scan[s]) = {} THEN EndScan(s) ELSE GoTo(s, "get") /\ UNCHANGED scan
    /\ UNCHANGED <<stores, saved, id, taken, moments>>

\* Bug: the states of the listed keys are read from the table.
ReadKeyInTable(s) ==
    /\ pc[s] = "get"
    /\ \E e \in todo[s] :
          /\ taken' = [taken EXCEPT ![s][e] = table[e]]
          /\ todo' = [todo EXCEPT ![s] = @ \ {e}]
    /\ IF todo'[s] = {} THEN EndScan(s) ELSE UNCHANGED <<pc, scan>>
    /\ UNCHANGED <<stores, saved, id, moments>>

\* Bug: keys that expired are listed again.
ReadKeyOrRelist(s) ==
    /\ pc[s] = "get"
    /\ \E e \in todo[s] :
          /\ taken' = [taken EXCEPT ![s][e] = cache[e]]
          /\ todo' = [todo EXCEPT ![s] = @ \ {e}]
          /\ IF cache[e] = None THEN GoTo(s, "keys") /\ UNCHANGED scan
             ELSE IF todo'[s] = {} THEN EndScan(s) ELSE UNCHANGED <<pc, scan>>
    /\ UNCHANGED <<stores, saved, id, moments>>

\* ... then GET of each key; a key that expired in between is left out.
ReadKey(s) ==
    /\ pc[s] = "get"
    /\ \E e \in todo[s] :
          /\ taken' = [taken EXCEPT ![s][e] = cache[e]]
          /\ todo' = [todo EXCEPT ![s] = @ \ {e}]
    /\ IF todo'[s] = {} THEN EndScan(s) ELSE UNCHANGED <<pc, scan>>
    /\ UNCHANGED <<stores, saved, id, moments>>

\* Bug: the table lets a snapshot_id be inserted twice.
SaveAnyway(s) ==
    /\ pc[s] = "save"
    /\ saved' = saved \union {[snapshot |-> s, id |-> id[s]]}
    /\ GoTo(s, "done")
    /\ UNCHANGED <<stores, id, scan, todo, taken, moments>>

\* INSERT INTO state_snapshots, whose snapshot_id is UNIQUE.
Save(s) ==
    /\ pc[s] = "save"
    /\ \A x \in saved : x.id # id[s]
    /\ saved' = saved \union {[snapshot |-> s, id |-> id[s]]}
    /\ GoTo(s, "done")
    /\ UNCHANGED <<stores, id, scan, todo, taken, moments>>

SaveConflict(s) ==
    /\ pc[s] = "save"
    /\ \E x \in saved : x.id = id[s]
    /\ GoTo(s, "failed")
    /\ UNCHANGED <<stores, saved, id, scan, todo, taken, moments>>

Step(s) ==
    \/ GlobalFound(s) \/ GlobalEmpty(s) \/ GlobalGone(s) \/ GlobalText(s)
    \/ ListKeys(s) \/ ReadKey(s) \/ Save(s) \/ SaveConflict(s)

Next ==
    \/ \E s \in Snapshots : Start(s) \/ Step(s)
    \/ \E e \in Entities : UpdateCache(e) \/ UpdateTable(e) \/ Expire(e)
    \/ Tick

Spec == Init /\ [][Next]_vars

\* The event loop runs a snapshot that was started, and the stores answer.
FairSpec == Spec /\ \A s \in Snapshots : WF_vars(Step(s))

-----------------------------------------------------------------------------
\* What Redis held of e at some moment while s ran.
Lived(s, e) == {m[e] : m \in moments[s]}

\* A saved snapshot holds no state from before it started, or that was never
\* current: each entry was in Redis at some moment while it ran.
EntriesWereCurrent ==
    \A s \in Snapshots : pc[s] = "done" =>
        \A e \in Watched : taken[s][e] # None => taken[s][e] \in Lived(s, e)

\* A saved snapshot leaves out no entity that was in Redis all the time.  It is not
\* full (create_snapshot: "Create a full state snapshot."): an entity whose key has
\* expired is left out although it is saved.
OmittedWereUncached ==
    \A s \in Snapshots : pc[s] = "done" =>
        \A e \in Watched : taken[s][e] = None => None \in Lived(s, e)

\* The snapshot_id that the caller was given finds that snapshot and no other,
\* although the id has a resolution of a second.
IdFindsSnapshot ==
    \A s \in Snapshots : pc[s] = "done" =>
        {x \in saved : x.id = id[s]} = {[snapshot |-> s, id |-> id[s]]}

\* Every snapshot that was started returns or raises.
EverySnapshotEnds == \A s \in Snapshots : pc[s] = "check" ~> pc[s] \in {"done", "failed"}
=============================================================================
