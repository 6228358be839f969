---------------------------- MODULE PostgresPool ----------------------------
(***************************************************************************)
(* PostgresStateStore (app/state/postgres_store.py) and its connection     *)
(* pool.  Every method is                                                  *)
(*     async with self._pool.acquire() as conn: await conn.<query>         *)
(* and get_diff calls get_state twice inside such a block, so it holds one *)
(* connection, which it never uses, while it waits for another.            *)
(* The pool is asyncpg's (external): a fixed number of connections, and    *)
(* acquire() waits without a timeout until one is free.  A freed           *)
(* connection may go to any waiter: asyncio.Queue lets a task that runs    *)
(* take it before the waiter it woke up.                                   *)
(***************************************************************************)
EXTENDS Integers, FiniteSets

CONSTANTS
    Conns,  \* the connections of the pool
    Calls,  \* the calls of the store's methods; each is made at most once
    Diffs,  \* those that are calls of get_diff
    None

ASSUME PoolAssumption ==
    /\ IsFiniteSet(Conns) /\ IsFiniteSet(Calls)
    /\ Diffs \subseteq Calls
    /\ None \notin Conns

VARIABLES
    free,  \* the connections in the pool
    pc,    \* where each call stands
    outer, \* the connection of each call's own acquire(), or None
    inner  \* get_diff: the connection of the nested get_state, or None

vars == <<free, pc, outer, inner>>

\* new, wait: not yet in the block; query: in it, awaiting the query.
\* wait_from, from, wait_to, to: get_diff in its two calls of get_state.
\* leave: on its way out of the block.  ended: returned or raised.
Stages == {"new", "wait", "query", "wait_from", "from", "wait_to", "to", "leave", "ended"}

TypeOK ==
    /\ free \subseteq Conns
    /\ pc    \in [Calls -> Stages]
    /\ outer \in [Calls -> Conns \union {None}]
    /\ inner \in [Diffs -> Conns \union {None}]

Init ==
    /\ free  = Conns
    /\ pc    = [c \in Calls |-> "new"]
    /\ outer = [c \in Calls |-> None]
    /\ inner = [c \in Diffs |-> None]

GoTo(c, stage) == pc' = [pc EXCEPT ![c] = stage]

\* A method of the store is called.
Call(c) ==
    /\ pc[c] = "new"
    /\ GoTo(c, "wait")
    /\ UNCHANGED <<free, outer, inner>>

\* self._pool.acquire() grants a connection.
Enter(c) ==
    /\ pc[c] = "wait"
    /\ \E conn \in free :
          /\ free' = free \ {conn}
          /\ outer' = [outer EXCEPT ![c] = conn]
    /\ GoTo(c, IF c \in Diffs THEN "wait_from" ELSE "query")
    /\ UNCHANGED inner

\* The only query of the method is answered.
Query(c) ==
    /\ pc[c] = "query"
    /\ GoTo(c, "leave")
    /\ UNCHANGED <<free, outer, inner>>

\* get_diff: get_state(from_version), then get_state(to_version), each with an
\* acquire() of its own.
EnterGetState(c) ==
    /\ c \in Diffs
    /\ pc[c] \in {"wait_from", "wait_to"}
    /\ \E conn \in free :
          /\ free' = free \ {conn}
          /\ inner' = [inner EXCEPT ![c] = conn]
    /\ GoTo(c, IF pc[c] = "wait_from" THEN "from" ELSE "to")
    /\ UNCHANGED outer

\* Bug: the first connection of get_state is not given back.
LeaveGetStateHolding(c) ==
    /\ c \in Diffs
    /\ pc[c] \in {"from", "to"}
    /\ free' = IF pc[c] = "to" THEN free \union {inner[c]} ELSE free
    /\ inner' = [inner EXCEPT ![c] = None]
    /\ GoTo(c, IF pc[c] = "from" THEN "wait_to" ELSE "leave")
    /\ UNCHANGED outer

\* Bug: get_diff asks for the first version until it exists.
LeaveGetStateRetrying(c) ==
    /\ c \in Diffs
    /\ pc[c] \in {"from", "to"}
    /\ free' = free \union {inner[c]}
    /\ inner' = [inner EXCEPT ![c] = None]
    /\ \E stage \in {"wait_from", "wait_to"} :
          GoTo(c, IF pc[c] = "from" THEN stage ELSE "leave")
    /\ UNCHANGED outer

\* Its query is answered and its connection released.  After the second one
\* get_diff computes its answer, or returns None, or raises, without awaiting.
LeaveGetState(c) ==
    /\ c \in Diffs
    /\ pc[c] \in {"from", "to"}
    /\ free' = free \union {inner[c]}
    /\ inner' = [inner EXCEPT ![c] = None]
    /\ GoTo(c, IF pc[c] = "from" THEN "wait_to" ELSE "leave")
    /\ UNCHANGED outer

\* The end of the block releases the connection of the method.
Leave(c) ==
    /\ pc[c] = "leave"
    /\ free' = free \union {outer[c]}
    /\ outer' = [outer EXCEPT ![c] = None]
    /\ GoTo(c, "ended")
    /\ UNCHANGED inner

\* An acquire() or a query raises, or the task is cancelled: the blocks that
\* were entered are left, the inner one first.
FailWaiting(c) ==
    /\ pc[c] = "wait"
    /\ GoTo(c, "ended")
    /\ UNCHANGED <<free, outer, inner>>

FailInside(c) ==
    /\ pc[c] \in {"query", "wait_from", "wait_to"}
    /\ GoTo(c, "leave")
    /\ UNCHANGED <<free, outer, inner>>

\* Bug: a connection whose query raises is not released.
FailInGetStateHolding(c) ==
    /\ c \in Diffs
    /\ pc[c] \in {"from", "to"}
    /\ inner' = [inner EXCEPT ![c] = None]
    /\ GoTo(c, "leave")
    /\ UNCHANGED <<free, outer>>

FailInGetState(c) ==
    /\ c \in Diffs
    /\ pc[c] \in {"from", "to"}
    /\ free' = free \union {inner[c]}
    /\ inner' = [inner EXCEPT ![c] = None]
    /\ GoTo(c, "leave")
    /\ UNCHANGED outer

Step(c) == Enter(c) \/ Query(c) \/ EnterGetState(c) \/ LeaveGetState(c) \/ Leave(c)

Fail(c) == FailWaiting(c) \/ FailInside(c) \/ FailInGetState(c)

Next == \E c \in Calls : Call(c) \/ Step(c) \/ Fail(c)

Spec == Init /\ [][Next]_vars

\* The event loop runs every call that can go on, and the server answers.  A
\* call may fail, but need not.
FairSpec == Spec /\ \A c \in Calls : WF_vars(Step(c))

-----------------------------------------------------------------------------
Holds(c, conn) == outer[c] = conn \/ (c \in Diffs /\ inner[c] = conn)

\* Whatever fails and whenever: a connection is in the pool or with exactly
\* one call, a call never holds one twice, and a call that ended holds none.
ConnectionsAreKept ==
    \A conn \in Conns :
        /\ conn \in free <=> \A c \in Calls : ~Holds(c, conn)
        /\ \A c, d \in Calls : Holds(c, conn) /\ Holds(d, conn) => c = d
        /\ \A c \in Diffs : ~(outer[c] = conn /\ inner[c] = conn)
        /\ \A c \in Calls : Holds(c, conn) => pc[c] \notin {"new", "wait", "ended"}

Waits(c) == pc[c] \in {"wait", "wait_from", "wait_to"}

Proceeds(c) == pc[c] \in {"query", "from", "to", "leave"}

\* The pool does not lock up: while a call waits for a connection, there is a
\* free one, or some call holds one and is not itself waiting.
\* It rests on fewer calls of get_diff than connections.
NoLockup ==
    (\E c \in Calls : Waits(c)) => free # {} \/ \E c \in Calls : Proceeds(c)

\* Every call of the store ends.
EveryCallEnds == \A c \in Calls : pc[c] = "wait" ~> pc[c] = "ended"
=============================================================================
