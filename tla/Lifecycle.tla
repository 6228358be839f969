------------------------------ MODULE Lifecycle ------------------------------
(***************************************************************************)
(* Connections and who uses them: startup_event and shutdown_event         *)
(* (app/main.py), the tasks of the two event consumers, and the requests,  *)
(* which use the service's own stores or open something for themselves     *)
(* (app/controllers/state_controller.py, dlq_controller.py).               *)
(*                                                                         *)
(* The server (uvicorn, external) runs startup_event before it serves,     *)
(* exits if that raises, and when it is told to stop lets the requests and *)
(* the WebSocket sessions end before it runs shutdown_event.  The end of   *)
(* the process closes what is still open.                                  *)
(***************************************************************************)
EXTENDS Integers, Sequences, Functions

CONSTANTS
    Requests,  \* the requests, each made once
    Faults,    \* may a connection, a query or a disconnect raise?
    MaxStarts  \* bounds how often the process is started

ASSUME LifecycleAssumption == Faults \in BOOLEAN /\ MaxStarts \in Nat

\* startup_event awaits these in turn.  PostgresStateStore.connect is two of
\* them: the schema is initialised over the pool that was just created.
StartupSteps ==
    <<"redis", "pool", "schema", "emitter", "failures", "publisher", "remediation">>

\* Bug: the publisher of the DLQ consumer is forgotten.
ShutdownStepsWithoutPublisher ==
    <<"failures", "remediation", "emitter", "redis", "pool">>

ShutdownSteps ==
    <<"failures", "remediation", "publisher", "emitter", "redis", "pool">>

Connections == Range(ShutdownSteps)

\* The tasks of start_consuming: FailureConsumer works through the state manager,
\* DLQRemediationConsumer through its publisher.
Consumers == {"failures", "remediation"}
Stores    == {"redis", "pool"}

Needs == [c \in Consumers |-> IF c = "failures" THEN Stores ELSE {"publisher"}]

\* state, diff: through get_state_manager; alerts: `async with` a
\* PostgresStateStore; dlq: `async with` a DLQManager; session: a WebSocket of
\* /state/subscribe, over a RedisStateStore.
Managed      == {"state", "diff"}
RequestKinds == Managed \union {"alerts", "dlq", "session"}

\* PostgresStateStore.connect goes on to initialise the schema over its new pool,
\* RedisStateStore.connect to PING over its new client.
Probed == {"alerts", "session"}

VARIABLES
    phase,    \* off, starting, serving, draining, stopping, stopped
    step,     \* the step of startup_event or shutdown_event that comes next
    open,     \* the service's connections that are open
    manager,  \* is the global state_manager set?
    raised,   \* has shutdown_event raised?
    starts,   \* counts the starts of the process
    task,     \* each consumer's task
    pc,       \* where each request is
    kind,     \* what each request asks for
    own       \* the requests whose own connection, or pool, is open

service  == <<phase, step, open, manager, raised, starts>>
requests == <<pc, kind, own>>
vars     == <<service, task, requests>>

\* idle: waits for an event; busy: in its handler; cancelled: cancel() was
\* called and the task has not run since; ended: cancelled or died.
TaskStates == {"none", "idle", "busy", "cancelled", "ended"}
Underway   == {"opening", "probing", "using", "closing"}
\* unprobed: the schema, or the PING, raised; unclosed: the disconnect did.
Over       == {"done", "failed", "refused", "unprobed", "unclosed"}

TypeOK ==
    /\ phase   \in {"off", "starting", "serving", "draining", "stopping", "stopped"}
    /\ step    \in 1..(Len(StartupSteps) + 1)
    /\ open    \subseteq Connections
    /\ manager \in BOOLEAN /\ raised \in BOOLEAN
    /\ starts  \in 0..MaxStarts
    /\ task    \in [Consumers -> TaskStates]
    /\ pc      \in [Requests -> {"new"} \union Underway \union Over]
    /\ kind    \in [Requests -> RequestKinds \union {"none"}]
    /\ own     \subseteq Requests

Init ==
    /\ phase = "off" /\ step = 1 /\ open = {} /\ manager = FALSE /\ raised = FALSE
    /\ starts = 0
    /\ task = [c \in Consumers |-> "none"]
    /\ pc   = [r \in Requests |-> "new"]
    /\ kind = [r \in Requests |-> "none"]
    /\ own  = {}

Active(r)      == pc[r] \in Underway
GoTo(r, label) == pc' = [pc EXCEPT ![r] = label]

-----------------------------------------------------------------------------
(***************************************************************************)
(* startup_event                                                           *)
(***************************************************************************)

\* What a new process begins with.
Fresh ==
    /\ step' = 1 /\ open' = {} /\ manager' = FALSE /\ raised' = FALSE
    /\ task' = [c \in Consumers |-> "none"]

Start ==
    /\ phase = "off" /\ starts < MaxStarts
    /\ \A r \in Requests : ~Active(r)
    /\ phase' = "starting" /\ starts' = starts + 1
    /\ own' = {}
    /\ Fresh
    /\ UNCHANGED <<pc, kind>>

\* Bug: every step of startup_event is taken for a connection.
ConnectEachStep ==
    /\ phase = "starting" /\ step <= Len(StartupSteps)
    /\ open'    = open \union {StartupSteps[step]}
    /\ manager' = (manager \/ StartupSteps[step] = "schema")
    /\ step'    = step + 1
    /\ UNCHANGED <<phase, raised, starts, task, requests>>

Connect ==
    /\ phase = "starting" /\ step <= Len(StartupSteps)
    /\ open'    = open \union ({StartupSteps[step]} \ {"schema"})
    /\ manager' = (manager \/ StartupSteps[step] = "schema")
    /\ step'    = step + 1
    /\ UNCHANGED <<phase, raised, starts, task, requests>>

\* startup_event creates the tasks and returns.
Serve ==
    /\ phase = "starting" /\ step > Len(StartupSteps)
    /\ task' = [c \in Consumers |-> "idle"]
    /\ phase' = "serving"
    /\ UNCHANGED <<step, open, manager, raised, starts, requests>>

\* A step raises, and the process ends.
StartFails ==
    /\ Faults /\ phase = "starting" /\ step <= Len(StartupSteps)
    /\ phase' = "off"
    /\ Fresh
    /\ UNCHANGED <<starts, requests>>

-----------------------------------------------------------------------------
(***************************************************************************)
(* shutdown_event                                                          *)
(***************************************************************************)

Stop ==
    /\ phase = "serving"
    /\ phase' = "draining"
    /\ UNCHANGED <<step, open, manager, raised, starts, task, requests>>

\* Bug: the tasks are not cancelled.
BeginShutdownLeavingTasks ==
    /\ phase = "draining" /\ \A r \in Requests : ~Active(r)
    /\ phase' = "stopping" /\ step' = 1
    /\ UNCHANGED <<open, manager, raised, starts, task, requests>>

\* The requests have ended.  shutdown_event cancels the tasks, which does not
\* wait for them.
BeginShutdown ==
    /\ phase = "draining" /\ \A r \in Requests : ~Active(r)
    /\ phase' = "stopping" /\ step' = 1
    /\ task' = [c \in Consumers |-> IF task[c] \in {"idle", "busy"} THEN "cancelled"
                                    ELSE task[c]]
    /\ UNCHANGED <<open, manager, raised, starts, requests>>

\* A disconnect returns.  The pool closes when no handler holds one of its
\* connections any more.
Disconnect ==
    /\ phase = "stopping" /\ step <= Len(ShutdownSteps)
    /\ ShutdownSteps[step] = "pool" => task["failures"] \notin {"busy", "cancelled"}
    /\ open' = open \ {ShutdownSteps[step]}
    /\ step' = step + 1
    /\ UNCHANGED <<phase, manager, raised, starts, task, requests>>

\* A disconnect raises, and the ones after it are not reached.
DisconnectFails ==
    /\ Faults /\ phase = "stopping" /\ step <= Len(ShutdownSteps)
    /\ phase' = "stopped" /\ raised' = TRUE
    /\ UNCHANGED <<step, open, manager, starts, task, requests>>

EndShutdown ==
    /\ phase = "stopping" /\ step > Len(ShutdownSteps)
    /\ phase' = "stopped"
    /\ UNCHANGED <<step, open, manager, raised, starts, task, requests>>

Exit ==
    /\ phase = "stopped"
    /\ phase' = "off"
    /\ own' = {}
    /\ Fresh
    /\ UNCHANGED <<starts, pc, kind>>

-----------------------------------------------------------------------------
(***************************************************************************)
(* The consumers' tasks: start_consuming.                                  *)
(***************************************************************************)

SetTask(c, from, to) ==
    /\ task[c] = from
    /\ task' = [task EXCEPT ![c] = to]
    /\ UNCHANGED <<service, requests>>

BeginEvent(c) == SetTask(c, "idle", "busy")
EndEvent(c)   == SetTask(c, "busy", "idle")

\* The broker's connection is lost and start_consuming raises.  Nobody awaits the
\* task, and nobody notices.
Die(c) == Faults /\ SetTask(c, "idle", "ended")

\* The CancelledError reaches the task, which gives back what it holds.
Unwind(c) == SetTask(c, "cancelled", "ended")

-----------------------------------------------------------------------------
(***************************************************************************)
(* The requests.                                                           *)
(***************************************************************************)

\* Bug: without a state manager a fresh one is made, which nobody has connected.
ArriveAtFreshManager(r) ==
    /\ phase \in {"off", "serving"} /\ pc[r] = "new"
    /\ \E k \in RequestKinds :
          /\ kind' = [kind EXCEPT ![r] = k]
          /\ GoTo(r, IF k \in Managed THEN "using" ELSE "opening")
    /\ UNCHANGED <<service, task, own>>

\* get_state_manager answers 503 while there is no state manager, as for a
\* TestClient that never runs startup_event (phase "off").  The other requests
\* do not ask for it.
Arrive(r) ==
    /\ phase \in {"off", "serving"} /\ pc[r] = "new"
    /\ \E k \in RequestKinds :
          /\ kind' = [kind EXCEPT ![r] = k]
          /\ GoTo(r, CASE k \in Managed /\ manager  -> "using"
                       [] k \in Managed /\ ~manager -> "refused"
                       [] k \notin Managed          -> "opening")
    /\ UNCHANGED <<service, task, own>>

\* connect creates the pool or the client, ...
Open(r) ==
    /\ pc[r] = "opening"
    /\ own' = own \union {r}
    /\ GoTo(r, IF kind[r] \in Probed THEN "probing" ELSE "using")
    /\ UNCHANGED <<service, task, kind>>

OpenFails(r) ==
    /\ Faults /\ pc[r] = "opening"
    /\ GoTo(r, "failed")
    /\ UNCHANGED <<service, task, kind, own>>

\* ... and makes the first query over it.
Probe(r) ==
    /\ pc[r] = "probing"
    /\ GoTo(r, "using")
    /\ UNCHANGED <<service, task, kind, own>>

\* connect raises: __aexit__ is not called for an __aenter__ that raised, and the
\* `try` of the session begins after its connect.  What was created stays open.
ProbeFails(r) ==
    /\ Faults /\ pc[r] = "probing"
    /\ GoTo(r, "unprobed")
    /\ UNCHANGED <<service, task, kind, own>>

\* Bug: an exception leaves the block without __aexit__.
UseLeaking(r) ==
    /\ pc[r] = "using"
    /\ GoTo(r, IF Faults THEN "failed" ELSE "closing")
    /\ UNCHANGED <<service, task, kind, own>>

\* The calls that the request is about return or raise, or a session leaves its
\* loop; either way `async with` or `finally` closes what was opened.
Use(r) ==
    /\ pc[r] = "using"
    /\ GoTo(r, IF kind[r] \in Managed THEN "done" ELSE "closing")
    /\ UNCHANGED <<service, task, kind, own>>

\* __aexit__, or the session's disconnect.
CloseOwn(r) ==
    /\ pc[r] = "closing"
    /\ own' = own \ {r}
    /\ GoTo(r, "done")
    /\ UNCHANGED <<service, task, kind>>

\* RedisStateStore.disconnect raises at the pubsub and does not reach the client.
\* (A pool whose close() raises has terminated its connections.)
CloseFails(r) ==
    /\ Faults /\ pc[r] = "closing"
    /\ own' = IF kind[r] = "session" THEN own ELSE own \ {r}
    /\ GoTo(r, IF kind[r] = "session" THEN "unclosed" ELSE "failed")
    /\ UNCHANGED <<service, task, kind>>

-----------------------------------------------------------------------------
Boot == Connect \/ Serve
Halt == BeginShutdown \/ Disconnect \/ EndShutdown \/ Exit
Proceed(r) == Open(r) \/ Probe(r) \/ Use(r) \/ CloseOwn(r)
Break(r)   == OpenFails(r) \/ ProbeFails(r) \/ CloseFails(r)

Next ==
    \/ Start \/ Boot \/ StartFails
    \/ Stop \/ Halt \/ DisconnectFails
    \/ \E c \in Consumers : BeginEvent(c) \/ EndEvent(c) \/ Die(c) \/ Unwind(c)
    \/ \E r \in Requests : Arrive(r) \/ Proceed(r) \/ Break(r)

Spec == Init /\ [][Next]_vars

\* r may go on for ever: a diff that waits for its second connection does so
\* without a timeout, and a session whose channel is silent loops.
Hangs(r) == pc[r] = "using" /\ kind[r] \in {"diff", "session"}

\* While a diff hangs, the pool may have no connection for another request.
Starves(r) ==
    /\ pc[r] = "using" /\ kind[r] = "state"
    /\ \E q \in Requests : Hangs(q) /\ kind[q] = "diff"

\* What was begun goes on, but for the requests that hang: the event loop runs
\* the handlers and delivers cancellations, the stores answer.  Nothing has to
\* start, to stop, to arrive or to fail.
FairSpec ==
    /\ Spec
    /\ WF_vars(Boot) /\ WF_vars(Halt)
    /\ \A c \in Consumers : WF_vars(Unwind(c))
    /\ \A r \in Requests : WF_vars(~Hangs(r) /\ ~Starves(r) /\ Proceed(r))

-----------------------------------------------------------------------------
(***************************************************************************)
(* Properties.                                                             *)
(***************************************************************************)

\* Nobody works with a connection that is not open: neither a request that was
\* given the state manager nor a handler, from the first event to the shutdown,
\* which closes the stores without waiting for the tasks it cancels.
UsersAreConnected ==
    /\ \A r \in Requests :
          pc[r] = "using" /\ kind[r] \in Managed => Stores \subseteq open
    /\ \A c \in Consumers : task[c] = "busy" => Needs[c] \subseteq open

\* A shutdown_event that returns has closed everything that startup_event opened,
\* whatever the tasks were doing.
ShutdownCleansUp == phase = "stopped" /\ ~raised => open = {}

\* A request that is over has closed what it opened for itself, unless its
\* connect raised after opening it, or the disconnect of a session raised.
RequestsCloseTheirOwn ==
    \A r \in own : Active(r) \/ pc[r] \in {"unprobed", "unclosed"}

\* A service that was told to stop ends, with requests under way, with handlers
\* at work and with consumers that have died, unless one diff or one session
\* hangs for ever: nothing else delays the stop, and these only by never ending.
OnlyHangingRequestsDelayStop ==
    phase = "draining" ~> (phase = "off" \/ \E r \in Requests : []Hangs(r))
=============================================================================
