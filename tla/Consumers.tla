----------------------------- MODULE Consumers ------------------------------
(***************************************************************************)
(* The event consumers (app/consumers): each takes one event at a time     *)
(* from its queue, and its handler turns the event into calls of the       *)
(* update_*_state methods, which race with those of the other consumers.   *)
(*                                                                         *)
(* A state is the last version the stores hold of an entity; of its        *)
(* attributes the model keeps whose payload each shows.  An update is a    *)
(* read of the whole state, a write of the whole state, and what remains   *)
(* to be stored; StateManager has the steps of each.  RabbitMQ and the     *)
(* client of autonomy_events are external: an event that was taken and not *)
(* answered is delivered again.                                            *)
(***************************************************************************)
EXTENDS Integers, Sequences, Functions

CONSTANTS
    Events,        \* the events; each carries one of Messages
    Messages,      \* what is published: a type, a subject and a flaw
    Consumers,     \* the consumer classes that are connected
    Global,        \* the entity ("global", "global")
    Subjects,      \* the engines and funnels
    MaxRetries,    \* of process_with_retry; 0 when handle_event is registered
                   \* directly, as main.py does
    Faults,        \* may a call of a store raise?
    MaxRestarts,   \* bound on the restarts of the service
    MaxRequeues,   \* bound on the redeliveries of failed events
    None

\* The types that each handle_event knows, and the attributes that the handler of
\* a type assigns: in the engine or funnel for the types of those consumers, in
\* the global state for the others.
FailureHandlers ==
    [type \in {"failure.detected", "failure.recovered"} |->
       CASE type = "failure.detected"          -> {"system_status", "failure_status"}
         [] type = "failure.recovered"         -> {"recovery_status"}]

EngineHandlers ==
    [type \in {"engine.health_report", "engine.degraded", "engine.recovered"} |->
       CASE type = "engine.health_report"      -> {"health", "load", "last_event"}
         [] type = "engine.degraded"           -> {"health", "last_error"}
         [] type = "engine.recovered"          -> {"health", "last_event"}]

FunnelHandlers ==
    [type \in {"funnel.created", "funnel.launched", "funnel.metrics", "funnel.archived"} |->
       CASE type = "funnel.created"            -> {"lifecycle_stage", "niche", "channels"}
         [] type = "funnel.launched"           -> {"lifecycle_stage", "channels"}
         [] type = "funnel.metrics"            -> {"totals"}
         [] type = "funnel.archived"           -> {"lifecycle_stage"}]

GovernanceHandlers ==
    [type \in {"governance.approved", "governance.rejected", "governance.override",
               "governance.emergency_stop"} |->
       IF type = "governance.emergency_stop" THEN {"system_status", "governance_status"}
       ELSE {"governance_status"}]

\* kg.entity_created does something else for funnels, for products and for every
\* other entity_type.
KGHandlers ==
    [type \in {"kg.entity_created:funnel", "kg.entity_created:product",
               "kg.entity_created:other", "kg.pattern_detected", "kg.insight_generated"} |->
       CASE type = "kg.entity_created:funnel"  -> {"active_funnels"}
         [] type = "kg.entity_created:product" -> {"active_products"}
         [] type = "kg.entity_created:other"   -> {}
         [] type = "kg.pattern_detected"       -> {"market_conditions"}
         [] type = "kg.insight_generated"      -> {"active_strategies"}]

ResourceHandlers ==
    [type \in {"resource.compute_request", "resource.api_request",
               "resource.budget_request"} |-> {"resource_usage"}]

StrategyHandlers ==
    [type \in {"strategy.alignment_request", "strategy.override"} |-> {"active_strategies"}]

Handlers ==
    [failure |-> FailureHandlers, engine |-> EngineHandlers, funnel |-> FunnelHandlers,
     governance |-> GovernanceHandlers, kg |-> KGHandlers,
     resource |-> ResourceHandlers, strategy |-> StrategyHandlers]

ConsumerOf(m) == CHOOSE c \in DOMAIN Handlers : m.type \in DOMAIN Handlers[c]
Assigned(m)   == Handlers[ConsumerOf(m)][m.type]

\* unhandled: the type or a required key of the payload is not what the handler
\* expects; invalid: validate_assignment rejects a value; untraced: no trace
\* parent, so that the StateTransition is rejected once the state is stored.
Flaws == {"none", "unhandled", "invalid", "untraced"}

Entities == {Global} \union Subjects

Assignment(entity, attributes) == [entity |-> entity, attributes |-> attributes]

\* Bug: the engine is listed as active before its state is there.
HealthReportListedFirst(m) ==
    <<Assignment(Global, {"active_engines"}), Assignment(m.subject, Assigned(m))>>

HealthReport(m) ==
    <<Assignment(m.subject, Assigned(m)), Assignment(Global, {"active_engines"})>>

\* The calls of update_*_state that the handler of a message makes, in order.
Updates(m) ==
    CASE m.type = "engine.health_report"    -> HealthReport(m)
      [] m.type = "kg.entity_created:other" -> <<>>
      [] OTHER ->
           LET entity == IF ConsumerOf(m) \in {"engine", "funnel"} THEN m.subject ELSE Global
           IN  <<Assignment(entity, Assigned(m))>>

\* Those that some message assigns: the handlers never touch the others.
Attributes == UNION {u.attributes : u \in UNION {Range(Updates(m)) : m \in Messages}}

Content == [Attributes -> SUBSET Events]
Empty   == [a \in Attributes |-> {}]

ASSUME ConsumersAssumption ==
    /\ Consumers \subseteq DOMAIN Handlers
    /\ \A m \in Messages :
          /\ \E c \in Consumers : m.type \in DOMAIN Handlers[c]
          /\ m.subject \in Subjects
          /\ m.flaw \in Flaws
    /\ Global \notin Subjects
    /\ {MaxRetries, MaxRestarts, MaxRequeues} \subseteq Nat
    /\ Faults \in BOOLEAN
    /\ None \notin Events /\ None \notin Content

VARIABLES
    message,   \* what each event carries
    status,    \* what has become of each event
    stored,    \* the state of each entity: the events that an attribute shows
    pc,        \* where each consumer is
    handling,  \* the event it handles, or None
    step,      \* the update that it makes next
    retries,   \* retry_count
    copy,      \* the state it has read
    since,     \* history: what others have assigned in the entity since it read it
    written,   \* history: the updates that the last attempt at an event has written
    latest,    \* history: the event that assigned each attribute last
    lost,      \* history: the attributes that were overwritten by an overlap
    restarts, requeues \* counters for the bounds

consumer == <<pc, handling, step, retries, copy, since>>
history  == <<written, latest, lost>>
bounds   == <<restarts, requeues>>
vars     == <<message, status, stored, consumer, history, bounds>>

Busy  == {"read", "write", "record", "backoff"}
Ended == {"done", "failed"}

TypeOK ==
    /\ message  \in [Events -> Messages]
    /\ status   \in [Events -> {"queued", "taken"} \union Ended]
    /\ stored   \in [Entities -> Content \union {None}]
    /\ pc       \in [Consumers -> {"idle", "stopped"} \union Busy]
    /\ handling \in [Consumers -> Events \union {None}]
    /\ step     \in [Consumers -> 1..2]
    /\ retries  \in [Consumers -> 0..MaxRetries]
    /\ copy     \in [Consumers -> Content]
    /\ since    \in [Consumers -> SUBSET Attributes]
    /\ written  \in [Events -> SUBSET (1..2)]
    /\ latest   \in [Entities -> [Attributes -> Events \union {None}]]
    /\ lost     \in [Entities -> SUBSET Attributes]
    /\ restarts \in 0..MaxRestarts
    /\ requeues \in 0..MaxRequeues

Init ==
    /\ message  \in [Events -> Messages]
    /\ status   = [e \in Events |-> "queued"]
    /\ stored   = [x \in Entities |-> None]
    /\ pc       = [c \in Consumers |-> "idle"]
    /\ handling = [c \in Consumers |-> None]
    /\ step     = [c \in Consumers |-> 1]
    /\ retries  = [c \in Consumers |-> 0]
    /\ copy     = [c \in Consumers |-> Empty]
    /\ since    = [c \in Consumers |-> {}]
    /\ written  = [e \in Events |-> {}]
    /\ latest   = [x \in Entities |-> [a \in Attributes |-> None]]
    /\ lost     = [x \in Entities |-> {}]
    /\ restarts = 0
    /\ requeues = 0

Message(c) == message[handling[c]]
Update(c)  == Updates(Message(c))[step[c]]
GoTo(c, label) == pc' = [pc EXCEPT ![c] = label]

-----------------------------------------------------------------------------
(***************************************************************************)
(* An attempt at an event: how it begins and the ways it ends.             *)
(***************************************************************************)

\* Consumer c drops the copy that its update worked on.
Forget(c) ==
    /\ copy'  = [copy EXCEPT ![c] = Empty]
    /\ since' = [since EXCEPT ![c] = {}]

\* A ConsumeResult, after which the consumer is free for the next event.
Answer(c, e, result) ==
    /\ status'   = [status EXCEPT ![e] = result]
    /\ handling' = [handling EXCEPT ![c] = None]
    /\ retries'  = [retries EXCEPT ![c] = 0]
    /\ step'     = [step EXCEPT ![c] = 1]
    /\ GoTo(c, "idle")

\* Event e stays with consumer c, which goes on at a label.
Keep(c, e, label) ==
    /\ status'   = [status EXCEPT ![e] = "taken"]
    /\ handling' = [handling EXCEPT ![c] = e]
    /\ step'     = [step EXCEPT ![c] = 1]
    /\ GoTo(c, label)

\* Bug: handle_event logs the exception and goes on to return success=True.
FailSwallowed(c, e) == Answer(c, e, "done")

\* Bug: retry_count is not incremented.
FailUncounted(c, e) == Keep(c, e, "backoff") /\ UNCHANGED retries

\* Bug: `while retry_count <= max_retries + 1`.
FailOnceMore(c, e) ==
    \/ /\ retries[c] <= MaxRetries
       /\ retries' = [retries EXCEPT ![c] = @ + 1]
       /\ Keep(c, e, "backoff")
    \/ retries[c] > MaxRetries /\ Answer(c, e, "failed")

\* handle_event returns success=False; process_with_retry tries again from the
\* start of the handler until its attempts are used up.
Fail(c, e) ==
    \/ /\ retries[c] < MaxRetries
       /\ retries' = [retries EXCEPT ![c] = @ + 1]
       /\ Keep(c, e, "backoff")
    \/ retries[c] = MaxRetries /\ Answer(c, e, "failed")

\* handle_event runs up to its first read, unless it has nothing to update.
Attempt(c, e) ==
    /\ LET m == message[e]
       IN  \/ m.flaw = "unhandled" /\ Fail(c, e)
           \/ m.flaw # "unhandled" /\ Updates(m) = <<>> /\ Answer(c, e, "done")
           \/ /\ m.flaw # "unhandled" /\ Updates(m) # <<>>
              /\ Keep(c, e, "read")
              /\ UNCHANGED retries
    /\ written' = [written EXCEPT ![e] = {}]

-----------------------------------------------------------------------------
(***************************************************************************)
(* A consumer handles an event.                                            *)
(***************************************************************************)

Take(c, e) ==
    /\ pc[c] = "idle"
    /\ status[e] = "queued" /\ ConsumerOf(message[e]) = c
    /\ Attempt(c, e)
    /\ UNCHANGED <<message, stored, copy, since, latest, lost, bounds>>

\* The method gets the state, or the defaults if there is none.
Read(c) ==
    /\ pc[c] = "read"
    /\ LET state == stored[Update(c).entity]
       IN  copy' = [copy EXCEPT ![c] = IF state = None THEN Empty ELSE state]
    /\ since' = [since EXCEPT ![c] = {}]
    /\ GoTo(c, "write")
    /\ UNCHANGED <<message, status, stored, handling, step, retries, history, bounds>>

\* Bug: the new state is built from the updates alone.
AppliedAfresh(state, u, e) ==
    [a \in Attributes |-> IF a \in u.attributes THEN {e} ELSE {}]

\* The setattr loop: an attribute, a list or a dictionary too, is replaced.
Applied(state, u, e) ==
    [a \in Attributes |-> IF a \in u.attributes THEN {e} ELSE state[a]]

Write(c) ==
    /\ pc[c] = "write"
    /\ Message(c).flaw # "invalid"
    /\ LET e == handling[c]
           u == Update(c)
           overlapping == {d \in Consumers \ {c} : pc[d] = "write" /\ Update(d).entity = u.entity}
       IN  /\ stored'  = [stored EXCEPT ![u.entity] = Applied(copy[c], u, e)]
           /\ written' = [written EXCEPT ![e] = @ \union {step[c]}]
           /\ latest'  = [latest EXCEPT ![u.entity] =
                            [a \in Attributes |-> IF a \in u.attributes THEN e ELSE @[a]]]
           /\ lost'    = [lost EXCEPT ![u.entity] = (@ \union since[c]) \ u.attributes]
           /\ since'   = [d \in Consumers |->
                            CASE d = c              -> {}
                              [] d \in overlapping  -> since[d] \union u.attributes
                              [] OTHER              -> since[d]]
    /\ copy' = [copy EXCEPT ![c] = Empty]
    /\ GoTo(c, "record")
    /\ UNCHANGED <<message, status, handling, step, retries, bounds>>

\* save_transition has returned: the handler makes its next update or returns.
Record(c) ==
    /\ pc[c] = "record"
    /\ Message(c).flaw # "untraced"
    /\ \/ /\ step[c] < Len(Updates(Message(c)))
          /\ step' = [step EXCEPT ![c] = @ + 1]
          /\ GoTo(c, "read")
          /\ UNCHANGED <<status, handling, retries>>
       \/ /\ step[c] = Len(Updates(Message(c)))
          /\ Answer(c, handling[c], "done")
    /\ UNCHANGED <<message, stored, copy, since, history, bounds>>

\* An update raises, before or after it has written the state.
Raise(c) ==
    /\ pc[c] \in {"read", "write", "record"}
    /\ \/ Faults
       \/ pc[c] = "write"  /\ Message(c).flaw = "invalid"
       \/ pc[c] = "record" /\ Message(c).flaw = "untraced"
    /\ Fail(c, handling[c])
    /\ Forget(c)
    /\ UNCHANGED <<message, stored, history, bounds>>

\* The backoff is over: handle_event is called again.
Wake(c) ==
    /\ pc[c] = "backoff"
    /\ Attempt(c, handling[c])
    /\ UNCHANGED <<message, stored, copy, since, latest, lost, bounds>>

-----------------------------------------------------------------------------
(***************************************************************************)
(* Around the handlers.                                                    *)
(***************************************************************************)

\* shutdown_event cancels the consumers' tasks at whatever they await; the broker
\* puts the events they had not answered back.
Shutdown ==
    /\ restarts < MaxRestarts
    /\ \A c \in Consumers : pc[c] # "stopped"
    /\ status'   = [e \in Events |-> IF status[e] = "taken" THEN "queued" ELSE status[e]]
    /\ pc'       = [c \in Consumers |-> "stopped"]
    /\ handling' = [c \in Consumers |-> None]
    /\ step'     = [c \in Consumers |-> 1]
    /\ retries'  = [c \in Consumers |-> 0]
    /\ copy'     = [c \in Consumers |-> Empty]
    /\ since'    = [c \in Consumers |-> {}]
    /\ restarts' = restarts + 1
    /\ UNCHANGED <<message, stored, history, requeues>>

Startup ==
    /\ \A c \in Consumers : pc[c] = "stopped"
    /\ pc' = [c \in Consumers |-> "idle"]
    /\ UNCHANGED <<message, status, stored, handling, step, retries, copy, since,
                   history, bounds>>

\* process_with_retry asks for it: should_requeue=True.
Requeue(e) ==
    /\ status[e] = "failed" /\ requeues < MaxRequeues
    /\ status' = [status EXCEPT ![e] = "queued"]
    /\ requeues' = requeues + 1
    /\ UNCHANGED <<message, stored, consumer, history, restarts>>

Handle(c) ==
    \/ \E e \in Events : Take(c, e)
    \/ Read(c) \/ Write(c) \/ Record(c) \/ Raise(c) \/ Wake(c)

Next ==
    \/ \E c \in Consumers : Handle(c)
    \/ Shutdown \/ Startup
    \/ \E e \in Events : Requeue(e)

Spec == Init /\ [][Next]_vars

\* A consumer's task goes on whatever the others do, and the service that was
\* shut down is started again.
FairSpec == Spec /\ (\A c \in Consumers : WF_vars(Handle(c))) /\ WF_vars(Startup)

-----------------------------------------------------------------------------
(***************************************************************************)
(* Properties.                                                             *)
(***************************************************************************)

\* The handlers do not lock what they update.  An attribute that no longer shows
\* the event that assigned it last was assigned after another consumer had read
\* the entity and before it wrote it back.  So an engine, a funnel, or the global
\* state while one consumer is connected, loses no update, whatever retries,
\* redeliveries and restarts do.
LossesAreOverlaps ==
    \A x \in Entities : \A a \in Attributes :
        latest[x][a] # None /\ stored[x][a] # {latest[x][a]} => a \in lost[x]

\* ConsumeResult(success=True) says that one attempt wrote all the event's
\* updates, whatever the attempts before it had done.
HandledIsWritten ==
    \A e \in Events : status[e] = "done" => written[e] = DOMAIN Updates(message[e])

\* _handle_health_report makes two updates, and the second may be lost, repeated
\* or interrupted: still, an engine listed in active_engines has a state.
ActiveEnginesHaveState ==
    "active_engines" \in Attributes /\ stored[Global] # None =>
        \A e \in stored[Global]["active_engines"] : stored[message[e].subject] # None

\* An event on its queue is answered: the attempts end, and an event that a
\* shutdown interrupts is handled after the restart.
EveryEventIsAnswered ==
    \A e \in Events : (status[e] = "queued") ~> (status[e] \in Ended)
=============================================================================
