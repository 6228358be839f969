--------------------------- MODULE LifecycleProofs ---------------------------
(***************************************************************************)
(* Theorems about Lifecycle: for any number of requests and starts, with   *)
(* or without faults.                                                      *)
(***************************************************************************)
EXTENDS Lifecycle, TLAPS

-----------------------------------------------------------------------------
(***************************************************************************)
(* The inductive invariant: the phase of the service says what is open,    *)
(* what the tasks may be doing and who may be under way; the place of a    *)
(* request says whether it has something open of its own.                  *)
(***************************************************************************)

\* What the steps before the next one have opened, or closed.
OpenedSoFar == {StartupSteps[i] : i \in 1 .. step - 1} \ {"schema"}
ClosedSoFar == {ShutdownSteps[i] : i \in 1 .. step - 1}

UsesState(r) == Active(r) /\ kind[r] \in Managed

PhasesOK ==
    /\ phase \in {"off", "starting"} => \A c \in Consumers : task[c] = "none"
    /\ phase \in {"off", "starting"} => \A r \in Requests : ~UsesState(r)
    /\ phase = "off"      => ~manager
    /\ phase = "starting" => open = OpenedSoFar /\ (manager <=> step > 3)
    /\ phase \in {"serving", "draining"} =>
          /\ open = Connections
          /\ \A c \in Consumers : task[c] \in {"idle", "busy", "ended"}
    /\ phase = "stopping" => open = Connections \ ClosedSoFar /\ step <= 7
    /\ phase \in {"stopping", "stopped"} =>
          /\ \A c \in Consumers : task[c] \in {"cancelled", "ended"}
          /\ \A r \in Requests : ~Active(r)
    /\ phase = "stopped" /\ ~raised => open = {}

RequestsOK ==
    \A r \in Requests :
        /\ pc[r] = "new" => r \notin own
        /\ pc[r] = "opening" => r \notin own
        /\ pc[r] \in {"opening", "probing", "closing"} => kind[r] \notin Managed
        /\ kind[r] \in Managed => r \notin own
        /\ r \in own => Active(r) \/ pc[r] \in {"unprobed", "unclosed"}

LifeInv == TypeOK /\ PhasesOK /\ RequestsOK

-----------------------------------------------------------------------------
(***************************************************************************)
(* What the two lists of steps say.                                        *)
(***************************************************************************)

LEMMA StartupLength == Len(StartupSteps) = 7
BY DEF StartupSteps

LEMMA Startup ==
    /\ Len(StartupSteps) = 7
    /\ {StartupSteps[i] : i \in 1 .. 7} \ {"schema"} = Connections
    /\ \A i \in 1 .. 7 : StartupSteps[i] \in Connections \union {"schema"}
    /\ \A i \in 1 .. 7 : StartupSteps[i] = "schema" <=> i = 3
<1> DEFINE S == StartupSteps
<1>1. /\ Len(S) = 7
      /\ S[1] = "redis" /\ S[2] = "pool" /\ S[3] = "schema" /\ S[4] = "emitter"
      /\ S[5] = "failures" /\ S[6] = "publisher" /\ S[7] = "remediation"
  BY DEF StartupSteps
<1>2. Connections = {"failures", "remediation", "publisher", "emitter", "redis", "pool"}
  BY DEF Connections, Range, ShutdownSteps
<1>3. \A i \in 1 .. 7 : i \in {1, 2, 3, 4, 5, 6, 7}
  OBVIOUS
<1>4. {S[i] : i \in 1 .. 7}
        = {"redis", "pool", "schema", "emitter", "failures", "publisher", "remediation"}
  BY <1>1, <1>3
<1> QED
  BY <1>1, <1>2, <1>3, <1>4

LEMMA Shutdown ==
    /\ Len(ShutdownSteps) = 6
    /\ {ShutdownSteps[i] : i \in 1 .. 6} = Connections
<1>1. Len(ShutdownSteps) = 6 /\ DOMAIN ShutdownSteps = 1 .. 6
  BY DEF ShutdownSteps
<1> QED
  BY <1>1 DEF Connections, Range

LEMMA ConsumersNeed ==
    /\ Stores \subseteq Connections
    /\ \A c \in Consumers : Needs[c] \subseteq Connections
BY DEF Stores, Connections, Range, ShutdownSteps, Consumers, Needs

-----------------------------------------------------------------------------
\* A process that has not started, or ended, has nothing open.
LEMMA InitLifeInv == Init => LifeInv
<1> SUFFICES ASSUME Init PROVE LifeInv
  OBVIOUS
<1>0. 1 \in 1 .. Len(StartupSteps) + 1 /\ 0 \in 0 .. MaxStarts
  BY LifecycleAssumption, StartupLength
<1>1. TypeOK
  BY <1>0 DEF Init, TypeOK, TaskStates
<1>2. PhasesOK /\ RequestsOK
  BY DEF Init, PhasesOK, RequestsOK, UsesState, Active, Underway
<1> QED
  BY <1>1, <1>2 DEF LifeInv

\* Neither has a new process, nor one that has just ended.
LEMMA NewProcess ==
    ASSUME TypeOK, Fresh, phase' \in {"off", "starting"}, starts' \in 0 .. MaxStarts,
           UNCHANGED <<pc, kind>>, own' \subseteq Requests,
           \A r \in Requests : ~UsesState(r)'
    PROVE  TypeOK' /\ PhasesOK'
<1>1. OpenedSoFar' = {}
  BY DEF OpenedSoFar, Fresh
<1>0. step' \in 1 .. Len(StartupSteps) + 1
  BY StartupLength DEF Fresh
<1>2. TypeOK'
  BY <1>0 DEF TypeOK, TaskStates, Fresh
<1>3. PhasesOK'
  BY <1>1 DEF PhasesOK, Fresh
<1> QED
  BY <1>2, <1>3

\* A step of the service, which leaves the requests where they are.
LEMMA RequestsStay ==
    ASSUME RequestsOK, UNCHANGED <<pc, kind>>, own' = own \/ own' = {}
    PROVE  RequestsOK'
BY DEF RequestsOK, Active

LEMMA NextLifeInv == LifeInv /\ [Next]_vars => LifeInv'
<1> SUFFICES ASSUME LifeInv, [Next]_vars PROVE LifeInv'
  OBVIOUS
<1> USE LifecycleAssumption DEF LifeInv
<1>1. CASE Start
  <2>1. /\ Fresh /\ phase' = "starting" /\ starts' \in 0 .. MaxStarts /\ own' = {}
        /\ UNCHANGED <<pc, kind>> /\ \A r \in Requests : ~UsesState(r)'
    BY <1>1 DEF Start, TypeOK, UsesState, Active
  <2> QED
    BY <2>1, NewProcess, RequestsStay
<1>2. CASE Connect
  <2>1. /\ phase = "starting" /\ step \in 1 .. 7 /\ step' = step + 1
        /\ open' = open \union ({StartupSteps[step]} \ {"schema"})
        /\ manager' = (manager \/ StartupSteps[step] = "schema")
        /\ UNCHANGED <<phase, raised, starts, task, pc, kind, own>>
    BY <1>2, Startup DEF Connect, requests, TypeOK
  <2>2. TypeOK'
    BY <2>1, Startup DEF TypeOK
  <2>3. OpenedSoFar' = OpenedSoFar \union ({StartupSteps[step]} \ {"schema"})
    <3>1. 1 .. step' - 1 = (1 .. step - 1) \union {step}
      BY <2>1
    <3> QED
      BY <3>1 DEF OpenedSoFar
  <2>4. manager' <=> step' > 3
    <3>1. manager <=> step > 3
      BY <2>1 DEF PhasesOK
    <3>2. StartupSteps[step] = "schema" <=> step = 3
      BY <2>1, Startup
    <3>3. step' > 3 <=> step > 3 \/ step = 3
      BY <2>1
    <3> QED
      BY <2>1, <3>1, <3>2, <3>3, Zenon
  <2>5. PhasesOK'
    BY <2>1, <2>3, <2>4 DEF PhasesOK, UsesState, Active
  <2> QED
    BY <2>1, <2>2, <2>5, RequestsStay
<1>3. CASE Serve
  <2>1. /\ phase = "starting" /\ step = 8 /\ phase' = "serving"
        /\ task' = [c \in Consumers |-> "idle"]
        /\ UNCHANGED <<step, open, manager, raised, starts, pc, kind, own>>
    BY <1>3, Startup DEF Serve, requests, TypeOK
  <2>2. OpenedSoFar = Connections
    BY <2>1, Startup DEF OpenedSoFar
  <2>3. TypeOK' /\ PhasesOK'
    BY <2>1, <2>2 DEF TypeOK, PhasesOK, TaskStates
  <2> QED
    BY <2>1, <2>3, RequestsStay
<1>4. CASE StartFails
  <2>1. /\ Fresh /\ phase' = "off" /\ UNCHANGED <<starts, pc, kind, own>>
        /\ \A r \in Requests : ~UsesState(r)'
    BY <1>4 DEF StartFails, requests, PhasesOK, UsesState, Active
  <2> QED
    BY <2>1, NewProcess, RequestsStay DEF TypeOK
<1>5. CASE Stop
  BY <1>5, RequestsStay DEF Stop, requests, TypeOK, PhasesOK, UsesState, Active
<1>6. CASE BeginShutdown
  <2>1. /\ phase = "draining" /\ phase' = "stopping" /\ step' = 1
        /\ \A r \in Requests : ~Active(r)
        /\ UNCHANGED <<open, manager, raised, starts, pc, kind, own>>
        /\ task' \in [Consumers -> TaskStates]
        /\ \A c \in Consumers : task'[c] \in {"cancelled", "ended"}
    BY <1>6 DEF BeginShutdown, requests, TypeOK, PhasesOK, TaskStates
  <2>2. ClosedSoFar' = {}
    BY <2>1 DEF ClosedSoFar
  <2>3. TypeOK' /\ PhasesOK'
    BY <2>1, <2>2, Startup DEF TypeOK, PhasesOK, Active
  <2> QED
    BY <2>1, <2>3, RequestsStay
<1>7. CASE Disconnect
  <2>1. /\ phase = "stopping" /\ step \in 1 .. 6 /\ step' = step + 1
        /\ open' = open \ {ShutdownSteps[step]}
        /\ UNCHANGED <<phase, manager, raised, starts, task, pc, kind, own>>
    BY <1>7, Shutdown DEF Disconnect, requests, TypeOK, PhasesOK
  <2>2. ClosedSoFar' = ClosedSoFar \union {ShutdownSteps[step]}
    <3>1. 1 .. step' - 1 = (1 .. step - 1) \union {step}
      BY <2>1
    <3> QED
      BY <3>1 DEF ClosedSoFar
  <2>3. TypeOK' /\ PhasesOK'
    BY <2>1, <2>2, Startup DEF TypeOK, PhasesOK, Active
  <2> QED
    BY <2>1, <2>3, RequestsStay
<1>8. CASE DisconnectFails
  BY <1>8, RequestsStay DEF DisconnectFails, requests, TypeOK, PhasesOK, Active
<1>9. CASE EndShutdown
  <2>1. /\ phase = "stopping" /\ step = 7 /\ phase' = "stopped"
        /\ UNCHANGED <<step, open, manager, raised, starts, task, pc, kind, own>>
    BY <1>9, Shutdown DEF EndShutdown, requests, TypeOK, PhasesOK
  <2>2. open = {}
    BY <2>1, Shutdown DEF PhasesOK, ClosedSoFar
  <2>3. TypeOK' /\ PhasesOK'
    BY <2>1, <2>2 DEF TypeOK, PhasesOK, Active
  <2> QED
    BY <2>1, <2>3, RequestsStay
<1>10. CASE Exit
  <2>1. /\ Fresh /\ phase' = "off" /\ own' = {} /\ UNCHANGED <<starts, pc, kind>>
        /\ \A r \in Requests : ~UsesState(r)'
    BY <1>10 DEF Exit, PhasesOK, UsesState, Active
  <2> QED
    BY <2>1, NewProcess, RequestsStay DEF TypeOK
<1>11. ASSUME NEW c \in Consumers, BeginEvent(c) \/ EndEvent(c) \/ Die(c) \/ Unwind(c)
       PROVE  LifeInv'
  <2>1. UNCHANGED <<phase, step, open, manager, raised, starts, pc, kind, own>>
    BY <1>11 DEF BeginEvent, EndEvent, Die, Unwind, SetTask, service, requests
  <2>2. /\ task' \in [Consumers -> TaskStates]
        /\ \A d \in Consumers : d # c => task'[d] = task[d]
        /\ \/ task[c] \in {"idle", "busy"} /\ task'[c] \in {"idle", "busy", "ended"}
           \/ task[c] = "cancelled" /\ task'[c] = "ended"
    BY <1>11 DEF BeginEvent, EndEvent, Die, Unwind, SetTask, TypeOK, TaskStates
  <2>3. TypeOK' /\ PhasesOK'
    BY <2>1, <2>2 DEF TypeOK, PhasesOK, UsesState, Active, OpenedSoFar, ClosedSoFar
  <2> QED
    BY <2>1, <2>3, RequestsStay
<1>12. ASSUME NEW r \in Requests, Arrive(r) PROVE LifeInv'
  <2>1. PICK k \in RequestKinds :
           /\ kind' = [kind EXCEPT ![r] = k]
           /\ GoTo(r, CASE k \in Managed /\ manager  -> "using"
                        [] k \in Managed /\ ~manager -> "refused"
                        [] k \notin Managed          -> "opening")
    BY <1>12 DEF Arrive
  <2>2. /\ phase \in {"off", "serving"} /\ pc[r] = "new" /\ UNCHANGED <<service, task, own>>
    BY <1>12 DEF Arrive
  <2>3. /\ kind'[r] = k /\ \A q \in Requests : q # r => kind'[q] = kind[q] /\ pc'[q] = pc[q]
        /\ k \in Managed /\ manager => pc'[r] = "using"
        /\ k \in Managed /\ ~manager => pc'[r] = "refused"
        /\ k \notin Managed => pc'[r] = "opening"
    BY <2>1 DEF GoTo, TypeOK
  <2>4. TypeOK'
    BY <2>1, <2>2 DEF TypeOK, GoTo, service, Underway, Over
  <2>5. PhasesOK'
    BY <2>2, <2>3 DEF PhasesOK, UsesState, Active, Underway, service, OpenedSoFar, ClosedSoFar
  <2>6. RequestsOK'
    BY <2>2, <2>3 DEF RequestsOK, Active, Underway
  <2> QED
    BY <2>4, <2>5, <2>6
<1>13. ASSUME NEW r \in Requests, Proceed(r) \/ Break(r) PROVE LifeInv'
  <2>1. UNCHANGED <<service, task, kind>> /\ Active(r)
    BY <1>13 DEF Proceed, Break, Open, OpenFails, Probe, ProbeFails, Use, CloseOwn, CloseFails,
                 Active, Underway
  <2>2. /\ \A q \in Requests : q # r => pc'[q] = pc[q] /\ (q \in own' <=> q \in own)
        /\ pc' \in [Requests -> {"new"} \union Underway \union Over] /\ own' \subseteq Requests
    BY <1>13 DEF Proceed, Break, Open, OpenFails, Probe, ProbeFails, Use, CloseOwn, CloseFails,
                 GoTo, TypeOK, Underway, Over
  <2>3. TypeOK'
    BY <2>1, <2>2 DEF TypeOK, service
  <2>4. PhasesOK'
    BY <2>1, <2>2 DEF PhasesOK, UsesState, Active, service, OpenedSoFar, ClosedSoFar
  <2>5. RequestsOK'
    BY <1>13, <2>1, <2>2
    DEF RequestsOK, Proceed, Break, Open, OpenFails, Probe, ProbeFails, Use, CloseOwn, CloseFails,
        GoTo, TypeOK, Active, Underway
  <2> QED
    BY <2>3, <2>4, <2>5
<1>14. CASE UNCHANGED vars
  BY <1>14 DEF vars, service, requests, TypeOK, PhasesOK, RequestsOK, UsesState, Active,
               OpenedSoFar, ClosedSoFar
<1> QED
  BY <1>1, <1>2, <1>3, <1>4, <1>5, <1>6, <1>7, <1>8, <1>9, <1>10, <1>11, <1>12, <1>13,
     <1>14 DEF Next, Boot, Halt

LEMMA LifeInvariant == Spec => []LifeInv
BY InitLifeInv, NextLifeInv, PTL DEF Spec

-----------------------------------------------------------------------------
\* Every variable keeps its type; in particular no step of startup_event or
\* shutdown_event is taken twice.
THEOREM LifecycleTypeCorrect == Spec => []TypeOK
<1>1. LifeInv => TypeOK
  BY DEF LifeInv
<1> QED
  BY <1>1, LifeInvariant, PTL

\* No request and no handler works with a connection that is not open.
THEOREM AllUsersAreConnected == Spec => []UsersAreConnected
<1>1. LifeInv => UsersAreConnected
  <2> SUFFICES ASSUME LifeInv PROVE UsersAreConnected
    OBVIOUS
  <2>1. ASSUME NEW r \in Requests, pc[r] = "using", kind[r] \in Managed PROVE Stores \subseteq open
    <3>1. UsesState(r)
      BY <2>1 DEF UsesState, Active, Underway
    <3>2. phase \in {"serving", "draining"}
      BY <3>1 DEF LifeInv, PhasesOK, TypeOK, UsesState
    <3> QED
      BY <3>2, ConsumersNeed DEF LifeInv, PhasesOK
  <2>2. ASSUME NEW c \in Consumers, task[c] = "busy" PROVE Needs[c] \subseteq open
    <3>1. phase \in {"serving", "draining"}
      BY <2>2 DEF LifeInv, PhasesOK, TypeOK
    <3> QED
      BY <3>1, ConsumersNeed DEF LifeInv, PhasesOK
  <2> QED
    BY <2>1, <2>2 DEF UsersAreConnected
<1> QED
  BY <1>1, LifeInvariant, PTL

\* A shutdown_event that returns leaves no connection of the service open.
THEOREM ShutdownClosesAll == Spec => []ShutdownCleansUp
<1>1. LifeInv => ShutdownCleansUp
  BY DEF LifeInv, PhasesOK, ShutdownCleansUp
<1> QED
  BY <1>1, LifeInvariant, PTL

\* A request leaks what it opened only if connect raised after opening it, or the
\* disconnect of a session raised.
THEOREM OnlyFailedConnectsLeak == Spec => []RequestsCloseTheirOwn
<1>1. LifeInv => RequestsCloseTheirOwn
  BY DEF LifeInv, RequestsOK, RequestsCloseTheirOwn, TypeOK
<1> QED
  BY <1>1, LifeInvariant, PTL
=============================================================================
