--------------------------- MODULE ConsumersProofs ---------------------------
(***************************************************************************)
(* Theorems about Consumers: for any number of events and messages, any    *)
(* set of connected consumers, and whatever the bounds on retries,         *)
(* redeliveries and restarts.                                              *)
(***************************************************************************)
EXTENDS Consumers, TLAPS

-----------------------------------------------------------------------------
(***************************************************************************)
(* The inductive invariant.                                                *)
(***************************************************************************)

Updating == {"read", "write", "record"}

\* An event that was taken belongs to one consumer, which is busy with it.
HandlingOK ==
    /\ \A c \in Consumers :
          IF pc[c] \in Busy THEN handling[c] \in Events /\ status[handling[c]] = "taken"
          ELSE handling[c] = None
    /\ \A c, d \in Consumers : c # d /\ pc[c] \in Busy => handling[c] # handling[d]

\* An attempt writes its updates in order.
ProgressOK ==
    /\ \A c \in Consumers : pc[c] \in Updating =>
          /\ step[c] <= Len(Updates(Message(c)))
          /\ written[handling[c]] = 1..(IF pc[c] = "record" THEN step[c] ELSE step[c] - 1)
    /\ \A e \in Events : status[e] = "done" => written[e] = 1..Len(Updates(message[e]))

\* A copy differs from what was assigned last where others have assigned since.
Differs(x, a, state) == latest[x][a] # None /\ state[a] # {latest[x][a]}

LossesOK ==
    /\ \A x \in Entities : \A a \in Attributes :
          /\ stored[x] = None => latest[x][a] = None
          /\ stored[x] # None /\ Differs(x, a, stored[x]) => a \in lost[x]
    /\ \A c \in Consumers : pc[c] = "write" =>
          \A a \in Attributes :
             Differs(Update(c).entity, a, copy[c]) =>
                a \in since[c] \/ a \in lost[Update(c).entity]

\* A state or a copy of one lists only engines that have a state.
Stateful == {e \in Events : stored[message[e].subject] # None}

ListsOnly(state, events) ==
    "active_engines" \in Attributes => state["active_engines"] \subseteq events

EnginesOK ==
    /\ \A x \in Entities : stored[x] # None => ListsOnly(stored[x], Stateful)
    /\ \A c \in Consumers : ListsOnly(copy[c], Stateful)
    /\ \A e \in Events : \A i \in written[e] : stored[Updates(message[e])[i].entity] # None

\* What was written is an update that there is.
WrittenOK == \A e \in Events : written[e] \subseteq 1..Len(Updates(message[e]))

ConsInv ==
    TypeOK /\ HandlingOK /\ ProgressOK /\ LossesOK /\ WrittenOK /\ EnginesOK

-----------------------------------------------------------------------------
(***************************************************************************)
(* Lemmas about the handlers.                                              *)
(***************************************************************************)

\* Only the second update of a health report assigns active_engines.
LEMMA OthersLeaveActiveEngines ==
    ASSUME NEW c \in DOMAIN Handlers, NEW type \in DOMAIN Handlers[c]
    PROVE  "active_engines" \notin Handlers[c][type]
<1>1. \A t \in DOMAIN FailureHandlers : "active_engines" \notin FailureHandlers[t]
  BY DEF FailureHandlers
<1>2. \A t \in DOMAIN EngineHandlers : "active_engines" \notin EngineHandlers[t]
  BY DEF EngineHandlers
<1>3. \A t \in DOMAIN FunnelHandlers : "active_engines" \notin FunnelHandlers[t]
  BY DEF FunnelHandlers
<1>4. \A t \in DOMAIN GovernanceHandlers : "active_engines" \notin GovernanceHandlers[t]
  BY DEF GovernanceHandlers
<1>5. \A t \in DOMAIN KGHandlers : "active_engines" \notin KGHandlers[t]
  BY DEF KGHandlers
<1>6. \A t \in DOMAIN ResourceHandlers : "active_engines" \notin ResourceHandlers[t]
  BY DEF ResourceHandlers
<1>7. \A t \in DOMAIN StrategyHandlers : "active_engines" \notin StrategyHandlers[t]
  BY DEF StrategyHandlers
<1>8. Handlers[c] \in {FailureHandlers, EngineHandlers, FunnelHandlers, GovernanceHandlers,
                       KGHandlers, ResourceHandlers, StrategyHandlers}
  BY DEF Handlers
<1> QED
  BY <1>1, <1>2, <1>3, <1>4, <1>5, <1>6, <1>7, <1>8

LEMMA AssignedIsClean ==
    ASSUME NEW m \in Messages PROVE "active_engines" \notin Assigned(m)
<1>1. \E c \in DOMAIN Handlers : m.type \in DOMAIN Handlers[c]
  BY ConsumersAssumption
<1>2. ConsumerOf(m) \in DOMAIN Handlers /\ m.type \in DOMAIN Handlers[ConsumerOf(m)]
  BY <1>1 DEF ConsumerOf
<1> QED
  BY <1>2, OthersLeaveActiveEngines DEF Assigned

\* A message makes up to two updates, of entities and attributes that there are;
\* one that lists an engine comes after the update of that engine.
LEMMA UpdatesShape ==
    ASSUME NEW m \in Messages
    PROVE  /\ Len(Updates(m)) \in 0..2
           /\ DOMAIN Updates(m) = 1..Len(Updates(m))
           /\ Updates(m) = <<>> <=> Len(Updates(m)) = 0
           /\ \A i \in 1..Len(Updates(m)) :
                 /\ Updates(m)[i].entity \in Entities
                 /\ Updates(m)[i].attributes \subseteq Attributes
                 /\ "active_engines" \in Updates(m)[i].attributes =>
                       i = 2 /\ Updates(m)[1].entity = m.subject
<1>0. m.subject \in Entities /\ Global \in Entities /\ "active_engines" \notin Assigned(m)
  BY AssignedIsClean, ConsumersAssumption DEF Entities
<1>1. \A i \in DOMAIN Updates(m) : Updates(m)[i].attributes \subseteq Attributes
  BY DEF Attributes, Range
<1>2. CASE m.type = "engine.health_report"
  <2>1. Updates(m) = <<Assignment(m.subject, Assigned(m)), Assignment(Global, {"active_engines"})>>
    BY <1>2 DEF Updates, HealthReport
  <2>2. Len(Updates(m)) = 2 /\ DOMAIN Updates(m) = 1..2 /\ Updates(m) # <<>>
    BY <2>1
  <2>3. Updates(m)[1].entity = m.subject /\ Updates(m)[1].attributes = Assigned(m)
        /\ Updates(m)[2].entity = Global
    BY <2>1 DEF Assignment
  <2> QED
    BY <1>0, <1>1, <2>2, <2>3
<1>3. CASE m.type # "engine.health_report" /\ m.type = "kg.entity_created:other"
  <2>1. Updates(m) = <<>>
    BY <1>3 DEF Updates
  <2> QED
    BY <2>1
<1>4. CASE m.type # "engine.health_report" /\ m.type # "kg.entity_created:other"
  <2>1. PICK x \in Entities : Updates(m) = <<Assignment(x, Assigned(m))>>
    BY <1>0, <1>4 DEF Updates
  <2>2. Len(Updates(m)) = 1 /\ DOMAIN Updates(m) = 1..1 /\ Updates(m) # <<>>
    BY <2>1
  <2>3. Updates(m)[1].entity = x /\ Updates(m)[1].attributes = Assigned(m)
    BY <2>1 DEF Assignment
  <2> QED
    BY <1>0, <1>1, <2>2, <2>3
<1> QED
  BY <1>2, <1>3, <1>4

LEMMA EmptyOK == Empty \in Content /\ \A events : ListsOnly(Empty, events)
BY DEF Empty, Content, ListsOnly

-----------------------------------------------------------------------------
LEMMA InitConsInv == Init => ConsInv
<1> SUFFICES ASSUME Init PROVE ConsInv
  OBVIOUS
<1>1. TypeOK
  BY EmptyOK, ConsumersAssumption DEF Init, TypeOK
<1>2. HandlingOK /\ ProgressOK /\ WrittenOK
  BY DEF Init, HandlingOK, ProgressOK, WrittenOK, Busy, Updating
<1>3. LossesOK /\ EnginesOK
  BY EmptyOK DEF Init, LossesOK, EnginesOK, Differs
<1> QED
  BY <1>1, <1>2, <1>3 DEF ConsInv

-----------------------------------------------------------------------------
(***************************************************************************)
(* Lemmas about the steps of one consumer.                                 *)
(***************************************************************************)

\* No consumer begins to write, and what the stores hold stays.
LEMMA LossesKept ==
    ASSUME LossesOK, UNCHANGED <<message, stored, latest, lost>>,
           \A d \in Consumers : pc'[d] = "write" =>
              /\ pc[d] = "write" /\ handling'[d] = handling[d] /\ step'[d] = step[d]
              /\ copy'[d] = copy[d] /\ since'[d] = since[d]
    PROVE  LossesOK'
<1>1. ASSUME NEW d \in Consumers, pc'[d] = "write", NEW a \in Attributes,
             Differs(Update(d).entity, a, copy[d])'
      PROVE  (a \in since[d] \/ a \in lost[Update(d).entity])'
  <2>1. Update(d)' = Update(d)
    BY <1>1 DEF Update, Message
  <2>2. Differs(Update(d).entity, a, copy[d])
    BY <1>1, <2>1 DEF Differs
  <2> QED
    BY <1>1, <2>1, <2>2 DEF LossesOK
<1>2. ASSUME NEW x \in Entities, NEW a \in Attributes
      PROVE  (/\ stored[x] = None => latest[x][a] = None
              /\ stored[x] # None /\ Differs(x, a, stored[x]) => a \in lost[x])'
  BY DEF LossesOK, Differs
<1> QED
  BY <1>1, <1>2 DEF LossesOK

LEMMA EnginesKept ==
    ASSUME EnginesOK, UNCHANGED <<message, stored>>,
           \A d \in Consumers : copy'[d] \in {copy[d], Empty},
           \A e \in Events : written'[e] \subseteq written[e]
    PROVE  EnginesOK'
<1>1. Stateful' = Stateful
  BY DEF Stateful
<1> QED
  BY <1>1, EmptyOK DEF EnginesOK

\* What the consumers other than c do, and the events other than e.
Elsewhere(c, e) ==
    /\ message' = message
    /\ \A d \in Consumers : d # c =>
          /\ pc'[d] = pc[d] /\ handling'[d] = handling[d] /\ step'[d] = step[d]
          /\ handling[d] # e
    /\ \A f \in Events : f # e => status'[f] = status[f] /\ written'[f] = written[f]

\* It is enough to look at c and at e.
LEMMA ElsewhereHandling ==
    ASSUME HandlingOK, NEW c \in Consumers, NEW e \in Events, Elsewhere(c, e),
           IF pc'[c] \in Busy THEN handling'[c] = e /\ status'[e] = "taken"
           ELSE handling'[c] = None
    PROVE  HandlingOK'
<1>1. \A d \in Consumers : d # c => handling[d] # e
  BY DEF Elsewhere
<1>2. \A d \in Consumers : d # c /\ pc[d] \in Busy =>
         handling[d] \in Events /\ status'[handling[d]] = "taken" /\ handling[d] # None
  BY <1>1, ConsumersAssumption DEF HandlingOK, Elsewhere
<1>3. ASSUME NEW d \in Consumers
      PROVE  IF pc'[d] \in Busy THEN handling'[d] \in Events /\ status'[handling'[d]] = "taken"
             ELSE handling'[d] = None
  BY <1>2 DEF Elsewhere, HandlingOK
<1>4. ASSUME NEW d \in Consumers, NEW f \in Consumers, d # f, pc'[d] \in Busy
      PROVE  handling'[d] # handling'[f]
  <2>1. CASE d = c
    BY <1>1, <1>4, <2>1 DEF Elsewhere
  <2>2. CASE d # c /\ f = c
    BY <1>1, <1>2, <1>4, <2>2 DEF Elsewhere
  <2>3. CASE d # c /\ f # c
    BY <1>4, <2>3 DEF Elsewhere, HandlingOK
  <2> QED
    BY <1>4, <2>1, <2>2, <2>3
<1> QED
  BY <1>3, <1>4 DEF HandlingOK

LEMMA ElsewhereProgress ==
    ASSUME HandlingOK, ProgressOK, NEW c \in Consumers, NEW e \in Events, Elsewhere(c, e),
           pc'[c] \in Updating =>
              /\ handling'[c] = e
              /\ step'[c] <= Len(Updates(message[e]))
              /\ written'[e] = 1..(IF pc'[c] = "record" THEN step'[c] ELSE step'[c] - 1),
           status'[e] = "done" => written'[e] = 1..Len(Updates(message[e]))
    PROVE  ProgressOK'
<1>1. ASSUME NEW d \in Consumers, pc'[d] \in Updating
      PROVE  (/\ step[d] <= Len(Updates(Message(d)))
              /\ written[handling[d]] = 1..(IF pc[d] = "record" THEN step[d] ELSE step[d] - 1))'
  <2>1. CASE d = c
    BY <1>1, <2>1 DEF Message, Elsewhere
  <2>2. CASE d # c
    <3>1. handling[d] \in Events /\ handling[d] # e /\ pc[d] \in Updating
      BY <1>1, <2>2 DEF HandlingOK, Elsewhere, Updating, Busy
    <3> QED
      BY <2>2, <3>1 DEF Message, Elsewhere, ProgressOK
  <2> QED
    BY <2>1, <2>2
<1>2. ASSUME NEW f \in Events, status'[f] = "done"
      PROVE  (written[f] = 1..Len(Updates(message[f])))'
  BY <1>2 DEF Elsewhere, ProgressOK
<1> QED
  BY <1>1, <1>2 DEF ProgressOK

\* Consumer c is done with e, with a result, or starts over with it.
Outcome(c, e, label, result) ==
    /\ pc'       = [pc EXCEPT ![c] = label]
    /\ handling' = [handling EXCEPT ![c] = IF label = "idle" THEN None ELSE e]
    /\ status'   = [status EXCEPT ![e] = result]
    /\ step'     = [step EXCEPT ![c] = 1]
    /\ retries' \in [Consumers -> 0..MaxRetries]
    /\ IF label = "idle" THEN result \in Ended ELSE result = "taken"

LEMMA OutcomeOK ==
    ASSUME ConsInv, NEW c \in Consumers, NEW e \in Events,
           NEW label \in {"idle", "backoff", "read"}, NEW result,
           Outcome(c, e, label, result),
           \A d \in Consumers : d # c => handling[d] # e,
           UNCHANGED <<message, stored, latest, lost, restarts, requeues>>,
           \/ UNCHANGED <<copy, since>>
           \/ copy' = [copy EXCEPT ![c] = Empty] /\ since' = [since EXCEPT ![c] = {}],
           written' \in {written, [written EXCEPT ![e] = {}]},
           label = "read" => Updates(message[e]) # <<>> /\ written'[e] = {},
           result = "done" => written'[e] = 1..Len(Updates(message[e]))
    PROVE  ConsInv'
<1>t. TypeOK /\ message[e] \in Messages
  BY DEF ConsInv, TypeOK
<1>1. TypeOK'
  <2>1. /\ status' \in [Events -> {"queued", "taken"} \union Ended]
        /\ pc' \in [Consumers -> {"idle", "stopped"} \union Busy]
        /\ handling' \in [Consumers -> Events \union {None}]
        /\ step' \in [Consumers -> 1..2]
    BY <1>t DEF Outcome, TypeOK, Busy, Ended
  <2>2. copy' \in [Consumers -> Content] /\ since' \in [Consumers -> SUBSET Attributes]
    <3>1. copy \in [Consumers -> Content] /\ since \in [Consumers -> SUBSET Attributes]
      BY <1>t DEF TypeOK
    <3>2. CASE UNCHANGED <<copy, since>>
      BY <3>1, <3>2
    <3>3. CASE copy' = [copy EXCEPT ![c] = Empty] /\ since' = [since EXCEPT ![c] = {}]
      BY <3>1, <3>3, EmptyOK
    <3> QED
      BY <3>2, <3>3
  <2>3. written' \in [Events -> SUBSET (1..2)]
    BY <1>t DEF TypeOK
  <2> QED
    BY <1>t, <2>1, <2>2, <2>3 DEF TypeOK, Outcome
<1>2. Elsewhere(c, e)
  BY <1>t DEF Elsewhere, Outcome, TypeOK
<1>3. /\ pc'[c] = label /\ handling'[c] = (IF label = "idle" THEN None ELSE e)
      /\ status'[e] = result /\ step'[c] = 1
      /\ \A d \in Consumers : pc'[d] = "write" => d # c
      /\ \A d \in Consumers : d # c => copy'[d] = copy[d] /\ since'[d] = since[d]
      /\ \A d \in Consumers : copy'[d] \in {copy[d], Empty}
      /\ \A f \in Events : written'[f] \subseteq written[f]
  BY <1>t DEF Outcome, TypeOK
<1>4. HandlingOK'
  BY <1>2, <1>3, ElsewhereHandling DEF ConsInv, Outcome, Busy
<1>5. ProgressOK'
  <2>1. CASE label = "read"
    <3>1. 1 <= Len(Updates(message[e])) /\ written'[e] = 1..(1 - 1) /\ result # "done"
      BY <1>t, <2>1, UpdatesShape DEF Outcome
    <3> QED
      BY <1>2, <1>3, <2>1, <3>1, ElsewhereProgress DEF ConsInv
  <2>2. CASE label # "read"
    BY <1>2, <1>3, <2>2, ElsewhereProgress DEF ConsInv, Updating
  <2> QED
    BY <2>1, <2>2
<1>6. LossesOK'
  BY <1>2, <1>3, LossesKept DEF ConsInv, Elsewhere
<1>7. EnginesOK' /\ WrittenOK'
  BY <1>3, EnginesKept DEF ConsInv, WrittenOK
<1> QED
  BY <1>1, <1>4, <1>5, <1>6, <1>7 DEF ConsInv

LEMMA FailShape ==
    ASSUME TypeOK, NEW c \in Consumers, NEW e \in Events, Fail(c, e)
    PROVE  \/ Outcome(c, e, "backoff", "taken")
           \/ Outcome(c, e, "idle", "failed")
<1>1. retries \in [Consumers -> 0..MaxRetries] /\ MaxRetries \in Nat
  BY ConsumersAssumption DEF TypeOK
<1>2. CASE retries[c] < MaxRetries /\ retries' = [retries EXCEPT ![c] = @ + 1]
           /\ Keep(c, e, "backoff")
  <2>1. retries[c] + 1 \in 0..MaxRetries
    BY <1>1, <1>2
  <2>2. retries' \in [Consumers -> 0..MaxRetries]
    BY <1>1, <1>2, <2>1
  <2> QED
    BY <1>2, <2>2 DEF Keep, GoTo, Outcome
<1>3. CASE retries[c] = MaxRetries /\ Answer(c, e, "failed")
  <2>1. retries' \in [Consumers -> 0..MaxRetries]
    BY <1>1, <1>3 DEF Answer
  <2> QED
    BY <1>3, <2>1 DEF Answer, GoTo, Outcome, Ended
<1> QED
  BY <1>2, <1>3 DEF Fail

LEMMA AttemptOK ==
    ASSUME ConsInv, NEW c \in Consumers, NEW e \in Events, Attempt(c, e),
           \A d \in Consumers : d # c => handling[d] # e,
           UNCHANGED <<message, stored, copy, since, latest, lost, bounds>>
    PROVE  ConsInv'
<1>t. TypeOK /\ UNCHANGED <<restarts, requeues>> /\ message[e] \in Messages
  BY DEF ConsInv, TypeOK, bounds
<1>1. written' = [written EXCEPT ![e] = {}] /\ written'[e] = {}
  BY <1>t DEF Attempt, TypeOK
<1>2. CASE Fail(c, e)
  BY <1>t, <1>1, <1>2, FailShape, OutcomeOK
<1>3. CASE Updates(message[e]) = <<>> /\ Answer(c, e, "done")
  <2>1. retries' \in [Consumers -> 0..MaxRetries]
    BY <1>t, <1>3, ConsumersAssumption DEF Answer, TypeOK
  <2>2. Outcome(c, e, "idle", "done")
    BY <1>3, <2>1 DEF Answer, GoTo, Outcome, Ended
  <2>3. written'[e] = 1..Len(Updates(message[e]))
    BY <1>t, <1>1, <1>3, UpdatesShape
  <2> QED
    BY <1>t, <1>1, <2>2, <2>3, OutcomeOK
<1>4. CASE Updates(message[e]) # <<>> /\ Keep(c, e, "read") /\ UNCHANGED retries
  <2>1. Outcome(c, e, "read", "taken")
    BY <1>t, <1>4 DEF Keep, GoTo, Outcome, TypeOK
  <2> QED
    BY <1>t, <1>1, <1>4, <2>1, OutcomeOK
<1> QED
  BY <1>2, <1>3, <1>4 DEF Attempt

-----------------------------------------------------------------------------
(***************************************************************************)
(* Lemmas about a write.                                                   *)
(***************************************************************************)

\* The event e of consumer c, its message m and the update that c is at.
LEMMA CurrentUpdate ==
    ASSUME ConsInv, NEW c \in Consumers, pc[c] \in Updating
    PROVE  /\ handling[c] \in Events /\ Message(c) \in Messages
           /\ step[c] \in 1..Len(Updates(Message(c))) /\ Len(Updates(Message(c))) \in 0..2
           /\ Update(c).entity \in Entities /\ Update(c).attributes \subseteq Attributes
           /\ \A d \in Consumers : d # c => handling[d] # handling[c]
           /\ written[handling[c]] = 1..(IF pc[c] = "record" THEN step[c] ELSE step[c] - 1)
<1>1. handling[c] \in Events /\ \A d \in Consumers : d # c => handling[d] # handling[c]
  BY DEF ConsInv, HandlingOK, Updating, Busy
<1>2. Message(c) \in Messages /\ step[c] \in 1..2
  BY <1>1 DEF ConsInv, TypeOK, Message
<1>3. Len(Updates(Message(c))) \in 0..2
  BY <1>2, UpdatesShape
<1>4. step[c] <= Len(Updates(Message(c)))
      /\ written[handling[c]] = 1..(IF pc[c] = "record" THEN step[c] ELSE step[c] - 1)
  BY DEF ConsInv, ProgressOK
<1>5. step[c] \in 1..Len(Updates(Message(c)))
  BY <1>2, <1>3, <1>4
<1> QED
  BY <1>1, <1>2, <1>3, <1>4, <1>5, UpdatesShape DEF Update

LEMMA ReadOK == ASSUME ConsInv, NEW c \in Consumers, Read(c) PROVE ConsInv'
<1> DEFINE x == Update(c).entity
           state == IF stored[x] = None THEN Empty ELSE stored[x]
<1>t. TypeOK /\ HandlingOK /\ ProgressOK /\ LossesOK /\ EnginesOK
  BY DEF ConsInv
<1>1. /\ pc[c] = "read" /\ pc' = [pc EXCEPT ![c] = "write"]
      /\ copy' = [copy EXCEPT ![c] = state] /\ since' = [since EXCEPT ![c] = {}]
      /\ UNCHANGED <<message, status, stored, handling, step, retries, written, latest, lost,
                     restarts, requeues>>
  BY DEF Read, GoTo, history, bounds
<1>2. x \in Entities /\ handling[c] \in Events
  BY <1>1, CurrentUpdate DEF Updating
<1>3. state \in Content /\ ListsOnly(state, Stateful)
  BY <1>t, <1>2, EmptyOK DEF TypeOK, EnginesOK
<1>4. Update(c)' = Update(c)
  BY <1>1 DEF Update, Message
<1>5. \A a \in Attributes : ~ Differs(x, a, state) \/ a \in lost[x]
  BY <1>t, <1>2 DEF LossesOK, Differs
<1> HIDE DEF x, state
<1>6. TypeOK'
  BY <1>t, <1>1, <1>3 DEF TypeOK, Busy
<1>7. /\ pc'[c] = "write" /\ copy'[c] = state /\ since'[c] = {}
      /\ \A d \in Consumers : d # c => pc'[d] = pc[d] /\ copy'[d] = copy[d] /\ since'[d] = since[d]
  BY <1>t, <1>1 DEF TypeOK
<1>8. HandlingOK' /\ ProgressOK'
  BY <1>t, <1>1, <1>7 DEF HandlingOK, ProgressOK, Busy, Updating, Message
<1>9. LossesOK'
  <2>1. ASSUME NEW d \in Consumers, pc'[d] = "write", NEW a \in Attributes,
               Differs(Update(d).entity, a, copy[d])'
        PROVE  (a \in since[d] \/ a \in lost[Update(d).entity])'
    <3>1. CASE d = c
      BY <1>1, <1>4, <1>5, <1>7, <2>1, <3>1 DEF Differs, x
    <3>2. CASE d # c
      <4>1. Update(d)' = Update(d)
        BY <1>1 DEF Update, Message
      <4>2. Differs(Update(d).entity, a, copy[d])
        BY <1>1, <1>7, <2>1, <3>2, <4>1 DEF Differs
      <4> QED
        BY <1>t, <1>1, <1>7, <2>1, <3>2, <4>1, <4>2 DEF LossesOK
    <3> QED
      BY <3>1, <3>2
  <2> QED
    BY <1>t, <1>1, <2>1 DEF LossesOK, Differs
<1>10. EnginesOK' /\ WrittenOK'
  <2>1. Stateful' = Stateful
    BY <1>1 DEF Stateful
  <2> QED
    BY <1>t, <1>1, <1>3, <1>7, <2>1 DEF ConsInv, EnginesOK, WrittenOK
<1> QED
  BY <1>6, <1>8, <1>9, <1>10 DEF ConsInv

LEMMA WriteOK == ASSUME ConsInv, NEW c \in Consumers, Write(c) PROVE ConsInv'
<1>t. TypeOK /\ HandlingOK /\ ProgressOK /\ LossesOK /\ EnginesOK /\ WrittenOK
  BY DEF ConsInv
<1>0. pc[c] = "write"
  BY DEF Write
<1>1. PICK e \in Events, i \in 1..2, x \in Entities, new \in SUBSET Attributes :
         /\ e = handling[c] /\ i = step[c] /\ x = Update(c).entity
         /\ new = Update(c).attributes
  <2>1. handling[c] \in Events /\ Update(c).entity \in Entities
        /\ Update(c).attributes \in SUBSET Attributes
    BY <1>0, CurrentUpdate DEF Updating
  <2>2. step[c] \in 1..2
    BY <1>t DEF TypeOK
  <2> QED
    BY <2>1, <2>2
<1>2. /\ message[e] \in Messages /\ i <= Len(Updates(message[e])) /\ Len(Updates(message[e])) \in 0..2
      /\ Updates(message[e])[i].entity = x /\ Updates(message[e])[i].attributes = new
      /\ written[e] = 1..(i - 1)
      /\ \A d \in Consumers : d # c => handling[d] # e
  BY <1>0, <1>1, CurrentUpdate DEF Updating, Update, Message
<1>6. PICK state \in Content, late \in [Attributes -> Events \union {None}] :
         /\ state # None
         /\ \A a \in Attributes : /\ state[a] = IF a \in new THEN {e} ELSE copy[c][a]
                                /\ late[a] = IF a \in new THEN e ELSE latest[x][a]
         /\ stored' = [stored EXCEPT ![x] = state]
         /\ latest' = [latest EXCEPT ![x] = late]
  <2> DEFINE state == [a \in Attributes |-> IF a \in new THEN {e} ELSE copy[c][a]]
             late == [a \in Attributes |-> IF a \in new THEN e ELSE latest[x][a]]
  <2>1. stored' = [stored EXCEPT ![x] = state] /\ latest' = [latest EXCEPT ![x] = late]
    BY <1>1 DEF Write, Applied
  <2>2. state \in Content
    BY <1>t DEF TypeOK, Content
  <2>3. late \in [Attributes -> Events \union {None}]
    BY <1>t DEF TypeOK
  <2>4. \A a \in Attributes : /\ state[a] = IF a \in new THEN {e} ELSE copy[c][a]
                             /\ late[a] = IF a \in new THEN e ELSE latest[x][a]
    OBVIOUS
  <2> HIDE DEF state, late
  <2>5. state # None
    BY <2>2, ConsumersAssumption
  <2> QED
    BY <2>1, <2>2, <2>3, <2>4, <2>5
<1>3. /\ written' = [written EXCEPT ![e] = written[e] \union {i}]
      /\ lost' = [lost EXCEPT ![x] = (lost[x] \union since[c]) \ new]
  BY <1>1 DEF Write
<1>4. since' = [d \in Consumers |->
                  CASE d = c -> {}
                    [] d \in {f \in Consumers \ {c} : pc[f] = "write" /\ Update(f).entity = x}
                         -> since[d] \union new
                    [] OTHER -> since[d]]
  BY <1>1 DEF Write
<1>5. /\ copy' = [copy EXCEPT ![c] = Empty] /\ pc' = [pc EXCEPT ![c] = "record"]
      /\ UNCHANGED <<message, status, handling, step, retries, restarts, requeues>>
  BY DEF Write, GoTo, bounds
<1>7. \A d \in Consumers :
         since'[d] = IF d = c THEN {}
                     ELSE IF pc[d] = "write" /\ Update(d).entity = x THEN since[d] \union new
                     ELSE since[d]
  BY <1>4
<1>8. TypeOK'
  <2>1. since' \in [Consumers -> SUBSET Attributes]
    <3>1. \A d \in Consumers : since'[d] \in SUBSET Attributes
      BY <1>t, <1>7 DEF TypeOK
    <3> QED
      BY <1>4, <3>1
  <2>2. stored' \in [Entities -> Content \union {None}]
    BY <1>t, <1>6 DEF TypeOK
  <2>3. written' \in [Events -> SUBSET (1..2)]
    BY <1>t, <1>3 DEF TypeOK
  <2>4. latest' \in [Entities -> [Attributes -> Events \union {None}]]
    BY <1>t, <1>3, <1>6 DEF TypeOK
  <2>5. lost' \in [Entities -> SUBSET Attributes]
    BY <1>t, <1>3 DEF TypeOK
  <2>6. copy' \in [Consumers -> Content] /\ pc' \in [Consumers -> {"idle", "stopped"} \union Busy]
    BY <1>t, <1>5, EmptyOK DEF TypeOK, Busy
  <2> QED
    BY <1>t, <1>5, <2>1, <2>2, <2>3, <2>4, <2>5, <2>6 DEF TypeOK
<1>9. /\ stored'[x] = state /\ latest'[x] = late /\ lost'[x] = (lost[x] \union since[c]) \ new
      /\ \A y \in Entities : y # x =>
            stored'[y] = stored[y] /\ latest'[y] = latest[y] /\ lost'[y] = lost[y]
      /\ pc'[c] = "record" /\ copy'[c] = Empty
      /\ \A d \in Consumers : d # c => pc'[d] = pc[d] /\ copy'[d] = copy[d]
      /\ written'[e] = written[e] \union {i}
      /\ \A f \in Events : f # e => written'[f] = written[f]
  BY <1>t, <1>3, <1>5, <1>6 DEF TypeOK
<1>10. Elsewhere(c, e)
  BY <1>2, <1>5, <1>9 DEF Elsewhere
<1>11. written'[e] = 1..i
  BY <1>2, <1>9
<1>12. HandlingOK'
  <2>1. handling'[c] = e /\ status'[e] = "taken"
    BY <1>t, <1>0, <1>1, <1>5 DEF HandlingOK, Busy
  <2> QED
    BY <1>t, <1>9, <1>10, <2>1, ElsewhereHandling DEF Busy
<1>13. ProgressOK'
  <2>1. /\ handling'[c] = e /\ step'[c] = i /\ status'[e] # "done"
    BY <1>t, <1>0, <1>1, <1>5 DEF HandlingOK, Busy
  <2> QED
    BY <1>t, <1>2, <1>9, <1>10, <1>11, <2>1, ElsewhereProgress
<1>14. LossesOK'
  <2>2. ASSUME NEW y \in Entities, NEW a \in Attributes
        PROVE  (/\ stored[y] = None => latest[y][a] = None
                /\ stored[y] # None /\ Differs(y, a, stored[y]) => a \in lost[y])'
    <3>1. CASE y # x
      BY <1>t, <1>9, <3>1 DEF LossesOK, Differs
    <3>2. CASE y = x /\ a \in new
      BY <1>6, <1>9, <3>2 DEF Differs
    <3>3. CASE y = x /\ a \notin new
      <4>1. state[a] = copy[c][a] /\ late[a] = latest[x][a]
        BY <1>6, <3>3
      <4>2. Differs(x, a, copy[c]) => a \in since[c] \/ a \in lost[x]
        BY <1>t, <1>0, <1>1 DEF LossesOK
      <4>3. Differs(x, a, state)' => Differs(x, a, copy[c])
        BY <1>9, <4>1 DEF Differs
      <4> QED
        BY <1>6, <1>9, <3>3, <4>2, <4>3 DEF Differs
    <3> QED
      BY <3>1, <3>2, <3>3
  <2>3. ASSUME NEW d \in Consumers, pc'[d] = "write", NEW a \in Attributes,
               Differs(Update(d).entity, a, copy[d])'
        PROVE  (a \in since[d] \/ a \in lost[Update(d).entity])'
    <3>1. d # c /\ pc[d] = "write" /\ copy'[d] = copy[d]
      BY <1>9, <2>3
    <3>2. Update(d)' = Update(d)
      BY <1>5 DEF Update, Message
    <3>3. PICK y \in Entities : y = Update(d).entity
      BY <3>1, CurrentUpdate DEF Updating
    <3>4. Differs(y, a, copy[d]) => a \in since[d] \/ a \in lost[y]
      BY <1>t, <3>1, <3>3 DEF LossesOK
    <3>5. Differs(y, a, copy[d])'
      BY <2>3, <3>2, <3>3
    <3>6. CASE y # x
      <4>1. Differs(y, a, copy[d]) /\ lost'[y] = lost[y]
        BY <1>9, <3>1, <3>5, <3>6 DEF Differs
      <4> QED
        BY <1>7, <3>1, <3>2, <3>3, <3>4, <3>6, <4>1
    <3>7. CASE y = x /\ a \in new
      BY <1>7, <3>1, <3>3, <3>7
    <3>8. CASE y = x /\ a \notin new
      <4>1. latest'[x][a] = latest[x][a]
        BY <1>6, <1>9, <3>8
      <4>2. a \in since[d] \/ a \in lost[x]
        BY <3>1, <3>4, <3>5, <3>8, <4>1 DEF Differs
      <4> QED
        BY <1>7, <1>9, <3>1, <3>2, <3>3, <3>8, <4>2
    <3> QED
      BY <3>6, <3>7, <3>8
  <2> QED
    BY <2>2, <2>3 DEF LossesOK
<1>15. EnginesOK'
  <2>1. \A y \in Entities : stored[y] # None => stored'[y] # None
    BY <1>6, <1>9
  <2>2. \A f \in Events : message[f].subject \in Entities /\ message[f] \in Messages
    BY <1>t, ConsumersAssumption DEF TypeOK, Entities
  <2>3. Stateful \subseteq Stateful'
    BY <1>5, <2>1, <2>2 DEF Stateful
  <2>4. ListsOnly(state, Stateful')
    <3> SUFFICES ASSUME "active_engines" \in Attributes, NEW f \in state["active_engines"]
                 PROVE  f \in Stateful'
      BY DEF ListsOnly
    <3>1. CASE "active_engines" \in new
      <4>1. f = e
        BY <1>6, <3>1
      <4>2. i = 2 /\ Updates(message[e])[1].entity = message[e].subject
        BY <1>2, <3>1, UpdatesShape
      <4>3. 1 \in written[e]
        BY <1>2, <4>2
      <4>4. stored[message[e].subject] # None
        BY <1>t, <4>2, <4>3 DEF EnginesOK
      <4> QED
        BY <2>3, <4>1, <4>4 DEF Stateful
    <3>2. CASE "active_engines" \notin new
      BY <1>t, <1>6, <2>3, <3>2 DEF EnginesOK, ListsOnly
    <3> QED
      BY <3>1, <3>2
  <2>5. \A y \in Entities : stored'[y] # None => ListsOnly(stored'[y], Stateful')
    BY <1>t, <1>9, <2>3, <2>4 DEF EnginesOK, ListsOnly
  <2>6. \A d \in Consumers : ListsOnly(copy'[d], Stateful')
    BY <1>t, <1>9, <2>3, EmptyOK DEF EnginesOK, ListsOnly
  <2>7. ASSUME NEW f \in Events, NEW j \in written'[f]
        PROVE  stored'[Updates(message'[f])[j].entity] # None
    <3>1. CASE f = e /\ j = i
      BY <1>2, <1>5, <1>6, <1>9, <3>1
    <3>2. CASE ~(f = e /\ j = i)
      <4>1. j \in written[f]
        BY <1>9, <3>2, <2>7
      <4>2. Updates(message[f])[j].entity \in Entities
        BY <1>t, <2>2, <4>1, UpdatesShape DEF WrittenOK
      <4> QED
        BY <1>t, <1>5, <2>1, <4>1, <4>2 DEF EnginesOK
    <3> QED
      BY <3>1, <3>2
  <2> QED
    BY <2>5, <2>6, <2>7 DEF EnginesOK
<1>16. WrittenOK'
  BY <1>t, <1>2, <1>5, <1>9, <1>11 DEF WrittenOK
<1> QED
  BY <1>8, <1>12, <1>13, <1>14, <1>15, <1>16 DEF ConsInv

-----------------------------------------------------------------------------
LEMMA NextConsInv == ConsInv /\ [Next]_vars => ConsInv'
<1> SUFFICES ASSUME ConsInv, [Next]_vars PROVE ConsInv'
  OBVIOUS
<1>t. TypeOK /\ HandlingOK /\ ProgressOK /\ LossesOK /\ EnginesOK /\ WrittenOK
  BY DEF ConsInv
<1>1. ASSUME NEW c \in Consumers, NEW e \in Events, Take(c, e) PROVE ConsInv'
  <2>1. \A d \in Consumers : handling[d] # e
    BY <1>1, <1>t, ConsumersAssumption DEF Take, HandlingOK
  <2> QED
    BY <1>1, <2>1, AttemptOK DEF Take
<1>2. ASSUME NEW c \in Consumers, Wake(c) PROVE ConsInv'
  <2>1. handling[c] \in Events /\ \A d \in Consumers : d # c => handling[d] # handling[c]
    BY <1>2, <1>t DEF Wake, HandlingOK, Busy
  <2> QED
    BY <1>2, <2>1, AttemptOK DEF Wake
<1>3. ASSUME NEW c \in Consumers, Read(c) PROVE ConsInv'
  BY <1>3, ReadOK
<1>4. ASSUME NEW c \in Consumers, Write(c) PROVE ConsInv'
  BY <1>4, WriteOK
<1>5. ASSUME NEW c \in Consumers, Record(c) PROVE ConsInv'
  <2> DEFINE e == handling[c]
             n == Len(Updates(Message(c)))
  <2>1. /\ e \in Events /\ step[c] \in 1..n /\ n \in 0..2 /\ written[e] = 1..step[c]
        /\ \A d \in Consumers : d # c => handling[d] # e
    BY <1>5, CurrentUpdate DEF Record, Updating
  <2>2. UNCHANGED <<message, stored, copy, since, written, latest, lost, restarts, requeues>>
    BY <1>5 DEF Record, history, bounds
  <2>3. CASE step[c] = n /\ Answer(c, e, "done")
    <3>1. retries' \in [Consumers -> 0..MaxRetries]
      BY <1>t, <2>3, ConsumersAssumption DEF Answer, TypeOK
    <3>2. Outcome(c, e, "idle", "done")
      BY <2>3, <3>1 DEF Answer, GoTo, Outcome, Ended
    <3>3. written'[e] = 1..Len(Updates(message[e]))
      BY <2>1, <2>2, <2>3 DEF Message
    <3> HIDE DEF e, n
    <3> QED
      BY <2>1, <2>2, <3>2, <3>3, OutcomeOK
  <2>4. CASE /\ step[c] < n /\ step' = [step EXCEPT ![c] = @ + 1] /\ GoTo(c, "read")
             /\ UNCHANGED <<status, handling, retries>>
    <3>1. step[c] + 1 \in 1..2 /\ step[c] + 1 <= n /\ (step[c] + 1) - 1 = step[c]
      <4>1. step[c] \in 1..n /\ n \in 0..2 /\ step[c] < n
        BY <2>1, <2>4
      <4> HIDE DEF n
      <4>2. \A i \in 1..n : n \in 0..2 /\ i < n => i + 1 \in 1..2 /\ i + 1 <= n /\ (i + 1) - 1 = i
        OBVIOUS
      <4> QED
        BY <4>1, <4>2
    <3>2. /\ pc'[c] = "read" /\ step'[c] = step[c] + 1
          /\ \A d \in Consumers : d # c => pc'[d] = pc[d] /\ step'[d] = step[d]
      BY <1>t, <2>4 DEF TypeOK, GoTo
    <3>3. TypeOK'
      BY <1>t, <2>2, <2>4, <3>1 DEF TypeOK, GoTo, Busy
    <3>4. pc[c] = "record" /\ status[e] = "taken"
      BY <1>5, <1>t DEF Record, HandlingOK, Busy
    <3>5. Elsewhere(c, e)
      BY <2>1, <2>2, <2>4, <3>2 DEF Elsewhere
    <3>6. n = Len(Updates(message[e])) /\ handling'[c] = e
      BY <2>4 DEF Message
    <3> HIDE DEF e, n
    <3>7. HandlingOK'
      BY <1>t, <2>1, <2>4, <3>2, <3>4, <3>5, <3>6, ElsewhereHandling DEF Busy
    <3>8. ProgressOK'
      BY <1>t, <2>1, <2>2, <2>4, <3>1, <3>2, <3>4, <3>5, <3>6, ElsewhereProgress
    <3>9. LossesOK'
      BY <1>t, <2>2, <2>4, <3>2, LossesKept
    <3>10. EnginesOK' /\ WrittenOK'
      BY <1>t, <2>2, EnginesKept DEF WrittenOK
    <3> QED
      BY <3>3, <3>7, <3>8, <3>9, <3>10 DEF ConsInv
  <2> QED
    BY <1>5, <2>3, <2>4 DEF Record
<1>6. ASSUME NEW c \in Consumers, Raise(c) PROVE ConsInv'
  <2> DEFINE e == handling[c]
  <2>1. e \in Events /\ \A d \in Consumers : d # c => handling[d] # e
    BY <1>6, CurrentUpdate DEF Raise, Updating
  <2>2. /\ UNCHANGED <<message, stored, written, latest, lost, restarts, requeues>>
        /\ copy' = [copy EXCEPT ![c] = Empty] /\ since' = [since EXCEPT ![c] = {}]
        /\ Fail(c, e)
    BY <1>6 DEF Raise, Forget, history, bounds
  <2> HIDE DEF e
  <2>3. \/ Outcome(c, e, "backoff", "taken")
        \/ Outcome(c, e, "idle", "failed")
    BY <1>t, <2>1, <2>2, FailShape
  <2> QED
    BY <2>1, <2>2, <2>3, OutcomeOK
<1>7. CASE Shutdown
  <2>1. /\ status' = [e \in Events |-> IF status[e] = "taken" THEN "queued" ELSE status[e]]
        /\ pc' = [c \in Consumers |-> "stopped"] /\ handling' = [c \in Consumers |-> None]
        /\ step' = [c \in Consumers |-> 1] /\ retries' = [c \in Consumers |-> 0]
        /\ copy' = [c \in Consumers |-> Empty] /\ since' = [c \in Consumers |-> {}]
        /\ restarts < MaxRestarts /\ restarts' = restarts + 1
        /\ UNCHANGED <<message, stored, written, latest, lost, requeues>>
    BY <1>7 DEF Shutdown, history
  <2>2. restarts' \in 0..MaxRestarts /\ 0 \in 0..MaxRetries
    BY <1>t, <2>1, ConsumersAssumption DEF TypeOK
  <2>3. TypeOK'
    BY <1>t, <2>1, <2>2, EmptyOK DEF TypeOK
  <2>4. HandlingOK' /\ ProgressOK'
    BY <1>t, <2>1 DEF HandlingOK, ProgressOK, Busy, Updating
  <2>5. LossesOK' /\ EnginesOK' /\ WrittenOK'
    BY <1>t, <2>1, LossesKept, EnginesKept DEF WrittenOK
  <2> QED
    BY <2>3, <2>4, <2>5 DEF ConsInv
<1>8. CASE Startup
  <2>1. /\ \A c \in Consumers : pc[c] = "stopped" /\ pc'[c] = "idle"
        /\ pc' = [c \in Consumers |-> "idle"]
        /\ UNCHANGED <<message, status, stored, handling, step, retries, copy, since,
                       written, latest, lost, restarts, requeues>>
    BY <1>8 DEF Startup, history, bounds
  <2>2. TypeOK'
    BY <1>t, <2>1 DEF TypeOK
  <2>3. HandlingOK' /\ ProgressOK'
    BY <1>t, <2>1 DEF HandlingOK, ProgressOK, Busy, Updating
  <2>4. LossesOK' /\ EnginesOK' /\ WrittenOK'
    BY <1>t, <2>1, LossesKept, EnginesKept DEF WrittenOK
  <2> QED
    BY <2>2, <2>3, <2>4 DEF ConsInv
<1>9. ASSUME NEW e \in Events, Requeue(e) PROVE ConsInv'
  <2>1. /\ status[e] = "failed" /\ status' = [status EXCEPT ![e] = "queued"]
        /\ requeues < MaxRequeues /\ requeues' = requeues + 1
        /\ UNCHANGED <<message, stored, pc, handling, step, retries, copy, since,
                       written, latest, lost, restarts>>
    BY <1>9 DEF Requeue, consumer, history
  <2>2. requeues' \in 0..MaxRequeues
    BY <1>t, <2>1, ConsumersAssumption DEF TypeOK
  <2>3. TypeOK'
    BY <1>t, <2>1, <2>2 DEF TypeOK
  <2>4. status'[e] = "queued" /\ \A f \in Events : f # e => status'[f] = status[f]
    BY <1>t, <2>1 DEF TypeOK
  <2>5. HandlingOK' /\ ProgressOK'
    BY <1>t, <2>1, <2>4 DEF HandlingOK, ProgressOK, Message
  <2>6. LossesOK' /\ EnginesOK' /\ WrittenOK'
    BY <1>t, <2>1, LossesKept, EnginesKept DEF WrittenOK
  <2> QED
    BY <2>3, <2>5, <2>6 DEF ConsInv
<1>10. CASE UNCHANGED vars
  <2>1. UNCHANGED <<message, status, stored, pc, handling, step, retries, copy, since,
                    written, latest, lost, restarts, requeues>>
    BY <1>10 DEF vars, consumer, history, bounds
  <2>2. TypeOK' /\ HandlingOK' /\ ProgressOK'
    BY <1>t, <2>1 DEF TypeOK, HandlingOK, ProgressOK, Message
  <2>3. LossesOK' /\ EnginesOK' /\ WrittenOK'
    BY <1>t, <2>1, LossesKept, EnginesKept DEF WrittenOK
  <2> QED
    BY <2>2, <2>3 DEF ConsInv
<1> QED
  BY <1>1, <1>2, <1>3, <1>4, <1>5, <1>6, <1>7, <1>8, <1>9, <1>10 DEF Next, Handle

LEMMA ConsInvariant == Spec => []ConsInv
<1>1. Init => ConsInv
  BY InitConsInv
<1>2. ConsInv /\ [Next]_vars => ConsInv'
  BY NextConsInv
<1> QED
  BY <1>1, <1>2, PTL DEF Spec

-----------------------------------------------------------------------------
(***************************************************************************)
(* The theorems.                                                           *)
(***************************************************************************)

\* The variables keep their types; in particular process_with_retry stays within
\* max_retries.
THEOREM ConsumersTypeCorrect == Spec => []TypeOK
<1>1. ConsInv => TypeOK
  BY DEF ConsInv
<1> QED
  BY <1>1, ConsInvariant, PTL

\* An attribute that does not show the event that assigned it last was overwritten
\* by an update that had read the state before: nothing else loses an assignment,
\* neither a retry, nor a redelivery, nor a restart.
THEOREM OnlyOverlapsLoseUpdates == Spec => []LossesAreOverlaps
<1>1. ConsInv => LossesAreOverlaps
  BY DEF ConsInv, LossesOK, Differs, LossesAreOverlaps
<1> QED
  BY <1>1, ConsInvariant, PTL

\* ConsumeResult(success=True) is returned for an event all of whose updates one
\* attempt has written.
THEOREM SuccessMeansWritten == Spec => []HandledIsWritten
<1>1. ConsInv => HandledIsWritten
  <2> SUFFICES ASSUME ConsInv, NEW e \in Events, status[e] = "done"
               PROVE  written[e] = DOMAIN Updates(message[e])
    BY DEF HandledIsWritten
  <2>1. message[e] \in Messages
    BY DEF ConsInv, TypeOK
  <2>2. DOMAIN Updates(message[e]) = 1..Len(Updates(message[e]))
    BY <2>1, UpdatesShape
  <2> QED
    BY <2>2 DEF ConsInv, ProgressOK
<1> QED
  BY <1>1, ConsInvariant, PTL

\* Whatever overlaps, fails or is repeated, an engine that the global state lists in
\* active_engines has a state.
THEOREM ListedEnginesHaveState == Spec => []ActiveEnginesHaveState
<1>1. ConsInv => ActiveEnginesHaveState
  <2>1. Global \in Entities
    BY DEF Entities
  <2> QED
    BY <2>1 DEF ConsInv, EnginesOK, ListsOnly, Stateful, ActiveEnginesHaveState
<1> QED
  BY <1>1, ConsInvariant, PTL
=============================================================================
