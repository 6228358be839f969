------------------------- MODULE NotificationsProofs -------------------------
(***************************************************************************)
(* Theorems about Notifications: for any number of entities, calls and     *)
(* sessions, whatever a session subscribes to.                             *)
(***************************************************************************)
EXTENDS Notifications, SequenceTheorems, TLAPS

-----------------------------------------------------------------------------
(***************************************************************************)
(* The inductive invariant.                                                *)
(***************************************************************************)

Before == {"new", "connect", "subscribe"}

\* A session that does not poll yet has read nothing, and its window is open.
FreshOK(s) ==
    pc[s] \in Before =>
        buffer[s] = <<>> /\ sent[s] = <<>> /\ hand[s] = None /\ window[s].to = None

WatchOK(s) == pc[s] # "new" => watch[s] \in Watches

HandOK(s) == pc[s] \in Polling => (pc[s] = "send" <=> hand[s] # None)

\* The window is a part of the log.
WindowOK(s) ==
    pc[s] \in Polling =>
        /\ window[s].from <= Len(log[ChannelOf(s)])
        /\ window[s].to # None => /\ window[s].from <= window[s].to
                                  /\ window[s].to <= Len(log[ChannelOf(s)])

StreamOK(s) == pc[s] \in Polling => sent[s] \o InHand(s) \o buffer[s] = Heard(s)

SessionOK(s) == FreshOK(s) /\ WatchOK(s) /\ HandOK(s) /\ WindowOK(s) /\ StreamOK(s)

\* What Redis holds of an entity, unless its writes overlapped: the state that was
\* announced last, or that of the one call that is about to announce its own.
LastIs(ch, c) == log[ch] # <<>> /\ log[ch][Len(log[ch])] = c

Settled(e) == InFlight(e) = {} /\ (stored[e] = None \/ LastIs(Channel(e), stored[e]))

Pending(e) == \E c \in Calls : InFlight(e) = {c} /\ stored[e] \in {c, None}

EntityOK(e) == e \notin torn => Settled(e) \/ Pending(e)

CallOK(c) == stage[c] # "new" => target[c] \in Entities

StreamInv ==
    /\ TypeOK
    /\ \A s \in Sessions : SessionOK(s)
    /\ \A c \in Calls : CallOK(c)
    /\ \A e \in Entities : EntityOK(e)

-----------------------------------------------------------------------------
(***************************************************************************)
(* Lemmas about channels and sequences.                                    *)
(***************************************************************************)

\* Different entities have different channels.
LEMMA ChannelIsInjective ==
    ASSUME NEW e \in Entities, NEW f \in Entities, Channel(e) = Channel(f)
    PROVE  e = f
<1>1. e = <<e[1], e[2]>> /\ e[1] # None /\ f = <<f[1], f[2]>> /\ f[1] # None
  BY NotificationsAssumption
<1>2. \A x, y, u, v, w : /\ <<x, y>> # <<u, v, w>>
                        /\ <<x, y>> = <<u, v>> => x = u /\ y = v
  OBVIOUS
<1>3. \A x, y, z, u, v, w : <<x, y, z>> = <<u, v, w>> => x = u /\ y = v /\ z = w
  OBVIOUS
<1>4. /\ e[2] = None => Channel(e) = <<"state_changes", e[1]>>
      /\ e[2] # None => Channel(e) = <<"state_changes", e[1], e[2]>>
      /\ f[2] = None => Channel(f) = <<"state_changes", f[1]>>
      /\ f[2] # None => Channel(f) = <<"state_changes", f[1], f[2]>>
  BY <1>1 DEF Channel
<1>5. e[1] = f[1] /\ e[2] = f[2]
  <2>1. CASE e[2] = None /\ f[2] = None
    BY <2>1, <1>2, <1>4
  <2>2. CASE e[2] = None /\ f[2] # None
    <3>1. <<"state_changes", e[1]>> = <<"state_changes", f[1], f[2]>>
      BY <2>2, <1>4, Zenon
    <3> QED
      BY <3>1, <1>2, Zenon
  <2>3. CASE e[2] # None /\ f[2] = None
    <3>1. <<"state_changes", f[1]>> = <<"state_changes", e[1], e[2]>>
      BY <2>3, <1>4, Zenon
    <3> QED
      BY <3>1, <1>2, Zenon
  <2>4. CASE e[2] # None /\ f[2] # None
    <3>1. <<"state_changes", e[1], e[2]>> = <<"state_changes", f[1], f[2]>>
      BY <2>4, <1>4, Zenon
    <3> QED
      BY <3>1, <1>3, Zenon
  <2> QED
    BY <2>1, <2>2, <2>3, <2>4
<1> QED
  BY <1>1, <1>5

\* An append leaves the parts of a sequence as they are.
LEMMA SubSeqOfAppend ==
    ASSUME NEW S, NEW q \in Seq(S), NEW c \in S,
           NEW from \in Nat, NEW to \in Nat, from <= to, to <= Len(q)
    PROVE  SubSeq(Append(q, c), from + 1, to) = SubSeq(q, from + 1, to)
<1>1. /\ Append(q, c) \in Seq(S)
      /\ \A i \in 1..Len(q) : Append(q, c)[i] = q[i] /\ q[i] \in S
  BY AppendProperties, ElementOfSeq
<1>2. \A i \in (from + 1)..to : i \in 1..Len(q)
  BY LenProperties
<1>3. /\ SubSeq(q, from + 1, to) \in Seq(S)
      /\ Len(SubSeq(q, from + 1, to)) = to - from
      /\ \A i \in 1..(to - from) : SubSeq(q, from + 1, to)[i] = q[from + i]
  BY <1>1, <1>2, SubSeqProperties
<1>4. /\ SubSeq(Append(q, c), from + 1, to) \in Seq(S)
      /\ Len(SubSeq(Append(q, c), from + 1, to)) = to - from
      /\ \A i \in 1..(to - from) : SubSeq(Append(q, c), from + 1, to)[i] = Append(q, c)[from + i]
  BY <1>1, <1>2, SubSeqProperties
<1>5. \A i \in 1..(to - from) : from + i \in 1..Len(q)
  BY <1>2
<1> QED
  BY <1>1, <1>3, <1>4, <1>5, SeqEqual

\* An open window grows by what is appended.
LEMMA OpenWindowGrows ==
    ASSUME NEW S, NEW q \in Seq(S), NEW c \in S, NEW from \in Nat, from <= Len(q)
    PROVE  SubSeq(Append(q, c), from + 1, Len(Append(q, c)))
             = Append(SubSeq(q, from + 1, Len(q)), c)
<1>1. /\ Append(q, c) \in Seq(S) /\ Len(Append(q, c)) = Len(q) + 1 /\ Len(q) \in Nat
      /\ Append(q, c)[Len(q) + 1] = c
  BY AppendProperties, LenProperties
<1>2. from + 1 \in 1..Len(Append(q, c)) /\ Len(q) + 1 \in (from + 1)..Len(Append(q, c))
  BY <1>1
<1>3. SubSeq(Append(q, c), from + 1, Len(q) + 1)
        = SubSeq(Append(q, c), from + 1, (Len(q) + 1) - 1) \o <<c>>
  BY <1>1, <1>2, SubSeqRecursiveSecond
<1>4. SubSeq(Append(q, c), from + 1, Len(q)) = SubSeq(q, from + 1, Len(q))
  BY <1>1, SubSeqOfAppend
<1>5. SubSeq(q, from + 1, Len(q)) \in Seq(S)
  <2>1. \A i \in (from + 1)..Len(q) : q[i] \in S
    BY <1>1, ElementOfSeq
  <2> QED
    BY <1>1, <2>1, SubSeqProperties
<1>6. Append(SubSeq(q, from + 1, Len(q)), c) = SubSeq(q, from + 1, Len(q)) \o <<c>>
  BY <1>5, AppendIsConcat
<1>7. (Len(q) + 1) - 1 = Len(q)
  BY <1>1
<1> QED
  BY <1>1, <1>3, <1>4, <1>6, <1>7

\* What arrives is at the end of the stream.
LEMMA StreamArrives ==
    ASSUME NEW S, NEW a \in Seq(S), NEW b \in Seq(S), NEW c \in S
    PROVE  a \o Append(b, c) = Append(a \o b, c)
<1>1. Append(b, c) = b \o <<c>> /\ a \o b \in Seq(S) /\ <<c>> \in Seq(S)
  BY AppendIsConcat, ConcatProperties
<1>2. Append(a \o b, c) = (a \o b) \o <<c>>
  BY <1>1, AppendIsConcat
<1> QED
  BY <1>1, <1>2, ConcatAssociative

\* Reading the first message of a buffer leaves the stream as it is.
LEMMA StreamRead ==
    ASSUME NEW S, NEW a \in Seq(S), NEW b \in Seq(S), b # <<>>
    PROVE  a \o <<Head(b)>> \o Tail(b) = a \o <<>> \o b
<1>1. Head(b) \in S /\ Tail(b) \in Seq(S) /\ Len(Tail(b)) = Len(b) - 1 /\ Len(b) \in Nat
      /\ \A i \in 1..Len(Tail(b)) : Tail(b)[i] = b[i + 1]
  BY HeadTailProperties, LenProperties
<1>2. <<Head(b)>> \in Seq(S) /\ Len(<<Head(b)>>) = 1 /\ <<Head(b)>>[1] = Head(b) /\ Head(b) = b[1]
  BY <1>1
<1>3. <<Head(b)>> \o Tail(b) = b
  <2>1. /\ <<Head(b)>> \o Tail(b) \in Seq(S)
        /\ Len(<<Head(b)>> \o Tail(b)) = 1 + Len(Tail(b))
        /\ \A i \in 1..(1 + Len(Tail(b))) :
              (<<Head(b)>> \o Tail(b))[i] = IF i <= 1 THEN <<Head(b)>>[i] ELSE Tail(b)[i - 1]
    BY <1>1, <1>2, ConcatProperties
  <2>2. \A i \in 1..Len(b) : (<<Head(b)>> \o Tail(b))[i] = b[i]
    BY <1>1, <1>2, <2>1
  <2> QED
    BY <1>1, <2>1, <2>2, SeqEqual
<1>4. a \o <<>> = a
  BY ConcatEmptySeq
<1> QED
  BY <1>1, <1>2, <1>3, <1>4, ConcatAssociative

-----------------------------------------------------------------------------
LEMMA InitStreamInv == Init => StreamInv
<1> SUFFICES ASSUME Init PROVE StreamInv
  OBVIOUS
<1>1. <<>> \in Seq(Calls)
  OBVIOUS
<1>2. TypeOK
  BY <1>1, NotificationsAssumption DEF Init, TypeOK, Serving, Polling, Over
<1>3. \A s \in Sessions : SessionOK(s)
  BY DEF Init, SessionOK, FreshOK, WatchOK, HandOK, WindowOK, StreamOK, Polling
<1>4. \A c \in Calls : CallOK(c)
  BY DEF Init, CallOK
<1>5. \A e \in Entities : EntityOK(e)
  BY DEF Init, EntityOK, Settled, InFlight
<1> QED
  BY <1>2, <1>3, <1>4, <1>5 DEF StreamInv

\* A step that leaves a session and the log alone.
LEMMA SessionKept ==
    ASSUME NEW s \in Sessions, SessionOK(s), log' = log,
           pc'[s] = pc[s], watch'[s] = watch[s], buffer'[s] = buffer[s],
           hand'[s] = hand[s], sent'[s] = sent[s], window'[s] = window[s]
    PROVE  SessionOK(s)'
<1>1. ChannelOf(s)' = ChannelOf(s) /\ InHand(s)' = InHand(s)
  BY DEF ChannelOf, InHand
<1>2. Heard(s)' = Heard(s)
  BY <1>1 DEF Heard
<1> QED
  BY <1>1, <1>2 DEF SessionOK, FreshOK, WatchOK, HandOK, WindowOK, StreamOK

LEMMA SessionsKept ==
    ASSUME StreamInv, UNCHANGED <<log, pc, watch, buffer, hand, sent, window>>
    PROVE  \A s \in Sessions : SessionOK(s)'
BY SessionKept DEF StreamInv

\* A step of a session alone.
LEMMA CallsKept ==
    ASSUME StreamInv, UNCHANGED calls
    PROVE  (\A c \in Calls : CallOK(c)') /\ (\A e \in Entities : EntityOK(e)')
<1>1. UNCHANGED <<stored, target, stage, log, torn>>
  BY DEF calls
<1> QED
  BY <1>1 DEF StreamInv, CallOK, EntityOK, Settled, Pending, InFlight, LastIs

LEMMA SessionMoves ==
    ASSUME StreamInv, UNCHANGED calls, TypeOK', NEW s \in Sessions, SessionOK(s)',
           \A q \in Sessions : q # s => /\ pc'[q] = pc[q] /\ watch'[q] = watch[q]
                                        /\ buffer'[q] = buffer[q] /\ hand'[q] = hand[q]
                                        /\ sent'[q] = sent[q] /\ window'[q] = window[q]
    PROVE  StreamInv'
<1>1. log' = log
  BY DEF calls
<1>2. ASSUME NEW q \in Sessions, q # s PROVE SessionOK(q)'
  BY <1>1, <1>2, SessionKept DEF StreamInv
<1> QED
  BY <1>2, CallsKept DEF StreamInv

\* A call writes the key of an entity.
LEMMA WriteOK ==
    ASSUME StreamInv, NEW c \in Calls, NEW e \in Entities, stage[c] = "new",
           NEW l \in {"setting", "deleting"}, stage' = [stage EXCEPT ![c] = l],
           NEW v \in {c, None}, stored' = [stored EXCEPT ![e] = v],
           Wrote(c, e), UNCHANGED <<log, session, phase>>
    PROVE  StreamInv'
<1>1. /\ target' = [target EXCEPT ![c] = e]
      /\ torn' = IF InFlight(e) = {} THEN torn \ {e} ELSE torn \union {e}
      /\ UNCHANGED <<log, pc, watch, present, held, buffer, hand, sent, window, phase>>
  BY DEF Wrote, session
<1>2. TypeOK
  BY DEF StreamInv
<1>3. TypeOK'
  BY <1>1, <1>2 DEF TypeOK
<1>4. /\ stage'[c] = l /\ target'[c] = e /\ stored'[e] = v
      /\ \A d \in Calls : d # c => stage'[d] = stage[d] /\ target'[d] = target[d]
      /\ \A f \in Entities : f # e => stored'[f] = stored[f]
  BY <1>1, <1>2 DEF TypeOK
<1>5. \A d \in Calls : CallOK(d)'
  BY <1>4 DEF StreamInv, CallOK
<1>6. ASSUME NEW f \in Entities PROVE EntityOK(f)'
  <2>1. CASE f = e
    <3>1. CASE InFlight(e) = {}
      <4>1. InFlight(e)' = {c}
        BY <1>4, <3>1 DEF InFlight
      <4> QED
        BY <1>4, <2>1, <4>1 DEF EntityOK, Pending
    <3>2. CASE InFlight(e) # {}
      BY <1>1, <2>1, <3>2 DEF EntityOK
    <3> QED
      BY <3>1, <3>2
  <2>2. CASE f # e
    <3>1. InFlight(f)' = InFlight(f)
      BY <1>4, <2>2 DEF InFlight
    <3>2. (f \in torn' <=> f \in torn) /\ stored'[f] = stored[f]
      BY <1>1, <1>4, <2>2
    <3> QED
      BY <1>1, <3>1, <3>2 DEF StreamInv, EntityOK, Settled, Pending, LastIs
  <2> QED
    BY <2>1, <2>2
<1> QED
  BY <1>1, <1>3, <1>5, <1>6, SessionsKept DEF StreamInv

\* A call is announced.
LEMMA PublishOK == ASSUME StreamInv, NEW c \in Calls, Publish(c) PROVE StreamInv'
<1>t. TypeOK
  BY DEF StreamInv
<1>1. PICK e \in Entities : target[c] = e
  BY DEF Publish, StreamInv, CallOK
<1>2. PICK ch \in Channels : ch = Channel(e)
  BY DEF Channels
<1>3. /\ stage[c] \in {"setting", "deleting"}
      /\ log' = [log EXCEPT ![ch] = Append(log[ch], c)]
      /\ buffer' = [s \in Sessions |-> IF Subscribed(s) /\ ChannelOf(s) = ch
                                       THEN Append(buffer[s], c) ELSE buffer[s]]
      /\ stage' = [stage EXCEPT ![c] = IF stage[c] = "setting" THEN "set" ELSE "deleted"]
      /\ UNCHANGED <<stored, target, torn, pc, watch, present, held, hand, sent, window, phase>>
  BY <1>1, <1>2 DEF Publish
<1>4. /\ log[ch] \in Seq(Calls) /\ Append(log[ch], c) \in Seq(Calls)
      /\ log'[ch] = Append(log[ch], c) /\ \A d \in Channels : d # ch => log'[d] = log[d]
      /\ \A s \in Sessions : buffer[s] \in Seq(Calls) /\ Append(buffer[s], c) \in Seq(Calls)
  BY <1>t, <1>3, AppendProperties DEF TypeOK
<1>5. TypeOK'
  <2>1. log' \in [Channels -> Seq(Calls)] /\ buffer' \in [Sessions -> Seq(Calls)]
    BY <1>t, <1>3, <1>4 DEF TypeOK
  <2>2. stage' \in [Calls -> {"new", "setting", "deleting", "set", "deleted", "failed"}]
    BY <1>t, <1>3 DEF TypeOK
  <2> QED
    BY <1>t, <1>3, <2>1, <2>2 DEF TypeOK
<1>6. /\ stage'[c] \in {"set", "deleted"}
      /\ \A d \in Calls : d # c => stage'[d] = stage[d]
  BY <1>t, <1>3 DEF TypeOK
<1>7. \A d \in Calls : CallOK(d)'
  BY <1>1, <1>3, <1>6 DEF StreamInv, CallOK
<1>8. ASSUME NEW f \in Entities PROVE EntityOK(f)'
  <2>1. CASE f = e
    <3>1. c \in InFlight(e)
      BY <1>1, <1>3 DEF InFlight
    <3>2. ASSUME f \notin torn' PROVE Settled(f)'
      <4>1. InFlight(e) = {c} /\ stored[e] \in {c, None}
        BY <1>3, <2>1, <3>1, <3>2 DEF StreamInv, EntityOK, Settled, Pending
      <4>2. InFlight(e)' = {}
        BY <1>3, <1>6, <4>1 DEF InFlight
      <4>3. LastIs(ch, c)'
        BY <1>4, AppendProperties DEF LastIs
      <4> QED
        BY <1>2, <1>3, <2>1, <4>1, <4>2, <4>3 DEF Settled
    <3> QED
      BY <3>2 DEF EntityOK
  <2>2. CASE f # e
    <3>1. InFlight(f)' = InFlight(f)
      BY <1>1, <1>3, <1>6, <2>2 DEF InFlight
    <3>2. Channel(f) # ch /\ Channel(f) \in Channels
      BY <1>2, <2>2, ChannelIsInjective DEF Channels
    <3>3. log'[Channel(f)] = log[Channel(f)]
      BY <1>4, <3>2
    <3> QED
      BY <1>3, <3>1, <3>3 DEF StreamInv, EntityOK, Settled, Pending, LastIs
  <2> QED
    BY <2>1, <2>2
<1>9. ASSUME NEW s \in Sessions PROVE SessionOK(s)'
  <2>1. /\ ChannelOf(s)' = ChannelOf(s) /\ InHand(s)' = InHand(s)
        /\ pc'[s] = pc[s] /\ watch'[s] = watch[s] /\ hand'[s] = hand[s]
        /\ sent'[s] = sent[s] /\ window'[s] = window[s]
    BY <1>3 DEF ChannelOf, InHand
  <2>2. SessionOK(s)
    BY DEF StreamInv
  <2>3. CASE pc[s] \notin Polling
    <3>1. buffer'[s] = buffer[s]
      BY <1>3, <2>3 DEF Subscribed
    <3> QED
      BY <2>1, <2>2, <2>3, <3>1
         DEF SessionOK, FreshOK, WatchOK, HandOK, WindowOK, StreamOK
  <2>4. CASE pc[s] \in Polling
    <3>1. FreshOK(s)' /\ WatchOK(s)' /\ HandOK(s)'
      BY <2>1, <2>2, <2>4 DEF SessionOK, FreshOK, WatchOK, HandOK, Before, Polling
    <3>2. ChannelOf(s) \in Channels
      BY <2>2, <2>4, NotificationsAssumption
         DEF SessionOK, WatchOK, Polling, ChannelOf, Channels
    <3>3. /\ window[s].from \in Nat /\ window[s].to \in Nat \union {None}
          /\ sent[s] \in Seq(Calls) /\ InHand(s) \in Seq(Calls)
      BY <1>t DEF TypeOK, InHand
    <3>4. sent[s] \o InHand(s) \in Seq(Calls)
      BY <3>3, ConcatProperties
    <3>5. CASE ChannelOf(s) # ch
      <4>1. buffer'[s] = buffer[s] /\ log'[ChannelOf(s)] = log[ChannelOf(s)]
        BY <1>3, <1>4, <3>2, <3>5
      <4>2. Heard(s)' = Heard(s)
        BY <2>1, <4>1 DEF Heard
      <4>3. WindowOK(s)' /\ StreamOK(s)'
        BY <2>1, <2>2, <4>1, <4>2 DEF SessionOK, WindowOK, StreamOK
      <4> QED
        BY <3>1, <4>3 DEF SessionOK
    <3>6. CASE ChannelOf(s) = ch /\ window[s].to = None
      <4>1. window[s].from <= Len(log[ch]) /\ sent[s] \o InHand(s) \o buffer[s] = Heard(s)
        BY <2>2, <2>4, <3>6 DEF SessionOK, WindowOK, StreamOK
      <4>2. buffer'[s] = Append(buffer[s], c)
        BY <1>3, <2>4, <3>6 DEF Subscribed
      <4>3. Heard(s) = SubSeq(log[ch], window[s].from + 1, Len(log[ch]))
        BY <3>6 DEF Heard
      <4>4. Heard(s)' = SubSeq(log'[ch], window[s].from + 1, Len(log'[ch]))
        BY <2>1, <3>6 DEF Heard
      <4>5. Heard(s)' = Append(Heard(s), c)
        BY <1>4, <3>3, <4>1, <4>3, <4>4, OpenWindowGrows
      <4>6. sent[s] \o InHand(s) \o buffer'[s] = Append(sent[s] \o InHand(s) \o buffer[s], c)
        <5>1. buffer[s] \in Seq(Calls)
          BY <1>4
        <5>2. sent[s] \o InHand(s) \o Append(buffer[s], c)
                = Append(sent[s] \o InHand(s) \o buffer[s], c)
          <6>1. \A a \in Seq(Calls), b \in Seq(Calls) : a \o Append(b, c) = Append(a \o b, c)
            BY StreamArrives
          <6> QED
            BY <3>4, <5>1, <6>1, Zenon
        <5> QED
          BY <4>2, <5>2
      <4>7. StreamOK(s)'
        BY <2>1, <4>1, <4>5, <4>6 DEF StreamOK
      <4>8. Len(log'[ch]) = Len(log[ch]) + 1 /\ Len(log[ch]) \in Nat
        BY <1>4, AppendProperties, LenProperties
      <4>9. WindowOK(s)'
        BY <2>1, <3>3, <3>6, <4>1, <4>8 DEF WindowOK
      <4> QED
        BY <3>1, <4>7, <4>9 DEF SessionOK
    <3>7. CASE ChannelOf(s) = ch /\ window[s].to # None
      <4>1. /\ window[s].from <= window[s].to /\ window[s].to <= Len(log[ch])
            /\ window[s].to \in Nat /\ window[s].from <= Len(log[ch])
        BY <2>2, <2>4, <3>3, <3>7 DEF SessionOK, WindowOK
      <4>2. buffer'[s] = buffer[s]
        BY <1>3, <3>7 DEF Subscribed
      <4>3. Heard(s) = SubSeq(log[ch], window[s].from + 1, window[s].to)
        BY <3>7 DEF Heard
      <4>4. Heard(s)' = SubSeq(log'[ch], window[s].from + 1, window[s].to)
        BY <2>1, <3>7 DEF Heard
      <4>5. Heard(s)' = Heard(s)
        <5>1. window[s].from \in Nat /\ log[ch] \in Seq(Calls)
          BY <1>4, <3>3
        <5>2. SubSeq(Append(log[ch], c), window[s].from + 1, window[s].to)
                = SubSeq(log[ch], window[s].from + 1, window[s].to)
          BY <4>1, <5>1, SubSeqOfAppend
        <5>3. log'[ch] = Append(log[ch], c)
          BY <1>4
        <5> QED
          BY <4>3, <4>4, <5>2, <5>3
      <4>6. StreamOK(s)'
        BY <2>1, <2>2, <4>2, <4>5 DEF SessionOK, StreamOK
      <4>7. Len(log'[ch]) = Len(log[ch]) + 1 /\ Len(log[ch]) \in Nat
        BY <1>4, AppendProperties, LenProperties
      <4>8. WindowOK(s)'
        BY <2>1, <3>3, <3>7, <4>1, <4>7 DEF WindowOK
      <4> QED
        BY <3>1, <4>6, <4>8 DEF SessionOK
    <3> QED
      BY <3>5, <3>6, <3>7
  <2> QED
    BY <2>3, <2>4
<1> QED
  BY <1>5, <1>7, <1>8, <1>9 DEF StreamInv

-----------------------------------------------------------------------------
LEMMA NextStreamInv == StreamInv /\ [Next]_vars => StreamInv'
<1> SUFFICES ASSUME StreamInv, [Next]_vars PROVE StreamInv'
  OBVIOUS
<1>t. TypeOK
  BY DEF StreamInv
<1>1. ASSUME NEW c \in Calls, NEW e \in Entities, SetState(c, e) PROVE StreamInv'
  <2>1. /\ stage[c] = "new" /\ stored' = [stored EXCEPT ![e] = c]
        /\ stage' = [stage EXCEPT ![c] = "setting"]
        /\ Wrote(c, e) /\ UNCHANGED <<log, session, phase>>
    BY <1>1 DEF SetState, IsNext
  <2> QED
    BY <2>1, WriteOK
<1>2. ASSUME NEW c \in Calls, NEW e \in Entities, DeleteState(c, e) PROVE StreamInv'
  <2>1. /\ stage[c] = "new" /\ stored' = [stored EXCEPT ![e] = None]
        /\ stage' = [stage EXCEPT ![c] = "deleting"]
        /\ Wrote(c, e) /\ UNCHANGED <<log, session, phase>>
    BY <1>2 DEF DeleteState, IsNext
  <2> QED
    BY <2>1, WriteOK
<1>3. ASSUME NEW c \in Calls, Publish(c) PROVE StreamInv'
  BY <1>3, PublishOK
<1>4. ASSUME NEW c \in Calls, PublishFails(c) PROVE StreamInv'
  <2>1. /\ stage[c] \in {"setting", "deleting"} /\ stage' = [stage EXCEPT ![c] = "failed"]
        /\ torn' = torn \union {target[c]} /\ target[c] \in Entities
        /\ UNCHANGED <<stored, target, log, pc, watch, present, held, buffer, hand, sent,
                       window, phase>>
    BY <1>4 DEF PublishFails, session, StreamInv, CallOK
  <2>2. TypeOK'
    BY <1>t, <2>1 DEF TypeOK
  <2>3. stage'[c] = "failed" /\ \A d \in Calls : d # c => stage'[d] = stage[d]
    BY <1>t, <2>1 DEF TypeOK
  <2>4. \A d \in Calls : CallOK(d)'
    BY <2>1, <2>3 DEF StreamInv, CallOK
  <2>5. ASSUME NEW f \in Entities, f \notin torn' PROVE EntityOK(f)'
    <3>1. f # target[c] /\ f \notin torn
      BY <2>1, <2>5
    <3>2. InFlight(f)' = InFlight(f)
      BY <2>1, <2>3, <3>1 DEF InFlight
    <3> QED
      BY <2>1, <3>1, <3>2 DEF StreamInv, EntityOK, Settled, Pending, LastIs
  <2>6. \A f \in Entities : EntityOK(f)'
    BY <2>5 DEF EntityOK
  <2> QED
    BY <2>1, <2>2, <2>4, <2>6, SessionsKept DEF StreamInv
<1>5. ASSUME NEW e \in Entities, Expire(e) PROVE StreamInv'
  <2>1. /\ stored' = [stored EXCEPT ![e] = None]
        /\ UNCHANGED <<target, stage, log, torn, pc, watch, present, held, buffer, hand, sent,
                       window, phase>>
    BY <1>5 DEF Expire, session
  <2>2. TypeOK'
    BY <1>t, <2>1 DEF TypeOK
  <2>3. \A f \in Entities : stored'[f] \in {stored[f], None} /\ InFlight(f)' = InFlight(f)
    BY <1>t, <2>1 DEF TypeOK, InFlight
  <2>4. \A f \in Entities : EntityOK(f)'
    BY <2>1, <2>3 DEF StreamInv, EntityOK, Settled, Pending, LastIs
  <2>5. \A c \in Calls : CallOK(c)'
    BY <2>1 DEF StreamInv, CallOK
  <2> QED
    BY <2>1, <2>2, <2>4, <2>5, SessionsKept DEF StreamInv
<1>6. ASSUME NEW s \in Sessions, Accept(s) PROVE StreamInv'
  <2>1. PICK w \in Watches : watch' = [watch EXCEPT ![s] = w]
    BY <1>6 DEF Accept
  <2>2. /\ pc[s] = "new" /\ pc' = [pc EXCEPT ![s] = "connect"]
        /\ present' = [present EXCEPT ![s] = TRUE]
        /\ UNCHANGED <<calls, held, buffer, hand, sent, window, phase>>
    BY <1>6 DEF Accept, GoTo
  <2>3. TypeOK'
    BY <1>t, <2>1, <2>2 DEF TypeOK, Serving, calls
  <2>4. pc'[s] = "connect" /\ watch'[s] = w
    BY <1>t, <2>1, <2>2 DEF TypeOK
  <2>5. SessionOK(s)'
    BY <2>2, <2>4 DEF StreamInv, SessionOK, FreshOK, WatchOK, HandOK, WindowOK, StreamOK,
          Before, Polling
  <2> QED
    BY <1>t, <2>1, <2>2, <2>3, <2>5, SessionMoves DEF TypeOK
<1>7. ASSUME NEW s \in Sessions, Connect(s) \/ ConnectFails(s) PROVE StreamInv'
  <2>1. PICK l \in {"subscribe", "failed"} : pc' = [pc EXCEPT ![s] = l]
    BY <1>7 DEF Connect, ConnectFails, GoTo
  <2>2. /\ pc[s] = "connect" /\ held' \in {held, [held EXCEPT ![s] = TRUE]}
        /\ UNCHANGED <<calls, watch, present, buffer, hand, sent, window, phase>>
    BY <1>7 DEF Connect, ConnectFails
  <2>3. TypeOK'
    BY <1>t, <2>1, <2>2 DEF TypeOK, Serving, Over, calls
  <2>4. pc'[s] = l
    BY <1>t, <2>1 DEF TypeOK
  <2>5. SessionOK(s)'
    BY <2>2, <2>4 DEF StreamInv, SessionOK, FreshOK, WatchOK, HandOK, WindowOK, StreamOK,
          Before, Polling
  <2> QED
    BY <1>t, <2>1, <2>2, <2>3, <2>5, SessionMoves DEF TypeOK
<1>8. ASSUME NEW s \in Sessions, Subscribe(s) PROVE StreamInv'
  <2> DEFINE n == Len(log[ChannelOf(s)])
  <2>1. /\ pc[s] = "subscribe" /\ pc' = [pc EXCEPT ![s] = "poll"]
        /\ window' = [window EXCEPT ![s].from = n, ![s].before = Announced]
        /\ UNCHANGED <<calls, watch, present, held, buffer, hand, sent, phase>>
    BY <1>8 DEF Subscribe, GoTo
  <2>2. ChannelOf(s) \in Channels
    BY <2>1, NotificationsAssumption DEF StreamInv, SessionOK, WatchOK, ChannelOf, Channels
  <2>3. log[ChannelOf(s)] \in Seq(Calls) /\ n \in Nat
    BY <1>t, <2>2, LenProperties DEF TypeOK
  <2>4. Announced \in SUBSET Calls
    BY DEF Announced
  <2> HIDE DEF n
  <2>5. /\ window' \in [Sessions -> [from : Nat, to : Nat \union {None}, before : SUBSET Calls]]
        /\ window'[s].from = n /\ window'[s].to = window[s].to
        /\ \A q \in Sessions : q # s => window'[q] = window[q]
    BY <1>t, <2>1, <2>3, <2>4 DEF TypeOK
  <2>6. TypeOK'
    BY <1>t, <2>1, <2>5 DEF TypeOK, Serving, Polling, calls
  <2>7. pc'[s] = "poll"
    BY <1>t, <2>1 DEF TypeOK
  <2>8. buffer[s] = <<>> /\ sent[s] = <<>> /\ hand[s] = None /\ window[s].to = None
    BY <2>1 DEF StreamInv, SessionOK, FreshOK, Before
  <2>9. ChannelOf(s)' = ChannelOf(s) /\ log' = log /\ InHand(s)' = <<>>
    BY <2>1, <2>8 DEF ChannelOf, calls, InHand
  <2>10. Heard(s)' = SubSeq(log[ChannelOf(s)], n + 1, n)
    BY <2>5, <2>8, <2>9 DEF Heard, n
  <2>11. Heard(s)' = <<>>
    BY <2>3, <2>10, SubSeqEmpty
  <2>12. StreamOK(s)'
    <3>1. <<>> \o <<>> \o <<>> = <<>>
      BY ConcatEmptySeq
    <3> QED
      BY <2>1, <2>8, <2>9, <2>11, <3>1 DEF StreamOK
  <2>13. WindowOK(s)'
    BY <2>3, <2>5, <2>8, <2>9 DEF WindowOK, n
  <2>14. FreshOK(s)' /\ WatchOK(s)' /\ HandOK(s)'
    BY <2>1, <2>7, <2>8 DEF StreamInv, SessionOK, FreshOK, WatchOK, HandOK, Before
  <2>15. SessionOK(s)'
    BY <2>12, <2>13, <2>14 DEF SessionOK
  <2> QED
    BY <1>t, <2>1, <2>5, <2>6, <2>15, SessionMoves DEF TypeOK
<1>9. ASSUME NEW s \in Sessions, Poll(s) PROVE StreamInv'
  <2>1. /\ pc[s] = "poll" /\ buffer[s] # <<>> /\ pc' = [pc EXCEPT ![s] = "send"]
        /\ hand' = [hand EXCEPT ![s] = Head(buffer[s])]
        /\ buffer' = [buffer EXCEPT ![s] = Tail(buffer[s])]
        /\ UNCHANGED <<calls, watch, present, held, sent, window, phase>>
    BY <1>9 DEF Poll, GoTo
  <2>2. buffer[s] \in Seq(Calls) /\ sent[s] \in Seq(Calls)
    BY <1>t DEF TypeOK
  <2>3. Head(buffer[s]) \in Calls /\ Tail(buffer[s]) \in Seq(Calls)
    BY <2>1, <2>2, HeadTailProperties
  <2>4. TypeOK'
    BY <1>t, <2>1, <2>3 DEF TypeOK, Serving, Polling, calls
  <2>5. pc'[s] = "send" /\ hand'[s] = Head(buffer[s]) /\ buffer'[s] = Tail(buffer[s])
    BY <1>t, <2>1 DEF TypeOK
  <2>6. Head(buffer[s]) # None
    BY <2>3, NotificationsAssumption DEF Calls
  <2>7. ChannelOf(s)' = ChannelOf(s) /\ log' = log
    BY <2>1 DEF ChannelOf, calls
  <2>8. Heard(s)' = Heard(s)
    BY <2>1, <2>7 DEF Heard
  <2>9. InHand(s) = <<>> /\ InHand(s)' = <<Head(buffer[s])>>
    BY <2>1, <2>5, <2>6 DEF StreamInv, SessionOK, HandOK, Polling, InHand
  <2>10. StreamOK(s)'
    <3>1. sent[s] \o <<Head(buffer[s])>> \o Tail(buffer[s]) = sent[s] \o <<>> \o buffer[s]
      BY <2>1, <2>2, StreamRead
    <3>2. sent[s] \o <<>> \o buffer[s] = Heard(s)
      BY <2>1, <2>9 DEF StreamInv, SessionOK, StreamOK, Polling
    <3> QED
      BY <2>1, <2>5, <2>8, <2>9, <3>1, <3>2 DEF StreamOK
  <2>11. WindowOK(s)' /\ FreshOK(s)' /\ WatchOK(s)' /\ HandOK(s)'
    BY <2>1, <2>5, <2>6, <2>7
       DEF StreamInv, SessionOK, WindowOK, FreshOK, WatchOK, HandOK, Before, Polling
  <2>12. SessionOK(s)'
    BY <2>10, <2>11 DEF SessionOK
  <2> QED
    BY <1>t, <2>1, <2>4, <2>12, SessionMoves DEF TypeOK
<1>10. ASSUME NEW s \in Sessions, Send(s) PROVE StreamInv'
  <2>1. /\ pc[s] = "send" /\ pc' = [pc EXCEPT ![s] = "poll"]
        /\ sent' = [sent EXCEPT ![s] = Append(sent[s], hand[s])]
        /\ hand' = [hand EXCEPT ![s] = None]
        /\ UNCHANGED <<calls, watch, present, held, buffer, window, phase>>
    BY <1>10 DEF Send, GoTo
  <2>2. hand[s] \in Calls /\ sent[s] \in Seq(Calls) /\ hand[s] # None
    BY <1>t, <2>1 DEF TypeOK, StreamInv, SessionOK, HandOK, Polling
  <2>3. Append(sent[s], hand[s]) \in Seq(Calls) /\ Append(sent[s], hand[s]) = sent[s] \o <<hand[s]>>
    BY <2>2, AppendProperties, AppendIsConcat
  <2>4. TypeOK'
    BY <1>t, <2>1, <2>3 DEF TypeOK, Serving, Polling, calls
  <2>5. pc'[s] = "poll" /\ hand'[s] = None /\ sent'[s] = sent[s] \o <<hand[s]>>
    BY <1>t, <2>1, <2>3 DEF TypeOK
  <2>6. ChannelOf(s)' = ChannelOf(s) /\ log' = log
    BY <2>1 DEF ChannelOf, calls
  <2>7. Heard(s)' = Heard(s)
    BY <2>1, <2>6 DEF Heard
  <2>8. InHand(s) = <<hand[s]>> /\ InHand(s)' = <<>>
    BY <2>2, <2>5 DEF InHand
  <2>9. StreamOK(s)'
    <3>1. sent'[s] \in Seq(Calls)
      BY <2>4 DEF TypeOK
    <3>2. sent'[s] \o <<>> = sent'[s]
      BY <3>1, ConcatEmptySeq
    <3>3. sent[s] \o <<hand[s]>> \o buffer[s] = Heard(s)
      BY <2>1, <2>8 DEF StreamInv, SessionOK, StreamOK, Polling
    <3> QED
      BY <2>1, <2>5, <2>7, <2>8, <3>2, <3>3 DEF StreamOK
  <2>10. WindowOK(s)' /\ FreshOK(s)' /\ WatchOK(s)' /\ HandOK(s)'
    BY <2>1, <2>5, <2>6
       DEF StreamInv, SessionOK, WindowOK, FreshOK, WatchOK, HandOK, Before, Polling
  <2>11. SessionOK(s)'
    BY <2>9, <2>10 DEF SessionOK
  <2> QED
    BY <1>t, <2>1, <2>4, <2>11, SessionMoves DEF TypeOK
<1>11. ASSUME NEW s \in Sessions, SendFails(s) \/ Break(s) PROVE StreamInv'
  <2>1. /\ pc[s] \in {"subscribe", "poll", "send"} /\ pc' = [pc EXCEPT ![s] = "close"]
        /\ hand' = [hand EXCEPT ![s] = None]
        /\ UNCHANGED <<calls, watch, present, held, buffer, sent, window, phase>>
    BY <1>11 DEF SendFails, Break, Abandon, GoTo, Polling
  <2>2. TypeOK'
    BY <1>t, <2>1 DEF TypeOK, Serving, calls
  <2>3. pc'[s] = "close"
    BY <1>t, <2>1 DEF TypeOK
  <2>4. SessionOK(s)'
    BY <2>1, <2>3 DEF StreamInv, SessionOK, FreshOK, WatchOK, HandOK, WindowOK, StreamOK,
          Before, Polling
  <2> QED
    BY <1>t, <2>1, <2>2, <2>4, SessionMoves DEF TypeOK
<1>12. ASSUME NEW s \in Sessions, Close(s) \/ CloseFails(s) PROVE StreamInv'
  <2>1. PICK l \in {"ended", "failed"} : pc' = [pc EXCEPT ![s] = l]
    BY <1>12 DEF Close, CloseFails, GoTo
  <2>2. /\ pc[s] = "close" /\ held' \in {held, [held EXCEPT ![s] = FALSE]}
        /\ buffer' \in {buffer, [buffer EXCEPT ![s] = <<>>]}
        /\ UNCHANGED <<calls, watch, present, hand, sent, window, phase>>
    BY <1>12 DEF Close, CloseFails
  <2>3. TypeOK'
    <3>1. <<>> \in Seq(Calls)
      OBVIOUS
    <3> QED
      BY <1>t, <2>1, <2>2, <3>1 DEF TypeOK, Over, calls
  <2>4. pc'[s] = l
    BY <1>t, <2>1 DEF TypeOK
  <2>5. SessionOK(s)'
    BY <2>2, <2>4 DEF StreamInv, SessionOK, FreshOK, WatchOK, HandOK, WindowOK, StreamOK,
          Before, Polling
  <2> QED
    BY <1>t, <2>1, <2>2, <2>3, <2>5, SessionMoves DEF TypeOK
<1>13. ASSUME NEW s \in Sessions, Unsubscribe(s) PROVE StreamInv'
  <2> DEFINE n == Len(log[ChannelOf(s)])
  <2>1. /\ pc[s] = "poll" /\ window[s].to = None
        /\ window' = [window EXCEPT ![s].to = n]
        /\ UNCHANGED <<calls, pc, watch, present, held, buffer, hand, sent, phase>>
    BY <1>13 DEF Unsubscribe, Subscribed
  <2>2. ChannelOf(s) \in Channels
    BY <2>1, NotificationsAssumption DEF StreamInv, SessionOK, WatchOK, ChannelOf, Channels
  <2>3. n \in Nat
    BY <1>t, <2>2, LenProperties DEF TypeOK
  <2> HIDE DEF n
  <2>4. /\ window' \in [Sessions -> [from : Nat, to : Nat \union {None}, before : SUBSET Calls]]
        /\ window'[s].from = window[s].from /\ window'[s].to = n
        /\ \A q \in Sessions : q # s => window'[q] = window[q]
    BY <1>t, <2>1, <2>3 DEF TypeOK
  <2>5. TypeOK'
    BY <1>t, <2>1, <2>4 DEF TypeOK, calls
  <2>6. ChannelOf(s)' = ChannelOf(s) /\ log' = log /\ InHand(s)' = InHand(s) /\ n # None
    BY <2>1, <2>3, NotificationsAssumption DEF ChannelOf, calls, InHand
  <2>7. Heard(s)' = Heard(s)
    BY <2>1, <2>4, <2>6 DEF Heard, n
  <2>8. window[s].from <= n
    BY <2>1 DEF StreamInv, SessionOK, WindowOK, Polling, n
  <2>9. WindowOK(s)'
    BY <2>3, <2>4, <2>6, <2>8 DEF WindowOK, n
  <2>10. FreshOK(s)' /\ WatchOK(s)' /\ HandOK(s)' /\ StreamOK(s)'
    BY <2>1, <2>6, <2>7
       DEF StreamInv, SessionOK, FreshOK, WatchOK, HandOK, StreamOK, Before
  <2>11. SessionOK(s)'
    BY <2>9, <2>10 DEF SessionOK
  <2> QED
    BY <1>t, <2>1, <2>4, <2>5, <2>11, SessionMoves DEF TypeOK
<1>14. ASSUME NEW s \in Sessions, Leave(s) PROVE StreamInv'
  <2>1. /\ present' = [present EXCEPT ![s] = FALSE]
        /\ UNCHANGED <<calls, log, pc, watch, held, buffer, hand, sent, window, phase>>
    BY <1>14 DEF Leave, calls
  <2>2. TypeOK'
    BY <1>t, <2>1 DEF TypeOK, calls
  <2> QED
    BY <2>1, <2>2, SessionsKept, CallsKept DEF StreamInv
<1>15. CASE Stop \/ Shutdown \/ UNCHANGED vars
  <2>1. /\ UNCHANGED <<calls, log, pc, watch, held, buffer, hand, sent, window>>
        /\ present' \in {present, [s \in Sessions |-> FALSE]}
        /\ phase' \in {phase, "draining", "down"}
    BY <1>15 DEF Stop, Shutdown, vars, calls, session
  <2>2. TypeOK'
    BY <1>t, <2>1 DEF TypeOK, calls
  <2> QED
    BY <2>1, <2>2, SessionsKept, CallsKept DEF StreamInv
<1> QED
  BY <1>1, <1>2, <1>3, <1>4, <1>5, <1>6, <1>7, <1>8, <1>9, <1>10, <1>11, <1>12, <1>13,
     <1>14, <1>15 DEF Next, Serve

LEMMA StreamInvariant == Spec => []StreamInv
<1>1. Init => StreamInv
  BY InitStreamInv
<1>2. StreamInv /\ [Next]_vars => StreamInv'
  BY NextStreamInv
<1> QED
  BY <1>1, <1>2, PTL DEF Spec

-----------------------------------------------------------------------------
(***************************************************************************)
(* The theorems.                                                           *)
(***************************************************************************)

\* The variables keep their types.
THEOREM NotificationsTypeCorrect == Spec => []TypeOK
<1>1. StreamInv => TypeOK
  BY DEF StreamInv
<1> QED
  BY <1>1, StreamInvariant, PTL

\* Whatever the publishers do, a session neither loses, nor repeats, nor reorders
\* a message between subscribe_to_changes and send_json.
THEOREM StreamsStayUnbroken == Spec => []StreamIsUnbroken
<1>1. StreamInv => StreamIsUnbroken
  BY DEF StreamInv, SessionOK, StreamOK, StreamIsUnbroken
<1> QED
  BY <1>1, StreamInvariant, PTL

\* A subscriber that was sent all there is knows the state of its entity, unless
\* set_state calls for it overlapped between the write and the announcement.
THEOREM DrainedClientsKnowTheState == Spec => []DrainedClientsAreCurrent
<1>1. StreamInv => DrainedClientsAreCurrent
  <2> SUFFICES ASSUME StreamInv, NEW s \in Sessions, NEW e \in Entities,
                      watch[s] = e, pc[s] = "poll", Subscribed(s),
                      buffer[s] = <<>>, sent[s] # <<>>, InFlight(e) = {}, e \notin torn
               PROVE  stored[e] \in {sent[s][Len(sent[s])], None}
    BY DEF DrainedClientsAreCurrent
  <2> DEFINE q == log[Channel(e)]
  <2>1. q \in Seq(Calls) /\ sent[s] \in Seq(Calls) /\ window[s].from \in Nat
    BY DEF StreamInv, TypeOK, Channels
  <2>2. Len(q) \in Nat /\ Len(sent[s]) \in Nat \ {0}
    BY <2>1, LenProperties, EmptySeq
  <2>3. sent[s] = SubSeq(q, window[s].from + 1, Len(q))
    <3>1. sent[s] \o <<>> \o <<>> = Heard(s)
      BY DEF StreamInv, SessionOK, StreamOK, HandOK, InHand, Polling
    <3>2. sent[s] \o <<>> \o <<>> = sent[s]
      BY <2>1, ConcatEmptySeq
    <3> QED
      BY <3>1, <3>2 DEF Heard, Subscribed, ChannelOf
  <2>4. Settled(e)
    BY DEF StreamInv, EntityOK, Pending
  <2>5. window[s].from <= Len(q)
    BY DEF StreamInv, SessionOK, WindowOK, Polling, ChannelOf
  <2>6. sent[s][Len(sent[s])] = q[Len(q)]
    <3> DEFINE from == window[s].from
    <3>1. \A i \in (from + 1)..Len(q) : q[i] \in Calls
      BY <2>1, <2>2, ElementOfSeq
    <3>2. from + 1 \in Int /\ Len(q) \in Int
      BY <2>1, <2>2
    <3> HIDE DEF q, from
    <3>3. /\ Len(sent[s]) = IF from + 1 <= Len(q) THEN Len(q) - (from + 1) + 1 ELSE 0
          /\ \A i \in 1..(Len(q) - (from + 1) + 1) : sent[s][i] = q[(from + 1) + i - 1]
      <4>1. sent[s] = SubSeq(q, from + 1, Len(q))
        BY <2>3 DEF from
      <4>2. /\ Len(SubSeq(q, from + 1, Len(q)))
                 = IF from + 1 <= Len(q) THEN Len(q) - (from + 1) + 1 ELSE 0
            /\ \A i \in 1..(Len(q) - (from + 1) + 1) :
                  SubSeq(q, from + 1, Len(q))[i] = q[(from + 1) + i - 1]
        BY <3>1, <3>2, SubSeqProperties
      <4> QED
        BY <4>1, <4>2
    <3>4. from \in Nat
      BY <2>1 DEF from
    <3> QED
      BY <2>2, <3>3, <3>4
  <2> QED
    BY <2>4, <2>6 DEF Settled, LastIs
<1> QED
  BY <1>1, StreamInvariant, PTL
=============================================================================
