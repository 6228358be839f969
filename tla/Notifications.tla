---------------------------- MODULE Notifications ----------------------------
(***************************************************************************)
(* State change notifications: the publishing side of RedisStateStore      *)
(* (app/state/redis_store.py), and the sessions that poll a subscription,  *)
(* as the WebSocket route /state/subscribe does                            *)
(* (app/controllers/state_controller.py).                                  *)
(*                                                                         *)
(* A call of set_state writes a key and then publishes the new state, in   *)
(* two requests to Redis; a message is named by its call.  Redis hands a   *)
(* message to the connections that are subscribed to its channel at that   *)
(* moment, and to no other.  A session serves one client from the accept   *)
(* to the disconnect of its own RedisStateStore.                           *)
(***************************************************************************)
EXTENDS Integers, Sequences, Functions

CONSTANTS
    Entities,  \* pairs of an entity_type and an entity_id, which may be None
    MaxCalls,  \* bounds the calls of set_state and delete_state
    Sessions,  \* the sessions, each run once
    Watches,   \* what a session may pass to subscribe_to_changes
    Deletable, \* the entities whose state is deleted: delete_state has no caller
    Faults,    \* may Redis fail, or a session's task be cancelled?
    None

\* The route passes nothing, and so asks for all changes.  Other arguments are
\* those that the store offers to its other users.
Everything == <<None, None>>

ASSUME NotificationsAssumption ==
    /\ MaxCalls \in Nat
    /\ \A e \in Entities : e = <<e[1], e[2]>> /\ e[1] # None
    /\ Watches \subseteq Entities \union {Everything}
    /\ Deletable \subseteq Entities
    /\ Faults \in BOOLEAN
    /\ None \notin Nat /\ None \notin Entities

\* Bug: there is one channel for everything.
ChannelForAll(e) == <<"state_changes", "all">>

\* _make_channel
Channel(e) ==
    CASE e[1] # None /\ e[2] # None -> <<"state_changes", e[1], e[2]>>
      [] e[1] # None /\ e[2] = None -> <<"state_changes", e[1]>>
      [] e[1] = None                -> <<"state_changes", "all">>

Channels == {Channel(e) : e \in Entities \union {Everything}}

\* The calls, numbered in the order of their writes.
Calls == 1..MaxCalls

VARIABLES
    stored,    \* the call whose state Redis holds for each entity, or None
    target,    \* the entity each call is about
    stage,     \* how far each call has come
    log,       \* history: what was published on each channel
    torn,      \* history: the entities whose last writes were not announced in
               \* the order they were made in, or not at all
    pc,        \* where each session is
    watch,     \* what each session is subscribed to
    present,   \* has the server not yet seen the client leave?
    held,      \* does the session hold a connection to Redis?
    buffer,    \* the messages on that connection that were not read
    hand,      \* the message that the session has read and not sent, or None
    sent,      \* the messages its client was sent
    window,    \* history: the part of the log that was published while the
               \* session was subscribed (an open end is None), and what had been
               \* announced before, on any channel
    phase      \* of the server: up, draining (asked to stop), down

calls    == <<stored, target, stage, log, torn>>
session  == <<pc, watch, present, held, buffer, hand, sent, window>>
vars     == <<calls, session, phase>>

Polling == {"poll", "send"}
Serving == {"connect", "subscribe", "close"} \union Polling
Over    == {"failed", "ended"}

TypeOK ==
    /\ stored  \in [Entities -> Calls \union {None}]
    /\ target  \in [Calls -> Entities \union {None}]
    /\ stage   \in [Calls -> {"new", "setting", "deleting", "set", "deleted", "failed"}]
    /\ log     \in [Channels -> Seq(Calls)]
    /\ torn    \subseteq Entities
    /\ pc      \in [Sessions -> {"new"} \union Serving \union Over]
    /\ watch   \in [Sessions -> Watches \union {None}]
    /\ present \in [Sessions -> BOOLEAN]
    /\ held    \in [Sessions -> BOOLEAN]
    /\ buffer  \in [Sessions -> Seq(Calls)]
    /\ hand    \in [Sessions -> Calls \union {None}]
    /\ sent    \in [Sessions -> Seq(Calls)]
    /\ window  \in [Sessions -> [from : Nat, to : Nat \union {None}, before : SUBSET Calls]]
    /\ phase   \in {"up", "draining", "down"}

ChannelOf(s)  == Channel(watch[s])
Subscribed(s) == pc[s] \in Polling /\ window[s].to = None
Announced     == {c \in Calls : stage[c] \in {"set", "deleted"}}
InFlight(e)   == {c \in Calls : stage[c] \in {"setting", "deleting"} /\ target[c] = e}
GoTo(s, label) == pc' = [pc EXCEPT ![s] = label]

Init ==
    /\ stored  = [e \in Entities |-> None]
    /\ target  = [c \in Calls |-> None]
    /\ stage   = [c \in Calls |-> "new"]
    /\ log     = [ch \in Channels |-> <<>>]
    /\ torn    = {}
    /\ pc      = [s \in Sessions |-> "new"]
    /\ watch   = [s \in Sessions |-> None]
    /\ present = [s \in Sessions |-> FALSE]
    /\ held    = [s \in Sessions |-> FALSE]
    /\ buffer  = [s \in Sessions |-> <<>>]
    /\ hand    = [s \in Sessions |-> None]
    /\ sent    = [s \in Sessions |-> <<>>]
    /\ window  = [s \in Sessions |-> [from |-> 0, to |-> None, before |-> {}]]
    /\ phase   = "up"

-----------------------------------------------------------------------------
(***************************************************************************)
(* set_state and delete_state: the key first, then the message.  A         *)
(* set_state is that of an update, or of a read that caches its row.       *)
(***************************************************************************)

IsNext(c) == stage[c] = "new" /\ \A d \in 1..(c - 1) : stage[d] # "new"

\* Call c has written the key of e; others may be about to announce theirs.
Wrote(c, e) ==
    /\ target' = [target EXCEPT ![c] = e]
    /\ torn'   = IF InFlight(e) = {} THEN torn \ {e} ELSE torn \union {e}

SetState(c, e) ==
    /\ phase # "down" /\ IsNext(c)
    /\ stored' = [stored EXCEPT ![e] = c]
    /\ stage'  = [stage EXCEPT ![c] = "setting"]
    /\ Wrote(c, e)
    /\ UNCHANGED <<log, session, phase>>

DeleteState(c, e) ==
    /\ e \in Deletable
    /\ phase # "down" /\ IsNext(c)
    /\ stored' = [stored EXCEPT ![e] = None]
    /\ stage'  = [stage EXCEPT ![c] = "deleting"]
    /\ Wrote(c, e)
    /\ UNCHANGED <<log, session, phase>>

\* _publish_state_change
Publish(c) ==
    /\ phase # "down" /\ stage[c] \in {"setting", "deleting"}
    /\ LET ch == Channel(target[c])
       IN  /\ log'    = [log EXCEPT ![ch] = Append(@, c)]
           /\ buffer' = [s \in Sessions |->
                           IF Subscribed(s) /\ ChannelOf(s) = ch
                           THEN Append(buffer[s], c) ELSE buffer[s]]
    /\ stage' = [stage EXCEPT ![c] = IF @ = "setting" THEN "set" ELSE "deleted"]
    /\ UNCHANGED <<stored, target, torn, pc, watch, present, held, hand, sent, window, phase>>

\* The call ends between the two requests, or its publish raises.
PublishFails(c) ==
    /\ Faults /\ stage[c] \in {"setting", "deleting"}
    /\ stage' = [stage EXCEPT ![c] = "failed"]
    /\ torn'  = torn \union {target[c]}
    /\ UNCHANGED <<stored, target, log, session, phase>>

\* The key's TTL runs out, which Redis announces to nobody.
Expire(e) ==
    /\ stored[e] # None
    /\ stored' = [stored EXCEPT ![e] = None]
    /\ UNCHANGED <<target, stage, log, torn, session, phase>>

-----------------------------------------------------------------------------
(***************************************************************************)
(* websocket_subscribe                                                     *)
(***************************************************************************)

Accept(s) ==
    /\ phase = "up" /\ pc[s] = "new"
    /\ \E w \in Watches : watch' = [watch EXCEPT ![s] = w]
    /\ present' = [present EXCEPT ![s] = TRUE]
    /\ GoTo(s, "connect")
    /\ UNCHANGED <<calls, held, buffer, hand, sent, window, phase>>

Connect(s) ==
    /\ pc[s] = "connect"
    /\ held' = [held EXCEPT ![s] = TRUE]
    /\ GoTo(s, "subscribe")
    /\ UNCHANGED <<calls, watch, present, buffer, hand, sent, window, phase>>

\* The ping of connect raises, before the try block is entered.
ConnectFails(s) ==
    /\ Faults /\ pc[s] = "connect"
    /\ GoTo(s, "failed")
    /\ UNCHANGED <<calls, watch, present, held, buffer, hand, sent, window, phase>>

\* Bug: the confirmation is awaited by reading until a message comes.
SubscribeAndWait(s) ==
    /\ pc[s] = "subscribe" /\ log[ChannelOf(s)] # <<>>
    /\ window' = [window EXCEPT ![s].from = Len(log[ChannelOf(s)]),
                              ![s].before = Announced]
    /\ GoTo(s, "poll")
    /\ UNCHANGED <<calls, watch, present, held, buffer, hand, sent, phase>>

\* subscribe_to_changes
Subscribe(s) ==
    /\ pc[s] = "subscribe"
    /\ window' = [window EXCEPT ![s].from = Len(log[ChannelOf(s)]),
                              ![s].before = Announced]
    /\ GoTo(s, "poll")
    /\ UNCHANGED <<calls, watch, present, held, buffer, hand, sent, phase>>

\* Bug: a second call of get_message in one turn drops the first answer.
PollTwice(s) ==
    /\ pc[s] = "poll" /\ buffer[s] # <<>>
    /\ hand'   = [hand EXCEPT ![s] = buffer[s][Len(buffer[s])]]
    /\ buffer' = [buffer EXCEPT ![s] = <<>>]
    /\ GoTo(s, "send")
    /\ UNCHANGED <<calls, watch, present, held, sent, window, phase>>

\* Bug: "no message" is sent too.
PollAnything(s) ==
    /\ pc[s] = "poll"
    /\ IF buffer[s] = <<>> THEN UNCHANGED <<hand, buffer>>
       ELSE hand' = [hand EXCEPT ![s] = Head(buffer[s])]
            /\ buffer' = [buffer EXCEPT ![s] = Tail(@)]
    /\ GoTo(s, "send")
    /\ UNCHANGED <<calls, watch, present, held, sent, window, phase>>

\* Bug: the loop only sleeps when the client is not connected.
PollWhilePresent(s) ==
    /\ pc[s] = "poll" /\ buffer[s] # <<>> /\ present[s]
    /\ hand'   = [hand EXCEPT ![s] = Head(buffer[s])]
    /\ buffer' = [buffer EXCEPT ![s] = Tail(@)]
    /\ GoTo(s, "send")
    /\ UNCHANGED <<calls, watch, present, held, sent, window, phase>>

\* get_next_message returns a message.  Without one the loop sleeps and polls
\* again, which changes nothing.
Poll(s) ==
    /\ pc[s] = "poll" /\ buffer[s] # <<>>
    /\ hand'   = [hand EXCEPT ![s] = Head(buffer[s])]
    /\ buffer' = [buffer EXCEPT ![s] = Tail(@)]
    /\ GoTo(s, "send")
    /\ UNCHANGED <<calls, watch, present, held, sent, window, phase>>

Send(s) ==
    /\ pc[s] = "send" /\ present[s]
    /\ sent' = [sent EXCEPT ![s] = Append(@, hand[s])]
    /\ hand' = [hand EXCEPT ![s] = None]
    /\ GoTo(s, "poll")
    /\ UNCHANGED <<calls, watch, present, held, buffer, window, phase>>

\* The session is on its way out and reads nothing more.
Abandon(s) ==
    /\ hand'   = [hand EXCEPT ![s] = None]
    /\ GoTo(s, "close")

\* Bug: the loop goes on after the exception.
SendFailsSilently(s) ==
    /\ pc[s] = "send" /\ ~present[s]
    /\ hand' = [hand EXCEPT ![s] = None]
    /\ GoTo(s, "poll")
    /\ UNCHANGED <<calls, watch, present, held, buffer, sent, window, phase>>

\* send_json raises WebSocketDisconnect: only here is a client missed.
SendFails(s) ==
    /\ pc[s] = "send" /\ ~present[s]
    /\ Abandon(s)
    /\ UNCHANGED <<calls, watch, present, held, buffer, sent, window, phase>>

\* Redis fails, or the task is cancelled.
Break(s) ==
    /\ Faults /\ pc[s] \in {"subscribe"} \union Polling
    /\ Abandon(s)
    /\ UNCHANGED <<calls, watch, present, held, buffer, sent, window, phase>>

\* finally: disconnect()
Close(s) ==
    /\ pc[s] = "close"
    /\ held'   = [held EXCEPT ![s] = FALSE]
    /\ buffer' = [buffer EXCEPT ![s] = <<>>]
    /\ GoTo(s, "ended")
    /\ UNCHANGED <<calls, watch, present, hand, sent, window, phase>>

\* The close of the subscription raises, and the client is not closed.
CloseFails(s) ==
    /\ Faults /\ pc[s] = "close"
    /\ GoTo(s, "failed")
    /\ UNCHANGED <<calls, watch, present, held, buffer, hand, sent, window, phase>>

\* unsubscribe_from_changes, which the route never calls.  What has arrived can
\* still be read.
Unsubscribe(s) ==
    /\ pc[s] = "poll" /\ Subscribed(s) /\ watch[s] # Everything
    /\ window' = [window EXCEPT ![s].to = Len(log[ChannelOf(s)])]
    /\ UNCHANGED <<calls, pc, watch, present, held, buffer, hand, sent, phase>>

-----------------------------------------------------------------------------
(***************************************************************************)
(* Around the sessions.                                                    *)
(***************************************************************************)

Leave(s) ==
    /\ present[s]
    /\ present' = [present EXCEPT ![s] = FALSE]
    /\ UNCHANGED <<calls, pc, watch, held, buffer, hand, sent, window, phase>>

\* The server is told to stop: it closes every WebSocket and accepts no more.
Stop ==
    /\ phase = "up"
    /\ phase' = "draining"
    /\ present' = [s \in Sessions |-> FALSE]
    /\ UNCHANGED <<calls, pc, watch, held, buffer, hand, sent, window>>

\* It waits for the tasks of all sessions, and only then runs shutdown_event.
Shutdown ==
    /\ phase = "draining"
    /\ \A s \in Sessions : pc[s] \notin Serving
    /\ phase' = "down"
    /\ UNCHANGED <<calls, session>>

Serve(s) ==
    \/ Connect(s) \/ Subscribe(s)
    \/ Poll(s) \/ Send(s) \/ SendFails(s) \/ Close(s)

Next ==
    \/ \E c \in Calls :
          \/ \E e \in Entities : SetState(c, e) \/ DeleteState(c, e)
          \/ Publish(c) \/ PublishFails(c)
    \/ \E e \in Entities : Expire(e)
    \/ \E s \in Sessions : 
          \/ Accept(s) \/ Serve(s) \/ ConnectFails(s) \/ Break(s) \/ CloseFails(s)
          \/ Unsubscribe(s) \/ Leave(s)
    \/ Stop \/ Shutdown

Spec == Init /\ [][Next]_vars

\* The event loop runs the sessions, and the server looks whether they have
\* ended.  Nobody has to connect, to leave, to update or to stop the server, and
\* nothing has to fail.
FairSpec == Spec /\ (\A s \in Sessions : WF_vars(Serve(s))) /\ WF_vars(Shutdown)

-----------------------------------------------------------------------------
(***************************************************************************)
(* Properties.                                                             *)
(***************************************************************************)

\* What was published on the channel of s while s was subscribed to it.
Heard(s) ==
    LET last == IF window[s].to = None THEN Len(log[ChannelOf(s)]) ELSE window[s].to
    IN  SubSeq(log[ChannelOf(s)], window[s].from + 1, last)

InHand(s) == IF hand[s] = None THEN <<>> ELSE <<hand[s]>>

\* Between Redis and its client a session loses, repeats and reorders nothing
\* from the subscription on, whatever the publishers do: what it has sent, has in
\* hand and has not read yet is exactly what was published meanwhile.
StreamIsUnbroken ==
    \A s \in Sessions :
        pc[s] \in Polling => sent[s] \o InHand(s) \o buffer[s] = Heard(s)

\* A client that has been sent everything knows the state that Redis holds, if
\* Redis still holds one.  The exception are entities whose last writes
\* overlapped or went without their announcement: set_state is two requests, and
\* the order of the messages is not that of the writes.
DrainedClientsAreCurrent ==
    \A s \in Sessions : \A e \in Entities :
        ( /\ watch[s] = e /\ pc[s] = "poll" /\ Subscribed(s)
          /\ buffer[s] = <<>> /\ sent[s] # <<>>
          /\ InFlight(e) = {} /\ e \notin torn )
            => stored[e] \in {sent[s][Len(sent[s])], None}

\* A message that has arrived is sent to the client, or the session ends: no
\* session goes on and leaves a message behind.
MessagesAreDelivered ==
    \A s \in Sessions : buffer[s] # <<>> ~> (buffer[s] = <<>> \/ pc[s] \in Over)

\* The connection to Redis of a client that has left is given back, once there
\* was anything to tell the client, unless the disconnect itself raises.
GoneClientsAreNoticed ==
    \A s \in Sessions :
        (~present[s] /\ (buffer[s] # <<>> \/ hand[s] # None)) ~>
            (~held[s] \/ pc[s] = "failed")

\* A session that waits for a message to find out that its client has left.
Deaf(s) == pc[s] = "poll" /\ ~present[s] /\ buffer[s] = <<>>

\* The server that was told to stop does stop, and shutdown_event runs, unless it
\* waits for such a session.
OnlyDeafSessionsDelayStop ==
    phase = "draining" ~> (phase = "down" \/ \E s \in Sessions : Deaf(s))

\* state_controller.py: "# Subscribe to all state changes".  A client of the route
\* that nothing has cut off is sent each change announced since.
AllChangesAreHeard ==
    \A s \in Sessions :
        watch[s] = Everything /\ pc[s] = "poll" =>
            Announced \ window[s].before \subseteq Range(sent[s]) \union Range(buffer[s])
=============================================================================
