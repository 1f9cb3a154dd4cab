------------------------------- MODULE Stream -------------------------------
(***************************************************************************)
(* The live stream: ingestion and delivery publish what happens to a       *)
(* webhook on a Redis channel (internal/pubsub), cmd/sse hands every       *)
(* message to its hub (internal/sse), the hub to the buffers of the        *)
(* connected clients, and a dashboard keeps a list of webhooks with their  *)
(* status. Nothing on the way is stored: a message finds a client now or   *)
(* never. The hub's lock is taken for a whole broadcast, which sends to    *)
(* one client at a time; registering and unregistering are one step each.  *)
(* A definition called a variant is not part of Next: it is a change of    *)
(* the one after it, there to show that a property notices.                *)
(***************************************************************************)
EXTENDS Naturals, Sequences, FiniteSets

CONSTANTS
    Events,
    SourceOf,     \* the source of each event
    Tabs,         \* dashboards
    Filter,       \* the source_id each dashboard asks for, or AnySource
    AnySource,
    Sleepers,     \* dashboards that may stop reading while they are connected
    Capacity,     \* of a client's channel (64 in the code)
    ListSize,     \* of a dashboard's list (MAX_EVENTS, 200 in the code)
    Sendings,     \* times go-redis sends a command whose replies are lost (4 in the code)
    Reports,      \* bound: kinds of outcome that are published
    MaxConnects,  \* bound: connections of a dashboard
    MaxLost,      \* bound: messages that Redis or the subscription loses
    MaxRestarts,  \* bound: restarts of cmd/sse
    MaxMessages   \* bound: messages published

ASSUME SizesAssumption  == Capacity \in Nat \ {0} /\ ListSize \in Nat \ {0} /\ Sendings \in Nat
ASSUME BoundsAssumption == /\ MaxConnects \in Nat /\ MaxLost \in Nat
                           /\ MaxRestarts \in Nat /\ MaxMessages \in Nat

Kinds    == {"received", "delivered", "failed", "buried"}

ASSUME ReportsAssumption == Reports \subseteq Kinds \ {"received"}

Outcomes == {"delivered", "failed"}

(* A connection is the n-th request of a dashboard on /events. *)
Connections == Tabs \X (1..MaxConnects)
Owner(c)    == c[1]

VARIABLES
    published,  \* history: all messages in the order Redis got them
    feed,       \* numbers of the messages in the subscriber's channel
    sending,    \* the one being broadcast, 0 if none: then the lock is free
    todo,       \* clients the broadcast has still to look at
    clients,    \* the hub's map: the connections whose channel is open
    stage,      \* what each connection's ServeHTTP does
    buffer,     \* the channel of each connection
    latest, online,   \* each dashboard's last connection, and whether it has it
    stalled,    \* whether it has stopped reading from that connection
    list,       \* each dashboard's store
    seen,       \* history: the messages each dashboard was shown
    missed,     \* history: those it never will be
    lost, restarts

channel    == <<published, feed, lost>>
hub        == <<sending, todo, clients>>
handlers   == <<stage, buffer>>
browsers   == <<latest, online, stalled, list, seen>>
vars == <<channel, hub, handlers, browsers, missed, restarts>>

Messages == [kind : Kinds, event : Events]
Numbers  == 1..Len(published)
Entries  == [event : Events, status : Outcomes \union {"received"}]

TypeOK ==
    /\ published \in Seq(Messages)
    /\ feed \in Seq(Numbers)
    /\ sending \in Numbers \union {0}
    /\ todo \subseteq Connections /\ (todo = {} <=> sending = 0)
    /\ clients \subseteq Connections
    /\ stage \in [Connections -> {"unused", "opening", "serving", "writing", "leaving", "closed"}]
    /\ buffer \in [Connections -> Seq(Numbers)]
    /\ \A c \in Connections : stage[c] = "writing" => buffer[c] # <<>>
    /\ latest \in [Tabs -> 0..MaxConnects]
    /\ online \in [Tabs -> BOOLEAN] /\ \A t \in Tabs : online[t] => latest[t] > 0
    /\ stalled \in [Tabs -> BOOLEAN]
    /\ list \in [Tabs -> Seq(Entries)]
    /\ seen \in [Tabs -> Seq(Numbers)]
    /\ missed \in [Tabs -> SUBSET Numbers]
    /\ lost \in 0..MaxLost /\ restarts \in 0..MaxRestarts

Connected(c) == online[Owner(c)] /\ c[2] = latest[Owner(c)]
Matches(t, m) == Filter[t] = AnySource \/ Filter[t] = SourceOf[m.event]

-----------------------------------------------------------------------------
(* Publish. A message that Redis does not take, or that finds the          *)
(* subscriber disconnected, is gone: its error is ignored.                 *)

Publish(k, e) ==
    LET m == [kind |-> k, event |-> e]
        n == Len(published) + 1
    IN  /\ Len(published) < MaxMessages
        /\ published' = Append(published, m)
        /\ \/ /\ feed' = Append(feed, n)
              /\ UNCHANGED <<lost, missed>>
           \/ /\ lost < MaxLost
              /\ lost' = lost + 1
              /\ missed' = [t \in Tabs |-> IF Matches(t, m) THEN missed[t] \union {n} ELSE missed[t]]
              /\ UNCHANGED feed

(* handleWebhook, after the event was put in the queue: an outcome may be  *)
(* published before. When the reply is lost, go-redis publishes it again.  *)
Announce(e) ==
    /\ Cardinality({n \in Numbers : published[n] = [kind |-> "received", event |-> e]}) < Sendings
    /\ Publish("received", e)
    /\ UNCHANGED <<hub, handlers, browsers, restarts>>

(* deliverToDestination and moveToDLQ, for each destination and again for  *)
(* every lost reply, retry and recovery: when is in module Delivery.       *)
Report(e) ==
    /\ \E k \in Reports : Publish(k, e)
    /\ UNCHANGED <<hub, handlers, browsers, restarts>>

-----------------------------------------------------------------------------
(* Subscribe and Broadcast. The clients are looked at in any order, each   *)
(* without waiting: a full channel does not get the message.               *)

Begin(n, rest) ==
    /\ sending = 0
    /\ feed' = rest
    /\ sending' = IF clients = {} THEN 0 ELSE n
    /\ todo' = clients
    /\ missed' = [t \in Tabs |->
                    IF Matches(t, published[n]) /\ ~ \E c \in clients : Owner(c) = t /\ Connected(c)
                    THEN missed[t] \union {n} ELSE missed[t]]
    /\ UNCHANGED <<published, lost, clients, handlers, browsers, restarts>>

(* Variant: a goroutine for each message. *)
BroadcastAny ==
    \E i \in DOMAIN feed : Begin(feed[i], SubSeq(feed, 1, i - 1) \o SubSeq(feed, i + 1, Len(feed)))

Broadcast == feed # <<>> /\ Begin(Head(feed), Tail(feed))

(* Variant: the lock is not released. *)
TurnLocked(c, rest) ==
    /\ c \in todo
    /\ todo' = rest /\ UNCHANGED sending
    /\ UNCHANGED <<channel, clients, stage, browsers, restarts>>

(* One client's turn; the lock is released after the last one. *)
Turn(c, rest) ==
    /\ c \in todo
    /\ todo' = rest /\ sending' = IF rest = {} THEN 0 ELSE sending
    /\ UNCHANGED <<channel, clients, stage, browsers, restarts>>

Wants(c) == Matches(Owner(c), published[sending])
(* The head of the buffer of a handler that writes has left the channel. *)
Waiting(c) == Len(buffer[c]) - (IF stage[c] = "writing" THEN 1 ELSE 0)
Full(c)    == Waiting(c) >= Capacity

Skip(c)  == ~ Wants(c) /\ UNCHANGED <<buffer, missed>>
Put(c)   == /\ Wants(c) /\ ~ Full(c)
            /\ buffer' = [buffer EXCEPT ![c] = Append(@, sending)] /\ UNCHANGED missed
Drop(c)  == /\ Wants(c) /\ Full(c) /\ UNCHANGED buffer
            /\ missed' = [missed EXCEPT ![Owner(c)] = IF Connected(c) THEN @ \union {sending} ELSE @]

(* Variants: a full channel ends the broadcast; it is waited for, and so   *)
(* do the clients after it.                                                *)
SendOrStop(c) == \/ Turn(c, todo \ {c}) /\ (Skip(c) \/ Put(c))
                 \/ Turn(c, {}) /\ Drop(c)
SendOrWait(c) == /\ Turn(c, todo \ {c}) /\ (Skip(c) \/ Put(c))
                 /\ \A d \in todo : Wants(d) => ~ Full(d)

Send(c) == Turn(c, todo \ {c}) /\ (Skip(c) \/ Put(c) \/ Drop(c))

-----------------------------------------------------------------------------
(* ServeHTTP. Register and Unregister wait for the lock. *)

(* What was on its way to the connection a dashboard has lost. *)
OnTheWay(c) ==
    {buffer[c][i] : i \in DOMAIN buffer[c]}
    \union {n \in {sending} \ {0} : c \in todo /\ Matches(Owner(c), published[n])}

Register(c) ==
    /\ stage[c] = "opening" /\ sending = 0
    /\ stage' = [stage EXCEPT ![c] = "serving"]
    /\ clients' = clients \union {c}
    /\ UNCHANGED <<channel, sending, todo, buffer, browsers, missed, restarts>>

(* The select finds the request's context done ... *)
Leave(c) ==
    /\ stage[c] = "serving" /\ ~ Connected(c)
    /\ stage' = [stage EXCEPT ![c] = "leaving"]
    /\ UNCHANGED <<channel, hub, buffer, browsers, missed, restarts>>

(* ... and the deferred call waits for the lock. *)
Closing(c) ==
    /\ stage[c] = "leaving"
    /\ stage' = [stage EXCEPT ![c] = "closed"]
    /\ buffer' = [buffer EXCEPT ![c] = <<>>]
    /\ UNCHANGED <<channel, sending, todo, browsers, missed, restarts>>

(* Variants: without the lock; without the entry in the map. *)
UnregisterUnlocked(c) == Closing(c) /\ clients' = clients \ {c}
UnregisterForgets(c)  == Closing(c) /\ sending = 0 /\ UNCHANGED clients

Unregister(c) == Closing(c) /\ sending = 0 /\ clients' = clients \ {c}

-----------------------------------------------------------------------------
(* The dashboard's store. *)

Shorten(l) == SubSeq(l, 1, IF Len(l) > ListSize THEN ListSize ELSE Len(l))

(* Variant: every entry of the event. *)
AllOf(l, e) == {i \in DOMAIN l : l[i].event = e}

(* findIndex: the first entry of the event, if there is one. *)
FirstOf(l, e) == {i \in DOMAIN l : l[i].event = e /\ \A j \in 1..(i - 1) : l[j].event # e}

(* addWebhookReceived, updateWebhookDelivered and markWebhookFailed. An    *)
(* outcome of an event that is not in the list is ignored, and nobody      *)
(* listens for "buried" (dlq.added).                                       *)
Shown(l, m) ==
    CASE m.kind = "received" -> Shorten(<<[event |-> m.event, status |-> "received"]>> \o l)
      [] m.kind \in Outcomes -> [i \in DOMAIN l |-> IF i \in FirstOf(l, m.event)
                                                    THEN [l[i] EXCEPT !.status = m.kind] ELSE l[i]]
      [] m.kind = "buried"   -> l

(* ServeHTTP takes a message from the channel ... *)
Take(c) ==
    /\ stage[c] = "serving" /\ buffer[c] # <<>>
    /\ stage' = [stage EXCEPT ![c] = "writing"]
    /\ UNCHANGED <<channel, hub, buffer, browsers, missed, restarts>>

(* ... and writes it. The server has no WriteTimeout: the write waits for  *)
(* a dashboard that does not read, until its connection is lost; then the  *)
(* message is too, and the error ignored.                                  *)
Write(c) ==
    LET t == Owner(c)
        n == Head(buffer[c])
    IN  /\ stage[c] = "writing"
        /\ stage' = [stage EXCEPT ![c] = "serving"]
        /\ buffer' = [buffer EXCEPT ![c] = Tail(@)]
        /\ IF Connected(c)
           THEN /\ ~ stalled[t]
                /\ list' = [list EXCEPT ![t] = Shown(@, published[n])]
                /\ seen' = [seen EXCEPT ![t] = Append(@, n)]
           ELSE UNCHANGED <<list, seen>>
        /\ UNCHANGED <<channel, hub, latest, online, stalled, missed, restarts>>

(* EventSource connects, and connects again after an error. *)
Connect(t) ==
    /\ ~ online[t] /\ latest[t] < MaxConnects
    /\ online' = [online EXCEPT ![t] = TRUE]
    /\ latest' = [latest EXCEPT ![t] = @ + 1]
    /\ stage' = [stage EXCEPT ![<<t, latest[t] + 1>>] = "opening"]
    /\ UNCHANGED <<channel, hub, buffer, stalled, list, seen, missed, restarts>>

(* A frozen page, or a network that takes no more: nothing is read from    *)
(* this connection again.                                                  *)
Stall(t) ==
    /\ t \in Sleepers /\ online[t] /\ ~ stalled[t]
    /\ stalled' = [stalled EXCEPT ![t] = TRUE]
    /\ UNCHANGED <<channel, hub, handlers, latest, online, list, seen, missed, restarts>>

Disconnect(t) ==
    /\ online[t]
    /\ online' = [online EXCEPT ![t] = FALSE]
    /\ stalled' = [stalled EXCEPT ![t] = FALSE]
    /\ missed' = [missed EXCEPT ![t] = @ \union OnTheWay(<<t, latest[t]>>)]
    /\ UNCHANGED <<channel, hub, handlers, latest, list, seen, restarts>>

(* cmd/sse dies and is started again: an empty hub, a new subscription. *)
Restart ==
    /\ restarts < MaxRestarts /\ restarts' = restarts + 1
    /\ feed' = <<>> /\ sending' = 0 /\ todo' = {} /\ clients' = {}
    /\ stage' = [c \in Connections |-> IF stage[c] = "unused" THEN "unused" ELSE "closed"]
    /\ buffer' = [c \in Connections |-> <<>>]
    /\ online' = [t \in Tabs |-> FALSE] /\ stalled' = [t \in Tabs |-> FALSE]
    /\ missed' = [t \in Tabs |->
                    missed[t] \union (IF online[t] THEN OnTheWay(<<t, latest[t]>>) ELSE {})
                    \union {n \in {feed[i] : i \in DOMAIN feed} : Matches(t, published[n])}]
    /\ UNCHANGED <<published, lost, latest, list, seen>>

-----------------------------------------------------------------------------
Init ==
    /\ published = <<>> /\ feed = <<>>
    /\ sending = 0 /\ todo = {} /\ clients = {}
    /\ stage = [c \in Connections |-> "unused"]
    /\ buffer = [c \in Connections |-> <<>>]
    /\ latest = [t \in Tabs |-> 0] /\ online = [t \in Tabs |-> FALSE]
    /\ stalled = [t \in Tabs |-> FALSE]
    /\ list = [t \in Tabs |-> <<>>] /\ seen = [t \in Tabs |-> <<>>]
    /\ missed = [t \in Tabs |-> {}]
    /\ lost = 0 /\ restarts = 0

Fanout      == Broadcast \/ \E c \in Connections : Send(c)
Serve(c)    == Register(c) \/ Take(c) \/ Write(c) \/ Leave(c) \/ Unregister(c)
Browse(t)   == Connect(t) \/ Stall(t) \/ Disconnect(t)

Next ==
    \/ \E e \in Events : Announce(e) \/ Report(e)
    \/ Fanout
    \/ \E c \in Connections : Serve(c)
    \/ \E t \in Tabs : Browse(t)
    \/ Restart

Spec == Init /\ [][Next]_vars

(* The goroutines of cmd/sse go on; Go's select chooses at random among    *)
(* the cases that are ready, so a context that is done is seen in the end. *)
(* A write goes on when the dashboard reads or its connection is lost;     *)
(* that a dashboard does either is not assumed. A handler registers,       *)
(* leaves and unregisters once, so that strong fairness of the three       *)
(* together is that of each.                                               *)
Fairness ==
    /\ WF_vars(Fanout)
    /\ \A c \in Connections : /\ WF_vars(Take(c) \/ Write(c) \/ Leave(c))
                              /\ SF_vars(Register(c) \/ Leave(c) \/ Unregister(c))

FairSpec == Spec /\ Fairness

-----------------------------------------------------------------------------
(* Properties *)

(* Broadcast never sends on a channel that Unregister has closed, which    *)
(* would panic: a client still to be served is still registered.           *)
NeverSendsOnClosed == todo \subseteq clients

(* A dashboard is shown messages in the order in which Redis got them, and *)
(* none twice, also over reconnections, whose old and new handler are both *)
(* registered for a while.                                                 *)
SeenInOrder ==
    \A t \in Tabs : \A i, j \in DOMAIN seen[t] : i < j => seen[t][i] < seen[t][j]

(* Every message a dashboard asked for, and no other, is on its way to it, *)
(* was shown to it, or was missed for a reason of its own: the full        *)
(* buffer, slow handler or lost connection of one client costs no other    *)
(* client a message.                                                       *)
EveryMessageAccounted ==
    \A t \in Tabs :
        LET Asked   == {n \in Numbers : Matches(t, published[n])}
            Seen    == {seen[t][i] : i \in DOMAIN seen[t]}
            Ahead   == {feed[i] : i \in DOMAIN feed} \intersect Asked
            Current == IF online[t] THEN OnTheWay(<<t, latest[t]>>) ELSE {}
        IN  /\ Asked = Seen \union missed[t] \union Ahead \union Current
            /\ Seen \intersect missed[t] = {}
            /\ (Seen \union missed[t]) \intersect (Ahead \union Current) = {}

(* The list shows the newest "received" messages that were seen, and each  *)
(* has the last outcome of its event seen after it and before the next     *)
(* "received" of that event: a "delivered" that overtakes its "received"   *)
(* leaves the entry at "received", a "received" that go-redis published    *)
(* twice leaves an entry behind it, and nothing else makes the list lie.   *)
ListMatchesSeen ==
    \A t \in Tabs :
        LET Msg(i)  == published[seen[t][i]]
            Firsts  == {i \in DOMAIN seen[t] : Msg(i).kind = "received"}
            Newer(i) == Cardinality({j \in Firsts : j > i})
            Again(i) == {j \in Firsts : j > i /\ Msg(j).event = Msg(i).event}
            Later(i) == {j \in DOMAIN seen[t] : /\ j > i /\ Msg(j).kind \in Outcomes
                                                /\ Msg(j).event = Msg(i).event
                                                /\ \A k \in Again(i) : j < k}
        IN  /\ Len(list[t]) = IF Cardinality(Firsts) > ListSize THEN ListSize ELSE Cardinality(Firsts)
            /\ \A i \in Firsts : Newer(i) < ListSize =>
                 LET entry == list[t][Newer(i) + 1]
                 IN  /\ entry.event = Msg(i).event
                     /\ IF Later(i) = {} THEN entry.status = "received"
                        ELSE \E j \in Later(i) : /\ \A k \in Later(i) : k <= j
                                                 /\ entry.status = Msg(j).kind

(* Every message is shown or missed in the end, unless its own dashboard   *)
(* stops reading: the broadcast never waits for a client, neither for one  *)
(* whose handler may itself wait for the lock nor for one whose handler is *)
(* held up by a write, and a connection that is lost ends such a write.    *)
EveryMessageSettles ==
    \A t \in Tabs, n \in 1..MaxMessages :
        (n \in Numbers /\ Matches(t, published[n]))
            ~> (n \in missed[t] \/ (\E i \in DOMAIN seen[t] : seen[t][i] = n) \/ stalled[t])

(* No connection leaks: one its dashboard has left is taken out of the     *)
(* hub, however busy the stream.                                           *)
LeftIsUnregistered ==
    \A c \in Connections : (c \in clients /\ ~ Connected(c)) ~> c \notin clients
=============================================================================
