------------------------------ MODULE Realtime ------------------------------
(***************************************************************************)
(* The hub of one process and its WebSocket clients                          *)
(* (backend/internal/realtime/hub.go, ws_handler.go).                         *)
(*                                                                         *)
(* Requests publish to Redis; the hub's one loop takes a message, snapshots the *)
(* clients that want it under the lock of the hub, and then sends to one after   *)
(* the other without it: a full buffer drops the message, a client closed since  *)
(* the look at its flag makes the send panic, which ends the process.          *)
(*                                                                         *)
(* A message is its number in the order of publication.                      *)
(***************************************************************************)
EXTENDS Pipeline

CONSTANTS
    Clients,        \* WebSocket connections
    Buffer,         \* clientSendBuffer
    NoFan,          \* the loop is between two messages
    MaxClicks       \* bound on changes of interest and on reconnections of the loop

ASSUME RealtimeAssumption ==
    /\ Buffer \in Nat \ {0} /\ MaxClicks \in Nat
    /\ NoFan \notin Clients \cup [msg : Nat, left : SUBSET Clients, checked : Clients \cup {NoFan}]

VARIABLES
    published,  \* published[n]: topic of the n-th message, and the support behind it
    wire,       \* messages on the Redis subscription
    client,     \* client[c]: state, and the topics it asked for
    buffer,     \* buffer[c]: Client.Send
    got,        \* got[c]: messages written to the connection
    fan,        \* the message under delivery, the clients left, the client looked at
    hub,        \* "running", "stopping", "stopped", "panicked"
    clicks,
    since,      \* since[c]: messages published before the client was there (history)
    dropped,    \* <<client, message>> dropped as slow (history)
    lost,       \* messages lost with a subscription (history)
    closedUnder \* a client was closed between the look at its flag and the send (history)

liveVars == <<published, wire, client, buffer, got, fan, hub, clicks, since, dropped,
             lost, closedUnder>>

Topics == {"support", "flip", "feed", "room"}
ForAll == {"flip", "feed"}          \* delivered to every client
Messages == 1..Len(published)

(* No message is on its way, arrived or lost that was not published.             *)
RealtimeTypeOK ==
    /\ published \in Seq([topic : Topics, by : Supports \cup {NoFan}])
    /\ wire \in Seq(Messages)
    /\ client \in [Clients -> [state : {"new", "open", "closed"}, wants : SUBSET (Topics \ ForAll)]]
    /\ buffer \in [Clients -> Seq(Messages)] /\ got \in [Clients -> Seq(Messages)]
    /\ fan \in [msg : Messages, left : SUBSET Clients, checked : Clients \cup {NoFan}] \cup {NoFan}
    /\ hub \in {"running", "stopping", "stopped", "panicked"}
    /\ clicks \in 0..MaxClicks
    /\ since \in [Clients -> 0..Len(published)]
    /\ dropped \subseteq Clients \X Messages /\ lost \subseteq Messages
    /\ closedUnder \in BOOLEAN

(* The clients that connect in a behaviour.                                   *)
RealtimeInit(connecting) ==
    /\ published = <<>> /\ wire = <<>> /\ fan = NoFan /\ hub = "running" /\ clicks = 0
    /\ client = [c \in Clients |-> [state |-> IF c \in connecting THEN "new" ELSE "closed",
                                  wants |-> {}]]
    /\ buffer = [c \in Clients |-> <<>>] /\ got = [c \in Clients |-> <<>>]
    /\ since = [c \in Clients |-> 0] /\ dropped = {} /\ lost = {} /\ closedUnder = FALSE

-----------------------------------------------------------------------------
Alive == hub # "panicked"
IsOpen(c) == client[c].state = "open"
Click == clicks < MaxClicks /\ clicks' = clicks + 1

(* Publisher.Publish: Redis hands the message to the subscription there is.    *)
Publish(topic, s) ==
    /\ published' = Append(published, [topic |-> topic, by |-> s])
    /\ wire' = Append(wire, Len(published'))
    /\ UNCHANGED <<client, buffer, got, fan, hub, clicks, since, dropped, lost,
                   closedUnder>>

PublishSupport(s) == Pass(s, "support_event") /\ Publish("support", s)
PublishFlip(s) == Pass(s, "flip_event") /\ Publish("flip", s)
PublishFeed(s) == Pass(s, "feed") /\ Publish("feed", s)

(* ServeWS: BindUser and Register.                                            *)
OpenSocket(c) ==
    /\ Alive /\ client[c].state = "new"
    /\ client' = [client EXCEPT ![c].state = "open"]
    /\ since' = [since EXCEPT ![c] = Len(published)]
    /\ UNCHANGED <<published, wire, buffer, got, fan, hub, clicks, dropped, lost,
                   closedUnder>>

(* readPump: a viewport with or without the city, join and leave of a room.     *)
SetInterest(c, topic) ==
    /\ Alive /\ IsOpen(c) /\ topic \in Topics \ ForAll
    /\ Click
    /\ client' = [client EXCEPT ![c].wants =
                     IF topic \in @ THEN @ \ {topic} ELSE @ \cup {topic}]
    /\ UNCHANGED <<published, wire, buffer, got, fan, hub, since, dropped, lost,
                   closedUnder>>

Closed(c) == client' = [client EXCEPT ![c] = [state |-> "closed", wants |-> {}]]

(* A pump ends: Unregister sets the flag, closes the channel and forgets c.     *)
Unregister(c) ==
    /\ Alive /\ IsOpen(c)
    /\ Closed(c)
    /\ closedUnder' = (closedUnder \/ (fan # NoFan /\ fan.checked = c))
    /\ UNCHANGED <<published, wire, buffer, got, fan, hub, clicks, since, dropped, lost>>

(* consumePubSub, fanOut...: the targets under the read lock of the hub.         *)
Wants(c, topic) == topic \in ForAll \/ topic \in client[c].wants
FanOut ==
    /\ hub \in {"running", "stopping"} /\ fan = NoFan /\ wire # <<>>
    /\ fan' = [msg |-> Head(wire), checked |-> NoFan,
               left |-> {c \in Clients : IsOpen(c) /\ Wants(c, published[Head(wire)].topic)}]
    /\ wire' = Tail(wire)
    /\ UNCHANGED <<published, client, buffer, got, hub, clicks, since, dropped, lost,
                   closedUnder>>

Deliver == Alive /\ fan # NoFan

(* Mutant: a closed client ends the delivery.                                  *)
LookAt_Returns ==
    /\ Deliver /\ fan.checked = NoFan
    /\ \/ fan.left = {} /\ fan' = NoFan
       \/ \E c \in fan.left : fan' = IF IsOpen(c) THEN [fan EXCEPT !.checked = c] ELSE NoFan
    /\ UNCHANGED <<published, wire, client, buffer, got, hub, clicks, since, dropped, lost,
                   closedUnder>>

(* deliver: closed.Load of the next target, continue if set ...                *)
LookAt ==
    /\ Deliver /\ fan.checked = NoFan
    /\ \/ fan.left = {} /\ fan' = NoFan
       \/ \E c \in fan.left :
             fan' = IF IsOpen(c) THEN [fan EXCEPT !.checked = c] ELSE [fan EXCEPT !.left = @ \ {c}]
    /\ UNCHANGED <<published, wire, client, buffer, got, hub, clicks, since, dropped, lost,
                   closedUnder>>

(* ... and the send, which does not wait for room in the buffer.                *)
SendTo(c) ==
    /\ Deliver /\ fan.checked = c
    /\ fan' = [fan EXCEPT !.left = @ \ {c}, !.checked = NoFan]
    /\ \/ /\ ~IsOpen(c)
          /\ hub' = "panicked" /\ UNCHANGED <<buffer, dropped>>
       \/ /\ IsOpen(c) /\ Len(buffer[c]) = Buffer
          /\ dropped' = dropped \cup {<<c, fan.msg>>} /\ UNCHANGED <<buffer, hub>>
       \/ /\ IsOpen(c) /\ Len(buffer[c]) < Buffer
          /\ buffer' = [buffer EXCEPT ![c] = Append(@, fan.msg)] /\ UNCHANGED <<dropped, hub>>
    /\ UNCHANGED <<published, wire, client, got, clicks, since, lost, closedUnder>>

(* writePump; what is left in a closed channel is still read from it.           *)
Write(c) ==
    /\ Alive /\ buffer[c] # <<>>
    /\ got' = [got EXCEPT ![c] = Append(@, Head(buffer[c]))]
    /\ buffer' = [buffer EXCEPT ![c] = Tail(@)]
    /\ UNCHANGED <<published, wire, client, fan, hub, clicks, since, dropped, lost,
                   closedUnder>>

(* The subscription breaks and redisLoop subscribes again.                     *)
Resubscribe ==
    /\ hub = "running" /\ fan = NoFan /\ wire # <<>>
    /\ Click
    /\ lost' = lost \cup {wire[i] : i \in DOMAIN wire} /\ wire' = <<>>
    /\ UNCHANGED <<published, client, buffer, got, fan, hub, since, dropped, closedUnder>>

(* hubCancel; the loop sees it between two messages and closes all clients.     *)
Cancel ==
    /\ hub = "running" /\ hub' = "stopping"
    /\ UNCHANGED <<published, wire, client, buffer, got, fan, clicks, since, dropped, lost,
                   closedUnder>>
CloseAllClients ==
    /\ hub = "stopping" /\ fan = NoFan
    /\ hub' = "stopped"
    /\ client' = [c \in Clients |->
                     IF IsOpen(c) THEN [state |-> "closed", wants |-> {}] ELSE client[c]]
    /\ UNCHANGED <<published, wire, buffer, got, fan, clicks, since, dropped, lost,
                   closedUnder>>

PublishNext == \E s \in Supports : PublishSupport(s) \/ PublishFlip(s) \/ PublishFeed(s)
HubNext ==
    \/ \E c \in Clients : OpenSocket(c) \/ Unregister(c) \/ SendTo(c) \/ Write(c)
                          \/ \E topic \in Topics : SetInterest(c, topic)
    \/ FanOut \/ LookAt \/ Resubscribe \/ Cancel \/ CloseAllClients

-----------------------------------------------------------------------------
Reached(c) == got[c] \o buffer[c]
HasReached(c, n) == \E i \in DOMAIN Reached(c) : Reached(c)[i] = n
Pending(c, n) == \/ \E i \in DOMAIN wire : wire[i] = n
                 \/ fan # NoFan /\ fan.msg = n /\ c \in fan.left

(* A client has every message meant for all that was published while it was     *)
(* open, unless it was too slow for it or the subscription lost it, and each     *)
(* once, in the order of publication (hub.go deliver).                          *)
DeliveriesAreComplete ==
    \A c \in Clients :
        /\ \A i, j \in DOMAIN Reached(c) : i < j => Reached(c)[i] < Reached(c)[j]
        /\ IsOpen(c) /\ hub \in {"running", "stopping"} =>
             \A n \in (since[c] + 1)..Len(published) :
                 \/ published[n].topic \notin ForAll
                 \/ HasReached(c, n) \/ <<c, n>> \in dropped \/ n \in lost \/ Pending(c, n)

(* The send on a closed channel needs a client that closes in the window         *)
(* between the look at its flag and the send (hub_test.go: "Publishing after      *)
(* disconnect must not panic").                                                *)
PanicsAreRaces == hub = "panicked" => closedUnder

(* The last flip a client was told is the last flip there was, when no requests  *)
(* overlapped and nothing was skipped, lost or dropped; overlapping requests may  *)
(* publish their flips in another order than they committed.                    *)
ToldFlip(c, i) ==
    /\ published[Reached(c)[i]].topic = "flip"
    /\ \A j \in DOMAIN Reached(c) : published[Reached(c)[j]].topic = "flip" => j <= i
LastFlip == LET at == {i \in DOMAIN commits : commits[i].by \in flips}
            IN commits[CHOOSE i \in at : \A j \in at : j <= i].by
ClientsSeeTheHolder ==
    \A c \in Clients : \A i \in DOMAIN Reached(c) :
        ToldFlip(c, i) /\ IsOpen(c) /\ hub = "running" /\ wire = <<>> /\ fan = NoFan
          /\ skipped = {} /\ overlapping = {} /\ lost = {} /\ dropped = {} /\ Ongoing = {}
        => published[Reached(c)[i]].by = LastFlip

(* Clients are served: nothing is missed, doubled or reordered on its way.       *)
ClientsAreServed == DeliveriesAreComplete /\ PanicsAreRaces /\ ClientsSeeTheHolder
=============================================================================
