-------------------------------- MODULE WsHub -------------------------------
(***************************************************************************)
(* The WebSocket fan-out service (services/websocket/src): the in-process  *)
(* Hub with its buckets of connections per tenant, the /ws route that      *)
(* registers, subscribes and unregisters them, and publish, which appends  *)
(* one frame to the send buffer of every subscriber that is not too far    *)
(* behind.  The handlers are synchronous: each is one action.              *)
(*                                                                         *)
(* Messages come from POST /publish; who publishes what is left to the     *)
(* modules that extend this one.  A frame counts 1 in bufferedAmount.      *)
(***************************************************************************)
EXTENDS Integers, Sequences, FiniteSets

CONSTANTS Conn,              \* the clients' connections
          Tenant,
          Watched,           \* the channels clients ask for
          Role,              \* the cell roles of the clients
          Body,              \* payloads of published messages
          MaxBufferedBytes,  \* beyond it, new messages are dropped
          BufferCap,         \* bound: a client with more unsent stays silent
          Window             \* bound: messages a client may leave unread

CellRole == {"white", "blue", "red", "observer"}
Channel == {"events", "override_pending", "turn_state", "czml_packets"}
CHANNEL_ACCESS == [ch \in Channel |->
                     IF ch = "override_pending" THEN {"white"} ELSE CellRole]

ASSUME HubAssumption ==
    /\ Watched \subseteq Channel /\ Role \subseteq CellRole
    /\ MaxBufferedBytes \in Nat /\ BufferCap \in Nat /\ Window \in Nat

VARIABLES claims,         \* the JWT claims each client connects with
          registered,     \* connections in a bucket of connectionsByTenant
          subscriptions,  \* the Set<Channel> of each connection
          socket,         \* open, closing (no 'close' event yet) or closed
          buffered,       \* frames sent but not flushed, oldest first
          received,       \* messages each client has not read yet, oldest first
          connections     \* metrics.connections

hub == <<claims, registered, subscriptions, socket, buffered, received,
         connections>>

Claims == [tenant_id : Tenant, cell_role : Role]
Message == [channel : Channel, tenant_id : Tenant, payload : Body]
\* subscribed, unsubscribed, pong and error frames: they only take room.
Reply == [reply |-> TRUE]

HubInit ==
    /\ claims \in [Conn -> Claims]
    /\ registered = {}
    /\ subscriptions = [c \in Conn |-> {}]
    /\ socket = [c \in Conn |-> "closed"]
    /\ buffered = [c \in Conn |-> <<>>]
    /\ received = [c \in Conn |-> <<>>]
    /\ connections = 0

\* Mutant of Bucket: one bucket for everybody.
BucketOfAll(tenant) == registered
\* connectionsByTenant.get(tenant)
Bucket(tenant) == {c \in registered : claims[c].tenant_id = tenant}

\* hub.subscribe
Granted(c, ch) == claims[c].cell_role \in CHANNEL_ACCESS[ch]

\* A client message that changes the subscriptions of c to subs; every client
\* message is answered by one frame, whatever else is unsent.
Request(c, subs) ==
    /\ socket[c] = "open" /\ Len(buffered[c]) <= BufferCap
    /\ subscriptions' = [subscriptions EXCEPT ![c] = subs]
    /\ buffered' = [buffered EXCEPT ![c] = Append(@, Reply)]
    /\ UNCHANGED <<claims, registered, socket, received, connections>>

\* The upgrade of a socket whose token verifies: a new Connection object.
Register(c) ==
    /\ socket[c] = "closed"
    /\ socket' = [socket EXCEPT ![c] = "open"]
    /\ subscriptions' = [subscriptions EXCEPT ![c] = {}]
    /\ registered' = registered \cup {c}
    /\ connections' = connections + 1
    /\ UNCHANGED <<claims, buffered, received>>

\* A role without access to the channel gets an error frame instead.
Subscribe(c, ch) ==
    Request(c, IF Granted(c, ch) THEN subscriptions[c] \cup {ch}
               ELSE subscriptions[c])

Unsubscribe(c, ch) == Request(c, subscriptions[c] \ {ch})

\* A ping, or a message that does not parse.
Answer(c) == Request(c, subscriptions[c])

\* The network takes the oldest frame to the client, while it has room.
Flush(c) ==
    /\ socket[c] = "open" /\ buffered[c] # <<>> /\ Len(received[c]) < Window
    /\ buffered' = [buffered EXCEPT ![c] = Tail(@)]
    /\ received' = [received EXCEPT ![c] =
          IF "payload" \in DOMAIN Head(buffered[c])
          THEN Append(@, Head(buffered[c])) ELSE @]
    /\ UNCHANGED <<claims, registered, subscriptions, socket, connections>>

\* The client program reads a message.
Read(c) ==
    /\ received[c] # <<>>
    /\ received' = [received EXCEPT ![c] = Tail(@)]
    /\ UNCHANGED <<claims, registered, subscriptions, socket, buffered,
                   connections>>

\* Either end starts closing; what is unsent is lost, and the hub still has
\* the connection until the 'close' event.
StartClosing(c) ==
    /\ socket[c] = "open"
    /\ socket' = [socket EXCEPT ![c] = "closing"]
    /\ UNCHANGED <<claims, registered, subscriptions, buffered, received,
                   connections>>

\* Mutant of Unregister: the connection leaves the count but not its bucket.
UnregisterCounts(c) ==
    /\ socket[c] = "closing"
    /\ socket' = [socket EXCEPT ![c] = "closed"]
    /\ buffered' = [buffered EXCEPT ![c] = <<>>]
    /\ connections' = connections - 1
    /\ UNCHANGED <<claims, registered, subscriptions, received>>

\* The 'close' event: unregister.
Unregister(c) ==
    /\ socket[c] = "closing"
    /\ socket' = [socket EXCEPT ![c] = "closed"]
    /\ buffered' = [buffered EXCEPT ![c] = <<>>]
    /\ IF Bucket(claims[c].tenant_id) = {}
       THEN UNCHANGED <<registered, connections>>
       ELSE /\ registered' = registered \ {c}
            /\ connections' = connections - 1
    /\ UNCHANGED <<claims, subscriptions, received>>

\* hub.publish, for a channel the route's schema admits: one frame to every
\* subscriber of the tenant that is not over the limit, also to a closing one.
Publish(tenant, ch, body) ==
    /\ buffered' = [c \in Conn |->
          IF /\ c \in Bucket(tenant)
             /\ ch \in subscriptions[c]
             /\ Len(buffered[c]) <= MaxBufferedBytes
          THEN Append(buffered[c],
                 [channel |-> ch, tenant_id |-> tenant, payload |-> body])
          ELSE buffered[c]]
    /\ UNCHANGED <<claims, registered, subscriptions, socket, received,
                   connections>>

\* What a connection does that needs nobody else.
Session(c) ==
    \/ Register(c)
    \/ \E ch \in Watched : Subscribe(c, ch) \/ Unsubscribe(c, ch)
    \/ Answer(c) \/ Flush(c) \/ Read(c) \/ StartClosing(c) \/ Unregister(c)

-----------------------------------------------------------------------------
HubTypeOK ==
    /\ claims \in [Conn -> Claims]
    /\ registered \subseteq Conn
    /\ subscriptions \in [Conn -> SUBSET Channel]
    /\ socket \in [Conn -> {"open", "closing", "closed"}]
    /\ buffered \in [Conn -> Seq(Message \cup {Reply})]
    /\ received \in [Conn -> Seq(Message)]
    /\ connections \in Int

Messages(frames) == {frames[i] : i \in {j \in DOMAIN frames :
                                          "payload" \in DOMAIN frames[j]}}

\* hub.ts:28-32: nothing reaches, or is on its way to, a connection of another
\* tenant, or one whose role has no access to the channel.
TenantAndRoleIsolation ==
    \A c \in Conn : \A m \in Messages(buffered[c] \o received[c]) :
        /\ m.tenant_id = claims[c].tenant_id
        /\ claims[c].cell_role \in CHANNEL_ACCESS[m.channel]

\* The connection count of /healthz and the buckets agree with the sockets that
\* have not closed, however connections come and go.
BucketsMatchSockets ==
    /\ registered = {c \in Conn : socket[c] # "closed"}
    /\ connections = Cardinality(registered)

=============================================================================
