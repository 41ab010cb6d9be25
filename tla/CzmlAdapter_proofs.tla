------------------------- MODULE CzmlAdapter_proofs -------------------------
(***************************************************************************)
(* Machine-checked theorems about WsHub and CzmlAdapter, for any tenants,  *)
(* connections, profiles and calls, and send buffers of any size, and of   *)
(* its agreement with the officer tools, with the shipped profiles.        *)
(***************************************************************************)
EXTENDS MCCzmlAdapter, SpatialEffects_proofs, FiniteSetTheorems,
        SequenceTheorems, TLAPS

\* What the hub sends.
Frame == Message \cup {Reply}
IsMessage(m) == "payload" \in DOMAIN m

\* What the frame m may carry to the connection c.
Proper(c, m) ==
    IsMessage(m) => /\ m.tenant_id = claims[c].tenant_id
                    /\ claims[c].cell_role \in CHANNEL_ACCESS[m.channel]

\* The inductive invariant of the hub.
HubInv ==
    /\ HubTypeOK
    /\ \A c \in Conn : \A ch \in subscriptions[c] : Granted(c, ch)
    /\ \A c \in Conn : \A i \in DOMAIN buffered[c] : Proper(c, buffered[c][i])
    /\ \A c \in Conn : \A i \in DOMAIN received[c] : Proper(c, received[c][i])
    /\ \A c \in Conn : socket[c] = "closed" => buffered[c] = <<>>
    /\ registered = {c \in Conn : socket[c] # "closed"}
    /\ IsFiniteSet(registered) /\ connections = Cardinality(registered)

\* A frame is a message or a reply, never both.
LEMMA FrameKinds ==
    /\ Reply \in Frame /\ ~ IsMessage(Reply)
    /\ \A m \in Message : m \in Frame /\ IsMessage(m)
    /\ \A m \in Frame : IsMessage(m) => m \in Message
BY DEF Frame, IsMessage, Message, Reply

\* The hub starts in its invariant.
LEMMA HubStarts == HubInit => HubInv
<1> SUFFICES ASSUME HubInit PROVE HubInv
  OBVIOUS
<1>1. HubTypeOK
  BY DEF HubInit, HubTypeOK
<1>2. registered = {} /\ {c \in Conn : socket[c] # "closed"} = {}
  BY DEF HubInit
<1>3. IsFiniteSet({}) /\ Cardinality({}) = 0
  BY FS_EmptySet
<1> QED
  BY <1>1, <1>2, <1>3 DEF HubInit, HubInv

\* A new connection: in its bucket, without subscriptions.
LEMMA RegisterKeeps ==
    ASSUME HubInv, NEW c \in Conn, Register(c)
    PROVE  HubInv'
<1>1. HubTypeOK'
  BY DEF HubInv, HubTypeOK, Register
<1>2. /\ UNCHANGED <<claims, buffered, received>>
      /\ \A d \in Conn : subscriptions'[d] = IF d = c THEN {} ELSE subscriptions[d]
      /\ \A d \in Conn : socket'[d] = IF d = c THEN "open" ELSE socket[d]
      /\ c \notin registered /\ registered' = registered \cup {c}
      /\ connections' = connections + 1
  BY DEF HubInv, HubTypeOK, Register
<1>3. registered' = {d \in Conn : socket'[d] # "closed"}
  BY <1>2 DEF HubInv
<1>4. IsFiniteSet(registered') /\ connections' = Cardinality(registered')
  BY <1>2, FS_AddElement DEF HubInv
<1> QED
  BY <1>1, <1>2, <1>3, <1>4 DEF HubInv, Granted, Proper

\* A client's message is answered by one frame and changes its subscriptions only.
LEMMA RequestKeeps ==
    ASSUME HubInv, NEW c \in Conn, NEW subs \in SUBSET Channel, Request(c, subs),
           \A ch \in subs : Granted(c, ch)
    PROVE  HubInv'
<1>1. buffered[c] \in Seq(Frame) /\ Reply \in Frame
  BY FrameKinds DEF HubInv, HubTypeOK, Frame
<1>2. /\ UNCHANGED <<claims, registered, socket, received, connections>>
      /\ \A d \in Conn : subscriptions'[d] = IF d = c THEN subs ELSE subscriptions[d]
      /\ \A d \in Conn : buffered'[d] = IF d = c THEN Append(buffered[c], Reply)
                                        ELSE buffered[d]
      /\ socket[c] = "open"
  BY DEF HubInv, HubTypeOK, Request
<1>3. HubTypeOK'
  <2>1. Append(buffered[c], Reply) \in Seq(Frame)
    BY <1>1
  <2> QED
    BY <1>2, <2>1 DEF HubInv, HubTypeOK, Request, Frame
<1>4. \A d \in Conn : \A i \in DOMAIN buffered'[d] : Proper(d, buffered[d][i])'
  <2>1. \A i \in DOMAIN Append(buffered[c], Reply) :
            \/ i \in DOMAIN buffered[c]
               /\ Append(buffered[c], Reply)[i] = buffered[c][i]
            \/ Append(buffered[c], Reply)[i] = Reply
    BY <1>1
  <2>2. \A m : \A d \in Conn : Proper(d, m) => Proper(d, m)'
    BY <1>2 DEF Proper
  <2>3. \A d \in Conn : Proper(d, Reply)
    BY FrameKinds DEF Proper
  <2>4. \A d \in Conn : \A i \in DOMAIN buffered'[d] : Proper(d, buffered'[d][i])
    BY <1>2, <2>1, <2>3 DEF HubInv
  <2> QED
    BY <1>2, <2>4 DEF Proper
<1> QED
  BY <1>2, <1>3, <1>4 DEF HubInv, Granted, Proper

\* Subscriptions that change stay granted.
LEMMA SubscribeKeeps ==
    ASSUME HubInv, NEW c \in Conn, NEW ch \in Channel,
           Subscribe(c, ch) \/ Unsubscribe(c, ch) \/ Answer(c)
    PROVE  HubInv'
<1>1. subscriptions[c] \in SUBSET Channel /\ \A d \in subscriptions[c] : Granted(c, d)
  BY DEF HubInv, HubTypeOK
<1>2. CASE Subscribe(c, ch)
  BY <1>1, <1>2, RequestKeeps DEF Subscribe
<1>3. CASE Unsubscribe(c, ch)
  BY <1>1, <1>3, RequestKeeps DEF Unsubscribe
<1>4. CASE Answer(c)
  BY <1>1, <1>4, RequestKeeps DEF Answer
<1> QED
  BY <1>2, <1>3, <1>4

\* A frame that arrives was meant for the client it arrives at.
LEMMA FlushKeeps ==
    ASSUME HubInv, NEW c \in Conn, Flush(c)
    PROVE  HubInv'
<1> DEFINE m == Head(buffered[c])
<1>1. buffered[c] \in Seq(Frame) /\ buffered[c] # <<>> /\ received[c] \in Seq(Message)
  BY DEF HubInv, HubTypeOK, Flush, Frame
<1>2. /\ UNCHANGED <<claims, registered, subscriptions, socket, connections>>
      /\ \A d \in Conn : buffered'[d] = IF d = c THEN Tail(buffered[c]) ELSE buffered[d]
      /\ \A d \in Conn : received'[d] = IF d = c /\ IsMessage(m)
                                        THEN Append(received[c], m) ELSE received[d]
      /\ socket[c] = "open"
  BY DEF HubInv, HubTypeOK, Flush, IsMessage
<1>3. m \in Frame /\ Proper(c, m) /\ 1 \in DOMAIN buffered[c] /\ m = buffered[c][1]
  BY <1>1 DEF HubInv
<1>4. HubTypeOK'
  <2>1. Tail(buffered[c]) \in Seq(Frame)
    BY <1>1
  <2>2. IsMessage(m) => Append(received[c], m) \in Seq(Message)
    <3> HIDE DEF m
    <3> QED
      BY <1>1, <1>3, FrameKinds
  <2> HIDE DEF m
  <2> QED
    BY <1>2, <2>1, <2>2 DEF HubInv, HubTypeOK, Flush, Frame, IsMessage, m
<1>5. \A d \in Conn : \A i \in DOMAIN buffered'[d] : Proper(d, buffered[d][i])'
  <2>1. \A i \in DOMAIN Tail(buffered[c]) :
            i + 1 \in DOMAIN buffered[c] /\ Tail(buffered[c])[i] = buffered[c][i + 1]
    BY <1>1
  <2>2. \A d \in Conn : \A i \in DOMAIN buffered[d] : Proper(d, buffered[d][i])
    BY DEF HubInv
  <2>3. \A d \in Conn : \A i \in DOMAIN buffered'[d] : Proper(d, buffered'[d][i])
    <3> SUFFICES ASSUME NEW d \in Conn, NEW i \in DOMAIN buffered'[d]
                 PROVE  Proper(d, buffered'[d][i])
      OBVIOUS
    <3>1. CASE d = c
      BY <1>2, <2>1, <2>2, <3>1
    <3>2. CASE d # c
      BY <1>2, <2>2, <3>2
    <3> QED
      BY <3>1, <3>2
  <2> QED
    BY <1>2, <2>3 DEF Proper
<1>6. \A d \in Conn : \A i \in DOMAIN received'[d] : Proper(d, received[d][i])'
  <2> HIDE DEF m
  <2>1. \A i \in DOMAIN Append(received[c], m) :
            \/ i \in DOMAIN received[c]
               /\ Append(received[c], m)[i] = received[c][i]
            \/ Append(received[c], m)[i] = m
    BY <1>1
  <2>2. \A d \in Conn : \A i \in DOMAIN received'[d] : Proper(d, received'[d][i])
    BY <1>2, <1>3, <2>1 DEF HubInv
  <2> QED
    BY <1>2, <2>2 DEF Proper
<1> QED
  BY <1>2, <1>4, <1>5, <1>6 DEF HubInv, Granted

\* A client that reads keeps the rest.
LEMMA ReadKeeps ==
    ASSUME HubInv, NEW c \in Conn, Read(c)
    PROVE  HubInv'
<1>1. received[c] \in Seq(Message) /\ received[c] # <<>>
  BY DEF HubInv, HubTypeOK, Read
<1>2. /\ UNCHANGED <<claims, registered, subscriptions, socket, buffered, connections>>
      /\ \A d \in Conn : received'[d] = IF d = c THEN Tail(received[c]) ELSE received[d]
  BY DEF HubInv, HubTypeOK, Read
<1>3. /\ Tail(received[c]) \in Seq(Message)
      /\ \A i \in DOMAIN Tail(received[c]) :
            i + 1 \in DOMAIN received[c] /\ Tail(received[c])[i] = received[c][i + 1]
  BY <1>1
<1>4. HubTypeOK'
  BY <1>2, <1>3 DEF HubInv, HubTypeOK, Read
<1>5. \A d \in Conn : \A i \in DOMAIN received'[d] : Proper(d, received[d][i])'
  <2>1. \A d \in Conn : \A i \in DOMAIN received'[d] : Proper(d, received'[d][i])
    BY <1>2, <1>3 DEF HubInv
  <2> QED
    BY <1>2, <2>1 DEF Proper
<1> QED
  BY <1>2, <1>4, <1>5 DEF HubInv, Granted, Proper

\* The hub keeps a closing connection in its bucket.
LEMMA StartClosingKeeps ==
    ASSUME HubInv, NEW c \in Conn, StartClosing(c)
    PROVE  HubInv'
<1>1. HubTypeOK'
  BY DEF HubInv, HubTypeOK, StartClosing
<1>2. /\ UNCHANGED <<claims, registered, subscriptions, buffered, received, connections>>
      /\ \A d \in Conn : socket'[d] = IF d = c THEN "closing" ELSE socket[d]
      /\ socket[c] = "open"
  BY DEF HubInv, HubTypeOK, StartClosing
<1> QED
  BY <1>1, <1>2 DEF HubInv, Granted, Proper

\* Its 'close' event finds it there.
LEMMA UnregisterKeeps ==
    ASSUME HubInv, NEW c \in Conn, Unregister(c)
    PROVE  HubInv'
<1>1. c \in registered /\ c \in Bucket(claims[c].tenant_id)
  BY DEF HubInv, Unregister, Bucket
<1>2. /\ UNCHANGED <<claims, subscriptions, received>>
      /\ \A d \in Conn : socket'[d] = IF d = c THEN "closed" ELSE socket[d]
      /\ \A d \in Conn : buffered'[d] = IF d = c THEN <<>> ELSE buffered[d]
      /\ registered' = registered \ {c} /\ connections' = connections - 1
  BY <1>1 DEF HubInv, HubTypeOK, Unregister
<1>3. HubTypeOK'
  BY <1>2 DEF HubInv, HubTypeOK, Unregister
<1>4. IsFiniteSet(registered') /\ connections' = Cardinality(registered')
  BY <1>1, <1>2, FS_RemoveElement DEF HubInv
<1>5. registered' = {d \in Conn : socket'[d] # "closed"}
  BY <1>2 DEF HubInv
<1> QED
  BY <1>2, <1>3, <1>4, <1>5 DEF HubInv, Granted, Proper

\* hub.publish puts a frame only where tenant and role may see it.
LEMMA PublishKeeps ==
    ASSUME HubInv, NEW tenant \in Tenant, NEW ch \in Channel, NEW body \in Body,
           Publish(tenant, ch, body)
    PROVE  HubInv'
<1> DEFINE m == [channel |-> ch, tenant_id |-> tenant, payload |-> body]
<1>1. m \in Message /\ m \in Frame /\ m.tenant_id = tenant /\ m.channel = ch
  BY FrameKinds DEF Message
<1> HIDE DEF m
<1>2. /\ UNCHANGED <<claims, registered, subscriptions, socket, received, connections>>
      /\ buffered' = [c \in Conn |-> IF /\ c \in Bucket(tenant)
                                        /\ ch \in subscriptions[c]
                                        /\ Len(buffered[c]) <= MaxBufferedBytes
                                     THEN Append(buffered[c], m) ELSE buffered[c]]
  BY DEF Publish, m
<1>3. \A c \in Conn : /\ buffered[c] \in Seq(Frame)
                      /\ Append(buffered[c], m) \in Seq(Frame)
                      /\ \A i \in DOMAIN Append(buffered[c], m) :
                            \/ i \in DOMAIN buffered[c]
                               /\ Append(buffered[c], m)[i] = buffered[c][i]
                            \/ Append(buffered[c], m)[i] = m
  BY <1>1 DEF HubInv, HubTypeOK, Frame
<1>4. HubTypeOK'
  <2>1. buffered' \in [Conn -> Seq(Frame)]
    BY <1>2, <1>3
  <2> QED
    BY <1>2, <2>1 DEF HubInv, HubTypeOK, Frame
<1>5. \A c \in Bucket(tenant) : ch \in subscriptions[c] => Proper(c, m)
  BY <1>1 DEF HubInv, HubTypeOK, Bucket, Proper, Granted
<1>6. \A c \in Conn : \A i \in DOMAIN buffered'[c] : Proper(c, buffered[c][i])'
  <2>1. ASSUME NEW c \in Conn
        PROVE  \A i \in DOMAIN buffered'[c] : Proper(c, buffered'[c][i])
    <3>1. CASE buffered'[c] = buffered[c]
      BY <3>1 DEF HubInv
    <3>2. CASE buffered'[c] = Append(buffered[c], m) /\ Proper(c, m)
      BY <1>3, <3>2 DEF HubInv
    <3> QED
      BY <1>2, <1>5, <3>1, <3>2
  <2> QED
    BY <1>2, <2>1 DEF Proper
<1>7. \A c \in Conn : socket'[c] = "closed" => buffered'[c] = <<>>
  BY <1>2 DEF HubInv, Bucket
<1> QED
  BY <1>2, <1>4, <1>6, <1>7 DEF HubInv, Granted, Proper

\* The two invariants of the hub follow.
LEMMA HubIsSafe == HubInv => TenantAndRoleIsolation /\ BucketsMatchSockets
<1> SUFFICES ASSUME HubInv PROVE TenantAndRoleIsolation
  BY DEF HubInv, BucketsMatchSockets
<1> SUFFICES ASSUME NEW c \in Conn, NEW m \in Messages(buffered[c] \o received[c])
             PROVE  Proper(c, m) /\ IsMessage(m)
  BY DEF TenantAndRoleIsolation, Proper
<1>1. PICK b, r : b = buffered[c] /\ r = received[c]
  OBVIOUS
<1>2. b \in Seq(Frame) /\ r \in Seq(Frame)
  <2>1. received[c] \in Seq(Message) /\ Message \subseteq Frame
    BY DEF HubInv, HubTypeOK, Frame
  <2> QED
    BY <1>1, <2>1 DEF HubInv, HubTypeOK, Frame
<1>3. m \in Messages(b \o r)
  BY <1>1
<1>4. PICK i \in DOMAIN (b \o r) : m = (b \o r)[i] /\ IsMessage(m)
  BY <1>3 DEF Messages, IsMessage
<1>5. /\ b \o r \in Seq(Frame) /\ Len(b \o r) = Len(b) + Len(r)
      /\ \A k \in 1 .. Len(b) + Len(r) :
            (b \o r)[k] = IF k <= Len(b) THEN b[k] ELSE r[k - Len(b)]
  BY <1>2, ConcatProperties
<1>6. i \in 1 .. Len(b) + Len(r)
  BY <1>5
<1>7. /\ Len(b) \in Nat /\ DOMAIN b = 1 .. Len(b)
      /\ Len(r) \in Nat /\ DOMAIN r = 1 .. Len(r)
  BY <1>2
<1>8. \/ i \in DOMAIN b /\ m = b[i]
      \/ i - Len(b) \in DOMAIN r /\ m = r[i - Len(b)]
  BY <1>4, <1>5, <1>6, <1>7
<1> QED
  BY <1>1, <1>4, <1>8 DEF HubInv

-----------------------------------------------------------------------------
\* The frames of events on their way to the adapter.
IsEvent(m) == IsMessage(m) /\ m.payload # 0
Expected(m) == IsMessage(m) =>
    /\ m.channel = "events" /\ m.payload \in 0 .. Len(log)
    /\ IsEvent(m) => log[m.payload].tenant = AdapterTenant
AllExpected(frames) == \A k \in DOMAIN frames : Expected(frames[k])

\* The event i is older than those of frames; frames are in the order of the
\* commits; those of front come before those of back.
After(i, frames) ==
    \A k \in DOMAIN frames : IsEvent(frames[k]) => i < frames[k].payload
Ordered(frames) ==
    \A j, k \in DOMAIN frames :
        j < k /\ IsEvent(frames[j]) /\ IsEvent(frames[k]) =>
            frames[j].payload < frames[k].payload
Before(front, back) ==
    \A k \in DOMAIN front : IsEvent(front[k]) => After(front[k].payload, back)

LogRow == [tenant : Tenant, profile : Profile, call : Call]
PostRow == [event : 1 .. Len(log), status : {0, 202, 400, 403},
            channel : {"czml_packets", "czml_rejected"}]

Inbox == received[Adapter]
Outbox == buffered[Adapter]

\* What is on its way to the adapter, in the order of the commits.
QueueInv ==
    /\ AllExpected(Inbox) /\ AllExpected(Outbox)
    /\ Ordered(Inbox) /\ Ordered(Outbox) /\ Before(Inbox, Outbox)

\* What it has published, in the order of the commits, and before the rest.
PostsInv ==
    /\ PacketsInOrder
    /\ \A k \in DOMAIN posts :
          After(posts[k].event, Inbox) /\ After(posts[k].event, Outbox)

\* The inductive invariant of the composition.
AdapterInv ==
    /\ TypeOK /\ HubInv /\ QueueInv /\ PostsInv
    /\ claims[Adapter] = [tenant_id |-> AdapterTenant, cell_role |-> "white"]
    /\ subscriptions[Adapter] \subseteq {"events"}
    /\ Len(log) <= MaxEvents

\* The adapter starts in its invariant: nothing is on its way or published.
LEMMA AdapterStarts == AdapterInit => AdapterInv
<1> SUFFICES ASSUME AdapterInit PROVE AdapterInv
  OBVIOUS
<1>1. HubInv /\ HubTypeOK
  BY HubStarts DEF AdapterInit, HubInv
<1>2. Inbox = <<>> /\ Outbox = <<>> /\ subscriptions[Adapter] = {}
  BY AdapterAssumption DEF AdapterInit, HubInit, Inbox, Outbox
<1>3. TypeOK
  BY <1>1 DEF AdapterInit, TypeOK
<1>4. QueueInv
  BY <1>2 DEF QueueInv, AllExpected, Ordered, Before
<1>5. PostsInv
  BY DEF AdapterInit, PostsInv, PacketsInOrder
<1> QED
  BY <1>1, <1>2, <1>3, <1>4, <1>5, AdapterAssumption DEF AdapterInit, AdapterInv

\* translate_event has four outcomes.
LEMMA FourResults ==
    ASSUME TypeOK, NEW i \in 0 .. Len(log)
    PROVE  Result(i) \in {"skipped", "raises", "accepted", "rejected"}
<1>1. CASE i = 0
  BY <1>1 DEF Result
<1>2. CASE i # 0
  <2>1. log \in Seq(LogRow) /\ capability_profile \in Profile
    BY DEF TypeOK, LogRow
  <2>2. log[i] \in LogRow
    <3>1. Len(log) \in Nat /\ i \in 1 .. Len(log)
      BY <1>2, <2>1
    <3> QED
      BY <2>1, <3>1, ElementOfSeq
  <2>3. log[i].call \in Call
    BY <2>2 DEF LogRow
  <2>4. \A p \in Profile, c \in Call : Translation[p][c] = Translate(p, c)
    BY DEF Translation
  <2>5. \E p, c : Result(i) = Translate(p, c)
    BY <1>2, <2>1, <2>3, <2>4 DEF Result
  <2>6. \A p, c : Translate(p, c) \in {"skipped", "raises", "accepted", "rejected"}
    BY DEF Translate
  <2> QED
    BY <2>5, <2>6
<1> QED
  BY <1>1, <1>2

\* A frame that carries no event, or a newer one than all others, may join.
LEMMA Joins ==
    ASSUME NEW frames \in Seq(Frame), NEW m \in Frame,
           \A k \in DOMAIN frames : IsEvent(frames[k]) /\ IsEvent(m) =>
              frames[k].payload < m.payload,
           Ordered(frames)
    PROVE  /\ Ordered(Append(frames, m))
           /\ AllExpected(frames) /\ Expected(m) => AllExpected(Append(frames, m))
           /\ \A i : After(i, frames) /\ (IsEvent(m) => i < m.payload) =>
                        After(i, Append(frames, m))
           /\ \A front : Before(front, frames)
                         /\ (\A k \in DOMAIN front : IsEvent(front[k]) /\ IsEvent(m) =>
                                front[k].payload < m.payload)
                            => Before(front, Append(frames, m))
<1>1. /\ DOMAIN Append(frames, m) = 1 .. Len(frames) + 1 /\ Len(frames) \in Nat
      /\ DOMAIN frames = 1 .. Len(frames)
      /\ Append(frames, m)[Len(frames) + 1] = m
      /\ \A k \in DOMAIN frames : Append(frames, m)[k] = frames[k]
  OBVIOUS
<1>2. PICK longer : longer = Append(frames, m)
  OBVIOUS
<1>3. \A k \in DOMAIN longer : \/ k \in DOMAIN frames /\ longer[k] = frames[k]
                               \/ k = Len(frames) + 1 /\ longer[k] = m
  BY <1>1, <1>2
<1>4. Ordered(longer)
  <2> SUFFICES ASSUME NEW j \in DOMAIN longer, NEW k \in DOMAIN longer, j < k,
                      IsEvent(longer[j]), IsEvent(longer[k])
               PROVE  longer[j].payload < longer[k].payload
    BY DEF Ordered
  <2>1. j \in DOMAIN frames /\ longer[j] = frames[j]
    BY <1>1, <1>2, <1>3
  <2> QED
    BY <1>3, <2>1 DEF Ordered
<1>5. AllExpected(frames) /\ Expected(m) => AllExpected(longer)
  BY <1>3 DEF AllExpected
<1>6. \A i : After(i, frames) /\ (IsEvent(m) => i < m.payload) => After(i, longer)
  BY <1>3 DEF After
<1> QED
  BY <1>2, <1>4, <1>5, <1>6 DEF Before

\* What is left when the first frame has gone.
LEMMA Goes ==
    ASSUME NEW frames \in Seq(Frame), frames # <<>>
    PROVE  /\ Ordered(frames) => Ordered(Tail(frames))
           /\ Ordered(frames) /\ IsEvent(Head(frames)) =>
                 After(Head(frames).payload, Tail(frames))
           /\ AllExpected(frames) =>
                 AllExpected(Tail(frames)) /\ Expected(Head(frames))
           /\ \A i : After(i, frames) => /\ After(i, Tail(frames))
                                         /\ IsEvent(Head(frames)) =>
                                               i < Head(frames).payload
           /\ \A back : Before(frames, back) =>
                 /\ Before(Tail(frames), back)
                 /\ IsEvent(Head(frames)) => After(Head(frames).payload, back)
<1>1. PICK rest, m : rest = Tail(frames) /\ m = Head(frames)
  OBVIOUS
<1>2. /\ 1 \in DOMAIN frames /\ m = frames[1]
      /\ \A k \in DOMAIN rest : /\ k \in Nat \ {0} /\ k + 1 \in DOMAIN frames
                                /\ rest[k] = frames[k + 1]
  BY <1>1
<1>3. Ordered(frames) => Ordered(rest)
  <2> SUFFICES ASSUME Ordered(frames), NEW j \in DOMAIN rest, NEW k \in DOMAIN rest,
                      j < k, IsEvent(rest[j]), IsEvent(rest[k])
               PROVE  rest[j].payload < rest[k].payload
    BY DEF Ordered
  <2>1. j + 1 < k + 1 /\ j + 1 \in DOMAIN frames /\ k + 1 \in DOMAIN frames
    BY <1>2
  <2> QED
    BY <1>2, <2>1 DEF Ordered
<1>4. Ordered(frames) /\ IsEvent(m) => After(m.payload, rest)
  <2> SUFFICES ASSUME Ordered(frames), IsEvent(m), NEW k \in DOMAIN rest,
                      IsEvent(rest[k])
               PROVE  m.payload < rest[k].payload
    BY DEF After
  <2>1. 1 < k + 1
    BY <1>2
  <2> QED
    BY <1>2, <2>1 DEF Ordered
<1>5. AllExpected(frames) => AllExpected(rest) /\ Expected(m)
  BY <1>2 DEF AllExpected
<1>6. \A i : After(i, frames) => After(i, rest) /\ (IsEvent(m) => i < m.payload)
  BY <1>2 DEF After
<1>7. \A back : Before(frames, back) =>
          Before(rest, back) /\ (IsEvent(m) => After(m.payload, back))
  BY <1>2 DEF Before
<1> QED
  BY <1>1, <1>3, <1>4, <1>5, <1>6, <1>7

-----------------------------------------------------------------------------
\* The event i is older than all that are on their way.
Clear(i) == After(i, Inbox) /\ After(i, Outbox)

\* The log keeps its rows.
LogGrown == /\ Len(log) \in Nat /\ Len(log') \in Nat /\ Len(log) <= Len(log')
            /\ \A i \in 1 .. Len(log) : log'[i] = log[i]

\* What is on its way to the adapter are frames; the log has rows.
LEMMA QueueTyped ==
    ASSUME AdapterInv
    PROVE  Inbox \in Seq(Frame) /\ Outbox \in Seq(Frame)
           /\ Inbox \in Seq(Message) /\ log \in Seq(LogRow)
<1>1. received[Adapter] \in Seq(Message) /\ buffered[Adapter] \in Seq(Frame)
  BY AdapterAssumption DEF AdapterInv, HubInv, HubTypeOK, Frame
<1>2. received[Adapter] \in Seq(Frame)
  <2>1. Message \subseteq Frame
    BY DEF Frame
  <2> QED
    BY <1>1, <2>1, SeqMonotonic
<1> QED
  BY <1>1, <1>2 DEF Inbox, Outbox, AdapterInv, TypeOK, LogRow

\* What the adapter may expect stays so while the log grows.
LEMMA ExpectedStays ==
    ASSUME LogGrown, NEW frames, AllExpected(frames)
    PROVE  AllExpected(frames)'
<1> SUFFICES ASSUME NEW k \in DOMAIN frames, IsMessage(frames[k])
             PROVE  Expected(frames[k])'
  BY DEF AllExpected, Expected, IsMessage
<1>1. PICK m : m = frames[k]
  OBVIOUS
<1>2. /\ m.channel = "events" /\ m.payload \in 0 .. Len(log)
      /\ m.payload # 0 => log[m.payload].tenant = AdapterTenant
  BY <1>1 DEF AllExpected, Expected, IsEvent
<1>3. m.payload \in 0 .. Len(log') /\ (m.payload # 0 => m.payload \in 1 .. Len(log))
  BY <1>2 DEF LogGrown
<1>4. m.payload # 0 => log'[m.payload].tenant = AdapterTenant
  BY <1>2, <1>3 DEF LogGrown
<1> QED
  BY <1>1, <1>2, <1>3, <1>4 DEF Expected, IsEvent

\* A step that leaves the adapter's frames alone keeps the queue's order.
LEMMA QueueStands ==
    ASSUME AdapterInv, LogGrown, Inbox' = Inbox, Outbox' = Outbox
    PROVE  QueueInv' /\ \A i : Clear(i) => Clear(i)'
<1>1. AllExpected(Inbox)' /\ AllExpected(Outbox)'
  <2>1. PICK in, out : in = Inbox /\ out = Outbox
    OBVIOUS
  <2>2. AllExpected(in)' /\ AllExpected(out)'
    BY <2>1, ExpectedStays DEF AdapterInv, QueueInv
  <2> QED
    BY <2>1, <2>2 DEF AllExpected
<1> QED
  BY <1>1 DEF AdapterInv, QueueInv, Ordered, Before, After, Clear

\* A frame the hub sends keeps it, if its event is the newest of the log.
LEMMA QueueGrows ==
    ASSUME AdapterInv, LogGrown, Inbox' = Inbox, NEW m \in Frame,
           Outbox' = Append(Outbox, m), Expected(m)',
           IsEvent(m) => m.payload > Len(log)
    PROVE  QueueInv' /\ \A i \in 0 .. Len(log) : Clear(i) => Clear(i)'
<1>1. PICK in, out, longer : in = Inbox /\ out = Outbox /\ longer = Append(out, m)
  OBVIOUS
<1>2. in \in Seq(Frame) /\ out \in Seq(Frame)
  BY <1>1, QueueTyped
<1>3. AllExpected(in)' /\ AllExpected(out)'
  BY <1>1, ExpectedStays DEF AdapterInv, QueueInv
<1>4. Ordered(in) /\ Ordered(out) /\ Before(in, out)
  BY <1>1 DEF AdapterInv, QueueInv
<1>5. /\ \A k \in DOMAIN out : IsEvent(out[k]) /\ IsEvent(m) =>
            out[k].payload < m.payload
      /\ \A k \in DOMAIN in : IsEvent(in[k]) /\ IsEvent(m) =>
            in[k].payload < m.payload
  <2>1. IsEvent(m) => m.payload \in Nat
    BY DEF Expected, IsEvent, LogGrown
  <2>2. \A k \in DOMAIN out : IsEvent(out[k]) => out[k].payload \in 0 .. Len(log)
    BY <1>1 DEF AdapterInv, QueueInv, AllExpected, Expected, IsEvent
  <2>3. \A k \in DOMAIN in : IsEvent(in[k]) => in[k].payload \in 0 .. Len(log)
    BY <1>1 DEF AdapterInv, QueueInv, AllExpected, Expected, IsEvent
  <2> QED
    BY <2>1, <2>2, <2>3 DEF LogGrown
<1>6. /\ Ordered(longer) /\ Before(in, longer)
      /\ \A i : After(i, out) /\ (IsEvent(m) => i < m.payload) => After(i, longer)
  BY <1>1, <1>2, <1>4, <1>5, Joins
<1>7. AllExpected(longer)'
  <2>1. \A k \in DOMAIN longer : (k \in DOMAIN out /\ longer[k] = out[k]) \/ longer[k] = m
    BY <1>1, <1>2
  <2> QED
    BY <1>3, <2>1 DEF AllExpected
<1>8. in = Inbox' /\ longer = Outbox'
  BY <1>1
<1>9. QueueInv'
  BY <1>3, <1>4, <1>6, <1>7, <1>8 DEF QueueInv, AllExpected
<1>10. ASSUME NEW i \in 0 .. Len(log), Clear(i) PROVE Clear(i)'
  <2>1. IsEvent(m) => i < m.payload
    BY DEF Expected, IsEvent, LogGrown
  <2>2. After(i, in) /\ After(i, longer)
    BY <1>1, <1>6, <1>10, <2>1 DEF Clear
  <2> QED
    BY <1>8, <2>2 DEF Clear
<1> QED
  BY <1>9, <1>10

\* The network moves a frame from one end of the queue to the other.
LEMMA QueueFlushes ==
    ASSUME AdapterInv, LogGrown, Flush(Adapter)
    PROVE  QueueInv' /\ \A i : Clear(i) => Clear(i)'
<1>1. PICK in, out, rest, m : /\ in = Inbox /\ out = Outbox
                              /\ rest = Tail(out) /\ m = Head(out)
  OBVIOUS
<1>2. in \in Seq(Frame) /\ out \in Seq(Frame) /\ out # <<>>
  BY <1>1, QueueTyped DEF Flush, Outbox
<1>3. m \in Frame
  BY <1>1, <1>2
<1>4. Ordered(in) /\ Ordered(out) /\ Before(in, out)
  BY <1>1 DEF AdapterInv, QueueInv
<1>5. AllExpected(in) /\ AllExpected(out)
  BY <1>1 DEF AdapterInv, QueueInv
<1>6. /\ Ordered(rest) /\ (IsEvent(m) => After(m.payload, rest))
      /\ AllExpected(rest) /\ Expected(m)
      /\ \A i : After(i, out) => After(i, rest) /\ (IsEvent(m) => i < m.payload)
  BY <1>1, <1>2, <1>4, <1>5, Goes
<1>7. \A k \in DOMAIN in : IsEvent(in[k]) =>
          After(in[k].payload, out) /\ (IsEvent(m) => in[k].payload < m.payload)
  BY <1>4, <1>6 DEF Before
<1>8. Before(in, rest)
  BY <1>6, <1>7 DEF Before
<1>9. Outbox' = rest /\ Inbox' = IF IsMessage(m) THEN Append(in, m) ELSE in
  BY <1>1, AdapterAssumption
     DEF Flush, Inbox, Outbox, IsMessage, AdapterInv, HubInv, HubTypeOK
<1>10. CASE ~ IsMessage(m)
  <2>1. QueueInv'
    <3>1. AllExpected(in)' /\ AllExpected(rest)'
      BY <1>5, <1>6, ExpectedStays
    <3> QED
      BY <1>4, <1>6, <1>8, <1>9, <1>10, <3>1 DEF QueueInv, AllExpected
  <2> QED
    BY <1>1, <1>6, <1>9, <1>10, <2>1 DEF Clear
<1>11. CASE IsMessage(m)
  <2>1. PICK longer : longer = Append(in, m)
    OBVIOUS
  <2>2. /\ Ordered(longer) /\ AllExpected(longer)
        /\ \A i : After(i, in) /\ (IsEvent(m) => i < m.payload) => After(i, longer)
    BY <1>2, <1>3, <1>4, <1>5, <1>6, <1>7, <2>1, Joins
  <2>3. \A k \in DOMAIN longer :
            (k \in DOMAIN in /\ longer[k] = in[k]) \/ longer[k] = m
    BY <1>2, <2>1
  <2>4. Before(longer, rest)
    BY <1>6, <1>8, <2>3 DEF Before
  <2>5. AllExpected(longer)' /\ AllExpected(rest)'
    BY <1>6, <2>2, ExpectedStays
  <2>6. Inbox' = longer
    BY <1>9, <1>11, <2>1
  <2>7. QueueInv'
    BY <1>6, <1>9, <2>2, <2>4, <2>5, <2>6 DEF QueueInv, AllExpected
  <2> QED
    BY <1>1, <1>6, <1>9, <2>2, <2>6, <2>7 DEF Clear
<1> QED
  BY <1>10, <1>11

\* The message the adapter reads is older than all that follow, and newer than
\* every event that all of the queue was newer than.
LEMMA QueueIsRead ==
    ASSUME AdapterInv, LogGrown, Read(Adapter)
    PROVE  /\ QueueInv' /\ \A i : Clear(i) => Clear(i)'
           /\ Expected(Head(Inbox)) /\ IsMessage(Head(Inbox))
           /\ IsEvent(Head(Inbox)) =>
                 /\ \A i : i = Head(Inbox).payload => Clear(i)'
                 /\ \A i : Clear(i) => i < Head(Inbox).payload
<1>1. PICK in, out, rest, m : /\ in = Inbox /\ out = Outbox
                              /\ rest = Tail(in) /\ m = Head(in)
  OBVIOUS
<1>2. /\ in \in Seq(Frame) /\ out \in Seq(Frame) /\ in # <<>>
      /\ in \in Seq(Message)
  BY <1>1, QueueTyped DEF Read, Inbox
<1>3. IsMessage(m)
  <2>1. m \in Message
    BY <1>1, <1>2
  <2> QED
    BY <2>1, FrameKinds
<1>4. /\ Ordered(in) /\ Ordered(out) /\ Before(in, out)
      /\ AllExpected(in) /\ AllExpected(out)
  BY <1>1 DEF AdapterInv, QueueInv
<1>5. /\ Ordered(rest) /\ (IsEvent(m) => After(m.payload, rest))
      /\ AllExpected(rest) /\ Expected(m)
      /\ Before(rest, out) /\ (IsEvent(m) => After(m.payload, out))
      /\ \A i : After(i, in) => After(i, rest) /\ (IsEvent(m) => i < m.payload)
  BY <1>1, <1>2, <1>4, Goes
<1>6. Inbox' = rest /\ Outbox' = out
  BY <1>1, AdapterAssumption
     DEF Read, Inbox, Outbox, AdapterInv, HubInv, HubTypeOK
<1>7. AllExpected(rest)' /\ AllExpected(out)'
  BY <1>4, <1>5, ExpectedStays
<1>8. QueueInv'
  BY <1>4, <1>5, <1>6, <1>7 DEF QueueInv, AllExpected
<1> QED
  BY <1>1, <1>3, <1>5, <1>6, <1>8 DEF Clear

\* Frames the hub had not sent when the socket closed are lost, no others.
LEMMA QueueIsDropped ==
    ASSUME AdapterInv, LogGrown, Inbox' = Inbox, Outbox' = <<>>
    PROVE  QueueInv' /\ \A i : Clear(i) => Clear(i)'
<1>1. AllExpected(Inbox)'
  <2>1. PICK in : in = Inbox
    OBVIOUS
  <2>2. AllExpected(in)'
    BY <2>1, ExpectedStays DEF AdapterInv, QueueInv
  <2> QED
    BY <2>1, <2>2 DEF AllExpected
<1> QED
  BY <1>1 DEF AdapterInv, QueueInv, AllExpected, Ordered, Before, After, Clear

\* What the hub does for others leaves the adapter's connection alone.
LEMMA OthersKeepQueue ==
    ASSUME AdapterInv, NEW c \in Conn \ {Adapter}, Session(c)
    PROVE  /\ HubInv'
           /\ Inbox' = Inbox /\ Outbox' = Outbox
           /\ claims' = claims /\ subscriptions'[Adapter] = subscriptions[Adapter]
<1>1. HubInv /\ HubTypeOK /\ Adapter \in Conn /\ Watched \subseteq Channel
  BY AdapterAssumption, HubAssumption DEF AdapterInv, HubInv
<1>2. CASE \E ch \in Watched : Subscribe(c, ch) \/ Unsubscribe(c, ch)
  <2>1. PICK ch \in Channel : Subscribe(c, ch) \/ Unsubscribe(c, ch)
    BY <1>1, <1>2
  <2>2. HubInv'
    BY <1>1, <2>1, SubscribeKeeps
  <2>3. \E subs : Request(c, subs)
    BY <2>1 DEF Subscribe, Unsubscribe
  <2> QED
    BY <1>1, <2>2, <2>3 DEF Request, Inbox, Outbox, HubTypeOK
<1>3. CASE Answer(c)
  <2>1. "events" \in Channel
    BY DEF Channel
  <2> QED
    BY <1>1, <1>3, <2>1, SubscribeKeeps DEF Answer, Request, Inbox, Outbox, HubTypeOK
<1>4. CASE Register(c)
  BY <1>1, <1>4, RegisterKeeps DEF Register, Inbox, Outbox, HubTypeOK
<1>5. CASE Flush(c)
  BY <1>1, <1>5, FlushKeeps DEF Flush, Inbox, Outbox, HubTypeOK
<1>6. CASE Read(c)
  BY <1>1, <1>6, ReadKeeps DEF Read, Inbox, Outbox, HubTypeOK
<1>7. CASE StartClosing(c)
  BY <1>1, <1>7, StartClosingKeeps DEF StartClosing, Inbox, Outbox, HubTypeOK
<1>8. CASE Unregister(c)
  BY <1>1, <1>8, UnregisterKeeps DEF Unregister, Inbox, Outbox, HubTypeOK
<1> QED
  BY <1>2, <1>3, <1>4, <1>5, <1>6, <1>7, <1>8 DEF Session

\* A publication sends the adapter one frame at most: events of its tenant.
LEMMA PublishQueue ==
    ASSUME AdapterInv, NEW tenant \in Tenant, NEW ch \in Channel, NEW body \in Body,
           Publish(tenant, ch, body)
    PROVE  /\ HubInv'
           /\ Inbox' = Inbox /\ UNCHANGED <<claims, subscriptions>>
           /\ \/ Outbox' = Outbox
              \/ /\ ch = "events" /\ tenant = AdapterTenant
                 /\ Outbox' = Append(Outbox, [channel |-> ch, tenant_id |-> tenant,
                                              payload |-> body])
<1>1. Adapter \in Conn /\ subscriptions[Adapter] \subseteq {"events"}
      /\ claims[Adapter].tenant_id = AdapterTenant
  BY AdapterAssumption DEF AdapterInv
<1>2. HubInv'
  BY PublishKeeps DEF AdapterInv
<1>3. UNCHANGED <<claims, subscriptions>> /\ received' = received
  BY DEF Publish
<1>4. buffered'[Adapter] =
          IF /\ Adapter \in Bucket(tenant) /\ ch \in subscriptions[Adapter]
             /\ Len(buffered[Adapter]) <= MaxBufferedBytes
          THEN Append(buffered[Adapter],
                 [channel |-> ch, tenant_id |-> tenant, payload |-> body])
          ELSE buffered[Adapter]
  BY <1>1 DEF Publish
<1> QED
  BY <1>1, <1>2, <1>3, <1>4 DEF Inbox, Outbox, Bucket

-----------------------------------------------------------------------------
\* The part of TypeOK that is the adapter's.
LoopOK ==
    /\ capability_profile \in Profile
    /\ log \in Seq(LogRow)
    /\ loop \in {"asleep", "greeting", "reading", "posting", "down"}
    /\ posts \in Seq(PostRow)
    /\ loop = "posting" => posts # <<>>
    /\ \A k \in DOMAIN posts : posts[k].status = 0 =>
          k = Len(posts) /\ loop \in {"posting", "down"}

\* The type invariant is that of the hub and that of the adapter.
LEMMA TypeParts == TypeOK <=> HubTypeOK /\ LoopOK
BY DEF TypeOK, LoopOK, LogRow, PostRow

\* Nobody else touches the loop; it knows the rows the log gains.
LEMMA LoopStands ==
    ASSUME LoopOK, UNCHANGED adapter, LogGrown, log' \in Seq(LogRow)
    PROVE  LoopOK'
<1>1. UNCHANGED <<capability_profile, loop, posts>>
  BY DEF adapter
<1>2. PostRow \subseteq PostRow'
  <2>1. 1 .. Len(log) \subseteq 1 .. Len(log')
    BY DEF LogGrown
  <2> QED
    BY <2>1 DEF PostRow
<1>3. posts \in Seq(PostRow')
  BY <1>2, SeqMonotonic DEF LoopOK
<1> QED
  BY <1>1, <1>3 DEF LoopOK

\* The loop connects and reads while no POST is under way.
LEMMA LoopMoves ==
    ASSUME LoopOK, UNCHANGED <<capability_profile, posts, log>>,
           loop \in {"asleep", "greeting", "reading"},
           loop' \in {"asleep", "greeting", "reading", "down"}
    PROVE  LoopOK'
BY DEF LoopOK, PostRow

\* The adapter's POSTs stay in order while it makes none.
LEMMA PostsStand ==
    ASSUME AdapterInv, LogGrown, posts' = posts,
           \A i \in 0 .. Len(log) : Clear(i) => Clear(i)'
    PROVE  PostsInv'
<1>1. \A k \in DOMAIN posts : posts[k].event \in 1 .. Len(log)
  <2>1. posts \in Seq(PostRow)
    BY TypeParts DEF AdapterInv, LoopOK
  <2>2. \A k \in DOMAIN posts : posts[k] \in PostRow
    BY <2>1
  <2> QED
    BY <2>2 DEF PostRow
<1>2. \A k \in DOMAIN posts : Clear(posts[k].event)
  BY DEF AdapterInv, PostsInv, Clear
<1>3. ASSUME NEW k \in DOMAIN posts PROVE Clear(posts[k].event)'
  <2>1. PICK i \in 0 .. Len(log) : i = posts[k].event
    BY <1>1
  <2>2. Clear(i)'
    BY <1>2, <2>1
  <2> QED
    BY <2>1, <2>2 DEF Clear
<1>4. PacketsInOrder'
  BY <1>1 DEF AdapterInv, PostsInv, PacketsInOrder, LogGrown
<1> QED
  BY <1>3, <1>4 DEF PostsInv, Clear

\* The invariant from its parts.
LEMMA StepsAssemble ==
    ASSUME AdapterInv, HubInv', LoopOK', QueueInv', PostsInv',
           claims'[Adapter] = claims[Adapter],
           subscriptions'[Adapter] \subseteq {"events"},
           Len(log') <= MaxEvents
    PROVE  AdapterInv'
<1>1. TypeOK'
  BY DEF HubInv, LoopOK, TypeOK, LogRow, PostRow
<1> QED
  BY <1>1 DEF AdapterInv

\* A log nobody appends to has grown by nothing.
LEMMA LogStays == AdapterInv /\ log' = log =>
    LogGrown /\ log' \in Seq(LogRow) /\ Len(log') <= MaxEvents
BY QueueTyped DEF LogGrown, AdapterInv

-----------------------------------------------------------------------------
\* A commit comes after all others, on its tenant's channel.
LEMMA CommitStep ==
    ASSUME AdapterInv, NEW t \in Tenant, NEW p \in Profile, NEW call \in Call,
           Commit(t, p, call)
    PROVE  AdapterInv'
<1>1. /\ log \in Seq(LogRow) /\ Len(log) \in Nat /\ Len(log) < MaxEvents
      /\ LoopOK /\ MaxEvents \in Nat
  BY QueueTyped, TypeParts, AdapterAssumption DEF Commit, AdapterInv
<1>2. PICK row \in LogRow : row.tenant = t /\ log' = Append(log, row)
  BY DEF Commit, LogRow
<1>3. /\ log' \in Seq(LogRow) /\ Len(log') = Len(log) + 1
      /\ \A i \in 1 .. Len(log) : log'[i] = log[i]
      /\ log'[Len(log) + 1] = row
  BY <1>1, <1>2
<1>4. LogGrown /\ Len(log') <= MaxEvents
  BY <1>1, <1>3 DEF LogGrown
<1>5. Len(log) + 1 \in Body /\ "events" \in Channel
  BY <1>1, AdapterAssumption DEF Channel
<1>6. Publish(t, "events", Len(log) + 1) /\ UNCHANGED adapter
  BY DEF Commit
<1>7. PICK m : m = [channel |-> "events", tenant_id |-> t,
                     payload |-> Len(log) + 1]
  OBVIOUS
<1>8. /\ HubInv' /\ Inbox' = Inbox /\ UNCHANGED <<claims, subscriptions>>
      /\ \/ Outbox' = Outbox
         \/ t = AdapterTenant /\ Outbox' = Append(Outbox, m)
  BY <1>5, <1>6, <1>7, PublishQueue
<1>9. m \in Frame
  BY <1>5, <1>7, FrameKinds DEF Message
<1>10. QueueInv' /\ \A i \in 0 .. Len(log) : Clear(i) => Clear(i)'
  <2>1. CASE Outbox' = Outbox
    BY <1>4, <1>8, <2>1, QueueStands
  <2>2. CASE t = AdapterTenant /\ Outbox' = Append(Outbox, m)
    <3>1. Expected(m)'
      BY <1>1, <1>2, <1>3, <1>7, <2>2 DEF Expected, IsEvent
    <3>2. m.payload > Len(log)
      BY <1>1, <1>7
    <3> QED
      BY <1>4, <1>8, <1>9, <2>2, <3>1, <3>2, QueueGrows
  <2> QED
    BY <1>8, <2>1, <2>2
<1>11. LoopOK'
  BY <1>1, <1>3, <1>4, <1>6, LoopStands
<1>12. PostsInv'
  BY <1>4, <1>6, <1>10, PostsStand DEF adapter
<1> QED
  BY <1>4, <1>8, <1>10, <1>11, <1>12, StepsAssemble DEF AdapterInv

\* What is not an event of the kernel carries none.
LEMMA NotifyStep ==
    ASSUME AdapterInv, NEW t \in Tenant, Notify(t)
    PROVE  AdapterInv'
<1>1. log' = log /\ UNCHANGED adapter
  BY DEF Notify
<1>2. LogGrown /\ log' \in Seq(LogRow) /\ Len(log') <= MaxEvents /\ LoopOK
  BY <1>1, LogStays, TypeParts DEF AdapterInv
<1>3. PICK ch \in Channel : Publish(t, ch, 0)
  BY HubAssumption DEF Notify, Channel
<1>4. 0 \in Body
  BY AdapterAssumption
<1> DEFINE m == [channel |-> ch, tenant_id |-> t, payload |-> 0]
<1>5. /\ HubInv' /\ Inbox' = Inbox /\ UNCHANGED <<claims, subscriptions>>
      /\ \/ Outbox' = Outbox
         \/ ch = "events" /\ Outbox' = Append(Outbox, m)
  BY <1>3, <1>4, PublishQueue
<1>6. m \in Frame /\ ~ IsEvent(m)
  BY <1>4, FrameKinds DEF Message, IsEvent
<1>7. QueueInv' /\ \A i \in 0 .. Len(log) : Clear(i) => Clear(i)'
  <2>1. CASE Outbox' = Outbox
    BY <1>2, <1>5, <2>1, QueueStands
  <2>2. CASE ch = "events" /\ Outbox' = Append(Outbox, m)
    <3>1. Expected(m)'
      BY <1>2, <2>2 DEF Expected, IsEvent, LogGrown
    <3> HIDE DEF m
    <3> QED
      BY <1>2, <1>5, <1>6, <2>2, <3>1, QueueGrows
  <2> QED
    BY <1>5, <2>1, <2>2
<1>8. LoopOK'
  BY <1>1, <1>2, LoopStands
<1>9. PostsInv'
  BY <1>1, <1>2, <1>7, PostsStand DEF adapter
<1> HIDE DEF m
<1> QED
  BY <1>2, <1>5, <1>7, <1>8, <1>9, StepsAssemble DEF AdapterInv

\* Connecting, greeting and losing the connection leave the queue's order.
LEMMA ConnectionStep ==
    ASSUME AdapterInv, Connect \/ Greet \/ Disconnected
    PROVE  AdapterInv'
<1>1. UNCHANGED <<capability_profile, posts, log>>
  BY DEF Connect, Greet, Disconnected
<1>2. LogGrown /\ Len(log') <= MaxEvents /\ LoopOK /\ HubInv /\ HubTypeOK
      /\ Adapter \in Conn /\ "events" \in Channel
  BY <1>1, LogStays, TypeParts, AdapterAssumption DEF AdapterInv, Channel
<1>3. LoopOK'
  BY <1>1, <1>2, LoopMoves DEF Connect, Greet, Disconnected
<1>4. CASE Connect
  <2>1. HubInv' /\ Inbox' = Inbox /\ Outbox' = Outbox /\ claims' = claims
        /\ subscriptions'[Adapter] = {}
    BY <1>2, <1>4, RegisterKeeps DEF Connect, Register, Inbox, Outbox, HubTypeOK
  <2>2. QueueInv' /\ \A i : Clear(i) => Clear(i)'
    BY <1>2, <2>1, QueueStands
  <2>3. PostsInv'
    BY <1>1, <1>2, <2>2, PostsStand
  <2> QED
    BY <1>2, <1>3, <2>1, <2>2, <2>3, StepsAssemble
<1>5. CASE Greet
  <2>1. Subscribe(Adapter, "events")
    BY <1>5 DEF Greet
  <2>2. HubInv'
    BY <1>2, <2>1, SubscribeKeeps
  <2>3. Inbox' = Inbox /\ Outbox' = Append(Outbox, Reply) /\ claims' = claims
        /\ subscriptions'[Adapter] \subseteq {"events"}
    BY <1>2, <2>1
       DEF Subscribe, Request, Inbox, Outbox, HubTypeOK, AdapterInv
  <2>4. PICK m : m = Reply
    OBVIOUS
  <2>5. m \in Frame /\ Expected(m)' /\ ~ IsEvent(m)
    BY <2>4, FrameKinds DEF Expected, IsEvent
  <2>6. QueueInv' /\ \A i \in 0 .. Len(log) : Clear(i) => Clear(i)'
    BY <1>2, <2>3, <2>4, <2>5, QueueGrows
  <2>7. PostsInv'
    BY <1>1, <1>2, <2>6, PostsStand
  <2> QED
    BY <1>2, <1>3, <2>2, <2>3, <2>6, <2>7, StepsAssemble
<1>6. CASE Disconnected
  <2>1. UNCHANGED hub
    BY <1>6 DEF Disconnected
  <2>2. HubInv' /\ Inbox' = Inbox /\ Outbox' = Outbox
        /\ UNCHANGED <<claims, subscriptions>>
    BY <1>2, <2>1 DEF hub, HubInv, HubTypeOK, Granted, Proper, Inbox, Outbox
  <2>3. QueueInv' /\ \A i : Clear(i) => Clear(i)'
    BY <1>2, <2>2, QueueStands
  <2>4. PostsInv'
    BY <1>1, <1>2, <2>3, PostsStand
  <2> QED
    BY <1>2, <1>3, <2>2, <2>3, <2>4, StepsAssemble DEF AdapterInv
<1> QED
  BY <1>4, <1>5, <1>6

\* The network and the hub move or drop what is on its way; viewers do not.
LEMMA SocketStep ==
    ASSUME AdapterInv, AdapterSocket \/ Viewers
    PROVE  AdapterInv'
<1>1. UNCHANGED <<adapter, log>>
  BY DEF AdapterSocket, Viewers
<1>2. LogGrown /\ log' \in Seq(LogRow) /\ Len(log') <= MaxEvents /\ LoopOK
      /\ HubInv /\ HubTypeOK /\ Adapter \in Conn
  BY <1>1, LogStays, TypeParts, AdapterAssumption DEF AdapterInv
<1>3. LoopOK' /\ posts' = posts
  BY <1>1, <1>2, LoopStands DEF adapter
<1>4. ASSUME HubInv', QueueInv', \A i : Clear(i) => Clear(i)',
             claims' = claims, subscriptions'[Adapter] = subscriptions[Adapter]
      PROVE  AdapterInv'
  <2>1. PostsInv'
    BY <1>2, <1>3, <1>4, PostsStand
  <2> QED
    BY <1>2, <1>3, <1>4, <2>1, StepsAssemble DEF AdapterInv
<1>5. CASE Flush(Adapter)
  BY <1>2, <1>4, <1>5, FlushKeeps, QueueFlushes DEF Flush
<1>6. CASE StartClosing(Adapter)
  <2>1. Inbox' = Inbox /\ Outbox' = Outbox
    BY <1>6 DEF StartClosing, Inbox, Outbox
  <2> QED
    BY <1>2, <1>4, <1>6, <2>1, StartClosingKeeps, QueueStands DEF StartClosing
<1>7. CASE Unregister(Adapter)
  <2>1. Inbox' = Inbox /\ Outbox' = <<>>
    BY <1>2, <1>7 DEF Unregister, Inbox, Outbox, HubTypeOK
  <2> QED
    BY <1>2, <1>4, <1>7, <2>1, UnregisterKeeps, QueueIsDropped DEF Unregister
<1>8. CASE \E c \in Conn \ {Adapter} : Session(c)
  BY <1>2, <1>4, <1>8, OthersKeepQueue, QueueStands
<1> QED
  BY <1>5, <1>6, <1>7, <1>8 DEF AdapterSocket, Viewers

\* The next event is newer than all that were published, and of the tenant.
LEMMA TakeStep ==
    ASSUME AdapterInv, Take
    PROVE  AdapterInv'
<1>1. log' = log /\ capability_profile' = capability_profile /\ loop = "reading"
      /\ Read(Adapter)
  BY DEF Take
<1>2. LogGrown /\ Len(log') <= MaxEvents /\ LoopOK
      /\ HubInv /\ HubTypeOK /\ Adapter \in Conn
  BY <1>1, LogStays, TypeParts, AdapterAssumption DEF AdapterInv
<1>3. HubInv' /\ claims' = claims /\ subscriptions' = subscriptions
  BY <1>1, <1>2, ReadKeeps DEF Read
<1>4. PICK i : i = Head(Inbox).payload
  OBVIOUS
<1>5. /\ QueueInv' /\ \A j : Clear(j) => Clear(j)'
      /\ i \in 0 .. Len(log)
      /\ i # 0 => /\ log[i].tenant = AdapterTenant
                  /\ Clear(i)'
                  /\ \A j : Clear(j) => j < i
  BY <1>1, <1>2, <1>4, QueueIsRead DEF Expected, IsEvent
<1>6. Result(i) \in {"skipped", "raises", "accepted", "rejected"}
  BY <1>5, FourResults DEF AdapterInv
<1>7. CASE ~ Sends(i)
  <2>1. posts' = posts /\ loop' \in {"reading", "down"}
    BY <1>4, <1>6, <1>7 DEF Take, Sends, Inbox
  <2>2. LoopOK'
    BY <1>1, <1>2, <2>1, LoopMoves
  <2>3. PostsInv'
    BY <1>2, <1>5, <2>1, PostsStand
  <2> QED
    BY <1>2, <1>3, <1>5, <2>2, <2>3, StepsAssemble DEF AdapterInv
<1>8. CASE Sends(i)
  <2>1. PICK ch \in {"czml_packets", "czml_rejected"} :
            posts' = Append(posts, [event |-> i, status |-> 0, channel |-> ch])
    BY <1>4, <1>8 DEF Take, Inbox
  <2>2. loop' = "posting" /\ i # 0
    BY <1>4, <1>8 DEF Take, Inbox, Sends, Result
  <2>3. PICK post : post = [event |-> i, status |-> 0, channel |-> ch]
    OBVIOUS
  <2>4. posts \in Seq(PostRow) /\ post \in PostRow /\ posts' = Append(posts, post)
        /\ PostRow' = PostRow
    BY <1>1, <1>2, <1>5, <2>1, <2>2, <2>3 DEF LoopOK, PostRow
  <2>5. /\ posts' \in Seq(PostRow) /\ Len(posts') = Len(posts) + 1
        /\ posts' # <<>> /\ Len(posts) \in Nat
        /\ DOMAIN posts = 1 .. Len(posts) /\ DOMAIN posts' = 1 .. Len(posts) + 1
        /\ \A k \in DOMAIN posts : posts'[k] = posts[k]
        /\ posts'[Len(posts) + 1] = post
    BY <2>4
  <2>6. \A k \in DOMAIN posts' : \/ k \in DOMAIN posts /\ posts'[k] = posts[k]
                                 \/ k = Len(posts') /\ posts'[k] = post
    BY <2>5
  <2>7. LoopOK'
    BY <1>1, <1>2, <2>2, <2>4, <2>5, <2>6 DEF LoopOK
  <2>8. post.event = i /\ post.status = 0
    BY <2>3
  <2>9. \A k \in DOMAIN posts : Clear(posts[k].event)
    BY DEF AdapterInv, PostsInv, Clear
  <2>10. \A k \in DOMAIN posts : posts[k].event < i
    BY <1>5, <2>2, <2>9
  <2>11. PacketsInOrder'
    BY <1>1, <1>5, <2>2, <2>5, <2>6, <2>8, <2>10
       DEF AdapterInv, PostsInv, PacketsInOrder
  <2>12. ASSUME NEW k \in DOMAIN posts' PROVE Clear(posts[k].event)'
    <3>1. PICK j : j = posts'[k].event
      OBVIOUS
    <3>2. Clear(j)'
      BY <1>5, <2>2, <2>6, <2>8, <2>9, <3>1
    <3> QED
      BY <3>1, <3>2 DEF Clear
  <2>13. PostsInv'
    BY <2>11, <2>12 DEF PostsInv, Clear
  <2> QED
    BY <1>2, <1>3, <1>5, <2>7, <2>13, StepsAssemble DEF AdapterInv
<1> QED
  BY <1>7, <1>8

\* POST /publish never refuses the adapter for its tenant, and what it publishes
\* does not come back to it.
LEMMA IngressQueue ==
    ASSUME AdapterInv, loop = "posting", Ingress \/ UNCHANGED hub
    PROVE  /\ HubInv'
           /\ Inbox' = Inbox /\ Outbox' = Outbox
           /\ UNCHANGED <<claims, subscriptions>>
           /\ Status(log[LastPost.event].tenant, LastPost.channel) \in {202, 400}
<1>1. posts \in Seq(PostRow) /\ posts # <<>> /\ HubInv
  BY TypeParts DEF AdapterInv, LoopOK
<1>2. LastPost \in PostRow /\ Len(posts) \in DOMAIN posts
  BY <1>1 DEF LastPost
<1>3. PICK i, ch : i = LastPost.event /\ ch = LastPost.channel
  OBVIOUS
<1>4. i \in 1 .. Len(log) /\ ch \in {"czml_packets", "czml_rejected"}
  BY <1>2, <1>3 DEF PostRow
<1>5. log[i].tenant = AdapterTenant /\ AdapterTenant \in Tenant
  BY <1>2, <1>3, AdapterAssumption DEF AdapterInv, PostsInv, PacketsInOrder, LastPost
<1>6. i \in Body
  BY <1>4, QueueTyped, AdapterAssumption DEF AdapterInv
<1>7. Status(log[i].tenant, ch) \in {202, 400}
  BY <1>5 DEF Status, AdapterInv
<1>8. CASE UNCHANGED hub
  BY <1>1, <1>3, <1>7, <1>8
     DEF hub, HubInv, HubTypeOK, Granted, Proper, Inbox, Outbox
<1>9. CASE Ingress /\ ~ UNCHANGED hub
  <2>1. Publish(AdapterTenant, ch, i) /\ ch \in Channel
    BY <1>3, <1>5, <1>9 DEF Ingress, Status
  <2>2. ch # "events"
    BY <1>4
  <2>3. PICK tenant \in Tenant, body \in Body : tenant = AdapterTenant /\ body = i
    BY <1>5, <1>6
  <2>4. Publish(tenant, ch, body)
    BY <2>1, <2>3
  <2>5. /\ HubInv' /\ Inbox' = Inbox /\ UNCHANGED <<claims, subscriptions>>
        /\ Outbox' = Outbox
    BY <2>1, <2>2, <2>4, PublishQueue
  <2>6. Status(log[LastPost.event].tenant, LastPost.channel) \in {202, 400}
    BY <1>3, <1>7
  <2> QED
    BY <2>5, <2>6
<1> QED
  BY <1>8, <1>9

\* The answer, or its loss, ends the POST.
LEMMA PostStep ==
    ASSUME AdapterInv, Posted \/ PostLost
    PROVE  AdapterInv'
<1>1. log' = log /\ capability_profile' = capability_profile /\ loop = "posting"
      /\ (Ingress \/ UNCHANGED hub)
  BY DEF Posted, PostLost
<1>2. LogGrown /\ Len(log') <= MaxEvents /\ LoopOK
  BY <1>1, LogStays, TypeParts DEF AdapterInv
<1>3. /\ HubInv' /\ Inbox' = Inbox /\ Outbox' = Outbox
      /\ UNCHANGED <<claims, subscriptions>>
      /\ Status(log[LastPost.event].tenant, LastPost.channel) \in {202, 400}
  BY <1>1, IngressQueue
<1>4. QueueInv' /\ \A i : Clear(i) => Clear(i)'
  BY <1>2, <1>3, QueueStands
<1>5. posts \in Seq(PostRow) /\ posts # <<>> /\ PostRow' = PostRow
  BY <1>1, <1>2 DEF LoopOK, PostRow
<1>6. CASE PostLost
  <2>1. posts' = posts /\ loop' = "down"
    BY <1>6 DEF PostLost
  <2>2. LoopOK'
    BY <1>1, <1>2, <1>5, <2>1 DEF LoopOK
  <2>3. PostsInv'
    BY <1>2, <1>4, <2>1, PostsStand
  <2> QED
    BY <1>2, <1>3, <1>4, <2>2, <2>3, StepsAssemble DEF AdapterInv
<1>7. CASE Posted
  <2>1. PICK status \in {202, 400} :
            posts' = [posts EXCEPT ![Len(posts)].status = status]
    BY <1>3, <1>7 DEF Posted
  <2>2. /\ Len(posts) \in DOMAIN posts /\ DOMAIN posts' = DOMAIN posts
        /\ DOMAIN posts = 1 .. Len(posts) /\ Len(posts) \in Nat
    BY <1>5, <2>1
  <2>3. /\ \A k \in DOMAIN posts : posts[k] \in PostRow
        /\ \A k \in DOMAIN posts \ {Len(posts)} : posts'[k] = posts[k]
        /\ posts'[Len(posts)] = [posts[Len(posts)] EXCEPT !.status = status]
    BY <1>5, <2>1, <2>2
  <2>4. /\ posts'[Len(posts)] \in PostRow
        /\ posts'[Len(posts)].event = posts[Len(posts)].event
        /\ posts'[Len(posts)].status = status
    BY <2>2, <2>3 DEF PostRow
  <2>5. /\ \A k \in DOMAIN posts : posts'[k].event = posts[k].event
        /\ \A k \in DOMAIN posts : posts'[k] \in PostRow
        /\ \A k \in DOMAIN posts : k = Len(posts) \/ posts'[k] = posts[k]
    BY <2>3, <2>4
  <2>6. posts' \in Seq(PostRow) /\ Len(posts') = Len(posts)
    <3>1. PICK post \in PostRow : post = posts'[Len(posts)]
      BY <2>4
    <3>2. posts' = [posts EXCEPT ![Len(posts)] = post]
      BY <1>5, <2>1, <2>2, <2>3, <3>1
    <3> QED
      BY <1>5, <2>2, <3>2, ExceptSeq
  <2>7. loop' = "reading"
    BY <1>7 DEF Posted
  <2>8. \A k \in DOMAIN posts : posts'[k].status # 0 /\ posts'[k].status # 403
    <3>1. \A k \in DOMAIN posts : posts[k].status # 403
      BY DEF AdapterInv, PostsInv, PacketsInOrder
    <3>2. \A k \in DOMAIN posts \ {Len(posts)} : posts[k].status # 0
      BY <1>2 DEF LoopOK
    <3>3. ASSUME NEW k \in DOMAIN posts
          PROVE  posts'[k].status # 0 /\ posts'[k].status # 403
      <4>1. CASE k = Len(posts)
        BY <2>4, <4>1
      <4>2. CASE k # Len(posts)
        <5>1. posts'[k] = posts[k]
          BY <2>5, <4>2
        <5> QED
          BY <3>1, <3>2, <4>2, <5>1
      <4> QED
        BY <4>1, <4>2
    <3> QED
      BY <3>3
  <2>9. LoopOK'
    BY <1>1, <1>2, <1>5, <2>2, <2>6, <2>7, <2>8 DEF LoopOK
  <2>10. PacketsInOrder'
    <3>1. \A k \in DOMAIN posts : k \in 1 .. Len(posts) /\
              \A j \in 1 .. k - 1 : j \in DOMAIN posts
      BY <2>2
    <3> QED
      BY <1>1, <2>2, <2>5, <2>8, <3>1 DEF AdapterInv, PostsInv, PacketsInOrder
  <2>11. ASSUME NEW k \in DOMAIN posts' PROVE Clear(posts[k].event)'
    <3>1. PICK j : j = posts[k].event
      OBVIOUS
    <3>2. Clear(j)
      BY <2>2, <3>1 DEF AdapterInv, PostsInv, Clear
    <3>3. Clear(j)' /\ posts'[k].event = j
      BY <1>4, <2>2, <2>5, <3>1, <3>2
    <3> QED
      BY <3>3 DEF Clear
  <2>12. PostsInv'
    BY <2>10, <2>11 DEF PostsInv, Clear
  <2> QED
    BY <1>2, <1>3, <1>4, <2>9, <2>12, StepsAssemble DEF AdapterInv
<1> QED
  BY <1>6, <1>7

-----------------------------------------------------------------------------
\* Every step of the path keeps the invariant.
LEMMA AdapterStep == AdapterInv /\ [Next]_vars => AdapterInv'
<1> SUFFICES ASSUME AdapterInv, [Next]_vars
             PROVE  AdapterInv'
  OBVIOUS
<1>1. CASE \E t \in Tenant, p \in Profile, call \in Call : Commit(t, p, call)
  BY <1>1, CommitStep
<1>2. CASE \E t \in Tenant : Notify(t)
  BY <1>2, NotifyStep
<1>3. CASE Connect \/ Greet \/ Disconnected
  BY <1>3, ConnectionStep
<1>4. CASE Take
  BY <1>4, TakeStep
<1>5. CASE Posted \/ PostLost
  BY <1>5, PostStep
<1>6. CASE AdapterSocket \/ Viewers
  BY <1>6, SocketStep
<1>7. CASE UNCHANGED vars
  <2>1. UNCHANGED hub /\ UNCHANGED adapter /\ log' = log
    BY <1>7 DEF vars
  <2>2. UNCHANGED <<claims, registered, subscriptions, socket, buffered,
                    received, connections>>
    BY <2>1 DEF hub
  <2>3. UNCHANGED <<capability_profile, loop, posts>>
    BY <2>1 DEF adapter
  <2>4. LogGrown /\ log' \in Seq(LogRow) /\ Len(log') <= MaxEvents /\ LoopOK
    BY <2>1, LogStays, TypeParts DEF AdapterInv
  <2>5. HubInv' /\ Inbox' = Inbox /\ Outbox' = Outbox
    BY <2>2 DEF AdapterInv, HubInv, HubTypeOK, Granted, Proper, Inbox, Outbox
  <2>6. QueueInv' /\ \A i : Clear(i) => Clear(i)'
    BY <2>4, <2>5, QueueStands
  <2>7. LoopOK'
    BY <2>1, <2>4, LoopStands
  <2>8. PostsInv'
    BY <2>3, <2>4, <2>6, PostsStand
  <2> QED
    BY <2>2, <2>4, <2>5, <2>6, <2>7, <2>8, StepsAssemble DEF AdapterInv
<1> QED
  BY <1>1, <1>2, <1>3, <1>4, <1>5, <1>6, <1>7 DEF Next

\* So it holds for ever.
LEMMA AdapterInvariant == Spec => []AdapterInv
BY AdapterStarts, AdapterStep, PTL DEF Spec

\* Hub, adapter and log stay what their types say, and a POST is unanswered only
\* while the loop waits for it or has ended because of it (runner.py:194-205).
THEOREM PathTyped == Spec => []TypeOK
<1>1. AdapterInv => TypeOK
  BY DEF AdapterInv
<1> QED
  BY <1>1, AdapterInvariant, PTL

\* runner.py:148-169: whatever drops, reconnects or is lost, the adapter POSTs
\* for its own tenant only, no event twice, and in the order of the commits.
THEOREM PacketsKeepOrder == Spec => []PacketsInOrder
<1>1. AdapterInv => PacketsInOrder
  BY DEF AdapterInv, PostsInv
<1> QED
  BY <1>1, AdapterInvariant, PTL

\* hub.ts:28-32: no frame of another tenant, or of a channel the role has no
\* access to, is ever buffered for a connection or read by its client.
THEOREM HubIsolates == Spec => []TenantAndRoleIsolation
<1>1. AdapterInv => TenantAndRoleIsolation
  BY HubIsSafe DEF AdapterInv
<1> QED
  BY <1>1, AdapterInvariant, PTL

\* hub.ts:40-59: the buckets hold exactly the sockets that have not closed, and
\* the gauge counts them.
THEOREM BucketsCountSockets == Spec => []BucketsMatchSockets
<1>1. AdapterInv => BucketsMatchSockets
  BY HubIsSafe DEF AdapterInv
<1> QED
  BY <1>1, AdapterInvariant, PTL

\* families.py:58-110: with a shipped profile the adapter draws an event for the
\* family the officer tool had decided on, with whatever templates.
THEOREM DrawsAsGated == Spec => []DrawnAsGated
<1>1. DrawnAsGated
  BY AcceptedAsGated, ShippedCorridors DEF DrawnAsGated, AllProfiles, ShippedProfile
<1> QED
  BY <1>1, PTL

\* base.py:110-124, translator.py:109-124: with the shipped templates and a
\* shipped profile the adapter never rejects an event the tool had validated.
THEOREM GatedStaysAccepted ==
    ASSUME TemplateRange = TemplateRanges PROVE Spec => []GatedNeverRejected
<1>1. GatedNeverRejected
  <2> SUFFICES ASSUME NEW profile \in AllProfiles, NEW call \in MCCall,
                      Commits(profile, call), ToolFamily(profile, call) # "none"
               PROVE  Translate(profile, call) # "rejected"
    BY DEF GatedNeverRejected
  <2>1. AllowsOwnNumbers(profile) /\ TemplatesAskFor
    BY ShippedOwnNumbers, ShippedTemplatesAsk DEF AllProfiles, ShippedProfile
  <2> QED
    BY <2>1, GatedIsNotRejected
<1> QED
  BY <1>1, PTL

-----------------------------------------------------------------------------
\* The last POST is not answered.
Unanswered == posts # <<>> /\ LastPost.status = 0

\* The loop has ended because of a POST or of a disable.
EndExplained ==
    /\ loop = "posting" => Unanswered
    /\ loop = "down" =>
          Unanswered \/ \E i \in DOMAIN log : log[i].call.verb = "disable"

\* An event that ends the loop is a disable's.
LEMMA RaisesDisable ==
    ASSUME TypeOK, \A call \in Call : NamesArguments(call),
           NEW i \in 0 .. Len(log), Result(i) = "raises"
    PROVE  i \in DOMAIN log /\ log[i].call.verb = "disable"
<1>1. i # 0 /\ Result(i) = Translation[capability_profile][log[i].call]
  BY DEF Result
<1>2. log \in Seq(LogRow) /\ capability_profile \in Profile
  BY DEF TypeOK, LogRow
<1>3. i \in 1 .. Len(log) /\ i \in DOMAIN log
  BY <1>1, <1>2
<1>4. log[i].call \in Call
  <2>1. log[i] \in LogRow
    BY <1>2, <1>3, ElementOfSeq
  <2> QED
    BY <2>1 DEF LogRow
<1>5. PICK c \in Call : c = log[i].call
  BY <1>4
<1>6. Translate(capability_profile, c) = "raises"
  BY <1>1, <1>2, <1>5 DEF Translation
<1> QED
  BY <1>3, <1>5, <1>6, OnlyDisableRaises

\* The loop ends in a POST, which then stays unanswered, or by an exception.
LEMMA EndStep ==
    ASSUME AdapterInv, EndExplained, [Next]_vars,
           \A call \in Call : NamesArguments(call)
    PROVE  EndExplained'
<1>0. /\ log \in Seq(LogRow) /\ posts \in Seq(PostRow)
  BY TypeParts, QueueTyped DEF AdapterInv, LoopOK
<1>1. ASSUME UNCHANGED <<loop, posts>>,
             \A i \in DOMAIN log : i \in DOMAIN log' /\ log'[i] = log[i]
      PROVE  EndExplained'
  BY <1>1 DEF EndExplained, Unanswered, LastPost
<1>2. ASSUME loop' \notin {"posting", "down"} PROVE EndExplained'
  BY <1>2 DEF EndExplained
<1>3. CASE \E t \in Tenant, p \in Profile, call \in Call : Commit(t, p, call)
  BY <1>0, <1>1, <1>3 DEF Commit, adapter
<1>4. CASE (\E t \in Tenant : Notify(t)) \/ AdapterSocket \/ Viewers \/ UNCHANGED vars
  BY <1>1, <1>4 DEF Notify, AdapterSocket, Viewers, adapter, vars
<1>5. CASE Connect \/ Greet \/ Disconnected \/ Posted
  BY <1>2, <1>5 DEF Connect, Greet, Disconnected, Posted
<1>6. CASE PostLost
  BY <1>6 DEF PostLost, EndExplained, Unanswered, LastPost
<1>7. CASE Take
  <2>1. PICK i : i = Head(Inbox).payload
    OBVIOUS
  <2>2. HubInv /\ HubTypeOK /\ Adapter \in Conn /\ LoopOK
    BY TypeParts, AdapterAssumption DEF AdapterInv
  <2>3. i \in 0 .. Len(log)
    <3>1. LogGrown /\ Read(Adapter)
      BY <1>7, LogStays DEF Take
    <3> QED
      BY <2>1, <2>2, <3>1, QueueIsRead DEF Expected
  <2>4. Result(i) \in {"skipped", "raises", "accepted", "rejected"}
    BY <2>3, FourResults DEF AdapterInv
  <2>5. CASE Sends(i)
    <3>1. PICK ch : posts' = Append(posts, [event |-> i, status |-> 0, channel |-> ch])
      BY <1>7, <2>1, <2>5 DEF Take, Inbox
    <3>2. loop' = "posting"
      BY <1>7, <2>1, <2>5 DEF Take, Inbox, Sends
    <3>3. posts' # <<>> /\ posts'[Len(posts')].status = 0
      BY <1>0, <3>1
    <3> QED
      BY <3>2, <3>3 DEF EndExplained, Unanswered, LastPost
  <2>6. CASE Result(i) = "skipped"
    BY <1>2, <1>7, <2>1, <2>6 DEF Take, Inbox, Sends
  <2>7. CASE Result(i) = "raises"
    <3>1. i \in DOMAIN log /\ log[i].call.verb = "disable"
      BY <2>3, <2>7, RaisesDisable DEF AdapterInv
    <3>2. log' = log /\ loop' = "down"
      BY <1>7, <2>1, <2>7 DEF Take, Inbox, Sends
    <3> QED
      BY <3>1, <3>2 DEF EndExplained
  <2> QED
    BY <2>4, <2>5, <2>6, <2>7 DEF Sends
<1> QED
  BY <1>3, <1>4, <1>5, <1>6, <1>7 DEF Next

\* families.py:191: if the calls name what their schemas oblige them to, the loop
\* of the adapter ends only in a POST that gets lost or after a disable.
THEOREM OnlyDisableEndsAdapter ==
    ASSUME \A call \in Call : NamesArguments(call) PROVE Spec => []EndExplained
<1>1. AdapterInit => EndExplained
  BY DEF AdapterInit, EndExplained
<1>2. AdapterInv /\ EndExplained /\ [Next]_vars => EndExplained'
  BY EndStep
<1> QED
  BY <1>1, <1>2, AdapterInvariant, PTL DEF Spec

\* So without disable every event yields its result (the adapter's README.md:63).
THEOREM ResultsWithoutDisable ==
    ASSUME \A call \in Call : NamesArguments(call) /\ call.verb # "disable"
    PROVE  Spec => []EveryEventYieldsResult
<1>1. AdapterInv /\ EndExplained => EveryEventYieldsResult
  <2> SUFFICES ASSUME AdapterInv, NEW i \in DOMAIN log PROVE log[i].call.verb # "disable"
    BY DEF EndExplained, EveryEventYieldsResult, Unanswered
  <2>1. log \in Seq(LogRow) /\ i \in 1 .. Len(log)
    BY QueueTyped DEF AdapterInv
  <2>2. log[i] \in LogRow
    BY <2>1, ElementOfSeq
  <2> QED
    BY <2>2 DEF LogRow
<1>2. Spec => []EndExplained
  BY OnlyDisableEndsAdapter
<1> QED
  BY <1>1, <1>2, AdapterInvariant, PTL

=============================================================================
