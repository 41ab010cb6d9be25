----------------------------- MODULE CzmlAdapter ----------------------------
(***************************************************************************)
(* The path of an officer's event to the map: a tool commits it, the event *)
(* is published on the tenant's "events" channel of the WebSocket hub, the *)
(* CZML adapter (services/czml-adapter, AdapterRunner over WsEventStream   *)
(* and HttpPacketSink) reads it, translates it and POSTs the packet back   *)
(* to the hub, which sends it to the viewers.                              *)
(*                                                                         *)
(* The adapter is one client of the hub.  It reconnects for ever when its  *)
(* socket drops, without its subscriptions and without what it missed; an  *)
(* exception in its loop ends it.  Nothing in the repository forwards      *)
(* commits to the hub yet: Commit publishes as the hub's README expects    *)
(* of the kernel, and Notify as it expects of the control plane.           *)
(***************************************************************************)
EXTENDS WsHub, SpatialEffects

CONSTANTS Adapter,        \* the adapter's connection
          AdapterTenant,  \* the tenant its token is minted for
          Profile,        \* the capability profiles of officers and adapter
          Call,           \* the officer calls
          MaxEvents       \* bound on the commits

ASSUME AdapterAssumption ==
    /\ Adapter \in Conn /\ "white" \in Role /\ AdapterTenant \in Tenant
    /\ MaxEvents \in Nat /\ Body = 0..MaxEvents

VARIABLES capability_profile, \* the adapter's one profile
          log,    \* the commits: tenant, the officer's profile, its call
          loop,   \* where run() is
          posts   \* the adapter's POSTs; status 0 while one is under way

adapter == <<capability_profile, loop, posts>>
vars == <<hub, adapter, log>>

\* What translate_event makes of a call; TLC evaluates the table once.
Translation ==
    [profile \in Profile |-> [call \in Call |-> Translate(profile, call)]]

\* _hydrate_event fails and the stream drops the message; or translate_event.
Result(i) ==
    IF i = 0 THEN "skipped" ELSE Translation[capability_profile][log[i].call]

AdapterInit ==
    /\ HubInit
    /\ claims[Adapter] = [tenant_id |-> AdapterTenant, cell_role |-> "white"]
    /\ capability_profile \in Profile
    /\ log = <<>> /\ loop = "asleep" /\ posts = <<>>

Commit(tenant, profile, call) ==
    /\ Len(log) < MaxEvents /\ Commits(profile, call)
    /\ log' = Append(log, [tenant |-> tenant, profile |-> profile,
                           call |-> call])
    /\ Publish(tenant, "events", Len(log) + 1)
    /\ UNCHANGED adapter

\* Payload 0 on "events" stands for one that is not an event.
Notify(tenant) ==
    /\ \E ch \in ({"override_pending", "turn_state"} \cap Watched) \cup {"events"} :
          Publish(tenant, ch, 0)
    /\ UNCHANGED <<adapter, log>>

\* websockets.connect
Connect ==
    /\ loop = "asleep" /\ loop' = "greeting"
    /\ Register(Adapter)
    /\ UNCHANGED <<capability_profile, posts, log>>

\* The hub has the adapter's subscribe message.
Greet ==
    /\ loop = "greeting" /\ loop' = "reading"
    /\ Subscribe(Adapter, "events")
    /\ UNCHANGED <<capability_profile, posts, log>>

\* The websockets library hands out what has arrived before it reports the end
\* of the connection.
Disconnected ==
    /\ loop \in {"greeting", "reading"} /\ loop' = "asleep"
    /\ socket[Adapter] # "open" /\ received[Adapter] = <<>>
    /\ UNCHANGED <<hub, capability_profile, posts, log>>

Sends(i) == Result(i) \in {"accepted", "rejected"}

\* Mutant of Take: the message is still there when the loop comes back.
TakeKeeps ==
    /\ loop = "reading" /\ received[Adapter] # <<>>
    /\ LET i == Head(received[Adapter]).payload
       IN  /\ loop' = IF Sends(i) THEN "posting" ELSE "reading"
           /\ posts' = IF Sends(i)
                       THEN Append(posts, [event |-> i, status |-> 0,
                                           channel |-> "czml_packets"])
                       ELSE posts
    /\ Len(posts) < MaxEvents
    /\ UNCHANGED <<hub, capability_profile, log>>

\* One turn of the loop up to the POST: translate_event, then _dispatch.
Take ==
    /\ loop = "reading"
    /\ Read(Adapter)
    /\ LET i == Head(received[Adapter]).payload
       IN  /\ loop' = CASE Sends(i) -> "posting"
                        [] Result(i) = "skipped" -> "reading"
                        [] Result(i) = "raises" -> "down"
           /\ posts' = IF Sends(i)
                       THEN Append(posts,
                              [event |-> i, status |-> 0,
                               channel |-> IF Result(i) = "accepted"
                                           THEN "czml_packets"
                                           ELSE "czml_rejected"])
                       ELSE posts
    /\ UNCHANGED <<capability_profile, log>>

\* The answer of POST /publish to the adapter's token: the body's schema first.
Status(tenant, ch) ==
    IF ch \notin Channel THEN 400
    ELSE IF tenant # claims[Adapter].tenant_id THEN 403 ELSE 202

LastPost == posts[Len(posts)]
Ingress ==
    LET tenant == log[LastPost.event].tenant
    IN  IF Status(tenant, LastPost.channel) = 202
        THEN Publish(tenant, LastPost.channel, LastPost.event)
        ELSE UNCHANGED hub

\* Mutant of Posted: a refused POST is sent again until it is accepted.
PostedRetries ==
    LET status == Status(log[LastPost.event].tenant, LastPost.channel)
    IN  /\ loop = "posting" /\ status = 202 /\ loop' = "reading"
        /\ posts' = [posts EXCEPT ![Len(posts)].status = status]
        /\ Ingress
        /\ UNCHANGED <<capability_profile, log>>
\* Mutant of Posted: the loop goes on before the answer is there.
PostedUnawaited ==
    /\ loop = "posting" /\ loop' = "reading"
    /\ Ingress
    /\ UNCHANGED <<capability_profile, posts, log>>
\* The answer arrives; a refused POST is logged and forgotten.
Posted ==
    /\ loop = "posting" /\ loop' = "reading"
    /\ posts' = [posts EXCEPT ![Len(posts)].status =
                    Status(log[LastPost.event].tenant, LastPost.channel)]
    /\ Ingress
    /\ UNCHANGED <<capability_profile, log>>

\* httpx raises (no connection, or no answer in time): run() ends, and the hub
\* may have had the request.
PostLost ==
    /\ loop = "posting" /\ loop' = "down"
    /\ Ingress \/ UNCHANGED hub
    /\ UNCHANGED <<capability_profile, posts, log>>

\* The adapter's connection, seen from the hub and the network.
AdapterSocket ==
    /\ Flush(Adapter) \/ StartClosing(Adapter) \/ Unregister(Adapter)
    /\ UNCHANGED <<adapter, log>>

Viewers ==
    /\ \E c \in Conn \ {Adapter} : Session(c)
    /\ UNCHANGED <<adapter, log>>

Next ==
    \/ \E t \in Tenant, p \in Profile, call \in Call : Commit(t, p, call)
    \/ \E t \in Tenant : Notify(t)
    \/ Connect \/ Greet \/ Disconnected \/ Take \/ Posted \/ PostLost
    \/ AdapterSocket \/ Viewers

Spec == AdapterInit /\ [][Next]_vars

\* The adapter's event loop runs, and a POST is answered unless it is lost,
\* which httpx reports after 10 s.
FairSpec == Spec /\ WF_vars(Take) /\ WF_vars(Posted)

-----------------------------------------------------------------------------
\* Values of the hub and of the adapter, and a POST under way exactly while the
\* loop waits for it (or has ended because of it).
TypeOK ==
    /\ HubTypeOK
    /\ capability_profile \in Profile
    /\ log \in Seq([tenant : Tenant, profile : Profile, call : Call])
    /\ loop \in {"asleep", "greeting", "reading", "posting", "down"}
    /\ posts \in Seq([event : 1..Len(log), status : {0, 202, 400, 403},
                      channel : {"czml_packets", "czml_rejected"}])
    /\ loop = "posting" => posts # <<>>
    /\ \A k \in DOMAIN posts : posts[k].status = 0 =>
          k = Len(posts) /\ loop \in {"posting", "down"}

\* runner.py:148-169: the adapter publishes for its own tenant, each event at
\* most once and in commit order, however its socket dropped and reconnected in
\* between.
PacketsInOrder ==
    \A k \in DOMAIN posts :
        /\ log[posts[k].event].tenant = AdapterTenant
        /\ posts[k].status # 403
        /\ \A j \in 1..k - 1 : posts[j].event < posts[k].event

InInbox(i) ==
    \E k \in DOMAIN received[Adapter] : received[Adapter][k].payload = i

\* runner.py:181-190: an event that reached the adapter is skipped, or its POST
\* is answered, unless the loop ended; one event never holds up the others.
EveryArrivalHandled ==
    \A i \in 1..MaxEvents :
        InInbox(i) ~> \/ loop = "down"
                      \/ i \in DOMAIN log /\ Result(i) = "skipped"
                      \/ \E k \in DOMAIN posts :
                            posts[k].event = i /\ posts[k].status # 0

\* README.md:63 of the adapter, "Every event yields one AdapterResult": no event
\* an officer tool committed ends the loop; only a lost POST does.
EveryEventYieldsResult ==
    loop = "down" => posts # <<>> /\ LastPost.status = 0

=============================================================================
