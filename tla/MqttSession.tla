---------------------------- MODULE MqttSession ----------------------------
(***************************************************************************)
(* The MQTT session of one hub: the client's periodic check                *)
(* (api_client.py), the session it starts and stops (solixapi/apibase.py,  *)
(* solixapi/mqtt.py), and what received messages do to the device cache    *)
(* and to the MQTT devices (solixapi/mqtt_device.py).                      *)
(*                                                                         *)
(* Two worlds meet here.  Jobs run on the event loop, from one await to    *)
(* the next; the loops over devices have no await, so a job in one keeps   *)
(* the event loop, but not the threads, waiting.  Each paho client has a   *)
(* thread of its own, which connects, reconnects and runs the session's    *)
(* callbacks.  Sessions and clients are numbered as they are created, 0 is *)
(* None; a topic is the device it is about.                                *)
(***************************************************************************)
EXTENDS Integers, Sequences, FiniteSets

CONSTANTS
    Devices,      \* serials of the devices that support MQTT
    Refused,      \* the devices whose topic the server refuses
    Checks,       \* activations of check_mqtt_session()
    MaxSessions,  \* bound: sessions created
    MaxClients,   \* bound: clients created
    MaxMessages,  \* bound: messages sent by the devices
    MaxToggles,   \* bound: MQTT disabled or the caches cleared
    MaxChanges,   \* bound: devices that enter or leave the cache
    MaxFaults     \* bound: lost connections, failed requests and time-outs

ASSUME MqttAssumption ==
    /\ IsFiniteSet(Devices) /\ Refused \subseteq Devices
    /\ MaxSessions \in Nat /\ MaxClients \in Nat /\ MaxMessages \in Nat
    /\ MaxToggles \in Nat /\ MaxChanges \in Nat /\ MaxFaults \in Nat

None == 0
Sessions == 1..MaxSessions
Clients == 1..MaxClients
Messages == Devices \X (1..MaxMessages)

VARIABLES
    usage,        \* _mqtt_usage
    mqttsession,  \* the api's session
    sess,         \* the sessions
    conn,         \* the clients, each with its thread and its connection
    job,          \* the activation of each check
    devices,      \* the devices in the api cache
    data,         \* per device the last message in its mqtt_data, 0 if empty
    mdev,         \* the client's MQTT device: its device and mqtt_data are
                  \* those of the cache, or older ones, or it has none
    watched,      \* the MQTT devices registered for callbacks
    created,      \* the number of sessions and of clients created
    sent,         \* messages sent
    toggles, changes, faults

apiVars == <<usage, mqttsession, devices, data, mdev, watched>>
boundVars == <<toggles, changes, faults>>
vars == <<apiVars, sess, conn, job, created, sent, boundVars>>

----------------------------------------------------------------------------

\* client, subscriptions and callback as in the code; known: the devices in
\* its mqtt_data.
Session == [client : {None} \cup Clients, subscriptions : SUBSET Devices,
            callback : BOOLEAN, known : SUBSET Devices]
NewSession == [client |-> None, subscriptions |-> {}, callback |-> FALSE,
               known |-> {}]

\* A client is "new" until its thread starts; the thread is "connecting", has
\* connected ("accepted"), runs the loop of on_connect ("renew"), waits for
\* packets ("up") or runs the api's message callback ("merge"); "dead" is a
\* thread that an exception ended while connected; "stopped" after
\* disconnect() and loop_stop().
\* tls: the certificates are set; todo, size: the subscriptions on_connect has
\* still to renew, and their number when it began; sending: subscriptions
\* without an answer; granted: those in force; inbox: messages on their way.
Connection == [state : {"none", "new", "connecting", "accepted", "renew",
                        "up", "merge", "dead", "stopped"},
               tls : BOOLEAN, owner : {None} \cup Sessions,
               todo : SUBSET Devices, size : Nat, sending : SUBSET Devices,
               granted : SUBSET Devices, inbox : Seq(Messages)]
Anew(state, owner) ==
    [state |-> state, tls |-> FALSE, owner |-> owner, todo |-> {}, size |-> 0,
     sending |-> {}, granted |-> {}, inbox |-> <<>>]
NoConnection == Anew("none", None)

\* pc: the await, or the loop over devices, a check is in; of: the session
\* whose method runs; todo: the devices the loop has yet to handle; devs:
\* all of them.
Check == [pc : {"idle", "info", "files", "tls", "wait", "subscribe",
                "resubscribe"},
          of : {None} \cup Sessions, todo : SUBSET Devices,
          devs : SUBSET Devices]
Idle == [pc |-> "idle", of |-> None, todo |-> {}, devs |-> {}]

Looping(j) == job[j].pc \in {"subscribe", "resubscribe"}
LoopFree == \A j \in Checks : ~Looping(j)
Active(j, pc) == job[j].pc = pc /\ (Looping(j) \/ LoopFree)

InState(c, states) == c # None /\ conn[c].state \in states

\* is_connected(): paho looks at the state of the connection, not at the
\* thread.
ClientConnected(c) ==
    InState(c, {"accepted", "renew", "up", "merge", "dead"})
IsConnected(s) == s # None /\ ClientConnected(sess[s].client)

\* loop_stop() joins the thread: the callback that runs has to end first.
Joinable(c) == ~InState(c, {"accepted", "renew", "merge"})

Init ==
    /\ usage = TRUE /\ mqttsession = None
    /\ sess = [s \in Sessions |-> NewSession]
    /\ conn = [c \in Clients |-> NoConnection]
    /\ job = [j \in Checks |-> Idle]
    /\ devices = Devices /\ data = [d \in Devices |-> 0]
    /\ mdev = [d \in Devices |-> "none"] /\ watched = {}
    /\ created = [sessions |-> 0, clients |-> 0] /\ sent = 0
    /\ toggles = 0 /\ changes = 0 /\ faults = 0

----------------------------------------------------------------------------
(* The session's methods (solixapi/mqtt.py) *)

\* Faulty: the client is dropped without a disconnect().
CleanupConnected(s) ==
    /\ sess' = [sess EXCEPT ![s].client = None, ![s].subscriptions = {},
                            ![s].callback = FALSE]
    /\ UNCHANGED conn

\* Faulty: as before, and the callback stays.
CleanupListening(s) ==
    /\ sess' = [sess EXCEPT ![s].client = None, ![s].subscriptions = {}]
    /\ UNCHANGED conn

\* cleanup() drops the client, and stops its thread only while connected.
Cleanup(s) ==
    LET c == sess[s].client IN
    /\ Joinable(c)
    /\ sess' = [sess EXCEPT ![s].client = None, ![s].subscriptions = {},
                            ![s].callback = FALSE]
    /\ conn' = IF ClientConnected(c)
               THEN [conn EXCEPT ![c] = Anew("stopped", s)]
               ELSE conn

\* subscribe() on a connected client.  The failure it looks for is only known
\* when the thread has handled the answer meanwhile.
SubscribeFails(s, d) ==
    /\ d \in Refused \ sess[s].subscriptions
    /\ InState(sess[s].client, {"up"})
    /\ UNCHANGED <<sess, conn>>

SubscribeSends(s, d) ==
    LET c == sess[s].client IN
    IF d \in sess[s].subscriptions THEN UNCHANGED <<sess, conn>>
    ELSE /\ sess' = [sess EXCEPT ![s].subscriptions = @ \cup {d}]
         /\ conn' = [conn EXCEPT ![c].sending = @ \cup {d}]

\* Starts the thread of a client: connect_async() and loop_start().
Connect(c) ==
    /\ Joinable(c)
    /\ conn' = [conn EXCEPT ![c].state = "connecting"]

----------------------------------------------------------------------------
(* Jobs on the event loop: check_mqtt_session() *)

Goto(j, pc, s) == job' = [job EXCEPT ![j] = [Idle EXCEPT !.pc = pc, !.of = s]]
Loop(j, pc, devs) ==
    job' = [job EXCEPT ![j] = [pc |-> pc, of |-> mqttsession, todo |-> devs,
                               devs |-> devs]]
End(j) == job' = [job EXCEPT ![j] = Idle]
Handled(j, d) == job' = [job EXCEPT ![j].todo = @ \ {d}]

\* Without a connected session one is created, if there is none, and
\* connected.
StartSession(j) ==
    /\ Active(j, "idle") /\ usage /\ mqttsession = None
    /\ created.sessions < MaxSessions
    /\ created' = [created EXCEPT !.sessions = @ + 1]
    /\ mqttsession' = created.sessions + 1
    /\ Goto(j, "info", created.sessions + 1)
    /\ UNCHANGED <<usage, devices, data, mdev, watched, sess, conn, sent,
                   boundVars>>

\* Faulty: only a client that exists is connected again.
RestartClient(j) ==
    LET c == sess[mqttsession].client IN
    /\ Active(j, "idle") /\ usage /\ mqttsession # None /\ c # None
    /\ ~IsConnected(mqttsession)
    /\ Connect(c)
    /\ Goto(j, "wait", mqttsession)
    /\ UNCHANGED <<apiVars, sess, created, sent, boundVars>>

RestartSession(j) ==
    LET c == sess[mqttsession].client IN
    /\ Active(j, "idle") /\ usage /\ mqttsession # None
    /\ ~IsConnected(mqttsession)
    /\ IF c = None THEN Goto(j, "info", mqttsession) /\ UNCHANGED conn
       ELSE Connect(c) /\ Goto(j, "wait", mqttsession)
    /\ UNCHANGED <<apiVars, sess, created, sent, boundVars>>

\* With a connected one, MQTT devices without a subscription get one.
CheckSubscriptions(j) ==
    LET devs == {d \in Devices : mdev[d] # "none"} IN
    /\ Active(j, "idle") /\ usage /\ IsConnected(mqttsession) /\ devs # {}
    /\ Loop(j, "resubscribe", devs)
    /\ UNCHANGED <<apiVars, sess, conn, created, sent, boundVars>>

\* create_client(): the client exists as soon as its server is known.
InfoAnswered(j) ==
    LET c == created.clients + 1 IN
    /\ Active(j, "info") /\ c <= MaxClients
    /\ created' = [created EXCEPT !.clients = c]
    /\ conn' = [conn EXCEPT ![c] = Anew("new", job[j].of)]
    /\ sess' = [sess EXCEPT ![job[j].of].client = c]
    /\ Goto(j, "files", job[j].of)
    /\ UNCHANGED <<apiVars, sent, boundVars>>

\* An exception while the client is created: the session is cleaned up, the
\* api keeps it.
CreateFails(j) ==
    /\ Cleanup(job[j].of)
    /\ End(j)
    /\ UNCHANGED <<apiVars, created, sent>>

RequestFails(j) ==
    /\ Active(j, "info") \/ Active(j, "files")
    /\ faults < MaxFaults /\ faults' = faults + 1
    /\ CreateFails(j)
    /\ UNCHANGED <<toggles, changes>>

WithoutTls(c) == c # None /\ ~conn[c].tls

\* The certificates can be set once, on the client the session has by now.
FilesWritten(j) ==
    LET c == sess[job[j].of].client IN
    /\ Active(j, "files")
    /\ \/ /\ WithoutTls(c)
          /\ conn' = [conn EXCEPT ![c].tls = TRUE]
          /\ Goto(j, "tls", job[j].of)
          /\ UNCHANGED <<apiVars, sess, created, sent>>
       \/ /\ ~WithoutTls(c)
          /\ CreateFails(j)
    /\ UNCHANGED boundVars

\* startMqttSession() found no connection: the session is given up, and the
\* MQTT devices with it.  A session that is gone by now is an exception.
GiveUp(j) ==
    /\ ~IsConnected(mqttsession)
    /\ End(j)
    /\ IF mqttsession = None
       THEN UNCHANGED <<sess, conn, mqttsession, mdev>>
       ELSE /\ Cleanup(mqttsession)
            /\ mqttsession' = None
            /\ mdev' = [d \in Devices |-> "none"]
    /\ UNCHANGED <<usage, devices, data, watched>>

\* It found one: messages are passed on, the devices subscribed one by one.
Proceed(j) ==
    /\ IsConnected(mqttsession)
    /\ sess' = [sess EXCEPT ![mqttsession].callback = TRUE]
    /\ Loop(j, "subscribe", devices)
    /\ UNCHANGED <<apiVars, conn>>

NoServer(j) ==
    /\ Active(j, "info")
    /\ faults < MaxFaults /\ faults' = faults + 1
    /\ GiveUp(j)
    /\ UNCHANGED <<created, sent, toggles, changes>>

TlsSet(j) ==
    LET c == sess[job[j].of].client IN
    /\ Active(j, "tls")
    /\ IF c = None THEN GiveUp(j) \/ Proceed(j)
       ELSE /\ IF ClientConnected(c) THEN UNCHANGED conn ELSE Connect(c)
            /\ Goto(j, "wait", job[j].of)
            /\ UNCHANGED <<apiVars, sess>>
    /\ UNCHANGED <<created, sent, boundVars>>

\* The wait ends with the connection, with an exception if the client is gone
\* by now, or after 15 s.
Connected(j) ==
    LET c == sess[job[j].of].client IN
    /\ Active(j, "wait")
    /\ IF c = None THEN End(j) /\ UNCHANGED <<apiVars, sess, conn>>
       ELSE ClientConnected(c) /\ (GiveUp(j) \/ Proceed(j))
    /\ UNCHANGED <<created, sent, boundVars>>

TimedOut(j) ==
    LET c == sess[job[j].of].client IN
    /\ Active(j, "wait") /\ c # None /\ ~ClientConnected(c)
    /\ faults < MaxFaults /\ faults' = faults + 1
    /\ GiveUp(j) \/ Proceed(j)
    /\ UNCHANGED <<created, sent, toggles, changes>>

\* subscribe_device() for each device; the connection may be lost meanwhile.
SubscribeDevice(j) ==
    /\ Active(j, "subscribe")
    /\ \E d \in job[j].todo :
           /\ Handled(j, d)
           /\ IF IsConnected(mqttsession)
              THEN SubscribeSends(mqttsession, d)
                   \/ SubscribeFails(mqttsession, d)
              ELSE UNCHANGED <<sess, conn>>
    /\ UNCHANGED <<apiVars, created, sent, boundVars>>

\* Then each device gets a new MQTT device, registered for callbacks.
CreateDevices(j) ==
    /\ Active(j, "subscribe") /\ job[j].todo = {}
    /\ mdev' = [d \in Devices |->
                   IF d \in job[j].devs THEN "fresh" ELSE mdev[d]]
    /\ watched' = watched \cup job[j].devs
    /\ End(j)
    /\ UNCHANGED <<usage, mqttsession, devices, data, sess, conn, created,
                   sent, boundVars>>

\* Faulty: one value is dropped, not all.
DropValue(d) ==
    data' = IF mdev[d] = "fresh" THEN [data EXCEPT ![d] = @ - 1] ELSE data

\* The values of a device that cannot be subscribed are cleared.
ClearValues(d) ==
    data' = IF mdev[d] = "fresh" THEN [data EXCEPT ![d] = 0] ELSE data

Resubscribe(j) ==
    /\ Active(j, "resubscribe")
    /\ \E d \in job[j].todo :
           /\ Handled(j, d)
           /\ \/ /\ IsConnected(mqttsession)
                 /\ SubscribeSends(mqttsession, d)
                 /\ UNCHANGED data
              \/ /\ IsConnected(mqttsession)
                 /\ SubscribeFails(mqttsession, d)
                 /\ ClearValues(d)
              \/ /\ ~IsConnected(mqttsession)
                 /\ ClearValues(d)
                 /\ UNCHANGED <<sess, conn>>
    /\ UNCHANGED <<usage, mqttsession, devices, mdev, watched, created, sent,
                   boundVars>>

Resubscribed(j) ==
    /\ Active(j, "resubscribe") /\ job[j].todo = {}
    /\ End(j)
    /\ UNCHANGED <<apiVars, sess, conn, created, sent, boundVars>>

----------------------------------------------------------------------------
(* Other jobs: MQTT is enabled or disabled, the cache changes *)

\* stopMqttSession(): without a session it returns at once.
StopSession ==
    IF mqttsession = None THEN UNCHANGED <<sess, conn, mqttsession>>
    ELSE Cleanup(mqttsession) /\ mqttsession' = None

Disable ==
    /\ LoopFree /\ usage /\ toggles < MaxToggles
    /\ usage' = FALSE /\ toggles' = toggles + 1
    /\ StopSession
    /\ data' = IF mqttsession = None THEN data ELSE [d \in Devices |-> 0]
    /\ mdev' = [d \in Devices |-> "none"]
    /\ UNCHANGED <<devices, watched, job, created, sent, changes, faults>>

Enable ==
    /\ LoopFree /\ ~usage
    /\ usage' = TRUE
    /\ UNCHANGED <<mqttsession, devices, data, mdev, watched, sess, conn, job,
                   created, sent, boundVars>>

\* clearCaches() for a refresh from scratch; the polls fill them again.
ClearCaches ==
    /\ LoopFree /\ toggles < MaxToggles
    /\ toggles' = toggles + 1
    /\ StopSession
    /\ devices' = {} /\ watched' = {}
    /\ data' = [d \in Devices |-> 0]
    /\ mdev' = [d \in Devices |-> "none"]
    /\ UNCHANGED <<usage, job, created, sent, changes, faults>>

\* recycleDevices(): the device tells its callbacks, whose update_device()
\* ignores an empty device, and forgets them.
RecycleDevice(d) ==
    /\ LoopFree /\ d \in devices /\ changes < MaxChanges
    /\ changes' = changes + 1
    /\ devices' = devices \ {d} /\ watched' = watched \ {d}
    /\ data' = [data EXCEPT ![d] = 0]
    /\ mdev' = [mdev EXCEPT ![d] = IF @ = "fresh" THEN "stale" ELSE @]
    /\ UNCHANGED <<usage, mqttsession, sess, conn, job, created, sent,
                   toggles, faults>>

FindDevice(d) ==
    /\ LoopFree /\ d \notin devices
    /\ devices' = devices \cup {d}
    /\ UNCHANGED <<usage, mqttsession, data, mdev, watched, sess, conn, job,
                   created, sent, boundVars>>

\* async_remove_device() of the coordinator.
RemoveDevice(d) ==
    /\ LoopFree /\ d \notin devices /\ mdev[d] # "none"
    /\ mdev' = [mdev EXCEPT ![d] = "none"]
    /\ UNCHANGED <<usage, mqttsession, devices, data, watched, sess, conn,
                   job, created, sent, boundVars>>

----------------------------------------------------------------------------
(* The thread of a client *)

\* Connections are clean: the server has forgotten the earlier ones.
Connack(c) ==
    /\ InState(c, {"connecting"}) /\ conn[c].tls
    /\ conn' = [conn EXCEPT ![c].state = "accepted"]
    /\ UNCHANGED <<apiVars, sess, job, created, sent, boundVars>>

\* Faulty: a new connection does not renew the subscriptions.
OnConnectOnce(c) ==
    /\ InState(c, {"accepted"})
    /\ conn' = [conn EXCEPT ![c].state = "up"]
    /\ UNCHANGED <<apiVars, sess, job, created, sent, boundVars>>

\* on_connect() goes through the subscriptions of the session.
OnConnect(c) ==
    LET topics == sess[conn[c].owner].subscriptions IN
    /\ InState(c, {"accepted"})
    /\ conn' = [conn EXCEPT ![c].state = IF topics = {} THEN "up" ELSE "renew",
                            ![c].todo = topics,
                            ![c].size = Cardinality(topics)]
    /\ UNCHANGED <<apiVars, sess, job, created, sent, boundVars>>

\* A set that changed its size ends the loop, and with it the thread.
RenewBroken(c) ==
    LET s == sess[conn[c].owner] IN
    \/ Cardinality(s.subscriptions) # conn[c].size
    \/ s.client = None /\ conn[c].todo # {}

Renew(c) ==
    LET t == sess[conn[c].owner].client IN
    /\ InState(c, {"renew"})
    /\ \/ /\ RenewBroken(c)
          /\ conn' = [conn EXCEPT ![c].state = "dead", ![c].todo = {}]
       \/ /\ ~RenewBroken(c)
          /\ \E d \in conn[c].todo :
                LET done == [conn EXCEPT ![c].todo = @ \ {d}]
                IN  conn' = IF ClientConnected(t)
                            THEN [done EXCEPT ![t].sending = @ \cup {d}]
                            ELSE done
       \/ /\ ~RenewBroken(c) /\ conn[c].todo = {}
          /\ conn' = [conn EXCEPT ![c].state = "up"]
    /\ UNCHANGED <<apiVars, sess, job, created, sent, boundVars>>

\* on_subscribe(): the message id of a refused one is kept, and not looked
\* at any more.
Suback(c) ==
    /\ InState(c, {"up"})
    /\ \E d \in conn[c].sending :
           conn' = [conn EXCEPT ![c].sending = @ \ {d},
                                ![c].granted = @ \cup ({d} \ Refused)]
    /\ UNCHANGED <<apiVars, sess, job, created, sent, boundVars>>

\* on_message() keeps the values with the session, and calls the api if the
\* session still has a callback.
Receive(c) ==
    LET s == conn[c].owner IN
    /\ InState(c, {"up"}) /\ conn[c].inbox # <<>>
    /\ sess' = [sess EXCEPT ![s].known = @ \cup {Head(conn[c].inbox)[1]}]
    /\ conn' = IF sess[s].callback THEN [conn EXCEPT ![c].state = "merge"]
               ELSE [conn EXCEPT ![c].inbox = Tail(@)]
    /\ UNCHANGED <<apiVars, job, created, sent, boundVars>>

\* Faulty: a mqtt_data created anew is not announced.
NotifyOmitted(d) ==
    mdev' = IF data[d] # 0 \/ mdev[d] = "none" THEN mdev
            ELSE [mdev EXCEPT ![d] = "stale"]

\* The MQTT device is told of a mqtt_data created anew.
Notify(d) ==
    mdev' = IF data[d] # 0 \/ mdev[d] = "none" THEN mdev
            ELSE [mdev EXCEPT ![d] =
                     IF d \in watched THEN "fresh" ELSE "stale"]

\* mqtt_received() and update_device_mqtt().
Merge(c) ==
    LET d == Head(conn[c].inbox)[1]
        m == Head(conn[c].inbox)[2]
    IN
    /\ InState(c, {"merge"})
    /\ conn' = [conn EXCEPT ![c].state = "up", ![c].inbox = Tail(@)]
    /\ IF /\ mqttsession # None /\ d \in devices
          /\ d \in sess[mqttsession].known
       THEN data' = [data EXCEPT ![d] = m] /\ Notify(d)
       ELSE UNCHANGED <<data, mdev>>
    /\ UNCHANGED <<usage, mqttsession, devices, watched, sess, job, created,
                   sent, boundVars>>

Thread(c) ==
    \/ Connack(c) \/ OnConnect(c) \/ Renew(c) \/ Suback(c) \/ Receive(c)
    \/ Merge(c)

----------------------------------------------------------------------------
(* The devices and the network *)

Send(d) ==
    /\ sent < MaxMessages
    /\ \E c \in Clients : d \in conn[c].granted
    /\ sent' = sent + 1
    /\ conn' = [c \in Clients |->
                   IF d \in conn[c].granted
                   THEN [conn[c] EXCEPT !.inbox = Append(@, <<d, sent + 1>>)]
                   ELSE conn[c]]
    /\ UNCHANGED <<apiVars, sess, job, created, boundVars>>

\* A lost connection: paho's thread connects again by itself.
Lose(c) ==
    /\ InState(c, {"up"}) /\ faults < MaxFaults
    /\ faults' = faults + 1
    /\ conn' = [conn EXCEPT ![c].state = "connecting", ![c].sending = {},
                            ![c].granted = {}, ![c].inbox = <<>>]
    /\ UNCHANGED <<apiVars, sess, job, created, sent, toggles, changes>>

----------------------------------------------------------------------------

Step(j) ==
    \/ InfoAnswered(j) \/ FilesWritten(j) \/ TlsSet(j) \/ Connected(j)
    \/ SubscribeDevice(j) \/ CreateDevices(j) \/ Resubscribe(j)
    \/ Resubscribed(j)

Start(j) == StartSession(j) \/ RestartSession(j) \/ CheckSubscriptions(j)

Next ==
    \/ \E j \in Checks : Start(j) \/ Step(j) \/ RequestFails(j)
                         \/ NoServer(j) \/ TimedOut(j)
    \/ \E c \in Clients : Thread(c) \/ Lose(c)
    \/ \E d \in Devices : RecycleDevice(d) \/ FindDevice(d)
                          \/ RemoveDevice(d) \/ Send(d)
    \/ Disable \/ Enable \/ ClearCaches

\* Requests are answered or time out, the threads run, and the coordinator
\* checks and polls again and again.
Fairness ==
    /\ \A j \in Checks : WF_vars(Step(j))
    /\ \A c \in Clients : WF_vars(Thread(c))
    /\ WF_vars(\E j \in Checks : Start(j))
    /\ \A d \in Devices : WF_vars(FindDevice(d))

Spec == Init /\ [][Next]_vars /\ Fairness

----------------------------------------------------------------------------
(* Properties *)

TypeOK ==
    /\ usage \in BOOLEAN /\ mqttsession \in {None} \cup Sessions
    /\ sess \in [Sessions -> Session] /\ conn \in [Clients -> Connection]
    /\ job \in [Checks -> Check] /\ devices \subseteq Devices
    /\ data \in [Devices -> 0..MaxMessages]
    /\ mdev \in [Devices -> {"none", "fresh", "stale"}]
    /\ watched \subseteq Devices
    /\ created \in [sessions : 0..MaxSessions, clients : 0..MaxClients]
    /\ sent \in 0..MaxMessages /\ toggles \in Nat /\ changes \in Nat
    /\ faults \in Nat

\* Whoever reads the cache sees a feed: a device's values follow its messages
\* in their order, only while there is a session, whatever connections are
\* lost, renewed or replaced (with one check at a time).
Feed == INSTANCE MqttFeed WITH session <- mqttsession # None, feed <- data
FeedSpec == Feed!Spec

\* mqtt.py:102: "we should always subscribe from on_connect callback to be
\* sure our subscribe is persisted across reconnection": once the server has
\* answered, it holds all topics of the session that it does not refuse.
SubscriptionsRenewed ==
    \A s \in Sessions :
        LET c == sess[s].client IN
        InState(c, {"up"}) /\ conn[c].sending = {}
            => sess[s].subscriptions \ Refused \subseteq conn[c].granted

\* Clients that sessions dropped may go on connecting, but the server sends
\* them nothing: only the api's own client has subscriptions (with one check
\* at a time).
OldClientsSilent ==
    \A c \in Clients : conn[c].granted # {} =>
        mqttsession # None /\ sess[mqttsession].client = c

\* The MQTT devices that are registered for callbacks, and only they, show
\* the objects that are in the cache by now, however often those were replaced
\* (mqtt_device.py:318, apibase.py:1183).
RegisteredDevicesCurrent ==
    /\ watched \subseteq devices
    /\ \A d \in Devices : mdev[d] # "none" =>
           (d \in watched <=> mdev[d] = "fresh")

\* While MQTT is enabled, the session ends up connected, with the accepted
\* topics of all MQTT devices in force, unless an exception ended the thread:
\* nobody notices that.
SessionSettles ==
    <>[](usage =>
           /\ mqttsession # None
           /\ LET c == sess[mqttsession].client IN
              \/ InState(c, {"dead"})
              \/ /\ InState(c, {"up"})
                 /\ {d \in Devices : mdev[d] # "none"} \ Refused
                       \subseteq conn[c].granted)

\* apibase.py:316: "clear mqtt data from device cache to prevent stale mqtt
\* data": no values are left once MQTT is disabled.
DisabledLeavesNoValues == ~usage => \A d \in Devices : data[d] = 0
=============================================================================
