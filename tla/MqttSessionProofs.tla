-------------------------- MODULE MqttSessionProofs --------------------------
(***************************************************************************)
(* Proofs about MqttSession for any devices, any number of checks that     *)
(* overlap, sessions and faults: its types, that the server holds the      *)
(* topics of a session once it has answered, and that the registered MQTT  *)
(* devices, and only they, show the objects of the cache.  The second part *)
(* proves that, with one check at a time, the session implements MqttFeed. *)
(*                                                                         *)
(* The invariant has two halves.  SessionInv is about the sessions and     *)
(* their clients: each topic of a session is, from the moment its client   *)
(* begins to renew, still to be sent, sent or granted, and this rests on   *)
(* each client being owned by the one session that uses it.  ApiInv is     *)
(* about the jobs and the cache: the devices a loop began with are still   *)
(* those of the cache at its end.                                          *)
(***************************************************************************)
EXTENDS MqttSession, SequenceTheorems, FiniteSetTheorems, TLAPS

SessionTypes ==
    /\ sess \in [Sessions -> Session] /\ conn \in [Clients -> Connection]
    /\ created \in [sessions : 0..MaxSessions, clients : 0..MaxClients]
    /\ sent \in 0..MaxMessages

\* A connection has an owner once it is in use, topics to renew only while
\* it renews, and a message to merge while it merges one.
ConnectionOK(k) ==
    /\ k.state # "none" => k.owner # None
    /\ k.todo # {} => k.state = "renew"
    /\ k.state = "merge" => k.inbox # <<>>

ClientOwned(s) ==
    LET c == sess[s].client IN
    c # None => c <= created.clients /\ conn[c].owner = s

TopicsKept(s) ==
    LET c == sess[s].client IN
    InState(c, {"renew", "up", "merge"}) =>
        sess[s].subscriptions
            \subseteq conn[c].todo \cup conn[c].sending \cup conn[c].granted
                      \cup Refused

SessionInv ==
    /\ SessionTypes
    /\ \A c \in Clients : ConnectionOK(conn[c])
    /\ \A s \in Sessions : ClientOwned(s) /\ TopicsKept(s)

ApiTypes ==
    /\ usage \in BOOLEAN /\ mqttsession \in {None} \cup Sessions
    /\ job \in [Checks -> Check] /\ devices \subseteq Devices
    /\ data \in [Devices -> 0..MaxMessages]
    /\ mdev \in [Devices -> {"none", "fresh", "stale"}]
    /\ watched \subseteq Devices
    /\ toggles \in Nat /\ changes \in Nat /\ faults \in Nat

\* A check that creates or connects a client does so for a session; one that
\* subscribes goes through the devices of the cache.
JobOK(k) ==
    /\ k.pc \in {"info", "files", "tls", "wait"} => k.of # None
    /\ k.pc = "subscribe" => k.devs = devices

ApiInv ==
    /\ ApiTypes /\ RegisteredDevicesCurrent
    /\ \A j \in Checks : JobOK(job[j])

LEMMA TypesSplit == TypeOK <=> SessionTypes /\ ApiTypes
BY DEF TypeOK, SessionTypes, ApiTypes

LEMMA NoneIsNoClient == None \notin Clients /\ None \notin Sessions
BY DEF None, Clients, Sessions

----------------------------------------------------------------------------
(* Sessions and clients: the parts of the steps *)

\* A connection that starts over.
LEMMA AnewType ==
    ASSUME NEW state \in {"none", "new", "stopped"},
           NEW owner \in {None} \cup Sessions,
           state # "none" => owner # None
    PROVE  /\ Anew(state, owner) \in Connection
           /\ ConnectionOK(Anew(state, owner))
<1>1. <<>> \in Seq(Messages)
  OBVIOUS
<1> QED
  BY <1>1 DEF Anew, Connection, ConnectionOK

LEMMA SessionUse ==
    ASSUME SessionInv
    PROVE  /\ \A s \in Sessions : /\ sess[s] \in Session
                                  /\ sess[s].client \in {None} \cup Clients
           /\ \A c \in Clients : conn[c] \in Connection
BY DEF SessionInv, SessionTypes, Session

\* One connection changes, and no session its client or topics.
LEMMA OneConnection ==
    ASSUME SessionInv, NEW c \in Clients, NEW k \in Connection,
           conn' = [conn EXCEPT ![c] = k],
           UNCHANGED <<created, sent>>,
           k.owner = conn[c].owner, ConnectionOK(k),
           sess' \in [Sessions -> Session],
           \A s \in Sessions :
               /\ sess'[s].client = sess[s].client
               /\ sess'[s].subscriptions = sess[s].subscriptions,
           \A s \in Sessions :
               sess[s].client = c /\ k.state \in {"renew", "up", "merge"}
               => sess[s].subscriptions
                      \subseteq k.todo \cup k.sending \cup k.granted
                                \cup Refused
    PROVE  SessionInv'
<1>1. SessionTypes'
  BY DEF SessionInv, SessionTypes
<1>2. \A b \in Clients : conn'[b] = IF b = c THEN k ELSE conn[b]
  BY DEF SessionInv, SessionTypes
<1>3. \A b \in Clients : ConnectionOK(conn'[b])
  BY <1>2 DEF SessionInv
<1>4. ASSUME NEW s \in Sessions
      PROVE  ClientOwned(s)' /\ TopicsKept(s)'
  <2>1. ClientOwned(s)'
    BY <1>2, <1>4, SessionUse DEF SessionInv, ClientOwned
  <2>2. TopicsKept(s)'
    <3>1. CASE sess[s].client = c
      BY <1>2, <1>4, <3>1 DEF TopicsKept, InState
    <3>2. CASE sess[s].client # c
      BY <1>2, <1>4, <3>2, SessionUse DEF SessionInv, TopicsKept, InState
    <3> QED
      BY <3>1, <3>2
  <2> QED
    BY <2>1, <2>2
<1> QED
  BY <1>1, <1>3, <1>4 DEF SessionInv

\* No connection changes, and no session its client or topics.
LEMMA SameConnections ==
    ASSUME SessionInv, conn' = conn, sent' = sent,
           created'.clients = created.clients,
           created' \in [sessions : 0..MaxSessions, clients : 0..MaxClients],
           sess' \in [Sessions -> Session],
           \A s \in Sessions :
               /\ sess'[s].client = sess[s].client
               /\ sess'[s].subscriptions = sess[s].subscriptions
    PROVE  SessionInv'
<1>1. SessionTypes'
  BY DEF SessionInv, SessionTypes
<1>2. ASSUME NEW s \in Sessions
      PROVE  ClientOwned(s)' /\ TopicsKept(s)'
  BY <1>2 DEF SessionInv, ClientOwned, TopicsKept, InState
<1> QED
  BY <1>1, <1>2 DEF SessionInv

LEMMA SessionStutter ==
    ASSUME SessionInv, UNCHANGED <<sess, conn, created, sent>>
    PROVE  SessionInv'
BY SameConnections DEF SessionInv, SessionTypes

LEMMA CleanupKeeps ==
    ASSUME SessionInv, NEW s \in Sessions, Cleanup(s),
           UNCHANGED <<created, sent>>
    PROVE  SessionInv'
<1> DEFINE c == sess[s].client
           k == Anew("stopped", s)
           r == [sess[s] EXCEPT !.client = None, !.subscriptions = {},
                                !.callback = FALSE]
<1>1. sess' = [sess EXCEPT ![s] = r]
  BY SessionUse DEF Cleanup, Session
<1>2. r \in Session
  BY SessionUse DEF Session
<1>3. \A t \in Sessions : sess'[t] = IF t = s THEN r ELSE sess[t]
  BY <1>1 DEF SessionInv, SessionTypes
<1>4. k \in Connection /\ ConnectionOK(k) /\ k.owner = s /\ k.state = "stopped"
  BY AnewType, NoneIsNoClient DEF Anew
<1>5. c # None => c \in Clients /\ conn[c].owner = s
  BY SessionUse DEF SessionInv, ClientOwned
<1>6. \A b \in Clients : conn'[b] = conn[b] \/ (b = c /\ conn'[b] = k)
  <2>1. conn' = conn \/ conn' = [conn EXCEPT ![c] = k]
    BY DEF Cleanup
  <2> HIDE DEF c, k
  <2>2. conn \in [Clients -> Connection]
    BY DEF SessionInv, SessionTypes
  <2> QED
    BY <2>1, <2>2
<1>7. SessionTypes'
  <2>1. conn' \in [Clients -> Connection]
    BY <1>4 DEF Cleanup, SessionInv, SessionTypes
  <2> QED
    BY <1>1, <1>2, <2>1 DEF SessionInv, SessionTypes
<1>8. \A b \in Clients : ConnectionOK(conn'[b])
  BY <1>4, <1>6 DEF SessionInv
<1>9. r.client = None
  BY SessionUse DEF Session
<1> HIDE DEF c, k, r
<1>10. ASSUME NEW t \in Sessions
       PROVE  ClientOwned(t)' /\ TopicsKept(t)'
  <2>1. CASE t = s
    BY <1>3, <1>9, <1>10, <2>1 DEF ClientOwned, TopicsKept, InState
  <2>2. CASE t # s
    <3>1. sess'[t] = sess[t]
      BY <1>3, <1>10, <2>2
    <3>2. sess[t].client # None =>
              sess[t].client \in Clients /\ conn[sess[t].client].owner = t
      BY <1>10, SessionUse DEF SessionInv, ClientOwned
    <3>3. sess[t].client # None => sess[t].client # c
      BY <1>5, <2>2, <3>2
    <3>4. sess[t].client # None =>
              conn'[sess[t].client] = conn[sess[t].client]
      BY <1>6, <3>2, <3>3
    <3>5. ClientOwned(t) /\ TopicsKept(t) /\ created' = created
      BY <1>10 DEF SessionInv
    <3> QED
      BY <3>1, <3>4, <3>5 DEF ClientOwned, TopicsKept, InState
  <2> QED
    BY <2>1, <2>2
<1> QED
  BY <1>7, <1>8, <1>10 DEF SessionInv

LEMMA ConnectKeeps ==
    ASSUME SessionInv, NEW c \in Clients, conn[c].owner # None, Connect(c),
           UNCHANGED <<sess, created, sent>>
    PROVE  SessionInv'
<1> DEFINE k == [conn[c] EXCEPT !.state = "connecting"]
<1>1. conn[c] \in Connection /\ ConnectionOK(conn[c])
  BY SessionUse DEF SessionInv
<1>2. conn' = [conn EXCEPT ![c] = k]
  BY DEF Connect
<1>3. conn[c].state # "renew"
  BY NoneIsNoClient DEF Connect, Joinable, InState
<1>4. k \in Connection /\ ConnectionOK(k) /\ k.owner = conn[c].owner
      /\ k.state = "connecting"
  BY <1>1, <1>3 DEF Connection, ConnectionOK
<1> HIDE DEF k
<1> QED
  BY <1>2, <1>4, OneConnection DEF SessionInv, SessionTypes

LEMMA SubscribeKeeps ==
    ASSUME SessionInv, NEW s \in Sessions, NEW d \in Devices,
           SubscribeSends(s, d) \/ SubscribeFails(s, d),
           IsConnected(s), UNCHANGED <<created, sent>>
    PROVE  SessionInv'
<1>1. CASE UNCHANGED <<sess, conn>>
  BY <1>1, SessionStutter
<1> DEFINE c == sess[s].client
           r == [sess[s] EXCEPT !.subscriptions = @ \cup {d}]
           k == [conn[c] EXCEPT !.sending = @ \cup {d}]
<1>2. CASE /\ sess' = [sess EXCEPT ![s].subscriptions = @ \cup {d}]
           /\ conn' = [conn EXCEPT ![c].sending = @ \cup {d}]
  <2>1. c \in Clients /\ sess[s] \in Session /\ conn[c].owner = s
    BY SessionUse DEF IsConnected, ClientConnected, InState, SessionInv,
                      ClientOwned
  <2>2. conn[c] \in Connection
    BY <2>1, SessionUse
  <2>3. /\ r \in Session /\ r.client = c
        /\ r.subscriptions = sess[s].subscriptions \cup {d}
    BY <2>1 DEF Session
  <2>4. /\ k \in Connection /\ k.state = conn[c].state
        /\ k.todo = conn[c].todo /\ k.granted = conn[c].granted
        /\ k.owner = conn[c].owner /\ k.inbox = conn[c].inbox
        /\ k.sending = conn[c].sending \cup {d}
    BY <2>2 DEF Connection
  <2>5. \A t \in Sessions : sess'[t] = IF t = s THEN r ELSE sess[t]
    BY <1>2 DEF SessionInv, SessionTypes
  <2>6. \A b \in Clients : conn'[b] = IF b = c THEN k ELSE conn[b]
    BY <1>2 DEF SessionInv, SessionTypes
  <2>7. SessionTypes'
    BY <1>2, <2>3, <2>4 DEF SessionInv, SessionTypes
  <2> HIDE DEF c, r, k
  <2>8. \A b \in Clients : ConnectionOK(conn'[b])
    BY <2>4, <2>6 DEF SessionInv, ConnectionOK
  <2>9. ASSUME NEW t \in Sessions
        PROVE  ClientOwned(t)' /\ TopicsKept(t)'
    <3>1. sess[t].client \in {None} \cup Clients
          /\ ClientOwned(t) /\ TopicsKept(t) /\ created' = created
      BY <2>9, SessionUse DEF SessionInv
    <3>2. CASE t = s
      <4>1. sess'[t].client = c /\ sess[t].client = c /\ conn'[c] = k
        BY <2>1, <2>3, <2>5, <2>6, <2>9, <3>2 DEF c
      <4>2. sess'[t].subscriptions = sess[t].subscriptions \cup {d}
        BY <2>3, <2>5, <2>9, <3>2
      <4> QED
        BY <2>4, <3>1, <4>1, <4>2 DEF ClientOwned, TopicsKept, InState
    <3>3. CASE t # s
      <4>1. sess'[t] = sess[t]
        BY <2>5, <2>9, <3>3
      <4>2. sess[t].client # None =>
                conn'[sess[t].client] = conn[sess[t].client]
        BY <2>1, <2>6, <3>1, <3>3 DEF ClientOwned
      <4> QED
        BY <3>1, <4>1, <4>2 DEF ClientOwned, TopicsKept, InState
    <3> QED
      BY <3>2, <3>3
  <2> QED
    BY <2>7, <2>8, <2>9 DEF SessionInv
<1> QED
  BY <1>1, <1>2 DEF SubscribeSends, SubscribeFails

\* create_client() makes a client that no session uses yet.
LEMMA NewClientKeeps ==
    ASSUME SessionInv, NEW s \in Sessions,
           created.clients + 1 \in Clients,
           created' = [created EXCEPT !.clients = @ + 1],
           conn' = [conn EXCEPT ![created.clients + 1] = Anew("new", s)],
           sess' = [sess EXCEPT ![s].client = created.clients + 1],
           sent' = sent
    PROVE  SessionInv'
<1> DEFINE c == created.clients + 1
           k == Anew("new", s)
           r == [sess[s] EXCEPT !.client = c]
<1>1. k \in Connection /\ ConnectionOK(k) /\ k.owner = s /\ k.state = "new"
  BY AnewType, NoneIsNoClient DEF Anew
<1>2. r \in Session /\ r.client = c
  BY SessionUse DEF Session
<1>3. \A t \in Sessions : sess'[t] = IF t = s THEN r ELSE sess[t]
  BY DEF SessionInv, SessionTypes
<1>4. \A b \in Clients : conn'[b] = IF b = c THEN k ELSE conn[b]
  BY DEF SessionInv, SessionTypes
<1>5. created'.clients = c /\ created.clients \in Nat
      /\ created' \in [sessions : 0..MaxSessions, clients : 0..MaxClients]
  <2>1. /\ created \in [sessions : 0..MaxSessions, clients : 0..MaxClients]
        /\ MaxSessions \in Nat /\ MaxClients \in Nat
    BY MqttAssumption DEF SessionInv, SessionTypes
  <2>2. created.clients \in Nat /\ c \in 0..MaxClients
    BY <2>1 DEF Clients
  <2> HIDE DEF c
  <2>3. created' = [created EXCEPT !.clients = c]
    BY DEF c
  <2> QED BY <2>1, <2>2, <2>3
<1>6. SessionTypes'
  BY <1>1, <1>2, <1>5 DEF SessionInv, SessionTypes
<1>7. \A b \in Clients : b <= created.clients => b # c /\ b <= c
  BY <1>5 DEF Clients
<1>8. c \in Clients /\ c <= c
  BY <1>5
<1> HIDE DEF c, k, r
<1>9. \A b \in Clients : ConnectionOK(conn'[b])
  BY <1>1, <1>4 DEF SessionInv
<1>10. ASSUME NEW t \in Sessions
       PROVE  ClientOwned(t)' /\ TopicsKept(t)'
  <2>1. CASE t = s
    <3>1. sess'[t].client = c /\ conn'[c] = k
      BY <1>2, <1>3, <1>4, <1>8, <1>10, <2>1
    <3> QED
      BY <1>1, <1>5, <1>8, <2>1, <3>1 DEF ClientOwned, TopicsKept, InState
  <2>2. CASE t # s
    <3>1. sess'[t] = sess[t] /\ sess[t].client \in {None} \cup Clients
      BY <1>3, <1>10, <2>2, SessionUse
    <3>2. ClientOwned(t) /\ TopicsKept(t)
      BY <1>10 DEF SessionInv
    <3>3. sess[t].client # None =>
              /\ conn'[sess[t].client] = conn[sess[t].client]
              /\ sess[t].client <= c
      BY <1>4, <1>7, <3>1, <3>2 DEF ClientOwned
    <3> QED
      BY <1>5, <3>1, <3>2, <3>3 DEF ClientOwned, TopicsKept, InState
  <2> QED
    BY <2>1, <2>2
<1> QED
  BY <1>6, <1>9, <1>10 DEF SessionInv

----------------------------------------------------------------------------
(* Sessions and clients: the threads *)

LEMMA ConnackKeeps ==
    ASSUME SessionInv, NEW c \in Clients, Connack(c)
    PROVE  SessionInv'
<1> DEFINE k == [conn[c] EXCEPT !.state = "accepted"]
<1>1. conn[c] \in Connection /\ ConnectionOK(conn[c])
  BY SessionUse DEF SessionInv
<1>2. conn' = [conn EXCEPT ![c] = k] /\ UNCHANGED <<sess, created, sent>>
  BY DEF Connack
<1>3. conn[c].state = "connecting"
  BY DEF Connack, InState
<1>4. k \in Connection /\ ConnectionOK(k) /\ k.owner = conn[c].owner
      /\ k.state = "accepted"
  BY <1>1, <1>3 DEF Connection, ConnectionOK
<1> HIDE DEF k
<1> QED
  BY <1>2, <1>4, OneConnection DEF SessionInv, SessionTypes

LEMMA OnConnectKeeps ==
    ASSUME SessionInv, NEW c \in Clients, OnConnect(c)
    PROVE  SessionInv'
<1> DEFINE topics == sess[conn[c].owner].subscriptions
           state == IF topics = {} THEN "up" ELSE "renew"
           k == [conn[c] EXCEPT !.state = state, !.todo = topics,
                                !.size = Cardinality(topics)]
<1>1. conn[c] \in Connection /\ ConnectionOK(conn[c])
  BY SessionUse DEF SessionInv
<1>2. conn[c].state = "accepted"
  BY DEF OnConnect, InState
<1>3. conn[c].owner \in Sessions
  BY <1>1, <1>2 DEF Connection, ConnectionOK
<1>4. topics \subseteq Devices /\ IsFiniteSet(topics)
  BY <1>3, SessionUse, MqttAssumption, FS_Subset DEF Session
<1>5. Cardinality(topics) \in Nat
  BY <1>4, FS_CardinalityType
<1>6. conn' = [conn EXCEPT ![c] = k] /\ UNCHANGED <<sess, created, sent>>
  BY <1>1 DEF OnConnect, Connection
<1>7. \A s \in Sessions :
          sess[s].client = c => sess[s].subscriptions = topics
  BY NoneIsNoClient DEF SessionInv, ClientOwned
<1> HIDE DEF topics
<1>8. /\ k \in Connection /\ k.owner = conn[c].owner
      /\ k.todo = topics /\ k.state = state
  BY <1>1, <1>4, <1>5 DEF Connection
<1>9. ConnectionOK(k)
  BY <1>1, <1>2, <1>8 DEF ConnectionOK
<1> HIDE DEF k, state
<1>10. ASSUME NEW s \in Sessions, sess[s].client = c
       PROVE  sess[s].subscriptions
                  \subseteq k.todo \cup k.sending \cup k.granted \cup Refused
  BY <1>7, <1>8, <1>10
<1>11. sess' \in [Sessions -> Session] /\ sess' = sess
  BY <1>6 DEF SessionInv, SessionTypes
<1> QED
  BY <1>6, <1>8, <1>9, <1>10, <1>11, OneConnection

LEMMA SubackKeeps ==
    ASSUME SessionInv, NEW c \in Clients, Suback(c)
    PROVE  SessionInv'
<1>1. PICK d \in conn[c].sending :
          conn' = [conn EXCEPT ![c].sending = @ \ {d},
                               ![c].granted = @ \cup ({d} \ Refused)]
  BY DEF Suback
<1> DEFINE k == [conn[c] EXCEPT !.sending = @ \ {d},
                                !.granted = @ \cup ({d} \ Refused)]
<1>2. conn[c] \in Connection /\ ConnectionOK(conn[c])
  BY SessionUse DEF SessionInv
<1>3. conn' = [conn EXCEPT ![c] = k] /\ UNCHANGED <<sess, created, sent>>
  BY <1>1, <1>2 DEF Suback, Connection
<1>4. /\ k \in Connection /\ k.owner = conn[c].owner
      /\ k.todo = conn[c].todo /\ k.state = conn[c].state
      /\ k.inbox = conn[c].inbox /\ k.sending = conn[c].sending \ {d}
      /\ k.granted = conn[c].granted \cup ({d} \ Refused)
  BY <1>2 DEF Connection
<1>5. ConnectionOK(k)
  BY <1>2, <1>4 DEF ConnectionOK
<1>6. \A s \in Sessions : sess[s].client = c => TopicsKept(s)
  BY DEF SessionInv
<1>7. conn[c].state = "up"
  BY DEF Suback, InState
<1> HIDE DEF k
<1>8. ASSUME NEW s \in Sessions, sess[s].client = c
      PROVE  sess[s].subscriptions
                 \subseteq k.todo \cup k.sending \cup k.granted \cup Refused
  BY <1>4, <1>6, <1>7, <1>8, NoneIsNoClient DEF TopicsKept, InState
<1> QED
  BY <1>3, <1>4, <1>5, <1>8, OneConnection DEF SessionInv, SessionTypes

LEMMA LoseKeeps ==
    ASSUME SessionInv, NEW c \in Clients, Lose(c)
    PROVE  SessionInv'
<1> DEFINE k == [conn[c] EXCEPT !.state = "connecting", !.sending = {},
                                !.granted = {}, !.inbox = <<>>]
<1>1. conn[c] \in Connection /\ ConnectionOK(conn[c]) /\ conn[c].state = "up"
  BY SessionUse DEF SessionInv, Lose, InState
<1>2. conn' = [conn EXCEPT ![c] = k] /\ UNCHANGED <<sess, created, sent>>
  BY <1>1 DEF Lose, Connection
<1>3. <<>> \in Seq(Messages)
  OBVIOUS
<1>4. k \in Connection /\ ConnectionOK(k) /\ k.owner = conn[c].owner
      /\ k.state = "connecting"
  BY <1>1, <1>3 DEF Connection, ConnectionOK
<1> HIDE DEF k
<1> QED
  BY <1>2, <1>4, OneConnection DEF SessionInv, SessionTypes

LEMMA SetTlsKeeps ==
    ASSUME SessionInv, NEW c \in Clients,
           conn' = [conn EXCEPT ![c].tls = TRUE],
           UNCHANGED <<sess, created, sent>>
    PROVE  SessionInv'
<1> DEFINE k == [conn[c] EXCEPT !.tls = TRUE]
<1>1. conn[c] \in Connection /\ ConnectionOK(conn[c])
  BY SessionUse DEF SessionInv
<1>2. conn' = [conn EXCEPT ![c] = k]
  OBVIOUS
<1>3. /\ k \in Connection /\ k.owner = conn[c].owner
      /\ k.todo = conn[c].todo /\ k.state = conn[c].state
      /\ k.inbox = conn[c].inbox /\ k.sending = conn[c].sending
      /\ k.granted = conn[c].granted
  BY <1>1 DEF Connection
<1> HIDE DEF k
<1>4. ConnectionOK(k)
  BY <1>1, <1>3 DEF ConnectionOK
<1>5. ASSUME NEW s \in Sessions, sess[s].client = c,
             k.state \in {"renew", "up", "merge"}
      PROVE  sess[s].subscriptions
                 \subseteq k.todo \cup k.sending \cup k.granted \cup Refused
  BY <1>3, <1>5, NoneIsNoClient DEF SessionInv, TopicsKept, InState
<1>6. sess' \in [Sessions -> Session] /\ sess' = sess
  BY DEF SessionInv, SessionTypes
<1> QED
  BY <1>2, <1>3, <1>4, <1>5, <1>6, OneConnection

\* The first message of a client's inbox.
LEMMA HeadMessage ==
    ASSUME SessionInv, NEW c \in Clients, conn[c].inbox # <<>>
    PROVE  /\ Head(conn[c].inbox)[1] \in Devices
           /\ Head(conn[c].inbox)[2] \in 1..MaxMessages
           /\ Tail(conn[c].inbox) \in Seq(Messages)
<1>1. conn[c].inbox \in Seq(Messages)
  BY SessionUse DEF Connection
<1>2. Head(conn[c].inbox) \in Messages /\ Tail(conn[c].inbox) \in Seq(Messages)
  BY <1>1
<1> QED
  BY <1>2 DEF Messages

LEMMA ReceiveKeeps ==
    ASSUME SessionInv, NEW c \in Clients, Receive(c)
    PROVE  SessionInv'
<1> DEFINE s == conn[c].owner
           d == Head(conn[c].inbox)[1]
           r == [sess[s] EXCEPT !.known = @ \cup {d}]
           k == IF sess[s].callback THEN [conn[c] EXCEPT !.state = "merge"]
                ELSE [conn[c] EXCEPT !.inbox = Tail(@)]
<1>1. /\ conn[c] \in Connection /\ ConnectionOK(conn[c])
      /\ conn[c].state = "up" /\ conn[c].inbox # <<>>
  BY SessionUse DEF SessionInv, Receive, InState
<1>2. d \in Devices /\ Tail(conn[c].inbox) \in Seq(Messages)
  BY <1>1, HeadMessage
<1>3. s \in Sessions
  BY <1>1 DEF Connection, ConnectionOK
<1>4. conn' = [conn EXCEPT ![c] = k] /\ UNCHANGED <<created, sent>>
  BY DEF Receive
<1>5. /\ k \in Connection /\ k.owner = conn[c].owner
      /\ k.todo = conn[c].todo /\ k.granted = conn[c].granted
      /\ k.sending = conn[c].sending
      /\ k.state = "merge" => k.inbox # <<>>
  BY <1>1, <1>2 DEF Connection
<1>6. /\ r \in Session /\ r.client = sess[s].client
      /\ r.subscriptions = sess[s].subscriptions
  BY <1>2, <1>3, SessionUse DEF Session
<1>7. sess' = [sess EXCEPT ![s] = r]
  BY DEF Receive
<1> HIDE DEF s, d, r, k
<1>8. ConnectionOK(k)
  BY <1>1, <1>3, <1>5, NoneIsNoClient DEF ConnectionOK, s
<1>9. sess' \in [Sessions -> Session]
  BY <1>6, <1>7 DEF SessionInv, SessionTypes
<1>10. \A t \in Sessions :
           /\ sess'[t].client = sess[t].client
           /\ sess'[t].subscriptions = sess[t].subscriptions
  BY <1>3, <1>6, <1>7 DEF SessionInv, SessionTypes
<1>11. ASSUME NEW t \in Sessions, sess[t].client = c
       PROVE  sess[t].subscriptions
                  \subseteq k.todo \cup k.sending \cup k.granted \cup Refused
  BY <1>1, <1>5, <1>11, NoneIsNoClient DEF SessionInv, TopicsKept, InState
<1> QED
  BY <1>4, <1>5, <1>8, <1>9, <1>10, <1>11, OneConnection

LEMMA MergeKeeps ==
    ASSUME SessionInv, NEW c \in Clients, Merge(c)
    PROVE  SessionInv'
<1> DEFINE k == [conn[c] EXCEPT !.state = "up", !.inbox = Tail(@)]
<1>1. conn[c] \in Connection /\ ConnectionOK(conn[c])
      /\ conn[c].state = "merge"
  BY SessionUse DEF SessionInv, Merge, InState
<1>2. Tail(conn[c].inbox) \in Seq(Messages)
  BY <1>1, HeadMessage DEF ConnectionOK
<1>3. conn' = [conn EXCEPT ![c] = k] /\ UNCHANGED <<sess, created, sent>>
  BY <1>1 DEF Merge, Connection
<1>4. /\ k \in Connection /\ k.owner = conn[c].owner
      /\ k.todo = conn[c].todo /\ k.state = "up"
      /\ k.sending = conn[c].sending /\ k.granted = conn[c].granted
  BY <1>1, <1>2 DEF Connection
<1> HIDE DEF k
<1>5. ConnectionOK(k)
  BY <1>1, <1>4 DEF ConnectionOK
<1>6. ASSUME NEW s \in Sessions, sess[s].client = c
      PROVE  sess[s].subscriptions
                 \subseteq k.todo \cup k.sending \cup k.granted \cup Refused
  BY <1>1, <1>4, <1>6, NoneIsNoClient DEF SessionInv, TopicsKept, InState
<1>7. sess' \in [Sessions -> Session] /\ sess' = sess
  BY <1>3 DEF SessionInv, SessionTypes
<1> QED
  BY <1>3, <1>4, <1>5, <1>6, <1>7, OneConnection

\* on_connect() sends the subscription with the client its session has by now;
\* only the client that is renewed itself counts for its session.
LEMMA RenewOneKeeps ==
    ASSUME SessionInv, NEW c \in Clients, conn[c].state = "renew",
           NEW d \in conn[c].todo, NEW t \in Clients,
           t = sess[conn[c].owner].client,
           conn' = [[conn EXCEPT ![c].todo = @ \ {d}]
                       EXCEPT ![t].sending = @ \cup {d}],
           UNCHANGED <<sess, created, sent>>
    PROVE  SessionInv'
<1> DEFINE q == [conn[c] EXCEPT !.todo = @ \ {d}]
           mid == [conn EXCEPT ![c] = q]
           k == [mid[t] EXCEPT !.sending = @ \cup {d}]
<1>1. conn[c] \in Connection /\ conn[t] \in Connection
      /\ ConnectionOK(conn[c]) /\ ConnectionOK(conn[t])
  BY SessionUse DEF SessionInv
<1>2. conn[c].owner \in Sessions
  BY <1>1 DEF Connection, ConnectionOK
<1>3. /\ q \in Connection /\ q.owner = conn[c].owner /\ q.state = "renew"
      /\ q.sending = conn[c].sending /\ q.granted = conn[c].granted
      /\ q.inbox = conn[c].inbox /\ q.todo = conn[c].todo \ {d}
  BY <1>1 DEF Connection
<1>4. \A b \in Clients : mid[b] = IF b = c THEN q ELSE conn[b]
  BY DEF SessionInv, SessionTypes
<1>5. mid[t] \in Connection /\ d \in Devices
  <2>1. d \in Devices
    BY <1>1 DEF Connection
  <2>2. mid[t] = q \/ mid[t] = conn[t]
    BY <1>4
  <2> QED
    BY <1>1, <1>3, <2>1, <2>2
<1>6. /\ k \in Connection /\ k.owner = mid[t].owner /\ k.state = mid[t].state
      /\ k.sending = mid[t].sending \cup {d} /\ k.granted = mid[t].granted
      /\ k.inbox = mid[t].inbox /\ k.todo = mid[t].todo
  BY <1>5 DEF Connection
<1>7. conn' = [mid EXCEPT ![t] = k]
  OBVIOUS
<1>8. \A b \in Clients : conn'[b] = IF b = t THEN k ELSE mid[b]
  BY <1>7 DEF SessionInv, SessionTypes
<1>9. conn' \in [Clients -> Connection]
  BY ZenonT(40), <1>3, <1>6, <1>7 DEF SessionInv, SessionTypes
<1> HIDE DEF q, mid, k
<1>10. \A b \in Clients : ConnectionOK(conn'[b])
  <2>1. ConnectionOK(q)
    BY <1>1, <1>3 DEF ConnectionOK
  <2>2. \A b \in Clients : ConnectionOK(mid[b])
    BY <1>4, <2>1 DEF SessionInv
  <2>3. ConnectionOK(k)
    BY <1>6, <2>2 DEF ConnectionOK
  <2> QED
    BY <1>8, <2>2, <2>3
<1>11. ASSUME NEW s \in Sessions
       PROVE  ClientOwned(s)' /\ TopicsKept(s)'
  <2>1. ClientOwned(s) /\ TopicsKept(s)
        /\ sess[s].client \in {None} \cup Clients
    BY SessionUse DEF SessionInv
  <2>2. CASE sess[s].client = None
    BY <2>2 DEF ClientOwned, TopicsKept, InState
  <2>3. CASE sess[s].client \in Clients
    <3> DEFINE b == sess[s].client
    <3>1. b \in Clients /\ b # None /\ conn[b].owner = s
      BY <2>1, <2>3, NoneIsNoClient DEF ClientOwned
    <3>2. /\ conn'[b].owner = conn[b].owner /\ conn'[b].state = conn[b].state
          /\ conn[b].sending \subseteq conn'[b].sending
          /\ conn'[b].granted = conn[b].granted
      <4> HIDE DEF b
      <4>1. /\ mid[b].owner = conn[b].owner /\ mid[b].state = conn[b].state
            /\ mid[b].sending = conn[b].sending
            /\ mid[b].granted = conn[b].granted
        BY <1>3, <1>4, <3>1
      <4>2. CASE b = t
        BY <1>6, <1>8, <3>1, <4>1, <4>2
      <4>3. CASE b # t
        BY <1>8, <3>1, <4>1, <4>3
      <4> QED
        BY <4>2, <4>3
    <3>3. CASE b = c
      <4>1. t = c
        BY <3>1, <3>3
      <4>2. conn'[b].todo = conn[b].todo \ {d} /\ d \in conn'[b].sending
        BY <1>3, <1>6, <1>4, <1>8, <3>3, <4>1
      <4> HIDE DEF b
      <4> QED
        BY <2>1, <3>1, <3>2, <4>2 DEF ClientOwned, TopicsKept, InState, b
    <3>4. CASE b # c
      <4>1. conn'[b].todo = conn[b].todo
        BY <1>6, <1>4, <1>8, <3>1, <3>4
      <4> QED
        BY <2>1, <3>1, <3>2, <4>1 DEF ClientOwned, TopicsKept, InState
    <3> QED
      BY <3>3, <3>4
  <2> QED
    BY <2>1, <2>2, <2>3
<1> QED
  BY <1>9, <1>10, <1>11 DEF SessionInv, SessionTypes

LEMMA RenewKeeps ==
    ASSUME SessionInv, NEW c \in Clients, Renew(c)
    PROVE  SessionInv'
<1> DEFINE t == sess[conn[c].owner].client
           done(d) == [conn EXCEPT ![c].todo = @ \ {d}]
<1>1. /\ conn[c] \in Connection /\ ConnectionOK(conn[c])
      /\ conn[c].state = "renew"
  BY SessionUse DEF SessionInv, Renew, InState
<1>2. UNCHANGED <<sess, created, sent>>
      /\ sess' \in [Sessions -> Session]
  BY DEF Renew, SessionInv, SessionTypes
<1>3. CASE conn' = [conn EXCEPT ![c].state = "dead", ![c].todo = {}]
  <2> DEFINE k == [conn[c] EXCEPT !.state = "dead", !.todo = {}]
  <2>1. conn' = [conn EXCEPT ![c] = k]
    BY <1>1, <1>3 DEF Connection
  <2>2. /\ k \in Connection /\ k.owner = conn[c].owner
        /\ k.state = "dead" /\ ConnectionOK(k)
    BY <1>1 DEF Connection, ConnectionOK
  <2> HIDE DEF k
  <2> QED
    BY <1>2, <2>1, <2>2, OneConnection
<1>4. ASSUME NEW d \in conn[c].todo,
             conn' = IF ClientConnected(t)
                     THEN [done(d) EXCEPT ![t].sending = @ \cup {d}]
                     ELSE done(d)
      PROVE  SessionInv'
  <2>1. CASE ClientConnected(t)
    <3>1. t \in Clients
      BY <1>1, <2>1, SessionUse DEF ClientConnected, InState, Connection,
                                    ConnectionOK
    <3>2. conn' = [[conn EXCEPT ![c].todo = @ \ {d}]
                      EXCEPT ![t].sending = @ \cup {d}]
      BY <1>4, <2>1
    <3> HIDE DEF t, done
    <3> QED
      BY <1>1, <1>2, <1>4, <3>1, <3>2, RenewOneKeeps DEF t
  <2>2. CASE ~ClientConnected(t)
    <3> DEFINE k == [conn[c] EXCEPT !.todo = @ \ {d}]
    <3>1. conn' = [conn EXCEPT ![c] = k]
      BY <1>4, <2>2
    <3>2. /\ k \in Connection /\ k.owner = conn[c].owner
          /\ k.state = "renew" /\ ConnectionOK(k)
      BY <1>1 DEF Connection, ConnectionOK
    <3>3. t # c
      BY <1>1, <2>2, NoneIsNoClient DEF ClientConnected, InState
    <3>4. \A s \in Sessions : sess[s].client # c
      BY <3>3, NoneIsNoClient DEF SessionInv, ClientOwned
    <3> HIDE DEF k
    <3> QED
      BY <1>2, <3>1, <3>2, <3>4, OneConnection
  <2> QED
    BY <2>1, <2>2
<1>5. CASE conn[c].todo = {} /\ conn' = [conn EXCEPT ![c].state = "up"]
  <2> DEFINE k == [conn[c] EXCEPT !.state = "up"]
  <2>1. conn' = [conn EXCEPT ![c] = k]
    BY <1>5
  <2>2. /\ k \in Connection /\ k.owner = conn[c].owner
        /\ k.state = "up" /\ ConnectionOK(k)
        /\ k.todo = conn[c].todo /\ k.sending = conn[c].sending
        /\ k.granted = conn[c].granted
    BY <1>1, <1>5 DEF Connection, ConnectionOK
  <2> HIDE DEF k
  <2>3. ASSUME NEW s \in Sessions, sess[s].client = c
        PROVE  sess[s].subscriptions
                 \subseteq k.todo \cup k.sending \cup k.granted \cup Refused
    BY <1>1, <2>2, <2>3, NoneIsNoClient DEF SessionInv, TopicsKept, InState
  <2> QED
    BY <1>2, <2>1, <2>2, <2>3, OneConnection
<1> QED
  BY <1>3, <1>4, <1>5 DEF Renew

LEMMA SendKeeps ==
    ASSUME SessionInv, NEW d \in Devices, Send(d)
    PROVE  SessionInv'
<1> DEFINE k(c) == [conn[c] EXCEPT !.inbox = Append(@, <<d, sent + 1>>)]
<1>1. sent + 1 \in 1..MaxMessages
  BY MqttAssumption DEF Send, SessionInv, SessionTypes
<1>2. <<d, sent + 1>> \in Messages
  BY <1>1 DEF Messages
<1>3. ASSUME NEW c \in Clients
      PROVE  /\ k(c) \in Connection /\ k(c).owner = conn[c].owner
             /\ k(c).state = conn[c].state /\ k(c).todo = conn[c].todo
             /\ k(c).sending = conn[c].sending
             /\ k(c).granted = conn[c].granted /\ k(c).inbox # <<>>
  <2>1. conn[c] \in Connection
    BY SessionUse
  <2>2. /\ Append(conn[c].inbox, <<d, sent + 1>>) \in Seq(Messages)
        /\ Append(conn[c].inbox, <<d, sent + 1>>) # <<>>
    <3>1. conn[c].inbox \in Seq(Messages)
      BY <2>1 DEF Connection
    <3> QED
      BY <1>2, <3>1
  <2> QED
    BY <2>1, <2>2 DEF Connection
<1>4. conn' = [c \in Clients |->
                  IF d \in conn[c].granted THEN k(c) ELSE conn[c]]
  BY DEF Send
<1>5. UNCHANGED <<sess, created>> /\ sent' = sent + 1
  BY DEF Send
<1> HIDE DEF k
<1>6. ASSUME NEW c \in Clients
      PROVE  /\ conn'[c] \in Connection /\ conn'[c].owner = conn[c].owner
             /\ conn'[c].state = conn[c].state
             /\ conn'[c].todo = conn[c].todo
             /\ conn'[c].sending = conn[c].sending
             /\ conn'[c].granted = conn[c].granted
             /\ conn[c].inbox # <<>> => conn'[c].inbox # <<>>
  BY <1>3, <1>4, SessionUse
<1>7. SessionTypes'
  BY <1>1, <1>4, <1>5, <1>6 DEF SessionInv, SessionTypes
<1>8. ASSUME NEW c \in Clients
      PROVE  ConnectionOK(conn'[c])
  BY <1>6 DEF SessionInv, ConnectionOK
<1>9. ASSUME NEW s \in Sessions
      PROVE  ClientOwned(s)' /\ TopicsKept(s)'
  <2>1. ClientOwned(s) /\ TopicsKept(s)
        /\ sess[s].client \in {None} \cup Clients
    BY SessionUse DEF SessionInv
  <2> QED
    BY <1>5, <1>6, <2>1 DEF ClientOwned, TopicsKept, InState
<1> QED
  BY <1>7, <1>8, <1>9 DEF SessionInv

----------------------------------------------------------------------------
(* Jobs and the cache: the parts of the steps *)

JobsOK ==
    job \in [Checks -> Check] /\ \A j \in Checks : JobOK(job[j])

MqttInv == SessionInv /\ ApiInv

LEMMA ApiUse ==
    ASSUME ApiInv
    PROVE  /\ ApiTypes /\ RegisteredDevicesCurrent /\ JobsOK
           /\ mqttsession # None => mqttsession \in Sessions
           /\ \A j \in Checks : /\ job[j] \in Check
                                /\ job[j].todo \subseteq Devices
                                /\ job[j].devs \subseteq Devices
                                /\ job[j].pc \in {"info", "files", "tls", "wait"}
                                   => job[j].of \in Sessions
BY DEF ApiInv, ApiTypes, JobsOK, JobOK, Check

LEMMA GotoKeeps ==
    ASSUME JobsOK, NEW j \in Checks, NEW s \in Sessions,
           NEW pc \in {"info", "files", "tls", "wait"}, Goto(j, pc, s),
           devices' = devices
    PROVE  JobsOK'
<1> DEFINE k == [Idle EXCEPT !.pc = pc, !.of = s]
<1>1. k \in Check /\ k.pc = pc /\ k.of = s
  BY DEF Idle, Check
<1>2. job' = [job EXCEPT ![j] = k]
  BY DEF Goto
<1>3. s # None
  BY NoneIsNoClient
<1> HIDE DEF k
<1> QED
  BY <1>1, <1>2, <1>3 DEF JobsOK, JobOK

LEMMA LoopKeeps ==
    ASSUME JobsOK, NEW j \in Checks, NEW pc \in {"subscribe", "resubscribe"},
           NEW devs \in SUBSET Devices, pc = "subscribe" => devs = devices,
           mqttsession \in {None} \cup Sessions, Loop(j, pc, devs),
           devices' = devices
    PROVE  JobsOK'
<1> DEFINE k == [pc |-> pc, of |-> mqttsession, todo |-> devs, devs |-> devs]
<1>1. k \in Check /\ k.pc = pc /\ k.devs = devs
  BY DEF Check
<1>2. job' = [job EXCEPT ![j] = k]
  BY DEF Loop
<1> HIDE DEF k
<1> QED
  BY <1>1, <1>2 DEF JobsOK, JobOK

LEMMA EndKeeps ==
    ASSUME JobsOK, NEW j \in Checks, End(j), devices' = devices
    PROVE  JobsOK'
<1>1. Idle \in Check /\ Idle.pc = "idle"
  BY DEF Idle, Check
<1> QED
  BY <1>1 DEF End, JobsOK, JobOK

LEMMA HandledKeeps ==
    ASSUME JobsOK, NEW j \in Checks, NEW d, Handled(j, d), devices' = devices
    PROVE  JobsOK'
<1> DEFINE k == [job[j] EXCEPT !.todo = @ \ {d}]
<1>1. job' = [job EXCEPT ![j] = k]
  BY DEF Handled
<1>2. k \in Check /\ k.pc = job[j].pc /\ k.devs = job[j].devs
      /\ k.of = job[j].of
  BY DEF JobsOK, Check
<1> HIDE DEF k
<1> QED
  BY <1>1, <1>2 DEF JobsOK, JobOK

\* Without a loop, the devices may change.
LEMMA LoopFreeKeeps ==
    ASSUME JobsOK, LoopFree, job' = job
    PROVE  JobsOK'
BY DEF JobsOK, JobOK, LoopFree, Looping

\* The cache and the MQTT devices stay as they are.
LEMMA ApiSame ==
    ASSUME ApiInv, JobsOK', UNCHANGED <<devices, data, mdev, watched>>,
           usage' \in BOOLEAN, mqttsession' \in {None} \cup Sessions,
           toggles' \in Nat, changes' \in Nat, faults' \in Nat
    PROVE  ApiInv'
BY DEF ApiInv, ApiTypes, RegisteredDevicesCurrent, JobsOK

LEMMA ApiStutter ==
    ASSUME ApiInv, JobsOK', UNCHANGED apiVars,
           toggles' \in Nat, changes' \in Nat, faults' \in Nat
    PROVE  ApiInv'
BY ApiSame DEF ApiInv, ApiTypes, apiVars

\* All MQTT devices are dropped.
LEMMA ApiNoDevices ==
    ASSUME ApiInv, JobsOK', mdev' = [d \in Devices |-> "none"],
           watched' \subseteq devices', devices' \subseteq Devices,
           usage' \in BOOLEAN, mqttsession' \in {None} \cup Sessions,
           data' \in [Devices -> 0..MaxMessages],
           toggles' \in Nat, changes' \in Nat, faults' \in Nat
    PROVE  ApiInv'
BY DEF ApiInv, ApiTypes, RegisteredDevicesCurrent, JobsOK

LEMMA NatBounds ==
    ASSUME ApiInv
    PROVE  /\ toggles \in Nat /\ changes \in Nat /\ faults \in Nat
           /\ toggles + 1 \in Nat /\ changes + 1 \in Nat /\ faults + 1 \in Nat
           /\ 0 \in 0..MaxMessages
BY MqttAssumption DEF ApiInv, ApiTypes

LEMMA NothingKept ==
    [d \in Devices |-> 0] \in [Devices -> 0..MaxMessages]
BY MqttAssumption

LEMMA GiveUpKeeps ==
    ASSUME MqttInv, NEW j \in Checks, GiveUp(j),
           UNCHANGED <<created, sent, toggles, changes>>, faults' \in Nat
    PROVE  MqttInv'
<1> USE DEF MqttInv
<1>1. JobsOK'
  BY EndKeeps, ApiUse DEF GiveUp
<1>2. CASE mqttsession = None
  <2>1. SessionInv'
    BY <1>2, SessionStutter DEF GiveUp
  <2>2. ApiInv'
    BY <1>1, <1>2, ApiSame, NatBounds DEF GiveUp, ApiInv, ApiTypes
  <2> QED
    BY <2>1, <2>2
<1>3. CASE mqttsession # None
  <2>1. SessionInv'
    BY <1>3, CleanupKeeps, ApiUse DEF GiveUp
  <2>2. ApiInv'
    <3>1. watched' \subseteq devices' /\ devices' \subseteq Devices
      BY DEF GiveUp, ApiInv, ApiTypes, RegisteredDevicesCurrent
    <3> QED
      BY <1>1, <1>3, <3>1, ApiNoDevices, NatBounds DEF GiveUp, ApiInv, ApiTypes
  <2> QED
    BY <2>1, <2>2
<1> QED
  BY <1>2, <1>3

LEMMA ProceedKeeps ==
    ASSUME MqttInv, NEW j \in Checks, Proceed(j),
           UNCHANGED <<created, sent, toggles, changes>>, faults' \in Nat
    PROVE  MqttInv'
<1> USE DEF MqttInv
<1> DEFINE s == mqttsession
           r == [sess[s] EXCEPT !.callback = TRUE]
<1>1. s \in Sessions
  BY ApiUse DEF Proceed, IsConnected
<1>2. JobsOK'
  BY LoopKeeps, ApiUse DEF Proceed, apiVars, ApiTypes
<1>3. SessionInv'
  <2>1. sess' = [sess EXCEPT ![s] = r]
    BY DEF Proceed
  <2>2. /\ r \in Session /\ r.client = sess[s].client
        /\ r.subscriptions = sess[s].subscriptions
    BY <1>1, SessionUse DEF Session
  <2> HIDE DEF r, s
  <2>3. sess' \in [Sessions -> Session]
    BY <2>1, <2>2 DEF SessionInv, SessionTypes
  <2>4. \A t \in Sessions :
            /\ sess'[t].client = sess[t].client
            /\ sess'[t].subscriptions = sess[t].subscriptions
    BY <2>1, <2>2 DEF SessionInv, SessionTypes
  <2> QED
    BY <2>3, <2>4, SameConnections DEF Proceed, SessionInv, SessionTypes
<1>4. ApiInv'
  BY <1>2, ApiStutter, NatBounds DEF Proceed
<1> QED
  BY <1>3, <1>4

----------------------------------------------------------------------------
(* Each step keeps the invariant *)

LEMMA InitMqttInv == Init => MqttInv
<1> SUFFICES ASSUME Init PROVE MqttInv
  OBVIOUS
<1>1. NewSession \in Session /\ NewSession.client = None
  BY DEF NewSession, Session, None
<1>2. NoConnection \in Connection /\ ConnectionOK(NoConnection)
  BY AnewType DEF NoConnection
<1>3. Idle \in Check /\ JobOK(Idle)
  BY DEF Idle, Check, JobOK
<1>4. SessionInv
  <2>1. SessionTypes
    BY <1>1, <1>2, MqttAssumption DEF Init, SessionTypes
  <2>2. \A s \in Sessions : sess[s].client = None
    BY <1>1 DEF Init
  <2> QED
    BY <1>2, <2>1, <2>2
       DEF Init, SessionInv, ClientOwned, TopicsKept, InState
<1>5. ApiInv
  BY <1>3, NothingKept DEF Init, ApiInv, ApiTypes, RegisteredDevicesCurrent
<1> QED
  BY <1>4, <1>5 DEF MqttInv

LEMMA StartKeeps ==
    ASSUME MqttInv, NEW j \in Checks, Start(j)
    PROVE  MqttInv'
<1> USE DEF MqttInv
<1>1. CASE StartSession(j)
  <2>1. created.sessions + 1 \in Sessions
        /\ created' \in [sessions : 0..MaxSessions, clients : 0..MaxClients]
        /\ created'.clients = created.clients
    BY <1>1, MqttAssumption
       DEF StartSession, SessionInv, SessionTypes, Sessions
  <2>2. JobsOK'
    BY <1>1, <2>1, GotoKeeps, ApiUse DEF StartSession
  <2>3. SessionInv'
    BY <1>1, <2>1, SameConnections DEF StartSession, SessionInv, SessionTypes
  <2>4. ApiInv'
    BY <1>1, <2>1, <2>2, ApiSame, NatBounds
       DEF StartSession, boundVars, ApiInv, ApiTypes
  <2> QED
    BY <2>3, <2>4
<1>2. CASE RestartSession(j)
  <2> DEFINE c == sess[mqttsession].client
  <2>1. mqttsession \in Sessions
    BY <1>2, ApiUse DEF RestartSession
  <2>2. JobsOK'
    BY <1>2, <2>1, GotoKeeps, ApiUse DEF RestartSession, apiVars
  <2>3. SessionInv'
    <3>1. CASE c = None
      BY <1>2, <3>1, SessionStutter DEF RestartSession
    <3>2. CASE c # None
      <4>1. c \in Clients /\ conn[c].owner # None
        BY <2>1, <3>2, SessionUse, NoneIsNoClient DEF SessionInv, ClientOwned
      <4> QED
        BY <1>2, <3>2, <4>1, ConnectKeeps DEF RestartSession
    <3> QED
      BY <3>1, <3>2
  <2>4. ApiInv'
    BY <1>2, <2>2, ApiStutter, NatBounds DEF RestartSession, boundVars
  <2> QED
    BY <2>3, <2>4
<1>3. CASE CheckSubscriptions(j)
  <2> DEFINE devs == {d \in Devices : mdev[d] # "none"}
  <2>1. Loop(j, "resubscribe", devs)
    BY <1>3 DEF CheckSubscriptions
  <2>2. JobsOK'
    BY <1>3, <2>1, LoopKeeps, ApiUse DEF CheckSubscriptions, apiVars, ApiTypes
  <2>3. SessionInv'
    BY <1>3, SessionStutter DEF CheckSubscriptions
  <2>4. ApiInv'
    BY <1>3, <2>2, ApiStutter, NatBounds DEF CheckSubscriptions, boundVars
  <2> QED
    BY <2>3, <2>4
<1> QED
  BY <1>1, <1>2, <1>3 DEF Start

LEMMA CreateFailsKeeps ==
    ASSUME MqttInv, NEW j \in Checks, job[j].of \in Sessions, CreateFails(j),
           UNCHANGED <<toggles, changes>>, faults' \in Nat
    PROVE  MqttInv'
<1> USE DEF MqttInv
<1>1. SessionInv'
  BY CleanupKeeps DEF CreateFails
<1>2. JobsOK'
  BY EndKeeps, ApiUse DEF CreateFails, apiVars
<1>3. ApiInv'
  BY <1>2, ApiStutter, NatBounds DEF CreateFails
<1> QED
  BY <1>1, <1>3

LEMMA InfoAnsweredKeeps ==
    ASSUME MqttInv, NEW j \in Checks, InfoAnswered(j)
    PROVE  MqttInv'
<1> USE DEF MqttInv
<1>1. job[j].of \in Sessions
  BY ApiUse DEF InfoAnswered, Active
<1>2. created.clients + 1 \in Clients
  BY MqttAssumption DEF InfoAnswered, SessionInv, SessionTypes, Clients
<1>3. SessionInv'
  <2>1. created' = [created EXCEPT !.clients = @ + 1]
    BY DEF InfoAnswered
  <2> QED
    BY <1>1, <1>2, <2>1, NewClientKeeps DEF InfoAnswered
<1>4. JobsOK'
  BY <1>1, GotoKeeps, ApiUse DEF InfoAnswered, apiVars
<1>5. ApiInv'
  BY <1>4, ApiStutter, NatBounds DEF InfoAnswered, boundVars
<1> QED
  BY <1>3, <1>5

LEMMA FilesWrittenKeeps ==
    ASSUME MqttInv, NEW j \in Checks, FilesWritten(j)
    PROVE  MqttInv'
<1> USE DEF MqttInv
<1> DEFINE c == sess[job[j].of].client
<1>1. job[j].of \in Sessions
  BY ApiUse DEF FilesWritten, Active
<1>2. CASE /\ WithoutTls(c)
           /\ conn' = [conn EXCEPT ![c].tls = TRUE]
           /\ Goto(j, "tls", job[j].of)
           /\ UNCHANGED <<apiVars, sess, created, sent>>
           /\ UNCHANGED boundVars
  <2>1. c \in Clients
    BY <1>1, <1>2, SessionUse DEF WithoutTls
  <2>2. SessionInv'
    BY <1>2, <2>1, SetTlsKeeps
  <2>3. JobsOK'
    BY <1>1, <1>2, GotoKeeps, ApiUse DEF apiVars
  <2>4. ApiInv'
    BY <1>2, <2>3, ApiStutter, NatBounds DEF boundVars
  <2> QED
    BY <2>2, <2>4
<1>3. CASE CreateFails(j) /\ UNCHANGED boundVars
  BY <1>1, <1>3, CreateFailsKeeps, NatBounds DEF boundVars
<1> QED
  BY <1>2, <1>3 DEF FilesWritten

LEMMA TlsSetKeeps ==
    ASSUME MqttInv, NEW j \in Checks, TlsSet(j)
    PROVE  MqttInv'
<1> USE DEF MqttInv
<1> DEFINE c == sess[job[j].of].client
<1>1. job[j].of \in Sessions
  BY ApiUse DEF TlsSet, Active
<1>2. CASE c = None
  BY <1>2, GiveUpKeeps, ProceedKeeps, NatBounds DEF TlsSet, boundVars
<1>3. CASE c # None
  <2>1. c \in Clients /\ conn[c].owner # None
    BY <1>1, <1>3, SessionUse, NoneIsNoClient DEF SessionInv, ClientOwned
  <2>2. SessionInv'
    BY <1>3, <2>1, ConnectKeeps, SessionStutter DEF TlsSet
  <2>3. JobsOK'
    BY <1>1, <1>3, GotoKeeps, ApiUse DEF TlsSet, apiVars
  <2>4. ApiInv'
    BY <1>3, <2>3, ApiStutter, NatBounds DEF TlsSet, boundVars
  <2> QED
    BY <2>2, <2>4
<1> QED
  BY <1>2, <1>3

LEMMA ConnectedKeeps ==
    ASSUME MqttInv, NEW j \in Checks, Connected(j)
    PROVE  MqttInv'
<1> USE DEF MqttInv
<1> DEFINE c == sess[job[j].of].client
<1>1. CASE c = None
  <2>1. SessionInv'
    BY <1>1, SessionStutter DEF Connected
  <2>2. JobsOK'
    BY <1>1, EndKeeps, ApiUse DEF Connected, apiVars
  <2>3. ApiInv'
    BY <1>1, <2>2, ApiStutter, NatBounds DEF Connected, boundVars
  <2> QED
    BY <2>1, <2>3
<1>2. CASE c # None
  BY <1>2, GiveUpKeeps, ProceedKeeps, NatBounds DEF Connected, boundVars
<1> QED
  BY <1>1, <1>2

LEMMA SubscribeDeviceKeeps ==
    ASSUME MqttInv, NEW j \in Checks, SubscribeDevice(j)
    PROVE  MqttInv'
<1> USE DEF MqttInv
<1>1. PICK d \in job[j].todo :
          /\ Handled(j, d)
          /\ IF IsConnected(mqttsession)
             THEN SubscribeSends(mqttsession, d)
                  \/ SubscribeFails(mqttsession, d)
             ELSE UNCHANGED <<sess, conn>>
  BY DEF SubscribeDevice
<1>2. d \in Devices
  BY ApiUse
<1>3. JobsOK'
  BY <1>1, HandledKeeps, ApiUse DEF SubscribeDevice, apiVars
<1>4. SessionInv'
  <2>1. CASE IsConnected(mqttsession)
    <3>1. mqttsession \in Sessions
      BY <2>1, ApiUse DEF IsConnected
    <3> QED
      BY <1>1, <1>2, <2>1, <3>1, SubscribeKeeps DEF SubscribeDevice
  <2>2. CASE ~IsConnected(mqttsession)
    BY <1>1, <2>2, SessionStutter DEF SubscribeDevice
  <2> QED
    BY <2>1, <2>2
<1>5. ApiInv'
  BY <1>3, ApiStutter, NatBounds DEF SubscribeDevice, boundVars
<1> QED
  BY <1>4, <1>5

LEMMA CreateDevicesKeeps ==
    ASSUME MqttInv, NEW j \in Checks, CreateDevices(j)
    PROVE  MqttInv'
<1> USE DEF MqttInv
<1>1. SessionInv'
  BY SessionStutter DEF CreateDevices
<1>2. JobsOK'
  BY EndKeeps, ApiUse DEF CreateDevices
<1>3. job[j].devs = devices /\ devices \subseteq Devices
  BY DEF ApiInv, ApiTypes, JobOK, CreateDevices, Active
<1>4. ApiTypes'
  BY <1>2, <1>3, NatBounds
     DEF CreateDevices, ApiInv, ApiTypes, boundVars, JobsOK
<1>5. RegisteredDevicesCurrent'
  BY <1>3 DEF CreateDevices, ApiInv, ApiTypes, RegisteredDevicesCurrent
<1> QED
  BY <1>1, <1>2, <1>4, <1>5 DEF ApiInv, JobsOK

LEMMA ResubscribeKeeps ==
    ASSUME MqttInv, NEW j \in Checks, Resubscribe(j)
    PROVE  MqttInv'
<1> USE DEF MqttInv
<1>1. PICK d \in job[j].todo :
          /\ Handled(j, d)
          /\ \/ /\ IsConnected(mqttsession)
                /\ SubscribeSends(mqttsession, d)
                /\ UNCHANGED data
             \/ /\ IsConnected(mqttsession)
                /\ SubscribeFails(mqttsession, d)
                /\ ClearValues(d)
             \/ /\ ~IsConnected(mqttsession)
                /\ ClearValues(d)
                /\ UNCHANGED <<sess, conn>>
  BY DEF Resubscribe
<1>2. d \in Devices
  BY ApiUse
<1>3. JobsOK'
  BY <1>1, HandledKeeps, ApiUse DEF Resubscribe
<1>4. SessionInv'
  <2>1. CASE IsConnected(mqttsession)
    <3>1. mqttsession \in Sessions
      BY <2>1, ApiUse DEF IsConnected
    <3> QED
      BY <1>1, <1>2, <2>1, <3>1, SubscribeKeeps DEF Resubscribe
  <2>2. CASE ~IsConnected(mqttsession)
    BY <1>1, <2>2, SessionStutter DEF Resubscribe
  <2> QED
    BY <2>1, <2>2
<1>5. data' \in [Devices -> 0..MaxMessages]
  BY <1>1, NatBounds DEF ClearValues, ApiInv, ApiTypes
<1>6. ApiInv'
  BY <1>3, <1>5, NatBounds
     DEF Resubscribe, ApiInv, ApiTypes, RegisteredDevicesCurrent, boundVars,
         JobsOK
<1> QED
  BY <1>4, <1>6

LEMMA ResubscribedKeeps ==
    ASSUME MqttInv, NEW j \in Checks, Resubscribed(j)
    PROVE  MqttInv'
<1> USE DEF MqttInv
<1>1. SessionInv'
  BY SessionStutter DEF Resubscribed
<1>2. JobsOK'
  BY EndKeeps, ApiUse DEF Resubscribed, apiVars
<1>3. ApiInv'
  BY <1>2, ApiStutter, NatBounds DEF Resubscribed, boundVars
<1> QED
  BY <1>1, <1>3

LEMMA FaultKeeps ==
    ASSUME MqttInv, NEW j \in Checks,
           RequestFails(j) \/ NoServer(j) \/ TimedOut(j)
    PROVE  MqttInv'
<1>1. CASE RequestFails(j)
  <2>1. job[j].of \in Sessions
    BY <1>1, ApiUse DEF MqttInv, RequestFails, Active
  <2> QED
    BY <1>1, <2>1, CreateFailsKeeps, NatBounds DEF MqttInv, RequestFails
<1>2. CASE NoServer(j)
  BY <1>2, GiveUpKeeps, NatBounds DEF MqttInv, NoServer
<1>3. CASE TimedOut(j)
  BY <1>3, GiveUpKeeps, ProceedKeeps, NatBounds DEF MqttInv, TimedOut
<1> QED
  BY <1>1, <1>2, <1>3

LEMMA StopSessionKeeps ==
    ASSUME MqttInv, StopSession, UNCHANGED <<created, sent>>
    PROVE  SessionInv' /\ mqttsession' \in {None} \cup Sessions
<1>1. CASE mqttsession = None
  BY <1>1, SessionStutter DEF MqttInv, StopSession
<1>2. CASE mqttsession # None
  BY <1>2, CleanupKeeps, ApiUse DEF MqttInv, StopSession
<1> QED
  BY <1>1, <1>2

LEMMA ToggleKeeps ==
    ASSUME MqttInv, Disable \/ Enable \/ ClearCaches
    PROVE  MqttInv'
<1> USE DEF MqttInv
<1>1. JobsOK'
  BY LoopFreeKeeps, ApiUse DEF Disable, Enable, ClearCaches
<1>2. CASE Disable
  <2>1. SessionInv' /\ mqttsession' \in {None} \cup Sessions
    BY <1>2, StopSessionKeeps DEF Disable
  <2>2. data' \in [Devices -> 0..MaxMessages]
    BY <1>2, NothingKept DEF Disable, ApiInv, ApiTypes
  <2>3. watched' \subseteq devices' /\ devices' \subseteq Devices
    BY <1>2 DEF Disable, ApiInv, ApiTypes, RegisteredDevicesCurrent
  <2>4. ApiInv'
    BY <1>1, <1>2, <2>1, <2>2, <2>3, ApiNoDevices, NatBounds DEF Disable
  <2> QED
    BY <2>1, <2>4
<1>3. CASE Enable
  <2>1. SessionInv'
    BY <1>3, SessionStutter DEF Enable
  <2>2. ApiInv'
    BY <1>1, <1>3, ApiSame, NatBounds DEF Enable, ApiInv, ApiTypes, boundVars
  <2> QED
    BY <2>1, <2>2
<1>4. CASE ClearCaches
  <2>1. SessionInv' /\ mqttsession' \in {None} \cup Sessions
    BY <1>4, StopSessionKeeps DEF ClearCaches
  <2>2. data' \in [Devices -> 0..MaxMessages]
    BY <1>4, NothingKept DEF ClearCaches
  <2>3. usage' \in BOOLEAN
    BY <1>4 DEF ClearCaches, ApiInv, ApiTypes
  <2>4. ApiInv'
    BY <1>1, <1>4, <2>1, <2>2, <2>3, ApiNoDevices, NatBounds DEF ClearCaches
  <2> QED
    BY <2>1, <2>4
<1> QED
  BY <1>2, <1>3, <1>4

LEMMA CacheKeeps ==
    ASSUME MqttInv, NEW d \in Devices,
           RecycleDevice(d) \/ FindDevice(d) \/ RemoveDevice(d)
    PROVE  MqttInv'
<1> USE DEF MqttInv
<1>1. JobsOK'
  BY LoopFreeKeeps, ApiUse DEF RecycleDevice, FindDevice, RemoveDevice
<1>2. SessionInv'
  BY SessionStutter DEF RecycleDevice, FindDevice, RemoveDevice
<1>3. ApiTypes /\ RegisteredDevicesCurrent
  BY DEF ApiInv
<1>4. CASE RecycleDevice(d)
  <2>1. data' \in [Devices -> 0..MaxMessages]
        /\ mdev' \in [Devices -> {"none", "fresh", "stale"}]
    BY <1>3, <1>4, NatBounds DEF RecycleDevice, ApiTypes
  <2>2. ApiTypes'
    BY <1>1, <1>3, <1>4, <2>1, NatBounds DEF RecycleDevice, ApiTypes, JobsOK
  <2>3. RegisteredDevicesCurrent'
    BY <1>3, <1>4 DEF RecycleDevice, ApiTypes, RegisteredDevicesCurrent
  <2> QED
    BY <1>1, <1>2, <2>2, <2>3 DEF ApiInv, JobsOK
<1>5. CASE FindDevice(d)
  <2>1. ApiTypes'
    BY <1>1, <1>3, <1>5 DEF FindDevice, ApiTypes, JobsOK, boundVars
  <2>2. RegisteredDevicesCurrent'
    BY <1>3, <1>5 DEF FindDevice, ApiTypes, RegisteredDevicesCurrent
  <2> QED
    BY <1>1, <1>2, <2>1, <2>2 DEF ApiInv, JobsOK
<1>6. CASE RemoveDevice(d)
  <2>1. ApiTypes'
    BY <1>1, <1>3, <1>6 DEF RemoveDevice, ApiTypes, JobsOK, boundVars
  <2>2. RegisteredDevicesCurrent'
    BY <1>3, <1>6 DEF RemoveDevice, ApiTypes, RegisteredDevicesCurrent
  <2> QED
    BY <1>1, <1>2, <2>1, <2>2 DEF ApiInv, JobsOK
<1> QED
  BY <1>4, <1>5, <1>6

\* Of the threads' steps only the merge touches the cache: it announces a
\* mqtt_data created anew to the MQTT devices that are registered.
LEMMA ThreadKeeps ==
    ASSUME MqttInv, NEW c \in Clients, Thread(c) \/ Lose(c)
    PROVE  MqttInv'
<1> USE DEF MqttInv
<1>1. SessionInv'
  BY ConnackKeeps, OnConnectKeeps, RenewKeeps, SubackKeeps, ReceiveKeeps,
     MergeKeeps, LoseKeeps DEF Thread
<1>2. JobsOK'
  <2>1. job' = job /\ devices' = devices
    BY DEF Thread, Lose, Connack, OnConnect, Renew, Suback, Receive, Merge,
           apiVars
  <2> QED
    BY <2>1, ApiUse DEF JobsOK, JobOK
<1>3. CASE Merge(c)
  <2> DEFINE d == Head(conn[c].inbox)[1]
             m == Head(conn[c].inbox)[2]
  <2>1. d \in Devices /\ m \in 0..MaxMessages
    <3>1. conn[c].inbox # <<>>
      BY <1>3 DEF Merge, InState, SessionInv, ConnectionOK
    <3>2. d \in Devices /\ m \in 1..MaxMessages
      BY <3>1, HeadMessage
    <3> QED
      BY <3>2, MqttAssumption
  <2>2. ApiTypes /\ RegisteredDevicesCurrent
    BY DEF ApiInv
  <2>3. \/ data' = [data EXCEPT ![d] = m] /\ Notify(d)
        \/ UNCHANGED <<data, mdev>>
    BY <1>3 DEF Merge
  <2>4. UNCHANGED <<usage, mqttsession, devices, watched, boundVars>>
    BY <1>3 DEF Merge
  <2> HIDE DEF d, m
  <2>5. data' \in [Devices -> 0..MaxMessages]
        /\ mdev' \in [Devices -> {"none", "fresh", "stale"}]
    BY <2>1, <2>2, <2>3 DEF ApiTypes, Notify
  <2>6. ApiTypes'
    BY <1>2, <2>2, <2>4, <2>5 DEF ApiTypes, JobsOK, boundVars
  <2>7. RegisteredDevicesCurrent'
    BY <2>1, <2>2, <2>3, <2>4
       DEF ApiTypes, Notify, RegisteredDevicesCurrent
  <2> QED
    BY <1>1, <1>2, <2>6, <2>7 DEF ApiInv, JobsOK
<1>4. CASE ~Merge(c)
  <2>1. UNCHANGED apiVars
    BY <1>4 DEF Thread, Lose, Connack, OnConnect, Renew, Suback, Receive
  <2>2. toggles' \in Nat /\ changes' \in Nat /\ faults' \in Nat
    BY <1>4, NatBounds
       DEF Thread, Lose, Connack, OnConnect, Renew, Suback, Receive, boundVars
  <2> QED
    BY <1>1, <1>2, <2>1, <2>2, ApiStutter
<1> QED
  BY <1>3, <1>4

LEMMA SendKeepsAll ==
    ASSUME MqttInv, NEW d \in Devices, Send(d)
    PROVE  MqttInv'
<1>1. SessionInv'
  BY SendKeeps DEF MqttInv
<1>2. JobsOK'
  BY ApiUse DEF MqttInv, Send, JobsOK, JobOK, apiVars
<1> QED
  BY <1>1, <1>2, ApiStutter, NatBounds DEF MqttInv, Send, boundVars

LEMMA StutterKeeps ==
    ASSUME MqttInv, UNCHANGED vars
    PROVE  MqttInv'
<1>1. SessionInv'
  BY SessionStutter DEF MqttInv, vars
<1>2. JobsOK'
  BY ApiUse DEF MqttInv, vars, apiVars, JobsOK, JobOK
<1> QED
  BY <1>1, <1>2, ApiStutter, NatBounds DEF MqttInv, vars, boundVars

LEMMA MqttInductive == MqttInv /\ [Next]_vars => MqttInv'
<1> SUFFICES ASSUME MqttInv, [Next]_vars PROVE MqttInv'
  OBVIOUS
<1>1. CASE Next
  <2>1. ASSUME NEW j \in Checks,
               Start(j) \/ Step(j) \/ RequestFails(j) \/ NoServer(j)
               \/ TimedOut(j)
        PROVE  MqttInv'
    BY <2>1, StartKeeps, FaultKeeps, InfoAnsweredKeeps, FilesWrittenKeeps,
       TlsSetKeeps, ConnectedKeeps, SubscribeDeviceKeeps, CreateDevicesKeeps,
       ResubscribeKeeps, ResubscribedKeeps DEF Step
  <2>2. ASSUME NEW c \in Clients, Thread(c) \/ Lose(c)
        PROVE  MqttInv'
    BY <2>2, ThreadKeeps
  <2>3. ASSUME NEW d \in Devices,
               RecycleDevice(d) \/ FindDevice(d) \/ RemoveDevice(d) \/ Send(d)
        PROVE  MqttInv'
    BY <2>3, CacheKeeps, SendKeepsAll
  <2> QED
    BY <1>1, <2>1, <2>2, <2>3, ToggleKeeps DEF Next
<1>2. CASE UNCHANGED vars
  BY <1>2, StutterKeeps
<1> QED
  BY <1>1, <1>2

LEMMA AlwaysMqttInv == Spec => []MqttInv
BY InitMqttInv, MqttInductive, PTL DEF Spec

----------------------------------------------------------------------------
(* Theorems *)

\* The state of sessions, clients, checks, cache and MQTT devices keeps its
\* types (mqtt.py, api_client.py), whatever steps overlap.
THEOREM MqttTypesKept == Spec => []TypeOK
<1>1. MqttInv => TypeOK
  BY TypesSplit DEF MqttInv, SessionInv, ApiInv
<1> QED
  BY <1>1, AlwaysMqttInv, PTL

\* mqtt.py:102: once the server has answered, it holds all topics of a
\* session that it does not refuse, for any number of checks that overlap,
\* connections lost and sessions started over.
THEOREM TopicsRenewed == Spec => []SubscriptionsRenewed
<1>1. MqttInv => SubscriptionsRenewed
  <2> SUFFICES ASSUME MqttInv, NEW s \in Sessions,
                      InState(sess[s].client, {"up"}),
                      conn[sess[s].client].sending = {}
               PROVE  sess[s].subscriptions \ Refused
                          \subseteq conn[sess[s].client].granted
    BY DEF SubscriptionsRenewed
  <2> DEFINE c == sess[s].client
  <2>1. c \in Clients /\ conn[c].state = "up"
    BY SessionUse DEF MqttInv, InState
  <2>2. conn[c].todo = {}
    BY <2>1 DEF MqttInv, SessionInv, ConnectionOK
  <2>3. TopicsKept(s) /\ InState(c, {"renew", "up", "merge"})
    BY <2>1 DEF MqttInv, SessionInv, InState
  <2> QED
    BY <2>2, <2>3 DEF TopicsKept
<1> QED
  BY <1>1, AlwaysMqttInv, PTL

\* mqtt_device.py:318, apibase.py:1183: the MQTT devices registered for
\* callbacks, and only they, show the objects that are in the cache, however
\* often the cache, the session and the devices' data were replaced.
THEOREM DevicesFollowCache == Spec => []RegisteredDevicesCurrent
<1>1. MqttInv => RegisteredDevicesCurrent
  BY DEF MqttInv, ApiInv
<1> QED
  BY <1>1, AlwaysMqttInv, PTL

(***************************************************************************)
(* With one check at a time, MqttSession implements MqttFeed for any       *)
(* devices, sessions, messages and faults, and only the api's own client   *)
(* has subscriptions.  The argument: a client that has, or asked for,      *)
(* subscriptions is the connected client of the api's session, because     *)
(* cleanup() stops a client only while it is connected but nothing is      *)
(* subscribed on one that is not; so the messages on their way are those   *)
(* of one client, in their order, and newer than all values of the cache.  *)
(* Two checks that overlap may each create a client for the same session:  *)
(* the first one is then dropped with its subscriptions.                   *)
(***************************************************************************)

LoneCheck == \A j, k \in Checks : j = k

Engaged(k) == k.granted # {} \/ k.sending # {} \/ k.inbox # <<>>
ConnectedStates == {"accepted", "renew", "up", "merge", "dead"}
Running(k) == k.state \notin {"none", "new", "stopped"}
Current(c) == mqttsession # None /\ sess[mqttsession].client = c

EngagedIsCurrent ==
    \A c \in Clients :
        Engaged(conn[c]) => conn[c].state \in ConnectedStates /\ Current(c)

OthersWithoutTopics ==
    \A s \in Sessions : s # mqttsession => sess[s].subscriptions = {}

\* Sessions are used once they are created.
Numbered ==
    /\ mqttsession <= created.sessions
    /\ \A j \in Checks : job[j].of <= created.sessions
    /\ \A c \in Clients : conn[c].owner <= created.sessions
    /\ \A s \in Sessions : s > created.sessions =>
           sess[s].client = None /\ sess[s].subscriptions = {}

\* A check asks for the server of a session without clients, and its client
\* is not started before the certificates are there.
ClientToCome ==
    \A j \in Checks :
        LET s == job[j].of
            c == sess[s].client
        IN  /\ job[j].pc = "info" =>
                   /\ c = None
                   /\ \A b \in Clients : Running(conn[b]) => conn[b].owner # s
            /\ job[j].pc = "files" => c = None \/ conn[c].state = "new"

\* A client that was dropped while it connects belongs to a session that is
\* over, and a client renews the topics of the api's session.
DroppedIsOver ==
    \A c \in Clients :
        LET s == conn[c].owner IN
        /\ Running(conn[c]) /\ sess[s].client # c =>
               sess[s].client = None /\ s # mqttsession
        /\ conn[c].todo # {} /\ sess[s].client = c => s = mqttsession

LoneInv ==
    /\ EngagedIsCurrent /\ OthersWithoutTopics /\ Numbered /\ ClientToCome
    /\ DroppedIsOver

\* The messages on their way are in their order, and newer than any value.
InOrder ==
    /\ \A d \in Devices : data[d] <= sent
    /\ \A c \in Clients : \A i \in 1..Len(conn[c].inbox) :
           /\ conn[c].inbox[i][2] <= sent
           /\ \A d \in Devices : data[d] < conn[c].inbox[i][2]
           /\ \A k \in 1..Len(conn[c].inbox) :
                  i < k => conn[c].inbox[i][2] < conn[c].inbox[k][2]

FeedInv == MqttInv /\ LoneInv /\ InOrder

----------------------------------------------------------------------------
(* Steps that leave each session its client *)

\* What such a step does to a check and to a connection.
CheckKept(k) ==
    /\ job'[k].of <= created.sessions
    /\ job'[k].pc = "info" =>
           \/ job'[k].of = job[k].of /\ job[k].pc = "info"
           \/ /\ mqttsession # None /\ job'[k].of = mqttsession
              /\ sess[mqttsession].client = None
    /\ job'[k].pc = "files" => job'[k].of = job[k].of /\ job[k].pc = "files"

ConnectionKept(c) ==
    LET s == conn[c].owner IN
    /\ conn'[c].owner = s
    /\ Engaged(conn'[c]) => conn'[c].state \in ConnectedStates /\ Current(c)
    /\ Running(conn'[c]) => Running(conn[c]) \/ sess[s].client = c
    /\ conn'[c].todo # {} /\ sess[s].client = c => s = mqttsession
    /\ conn[c].state = "new" =>
           \/ conn'[c].state = "new"
           \/ \A k \in Checks : job'[k].pc # "files"

SessionKept(s) ==
    /\ sess'[s].client = sess[s].client
    /\ sess'[s].subscriptions = sess[s].subscriptions \/ s = mqttsession

LEMMA NumbersUse ==
    ASSUME MqttInv
    PROVE  /\ created.sessions \in Nat /\ mqttsession \in {None} \cup Sessions
           /\ Sessions \subseteq Nat \ {0} /\ None = 0
           /\ \A c \in Clients : conn[c].owner \in {None} \cup Sessions
           /\ \A c \in Clients : Running(conn[c]) => conn[c].owner \in Sessions
           /\ \A c \in Clients :
                  conn[c].todo # {} => conn[c].owner \in Sessions
           /\ \A j \in Checks : job[j].of \in {None} \cup Sessions
<1>1. created.sessions \in Nat
  BY MqttAssumption DEF MqttInv, SessionInv, SessionTypes
<1>2. \A c \in Clients : conn[c].owner \in {None} \cup Sessions
  BY SessionUse DEF MqttInv, Connection
<1>3. \A c \in Clients : ConnectionOK(conn[c])
  BY DEF MqttInv, SessionInv
<1>4. \A j \in Checks : job[j].of \in {None} \cup Sessions
  BY ApiUse DEF MqttInv, Check
<1>5. mqttsession \in {None} \cup Sessions
  BY DEF MqttInv, ApiInv, ApiTypes
<1> QED
  BY <1>1, <1>2, <1>3, <1>4, <1>5
     DEF ConnectionOK, Running, Sessions, None

LEMMA SameClientsKeep ==
    ASSUME MqttInv, MqttInv', LoneInv, UNCHANGED <<mqttsession, created>>,
           \A k \in Checks : CheckKept(k), \A c \in Clients : ConnectionKept(c),
           \A s \in Sessions : SessionKept(s)
    PROVE  LoneInv'
<1>1. EngagedIsCurrent'
  <2> SUFFICES ASSUME NEW c \in Clients, Engaged(conn'[c])
               PROVE  conn'[c].state \in ConnectedStates /\ Current(c)'
    BY DEF EngagedIsCurrent
  <2>1. conn'[c].state \in ConnectedStates /\ Current(c)
    BY DEF ConnectionKept
  <2> QED
    BY <2>1, NumbersUse DEF Current, SessionKept
<1>2. OthersWithoutTopics'
  BY DEF LoneInv, OthersWithoutTopics, SessionKept
<1>3. Numbered'
  <2>1. \A c \in Clients : conn'[c].owner = conn[c].owner
    BY DEF ConnectionKept
  <2>2. \A k \in Checks : job'[k].of <= created.sessions
    BY DEF CheckKept
  <2>3. ASSUME NEW s \in Sessions, s > created.sessions
        PROVE  sess'[s].client = None /\ sess'[s].subscriptions = {}
    <3>1. s # mqttsession
      BY <2>3, NumbersUse DEF LoneInv, Numbered
    <3> QED
      BY <2>3, <3>1 DEF LoneInv, Numbered, SessionKept
  <2> QED
    BY <2>1, <2>2, <2>3 DEF LoneInv, Numbered
<1>4. ClientToCome'
  <2> SUFFICES ASSUME NEW j \in Checks
               PROVE  LET s == job'[j].of
                          c == sess'[s].client
                      IN  /\ job'[j].pc = "info" =>
                                /\ c = None
                                /\ \A b \in Clients :
                                     Running(conn'[b]) => conn'[b].owner # s
                          /\ job'[j].pc = "files" =>
                                c = None \/ conn'[c].state = "new"
    BY DEF ClientToCome
  <2> DEFINE s == job'[j].of
  <2>1. CASE job'[j].pc = "info"
    <3>1. /\ sess[s].client = None
          /\ \A b \in Clients : Running(conn[b]) => conn[b].owner # s
      <4>1. CASE job'[j].of = job[j].of /\ job[j].pc = "info"
        BY <4>1 DEF LoneInv, ClientToCome
      <4>2. CASE /\ mqttsession # None /\ job'[j].of = mqttsession
                 /\ sess[mqttsession].client = None
        BY <4>2, NoneIsNoClient DEF LoneInv, DroppedIsOver
      <4> QED
        BY <2>1, <4>1, <4>2 DEF CheckKept
    <3>2. s \in Sessions
      <4>1. CASE job'[j].of = job[j].of /\ job[j].pc = "info"
        BY <4>1, ApiUse DEF MqttInv
      <4>2. CASE mqttsession # None /\ job'[j].of = mqttsession
        BY <4>2, ApiUse DEF MqttInv
      <4> QED
        BY <2>1, <4>1, <4>2 DEF CheckKept
    <3>3. sess'[s].client = None
      BY <3>1, <3>2 DEF SessionKept
    <3> HIDE DEF s
    <3>4. ASSUME NEW b \in Clients, Running(conn'[b])
          PROVE  conn'[b].owner # s
      BY <3>1, <3>4, NoneIsNoClient DEF ConnectionKept
    <3> QED
      BY <2>1, <3>3, <3>4 DEF s
  <2>2. CASE job'[j].pc = "files"
    <3>1. s = job[j].of /\ job[j].pc = "files"
      BY <2>2 DEF CheckKept
    <3>2. s \in Sessions
      BY <3>1, ApiUse DEF MqttInv
    <3> DEFINE c == sess[s].client
    <3>3. c = None \/ (c \in Clients /\ conn[c].state = "new")
      BY <3>1, <3>2, SessionUse DEF MqttInv, LoneInv, ClientToCome
    <3>4. sess'[s].client = c
      BY <3>2 DEF SessionKept
    <3> HIDE DEF c
    <3>5. c = None \/ conn'[c].state = "new"
      BY <2>2, <3>3 DEF ConnectionKept
    <3> QED
      BY <2>2, <3>4, <3>5
  <2> QED
    BY <2>1, <2>2
<1>5. DroppedIsOver'
  <2> SUFFICES ASSUME NEW c \in Clients
               PROVE  LET s == conn'[c].owner IN
                      /\ Running(conn'[c]) /\ sess'[s].client # c =>
                             sess'[s].client = None /\ s # mqttsession
                      /\ conn'[c].todo # {} /\ sess'[s].client = c =>
                             s = mqttsession
    BY DEF DroppedIsOver
  <2>1. ConnectionKept(c) /\ conn[c].owner \in {None} \cup Sessions
    BY NumbersUse
  <2> DEFINE s == conn[c].owner
  <2>2. conn'[c].owner = s
    BY <2>1 DEF ConnectionKept
  <2>3. CASE s \in Sessions
    <3>1. sess'[s].client = sess[s].client
      BY <2>3 DEF SessionKept
    <3> QED
      BY <2>1, <2>2, <3>1 DEF ConnectionKept, LoneInv, DroppedIsOver
  <2>4. CASE s = None
    <3>1. ~Running(conn'[c]) /\ conn'[c].todo = {}
      BY <2>2, <2>4 DEF MqttInv, SessionInv, ConnectionOK, Running
    <3> QED
      BY <2>2, <3>1
  <2> QED
    BY <2>1, <2>3, <2>4
<1> QED
  BY <1>1, <1>2, <1>3, <1>4, <1>5 DEF LoneInv

----------------------------------------------------------------------------
(* Steps that change the client of a session *)

\* cleanup() for the api's session, which the api then drops, or for the one
\* whose client a check could not create.
LEMMA CleanupKeepsLone ==
    ASSUME MqttInv, MqttInv', LoneInv, NEW s \in Sessions, Cleanup(s),
           UNCHANGED created, s <= created.sessions,
           \A k \in Checks :
               /\ job'[k].of <= created.sessions
               /\ job'[k].pc \in {"info", "files"} =>
                      job'[k].of = job[k].of /\ job'[k].pc = job[k].pc,
           \/ s = mqttsession /\ mqttsession' = None
           \/ /\ mqttsession' = mqttsession
              /\ sess[s].client = None \/ conn[sess[s].client].state = "new"
    PROVE  LoneInv'
<1> DEFINE a == sess[s].client
           k == Anew("stopped", s)
<1>1. /\ k.owner = s /\ k.state = "stopped" /\ k.todo = {} /\ ~Engaged(k)
      /\ ~Running(k)
  BY DEF Anew, Engaged, Running
<1>2. \A t \in Sessions :
          /\ t # s => sess'[t] = sess[t]
          /\ t = s => sess'[t].client = None /\ sess'[t].subscriptions = {}
  BY SessionUse DEF MqttInv, SessionInv, SessionTypes, Cleanup, Session
<1>3. a # None => a \in Clients /\ conn[a].owner = s
  BY SessionUse DEF MqttInv, SessionInv, ClientOwned
<1>4. \A b \in Clients : conn'[b] = conn[b] \/ (b = a /\ conn'[b] = k)
  <2>1. conn' = conn \/ conn' = [conn EXCEPT ![a] = k]
    BY DEF Cleanup
  <2> HIDE DEF a, k
  <2>2. conn \in [Clients -> Connection]
    BY DEF MqttInv, SessionInv, SessionTypes
  <2> QED
    BY <2>1, <2>2
<1>5. conn[a].state \in ConnectedStates /\ a # None => conn'[a] = k
  BY <1>3 DEF Cleanup, ClientConnected, InState, ConnectedStates, MqttInv,
              SessionInv, SessionTypes
<1>6. a # None /\ conn[a].state = "new" => conn'[a] = conn[a]
  BY DEF Cleanup, ClientConnected, InState
<1>7. \A b \in Clients : conn'[b].owner = conn[b].owner
  BY <1>1, <1>3, <1>4, NoneIsNoClient
<1> HIDE DEF k
<1>8. EngagedIsCurrent'
  <2> SUFFICES ASSUME NEW c \in Clients, Engaged(conn'[c])
               PROVE  conn'[c].state \in ConnectedStates /\ Current(c)'
    BY DEF EngagedIsCurrent
  <2>1. conn'[c] = conn[c]
    BY <1>1, <1>4
  <2>2. conn[c].state \in ConnectedStates /\ Current(c)
    BY <2>1 DEF LoneInv, EngagedIsCurrent
  <2>3. c # a
    BY <1>1, <1>5, <2>2, NoneIsNoClient
  <2>4. s # mqttsession
    BY <2>2, <2>3 DEF Current
  <2>5. mqttsession' = mqttsession /\ mqttsession \in Sessions
    BY <2>2, <2>4, ApiUse DEF MqttInv, Current
  <2> QED
    BY <1>2, <2>1, <2>2, <2>4, <2>5 DEF Current
<1>9. OthersWithoutTopics'
  BY <1>2 DEF LoneInv, OthersWithoutTopics
<1>10. Numbered'
  <2>1. mqttsession' <= created.sessions
    BY NumbersUse DEF LoneInv, Numbered
  <2> QED
    BY <1>2, <1>7, <2>1 DEF LoneInv, Numbered
<1>11. ClientToCome'
  <2> SUFFICES ASSUME NEW j \in Checks, job'[j].pc \in {"info", "files"}
               PROVE  LET t == job'[j].of
                          c == sess'[t].client
                      IN  /\ job'[j].pc = "info" =>
                                /\ c = None
                                /\ \A b \in Clients :
                                     Running(conn'[b]) => conn'[b].owner # t
                          /\ job'[j].pc = "files" =>
                                c = None \/ conn'[c].state = "new"
    BY DEF ClientToCome
  <2> DEFINE t == job[j].of
  <2>1. job'[j].of = t /\ job'[j].pc = job[j].pc /\ t \in Sessions
    BY ApiUse DEF MqttInv
  <2>2. sess'[t].client \in {None, sess[t].client}
    BY <1>2, <2>1
  <2>3. CASE job[j].pc = "info"
    <3>1. sess[t].client = None
          /\ \A b \in Clients : Running(conn[b]) => conn[b].owner # t
      BY <2>3 DEF LoneInv, ClientToCome
    <3>2. \A b \in Clients : Running(conn'[b]) => Running(conn[b])
      BY <1>1, <1>4
    <3> QED
      BY <1>7, <2>1, <2>2, <2>3, <3>1, <3>2
  <2>4. CASE job[j].pc = "files"
    <3>1. sess[t].client = None \/ conn[sess[t].client].state = "new"
      BY <2>4 DEF LoneInv, ClientToCome
    <3>2. sess[t].client \in {None} \cup Clients
      BY <2>1, SessionUse DEF MqttInv
    <3>3. CASE sess'[t].client = None
      BY <2>1, <2>4, <3>3
    <3>4. CASE sess[t].client # None /\ sess'[t].client = sess[t].client
      <4>1. conn'[sess[t].client] = conn[sess[t].client]
        BY <1>4, <1>6, <3>1, <3>2, <3>4
      <4> QED
        BY <2>1, <2>4, <3>1, <3>4, <4>1
    <3> QED
      BY <2>2, <3>3, <3>4
  <2> QED
    BY <2>1, <2>3, <2>4
<1>12. DroppedIsOver'
  <2> SUFFICES ASSUME NEW c \in Clients
               PROVE  LET o == conn'[c].owner IN
                      /\ Running(conn'[c]) /\ sess'[o].client # c =>
                             sess'[o].client = None /\ o # mqttsession'
                      /\ conn'[c].todo # {} /\ sess'[o].client = c =>
                             o = mqttsession'
    BY DEF DroppedIsOver
  <2> DEFINE o == conn[c].owner
  <2>1. conn'[c].owner = o
    BY <1>7
  <2>2. ASSUME Running(conn'[c]), sess'[o].client # c
        PROVE  sess'[o].client = None /\ o # mqttsession'
    <3>1. conn'[c] = conn[c] /\ Running(conn[c])
      BY <1>1, <1>4, <2>2
    <3>2. o \in Sessions /\ o # None
      BY <3>1, NumbersUse, NoneIsNoClient
    <3>3. CASE o = s
      <4>1. CASE s = mqttsession /\ mqttsession' = None
        BY <1>2, <3>2, <3>3, <4>1
      <4>2. CASE mqttsession' = mqttsession
                 /\ (a = None \/ conn[a].state = "new")
        <5>1. a # c
          BY <3>1, <4>2, NoneIsNoClient DEF Running
        <5>2. o # mqttsession
          BY <3>1, <3>3, <5>1 DEF LoneInv, DroppedIsOver
        <5> QED
          BY <1>2, <3>2, <3>3, <4>2, <5>2
      <4> QED
        BY <4>1, <4>2
    <3>4. CASE o # s
      <4>1. sess'[o] = sess[o]
        BY <1>2, <3>2, <3>4
      <4> QED
        BY <2>2, <3>1, <3>2, <4>1 DEF LoneInv, DroppedIsOver
    <3> QED
      BY <3>3, <3>4
  <2>3. ASSUME conn'[c].todo # {}, sess'[o].client = c
        PROVE  o = mqttsession'
    <3>1. conn'[c] = conn[c] /\ conn[c].todo # {}
      BY <1>1, <1>4, <2>3
    <3>2. o \in Sessions
      BY <3>1, NumbersUse
    <3>3. o # s /\ sess'[o] = sess[o]
      BY <1>2, <2>3, <3>2, NoneIsNoClient
    <3>4. o = mqttsession
      BY <2>3, <3>1, <3>3 DEF LoneInv, DroppedIsOver
    <3> QED
      BY <3>3, <3>4
  <2> QED
    BY <2>1, <2>2, <2>3
<1> QED
  BY <1>8, <1>9, <1>10, <1>11, <1>12 DEF LoneInv

LEMMA StartSessionKeepsLone ==
    ASSUME MqttInv, MqttInv', LoneInv, NEW j \in Checks, StartSession(j)
    PROVE  LoneInv'
<1> DEFINE s == created.sessions + 1
<1>1. /\ mqttsession = None /\ mqttsession' = s /\ UNCHANGED <<sess, conn>>
      /\ s \in Sessions
      /\ created'.sessions = s /\ created.sessions < s
      /\ created.sessions \in Nat
  <2>1. created.sessions \in Nat /\ created.sessions < MaxSessions
    BY NumbersUse DEF StartSession
  <2>2. s \in Sessions
    BY <2>1, MqttAssumption DEF Sessions
  <2> QED
    BY <2>1, <2>2 DEF StartSession, MqttInv, SessionInv, SessionTypes
<1>2. \A k \in Checks :
          \/ k # j /\ job'[k] = job[k]
          \/ k = j /\ job'[k].pc = "info" /\ job'[k].of = s
  BY DEF StartSession, Goto, MqttInv, ApiInv, ApiTypes, Idle
<1>3. sess[s].client = None /\ sess[s].subscriptions = {}
  BY <1>1, NumbersUse DEF LoneInv, Numbered
<1>4. \A c \in Clients : conn[c].owner # s
  BY <1>1, NumbersUse DEF LoneInv, Numbered
<1> HIDE DEF s
<1>5. EngagedIsCurrent'
  BY <1>1 DEF LoneInv, EngagedIsCurrent, Current
<1>6. OthersWithoutTopics'
  BY <1>1, NoneIsNoClient DEF LoneInv, OthersWithoutTopics
<1>7. Numbered'
  <2>1. \A k \in Checks : job'[k].of <= s
    <3>1. \A k \in Checks : job[k].of <= created.sessions
                            /\ job[k].of \in {None} \cup Sessions
      BY NumbersUse DEF LoneInv, Numbered
    <3>2. s \in Nat /\ {None} \cup Sessions \subseteq Nat
      BY <1>1, NumbersUse
    <3> QED
      BY <1>1, <1>2, <3>1, <3>2
  <2>2. \A c \in Clients : conn[c].owner <= s
    BY <1>1, NumbersUse DEF LoneInv, Numbered
  <2>3. \A t \in Sessions : t > s => t > created.sessions
    BY <1>1, NumbersUse
  <2>4. s <= s
    BY <1>1, NumbersUse
  <2> QED
    BY <1>1, <2>1, <2>2, <2>3, <2>4 DEF LoneInv, Numbered
<1>8. ClientToCome'
  BY <1>1, <1>2, <1>3, <1>4 DEF LoneInv, ClientToCome
<1>9. DroppedIsOver'
  BY <1>1, <1>4, NumbersUse, NoneIsNoClient DEF LoneInv, DroppedIsOver
<1> QED
  BY <1>5, <1>6, <1>7, <1>8, <1>9 DEF LoneInv

LEMMA InfoAnsweredKeepsLone ==
    ASSUME LoneCheck, MqttInv, MqttInv', LoneInv, NEW j \in Checks,
           InfoAnswered(j)
    PROVE  LoneInv'
<1> DEFINE s == job[j].of
           a == created.clients + 1
           k == Anew("new", s)
<1>1. s \in Sessions /\ job[j].pc = "info" /\ s <= created.sessions
  BY ApiUse DEF MqttInv, InfoAnswered, Active, LoneInv, Numbered
<1>2. /\ sess[s].client = None
      /\ \A b \in Clients : Running(conn[b]) => conn[b].owner # s
  BY <1>1 DEF LoneInv, ClientToCome
<1>3. /\ k.owner = s /\ k.state = "new" /\ k.todo = {} /\ ~Engaged(k)
      /\ ~Running(k)
  BY DEF Anew, Engaged, Running
<1>4. \A t \in Sessions : sess[t].client # a
  <2>1. created.clients \in Nat
    BY MqttAssumption DEF MqttInv, SessionInv, SessionTypes
  <2>2. \A t \in Sessions : sess[t].client # None =>
            sess[t].client <= created.clients /\ sess[t].client \in Nat
    BY SessionUse DEF MqttInv, SessionInv, ClientOwned, Clients
  <2>3. a # None
    BY <2>1 DEF None
  <2> QED
    BY <2>1, <2>2, <2>3
<1>5. a \in Clients /\ created'.sessions = created.sessions
      /\ UNCHANGED mqttsession
  BY MqttAssumption DEF InfoAnswered, MqttInv, SessionInv, SessionTypes,
                        Clients, apiVars
<1>6. \A b \in Clients : conn'[b] = IF b = a THEN k ELSE conn[b]
  BY DEF InfoAnswered, MqttInv, SessionInv, SessionTypes
<1>7. \A t \in Sessions :
          /\ t # s => sess'[t] = sess[t]
          /\ t = s => /\ sess'[t].client = a
                      /\ sess'[t].subscriptions = sess[t].subscriptions
  BY SessionUse DEF InfoAnswered, MqttInv, SessionInv, SessionTypes, Session
<1>8. \A i \in Checks : job'[i].pc = "files" /\ job'[i].of = s
  BY <1>1 DEF LoneCheck, InfoAnswered, Goto, Idle, MqttInv, ApiInv, ApiTypes
<1> HIDE DEF s, a, k
<1>9. EngagedIsCurrent'
  <2> SUFFICES ASSUME NEW c \in Clients, Engaged(conn'[c])
               PROVE  conn'[c].state \in ConnectedStates /\ Current(c)'
    BY DEF EngagedIsCurrent
  <2>1. c # a /\ conn'[c] = conn[c]
    BY <1>3, <1>6
  <2>2. conn[c].state \in ConnectedStates /\ Current(c)
    BY <2>1 DEF LoneInv, EngagedIsCurrent
  <2>3. mqttsession \in Sessions /\ mqttsession # s
    BY <1>2, <2>2, ApiUse, NoneIsNoClient DEF MqttInv, Current
  <2> QED
    BY <1>5, <1>7, <2>1, <2>2, <2>3 DEF Current
<1>10. OthersWithoutTopics'
  BY <1>5, <1>7 DEF LoneInv, OthersWithoutTopics
<1>11. Numbered'
  <2>1. \A c \in Clients : conn'[c].owner <= created.sessions
    BY <1>1, <1>3, <1>6 DEF LoneInv, Numbered
  <2>2. \A t \in Sessions : t > created.sessions => t # s
    BY <1>1, NumbersUse
  <2> QED
    BY <1>1, <1>5, <1>7, <1>8, <2>1, <2>2 DEF LoneInv, Numbered
<1>12. ClientToCome'
  BY <1>1, <1>3, <1>5, <1>6, <1>7, <1>8 DEF ClientToCome
<1>13. DroppedIsOver'
  <2> SUFFICES ASSUME NEW c \in Clients
               PROVE  LET o == conn'[c].owner IN
                      /\ Running(conn'[c]) /\ sess'[o].client # c =>
                             sess'[o].client = None /\ o # mqttsession'
                      /\ conn'[c].todo # {} /\ sess'[o].client = c =>
                             o = mqttsession'
    BY DEF DroppedIsOver
  <2>1. CASE c = a
    BY <1>3, <1>6, <2>1
  <2>2. CASE c # a
    <3> DEFINE o == conn[c].owner
    <3>1. conn'[c] = conn[c]
      BY <1>6, <2>2
    <3>2. ASSUME Running(conn[c]), sess'[o].client # c
          PROVE  sess'[o].client = None /\ o # mqttsession
      <4>1. o \in Sessions /\ o # s
        BY <1>2, <3>2, NumbersUse
      <4>2. sess'[o] = sess[o]
        BY <1>7, <4>1
      <4> QED
        BY <3>2, <4>2 DEF LoneInv, DroppedIsOver
    <3>3. ASSUME conn[c].todo # {}, sess'[o].client = c
          PROVE  o = mqttsession
      <4>1. o \in Sessions
        BY <3>3, NumbersUse
      <4>2. o # s
        BY <1>7, <2>2, <3>3, <4>1
      <4>3. sess'[o] = sess[o]
        BY <1>7, <4>1, <4>2
      <4> QED
        BY <3>3, <4>3 DEF LoneInv, DroppedIsOver
    <3> QED
      BY <1>5, <3>1, <3>2, <3>3
  <2> QED
    BY <2>1, <2>2
<1> QED
  BY <1>9, <1>10, <1>11, <1>12, <1>13 DEF LoneInv

----------------------------------------------------------------------------
(* The threads *)

\* A connection that does not change.
LEMMA UntouchedKept ==
    ASSUME LoneInv, NEW c \in Clients, conn'[c] = conn[c]
    PROVE  ConnectionKept(c)
BY DEF LoneInv, EngagedIsCurrent, DroppedIsOver, ConnectionKept

LEMMA SameChecksKept ==
    ASSUME LoneInv, job' = job
    PROVE  \A k \in Checks : CheckKept(k)
BY DEF LoneInv, Numbered, CheckKept

LEMMA OneClientKeeps ==
    ASSUME MqttInv, MqttInv', LoneInv, NEW c \in Clients, NEW k,
           conn' = [conn EXCEPT ![c] = k],
           UNCHANGED <<mqttsession, created, job>>,
           \A s \in Sessions : SessionKept(s),
           k.owner = conn[c].owner, conn[c].state # "new",
           Engaged(k) => k.state \in ConnectedStates /\ Current(c),
           Running(k) => \/ Running(conn[c])
                         \/ sess[conn[c].owner].client = c,
           k.todo # {} /\ sess[conn[c].owner].client = c
               => conn[c].owner = mqttsession
    PROVE  LoneInv'
<1>1. \A b \in Clients : conn'[b] = IF b = c THEN k ELSE conn[b]
  BY DEF MqttInv, SessionInv, SessionTypes
<1>2. ConnectionKept(c)
  BY <1>1 DEF ConnectionKept
<1>3. \A b \in Clients : ConnectionKept(b)
  BY <1>1, <1>2, UntouchedKept
<1> QED
  BY <1>3, SameChecksKept, SameClientsKeep

\* Sessions that keep their client and their topics.
LEMMA SameSessionsKept ==
    ASSUME sess' = sess
    PROVE  \A s \in Sessions : SessionKept(s)
BY DEF SessionKept

LEMMA ThreadKeepsLone ==
    ASSUME MqttInv, MqttInv', LoneInv, NEW c \in Clients,
           Thread(c) \/ Lose(c)
    PROVE  LoneInv'
<1>1. /\ conn[c] \in Connection /\ ConnectionOK(conn[c])
      /\ UNCHANGED <<mqttsession, created, job>>
  BY SessionUse
     DEF MqttInv, SessionInv, Thread, Lose, Connack, OnConnect, Renew, Suback,
         Receive, Merge, apiVars
<1>2. /\ Engaged(conn[c]) =>
             conn[c].state \in ConnectedStates /\ Current(c)
      /\ Running(conn[c]) /\ sess[conn[c].owner].client # c =>
             sess[conn[c].owner].client = None
      /\ conn[c].todo # {} /\ sess[conn[c].owner].client = c =>
             conn[c].owner = mqttsession
  BY DEF LoneInv, EngagedIsCurrent, DroppedIsOver
<1>3. CASE Connack(c)
  <2> DEFINE k == [conn[c] EXCEPT !.state = "accepted"]
  <2>1. conn' = [conn EXCEPT ![c] = k] /\ sess' = sess
    BY <1>3 DEF Connack
  <2>2. conn[c].state = "connecting"
    BY <1>3 DEF Connack, InState
  <2>3. /\ k.owner = conn[c].owner /\ k.state = "accepted" /\ ~Engaged(k)
        /\ k.todo = conn[c].todo /\ Running(conn[c])
    BY <1>1, <1>2, <2>2 DEF Connection, Engaged, ConnectedStates, Running
  <2> HIDE DEF k
  <2> QED
    BY <1>1, <1>2, <2>1, <2>2, <2>3, SameSessionsKept, OneClientKeeps
<1>4. CASE OnConnect(c)
  <2> DEFINE topics == sess[conn[c].owner].subscriptions
             state == IF topics = {} THEN "up" ELSE "renew"
             k == [conn[c] EXCEPT !.state = state, !.todo = topics,
                                  !.size = Cardinality(topics)]
  <2>1. conn' = [conn EXCEPT ![c] = k] /\ sess' = sess
    BY <1>1, <1>4 DEF OnConnect, Connection
  <2>2. conn[c].state = "accepted"
    BY <1>4 DEF OnConnect, InState
  <2>3. conn[c].owner \in Sessions
    BY <2>2, NumbersUse DEF Running
  <2>4. topics # {} => conn[c].owner = mqttsession
    BY <2>3 DEF LoneInv, OthersWithoutTopics
  <2> HIDE DEF topics
  <2>5. /\ k.owner = conn[c].owner /\ k.state \in {"up", "renew"}
        /\ Engaged(k) <=> Engaged(conn[c])
        /\ k.todo = topics /\ Running(conn[c])
    BY <1>1, <2>2 DEF Connection, Engaged, Running
  <2> HIDE DEF k, state
  <2>6. k.state \in ConnectedStates
    BY <2>5 DEF ConnectedStates
  <2> QED
    BY <1>1, <1>2, <2>1, <2>2, <2>4, <2>5, <2>6, SameSessionsKept,
       OneClientKeeps
<1>5. CASE Renew(c)
  <2> DEFINE t == sess[conn[c].owner].client
             done(d) == [conn EXCEPT ![c].todo = @ \ {d}]
  <2>1. conn[c].state = "renew" /\ Running(conn[c]) /\ sess' = sess
    BY <1>5 DEF Renew, InState, Running
  <2>2. CASE conn' = [conn EXCEPT ![c].state = "dead", ![c].todo = {}]
    <3> DEFINE k == [conn[c] EXCEPT !.state = "dead", !.todo = {}]
    <3>1. conn' = [conn EXCEPT ![c] = k]
      BY <1>1, <2>2 DEF Connection
    <3>2. /\ k.owner = conn[c].owner /\ k.state \in ConnectedStates
          /\ Engaged(k) <=> Engaged(conn[c])
          /\ k.todo = {}
      BY <1>1 DEF Connection, Engaged, ConnectedStates
    <3> HIDE DEF k
    <3> QED
      BY <1>1, <1>2, <2>1, <3>1, <3>2, SameSessionsKept, OneClientKeeps
  <2>3. ASSUME NEW d \in conn[c].todo,
               conn' = IF ClientConnected(t)
                       THEN [done(d) EXCEPT ![t].sending = @ \cup {d}]
                       ELSE done(d)
        PROVE  LoneInv'
    <3>1. CASE ClientConnected(t)
      <4> DEFINE k == [conn[c] EXCEPT !.todo = @ \ {d},
                                      !.sending = @ \cup {d}]
      <4>1. t = c /\ Current(c)
        <5>1. t # None
          BY <3>1 DEF ClientConnected, InState
        <5>2. t = c /\ conn[c].owner = mqttsession
          BY <1>2, <2>1, <2>3, <5>1
        <5>3. mqttsession # None
          BY <2>1, <5>2, NumbersUse, NoneIsNoClient
        <5> QED
          BY <5>2, <5>3 DEF Current
      <4>2. conn' = [done(d) EXCEPT ![c].sending = @ \cup {d}]
        BY <2>3, <3>1, <4>1
      <4>3. done(d) = [conn EXCEPT ![c] = [conn[c] EXCEPT !.todo = @ \ {d}]]
        OBVIOUS
      <4>4. conn' = [conn EXCEPT ![c] = k]
        BY <1>1, <4>2, <4>3 DEF Connection, MqttInv, SessionInv, SessionTypes
      <4>5. /\ k.owner = conn[c].owner /\ k.state \in ConnectedStates
            /\ k.todo # {} => conn[c].todo # {}
        BY <1>1, <2>1 DEF Connection, ConnectedStates
      <4> HIDE DEF k, t
      <4> QED
        BY <1>1, <1>2, <2>1, <4>1, <4>4, <4>5, SameSessionsKept,
           OneClientKeeps
    <3>2. CASE ~ClientConnected(t)
      <4> DEFINE k == [conn[c] EXCEPT !.todo = @ \ {d}]
      <4>1. conn' = [conn EXCEPT ![c] = k]
        BY <2>3, <3>2
      <4>2. /\ k.owner = conn[c].owner /\ k.state \in ConnectedStates
            /\ Engaged(k) <=> Engaged(conn[c])
            /\ k.todo # {} => conn[c].todo # {}
        BY <1>1, <2>1 DEF Connection, ConnectedStates, Engaged
      <4> HIDE DEF k, t
      <4> QED
        BY <1>1, <1>2, <2>1, <4>1, <4>2, SameSessionsKept, OneClientKeeps
    <3> QED
      BY <3>1, <3>2
  <2>4. CASE conn[c].todo = {} /\ conn' = [conn EXCEPT ![c].state = "up"]
    <3> DEFINE k == [conn[c] EXCEPT !.state = "up"]
    <3>1. conn' = [conn EXCEPT ![c] = k]
      BY <2>4
    <3>2. /\ k.owner = conn[c].owner /\ k.state \in ConnectedStates
          /\ Engaged(k) <=> Engaged(conn[c])
          /\ k.todo = {}
      BY <1>1, <2>4 DEF Connection, ConnectedStates, Engaged
    <3> HIDE DEF k
    <3> QED
      BY <1>1, <1>2, <2>1, <3>1, <3>2, SameSessionsKept, OneClientKeeps
  <2> QED
    BY <1>5, <2>2, <2>3, <2>4 DEF Renew
<1>6. CASE Suback(c)
  <2>1. PICK d \in conn[c].sending :
            conn' = [conn EXCEPT ![c].sending = @ \ {d},
                                 ![c].granted = @ \cup ({d} \ Refused)]
    BY <1>6 DEF Suback
  <2> DEFINE k == [conn[c] EXCEPT !.sending = @ \ {d},
                                  !.granted = @ \cup ({d} \ Refused)]
  <2>2. conn' = [conn EXCEPT ![c] = k] /\ sess' = sess
    BY <1>1, <1>6, <2>1 DEF Suback, Connection
  <2>3. conn[c].state = "up" /\ Engaged(conn[c]) /\ Running(conn[c])
    BY <1>6, <2>1 DEF Suback, InState, Engaged, Running
  <2>4. k.owner = conn[c].owner /\ k.state = "up" /\ k.todo = conn[c].todo
    BY <1>1, <2>3 DEF Connection
  <2> HIDE DEF k
  <2> QED
    BY <1>1, <1>2, <2>2, <2>3, <2>4, SameSessionsKept, OneClientKeeps
       DEF ConnectedStates
<1>7. CASE Receive(c)
  <2> DEFINE s == conn[c].owner
             k == IF sess[s].callback THEN [conn[c] EXCEPT !.state = "merge"]
                  ELSE [conn[c] EXCEPT !.inbox = Tail(@)]
  <2>1. conn[c].state = "up" /\ Engaged(conn[c]) /\ Running(conn[c])
    BY <1>7 DEF Receive, InState, Engaged, Running
  <2>2. conn' = [conn EXCEPT ![c] = k]
    BY <1>7 DEF Receive
  <2>3. /\ k.owner = conn[c].owner /\ k.state \in ConnectedStates
        /\ k.todo = conn[c].todo
    BY <1>1, <2>1 DEF Connection, ConnectedStates
  <2>4. \A r \in Sessions : SessionKept(r)
    <3>1. \A r \in Sessions : sess[r] \in Session
      BY SessionUse DEF MqttInv
    <3> QED
      BY <1>7, <3>1 DEF Receive, SessionKept, Session, MqttInv, SessionInv,
                        SessionTypes
  <2> HIDE DEF k
  <2> QED
    BY <1>1, <1>2, <2>1, <2>2, <2>3, <2>4, OneClientKeeps
<1>8. CASE Merge(c)
  <2> DEFINE k == [conn[c] EXCEPT !.state = "up", !.inbox = Tail(@)]
  <2>1. conn[c].state = "merge" /\ Engaged(conn[c]) /\ Running(conn[c])
    BY <1>1, <1>8 DEF Merge, InState, Engaged, Running, ConnectionOK
  <2>2. conn' = [conn EXCEPT ![c] = k] /\ sess' = sess
    BY <1>1, <1>8 DEF Merge, Connection
  <2>3. k.owner = conn[c].owner /\ k.state = "up" /\ k.todo = conn[c].todo
    BY <1>1 DEF Connection
  <2> HIDE DEF k
  <2> QED
    BY <1>1, <1>2, <2>1, <2>2, <2>3, SameSessionsKept, OneClientKeeps
       DEF ConnectedStates
<1>9. CASE Lose(c)
  <2> DEFINE k == [conn[c] EXCEPT !.state = "connecting", !.sending = {},
                                  !.granted = {}, !.inbox = <<>>]
  <2>1. conn[c].state = "up" /\ Running(conn[c])
    BY <1>9 DEF Lose, InState, Running
  <2>2. conn' = [conn EXCEPT ![c] = k] /\ sess' = sess
    BY <1>1, <1>9 DEF Lose, Connection
  <2>3. k.owner = conn[c].owner /\ ~Engaged(k) /\ k.todo = conn[c].todo
    BY <1>1 DEF Connection, Engaged
  <2> HIDE DEF k
  <2> QED
    BY <1>1, <1>2, <2>1, <2>2, <2>3, SameSessionsKept, OneClientKeeps
<1> QED
  BY <1>3, <1>4, <1>5, <1>6, <1>7, <1>8, <1>9 DEF Thread

----------------------------------------------------------------------------
(* Checks and other jobs *)

LEMMA CalmKeeps ==
    ASSUME MqttInv, MqttInv', LoneInv,
           UNCHANGED <<mqttsession, created, sess, conn>>,
           \A k \in Checks : CheckKept(k)
    PROVE  LoneInv'
BY UntouchedKept, SameSessionsKept, SameClientsKeep

\* A check goes on, to something else than "info" or "files", or ends.
LEMMA CheckMoves ==
    ASSUME MqttInv, LoneInv, NEW j \in Checks, NEW q,
           job' = [job EXCEPT ![j] = q],
           q.pc \notin {"info", "files"}, q.of <= created.sessions
    PROVE  \A k \in Checks : CheckKept(k)
BY DEF LoneInv, Numbered, CheckKept, MqttInv, ApiInv, ApiTypes

LEMMA CheckEnds ==
    ASSUME MqttInv, LoneInv, NEW j \in Checks, End(j)
    PROVE  \A k \in Checks : CheckKept(k)
<1>1. Idle.pc = "idle" /\ Idle.of <= created.sessions
  BY NumbersUse DEF Idle
<1> HIDE DEF Idle
<1> QED
  BY <1>1, CheckMoves DEF End

LEMMA CheckLoops ==
    ASSUME MqttInv, LoneInv, NEW j \in Checks,
           NEW pc \in {"subscribe", "resubscribe"}, NEW devs,
           Loop(j, pc, devs)
    PROVE  \A k \in Checks : CheckKept(k)
<1> DEFINE q == [pc |-> pc, of |-> mqttsession, todo |-> devs, devs |-> devs]
<1>1. q.pc \notin {"info", "files"} /\ q.of <= created.sessions
  BY DEF LoneInv, Numbered
<1>2. job' = [job EXCEPT ![j] = q]
  BY DEF Loop
<1> HIDE DEF q
<1> QED
  BY <1>1, <1>2, CheckMoves

LEMMA CheckHandles ==
    ASSUME MqttInv, LoneInv, NEW j \in Checks, NEW d, Handled(j, d),
           Looping(j)
    PROVE  \A k \in Checks : CheckKept(k)
<1> DEFINE q == [job[j] EXCEPT !.todo = @ \ {d}]
<1>1. q.pc = job[j].pc /\ q.of = job[j].of
  BY ApiUse DEF MqttInv, Check
<1>2. q.pc \notin {"info", "files"} /\ q.of <= created.sessions
  BY <1>1 DEF LoneInv, Numbered, Looping
<1>3. job' = [job EXCEPT ![j] = q]
  BY DEF Handled
<1> HIDE DEF q
<1> QED
  BY <1>2, <1>3, CheckMoves

LEMMA CheckGoes ==
    ASSUME MqttInv, LoneInv, NEW j \in Checks, NEW pc \in {"tls", "wait"},
           NEW s, s <= created.sessions, Goto(j, pc, s)
    PROVE  \A k \in Checks : CheckKept(k)
<1> DEFINE q == [Idle EXCEPT !.pc = pc, !.of = s]
<1>1. q.pc \notin {"info", "files"} /\ q.of <= created.sessions
  BY DEF Idle
<1>2. job' = [job EXCEPT ![j] = q]
  BY DEF Goto
<1> HIDE DEF q
<1> QED
  BY <1>1, <1>2, CheckMoves

\* The client a lone check connects is that of its session, and not connected.
LEMMA ConnectKeepsLone ==
    ASSUME LoneCheck, MqttInv, MqttInv', LoneInv, NEW j \in Checks,
           NEW s \in Sessions, sess[s].client # None,
           ~ClientConnected(sess[s].client), Connect(sess[s].client),
           Goto(j, "wait", s), s <= created.sessions,
           UNCHANGED <<mqttsession, created, sess>>
    PROVE  LoneInv'
<1> DEFINE c == sess[s].client
           k == [conn[c] EXCEPT !.state = "connecting"]
<1>1. c \in Clients /\ conn[c] \in Connection /\ conn[c].owner = s
  BY SessionUse DEF MqttInv, SessionInv, ClientOwned
<1>2. conn' = [conn EXCEPT ![c] = k]
  BY DEF Connect
<1>3. conn[c].state \notin ConnectedStates
  BY DEF ClientConnected, InState, ConnectedStates
<1>4. ~Engaged(conn[c])
  BY <1>1, <1>3 DEF LoneInv, EngagedIsCurrent
<1>5. k.owner = s /\ k.state = "connecting" /\ k.todo = conn[c].todo
      /\ ~Engaged(k)
  BY <1>1, <1>4 DEF Connection, Engaged
<1>6. \A b \in Clients : conn'[b] = IF b = c THEN k ELSE conn[b]
  BY <1>2 DEF MqttInv, SessionInv, SessionTypes
<1>7. \A i \in Checks : job'[i].pc # "files"
  BY DEF LoneCheck, Goto, Idle, MqttInv, ApiInv, ApiTypes
<1> HIDE DEF k
<1>8. ConnectionKept(c)
  BY <1>1, <1>5, <1>6, <1>7 DEF ConnectionKept, LoneInv, DroppedIsOver
<1>9. \A b \in Clients : ConnectionKept(b)
  <2> HIDE DEF c
  <2> QED
    BY <1>6, <1>8, UntouchedKept
<1>10. \A i \in Checks : CheckKept(i)
  BY CheckGoes
<1> QED
  BY <1>9, <1>10, SameSessionsKept, SameClientsKeep

\* Topics are only added to the api's session, on its connected client.
LEMMA SubscribeKeepsLone ==
    ASSUME MqttInv, MqttInv', LoneInv, NEW d \in Devices,
           SubscribeSends(mqttsession, d) \/ SubscribeFails(mqttsession, d),
           IsConnected(mqttsession), UNCHANGED <<mqttsession, created>>,
           \A k \in Checks : CheckKept(k)
    PROVE  LoneInv'
<1>1. CASE UNCHANGED <<sess, conn>>
  BY <1>1, CalmKeeps
<1> DEFINE s == mqttsession
           c == sess[s].client
           k == [conn[c] EXCEPT !.sending = @ \cup {d}]
<1>2. CASE /\ sess' = [sess EXCEPT ![s].subscriptions = @ \cup {d}]
           /\ conn' = [conn EXCEPT ![c].sending = @ \cup {d}]
  <2>1. /\ s \in Sessions /\ c \in Clients /\ conn[c] \in Connection
        /\ conn[c].state \in ConnectedStates /\ Current(c)
    BY SessionUse, ApiUse
       DEF MqttInv, IsConnected, ClientConnected, InState, ConnectedStates,
           Current
  <2>2. /\ k.owner = conn[c].owner /\ k.state = conn[c].state
        /\ k.todo = conn[c].todo
    BY <2>1 DEF Connection
  <2>3. \A t \in Sessions : SessionKept(t)
    BY <1>2, SessionUse DEF SessionKept, MqttInv, SessionInv, SessionTypes,
                            Session
  <2>4. \A b \in Clients : conn'[b] = IF b = c THEN k ELSE conn[b]
    BY <1>2 DEF MqttInv, SessionInv, SessionTypes
  <2> HIDE DEF k
  <2>5. ConnectionKept(c)
    BY <2>1, <2>2, <2>4
       DEF ConnectionKept, LoneInv, DroppedIsOver, Running
  <2>6. \A b \in Clients : ConnectionKept(b)
    <3> HIDE DEF c
    <3> QED
      BY <2>4, <2>5, UntouchedKept
  <2> QED
    BY <2>3, <2>6, SameClientsKeep
<1> QED
  BY <1>1, <1>2 DEF SubscribeSends, SubscribeFails

LEMMA GiveUpKeepsLone ==
    ASSUME MqttInv, MqttInv', LoneInv, NEW j \in Checks, GiveUp(j),
           UNCHANGED created
    PROVE  LoneInv'
<1>1. \A k \in Checks : CheckKept(k)
  BY CheckEnds DEF GiveUp
<1>2. CASE mqttsession = None
  BY <1>1, <1>2, CalmKeeps DEF GiveUp
<1>3. CASE mqttsession # None
  <2>1. mqttsession \in Sessions /\ mqttsession <= created.sessions
    BY <1>3, ApiUse DEF MqttInv, LoneInv, Numbered
  <2>2. Cleanup(mqttsession) /\ mqttsession' = None
    BY <1>3 DEF GiveUp
  <2>3. \A k \in Checks :
            /\ job'[k].of <= created.sessions
            /\ job'[k].pc \in {"info", "files"} =>
                   job'[k].of = job[k].of /\ job'[k].pc = job[k].pc
    <3>1. Idle.pc = "idle"
      BY DEF Idle
    <3> QED
      BY <1>1, <3>1 DEF GiveUp, End, CheckKept, MqttInv, ApiInv, ApiTypes
  <2> QED
    BY <2>1, <2>2, <2>3, CleanupKeepsLone
<1> QED
  BY <1>2, <1>3

LEMMA ProceedKeepsLone ==
    ASSUME MqttInv, MqttInv', LoneInv, NEW j \in Checks, Proceed(j),
           UNCHANGED created
    PROVE  LoneInv'
<1>1. \A k \in Checks : CheckKept(k)
  BY CheckLoops DEF Proceed
<1>2. \A s \in Sessions : SessionKept(s)
  BY SessionUse DEF Proceed, SessionKept, MqttInv, SessionInv, SessionTypes,
                    Session
<1>3. conn' = conn /\ mqttsession' = mqttsession
  BY DEF Proceed, apiVars
<1> QED
  BY <1>1, <1>2, <1>3, UntouchedKept, SameClientsKeep

LEMMA CreateFailsKeepsLone ==
    ASSUME MqttInv, MqttInv', LoneInv, NEW j \in Checks,
           job[j].pc \in {"info", "files"}, CreateFails(j)
    PROVE  LoneInv'
<1> DEFINE s == job[j].of
<1>1. s \in Sessions /\ s <= created.sessions
  BY ApiUse DEF MqttInv, LoneInv, Numbered
<1>2. sess[s].client = None \/ conn[sess[s].client].state = "new"
  BY DEF LoneInv, ClientToCome
<1>3. \A k \in Checks :
          /\ job'[k].of <= created.sessions
          /\ job'[k].pc \in {"info", "files"} =>
                 job'[k].of = job[k].of /\ job'[k].pc = job[k].pc
  <2>1. Idle.pc = "idle" /\ \A k \in Checks : CheckKept(k)
    BY CheckEnds DEF Idle, CreateFails
  <2> QED
    BY <2>1 DEF CreateFails, End, CheckKept, MqttInv, ApiInv, ApiTypes
<1>4. Cleanup(s) /\ mqttsession' = mqttsession /\ created' = created
  BY DEF CreateFails, apiVars
<1> QED
  BY <1>1, <1>2, <1>3, <1>4, CleanupKeepsLone

LEMMA StopSessionKeepsLone ==
    ASSUME MqttInv, MqttInv', LoneInv, StopSession, job' = job,
           UNCHANGED created
    PROVE  LoneInv'
<1>1. CASE mqttsession = None
  BY <1>1, SameChecksKept, CalmKeeps DEF StopSession
<1>2. CASE mqttsession # None
  <2>1. mqttsession \in Sessions /\ mqttsession <= created.sessions
        /\ \A k \in Checks : job[k].of <= created.sessions
    BY <1>2, ApiUse DEF MqttInv, LoneInv, Numbered
  <2> QED
    BY <1>2, <2>1, CleanupKeepsLone DEF StopSession
<1> QED
  BY <1>1, <1>2

LEMMA StartKeepsLone ==
    ASSUME LoneCheck, MqttInv, MqttInv', LoneInv, NEW j \in Checks, Start(j)
    PROVE  LoneInv'
<1>1. CASE StartSession(j)
  BY <1>1, StartSessionKeepsLone
<1>2. CASE RestartSession(j)
  <2>1. /\ mqttsession \in Sessions /\ mqttsession <= created.sessions
        /\ ~IsConnected(mqttsession)
        /\ UNCHANGED <<mqttsession, created, sess>>
    BY <1>2, ApiUse DEF MqttInv, LoneInv, Numbered, RestartSession, apiVars
  <2>2. CASE sess[mqttsession].client = None
    <3>1. Goto(j, "info", mqttsession) /\ conn' = conn
      BY <1>2, <2>2 DEF RestartSession
    <3>2. [Idle EXCEPT !.pc = "info", !.of = mqttsession].pc = "info"
          /\ [Idle EXCEPT !.pc = "info", !.of = mqttsession].of = mqttsession
      BY DEF Idle
    <3>3. \A k \in Checks : CheckKept(k)
      BY <2>1, <2>2, <3>1, <3>2, NoneIsNoClient
         DEF Goto, CheckKept, LoneInv, Numbered, MqttInv, ApiInv, ApiTypes
    <3> QED
      BY <2>1, <3>1, <3>3, CalmKeeps
  <2>3. CASE sess[mqttsession].client # None
    <3>1. ~ClientConnected(sess[mqttsession].client)
      BY <2>1, NoneIsNoClient DEF IsConnected
    <3> QED
      BY <1>2, <2>1, <2>3, <3>1, ConnectKeepsLone DEF RestartSession
  <2> QED
    BY <2>2, <2>3
<1>3. CASE CheckSubscriptions(j)
  <2>1. \A k \in Checks : CheckKept(k)
    BY <1>3, CheckLoops DEF CheckSubscriptions
  <2> QED
    BY <1>3, <2>1, CalmKeeps DEF CheckSubscriptions, apiVars
<1> QED
  BY <1>1, <1>2, <1>3 DEF Start

LEMMA FilesWrittenKeepsLone ==
    ASSUME LoneCheck, MqttInv, MqttInv', LoneInv, NEW j \in Checks,
           FilesWritten(j)
    PROVE  LoneInv'
<1> DEFINE s == job[j].of
           c == sess[s].client
           k == [conn[c] EXCEPT !.tls = TRUE]
<1>1. s \in Sessions /\ s <= created.sessions /\ job[j].pc = "files"
  BY ApiUse DEF MqttInv, FilesWritten, Active, LoneInv, Numbered
<1>2. CASE /\ WithoutTls(c)
           /\ conn' = [conn EXCEPT ![c].tls = TRUE]
           /\ Goto(j, "tls", s)
           /\ UNCHANGED <<apiVars, sess, created, sent>>
  <2>1. c \in Clients /\ conn[c] \in Connection
    BY <1>1, <1>2, SessionUse DEF WithoutTls, MqttInv
  <2>2. /\ k.owner = conn[c].owner /\ k.state = conn[c].state
        /\ k.todo = conn[c].todo
        /\ Engaged(k) <=> Engaged(conn[c])
    BY <2>1 DEF Connection, Engaged
  <2>3. \A b \in Clients : conn'[b] = IF b = c THEN k ELSE conn[b]
    BY <1>2 DEF MqttInv, SessionInv, SessionTypes
  <2> HIDE DEF k, c
  <2>4. ConnectionKept(c)
    BY <2>1, <2>2, <2>3
       DEF ConnectionKept, LoneInv, EngagedIsCurrent, DroppedIsOver, Running
  <2>5. \A b \in Clients : ConnectionKept(b)
    BY <2>3, <2>4, UntouchedKept
  <2>6. \A i \in Checks : CheckKept(i)
    BY <1>1, <1>2, CheckGoes
  <2> QED
    BY <1>2, <2>5, <2>6, SameSessionsKept, SameClientsKeep DEF apiVars
<1>3. CASE CreateFails(j)
  BY <1>1, <1>3, CreateFailsKeepsLone
<1> QED
  BY <1>2, <1>3 DEF FilesWritten

LEMMA StepKeepsLone ==
    ASSUME LoneCheck, MqttInv, MqttInv', LoneInv, NEW j \in Checks, Step(j)
    PROVE  LoneInv'
<1>1. CASE InfoAnswered(j)
  BY <1>1, InfoAnsweredKeepsLone
<1>2. CASE FilesWritten(j)
  BY <1>2, FilesWrittenKeepsLone
<1>3. CASE TlsSet(j)
  <2> DEFINE c == sess[job[j].of].client
  <2>1. job[j].of \in Sessions /\ job[j].of <= created.sessions
        /\ created' = created
    BY <1>3, ApiUse DEF MqttInv, TlsSet, Active, LoneInv, Numbered
  <2>2. CASE c = None
    BY <1>3, <2>1, <2>2, GiveUpKeepsLone, ProceedKeepsLone DEF TlsSet
  <2>3. CASE c # None /\ ClientConnected(c)
    <3>1. \A k \in Checks : CheckKept(k)
      BY <1>3, <2>1, <2>3, CheckGoes DEF TlsSet
    <3> QED
      BY <1>3, <2>1, <2>3, <3>1, CalmKeeps DEF TlsSet, apiVars
  <2>4. CASE c # None /\ ~ClientConnected(c)
    BY <1>3, <2>1, <2>4, ConnectKeepsLone DEF TlsSet, apiVars
  <2> QED
    BY <2>2, <2>3, <2>4
<1>4. CASE Connected(j)
  <2> DEFINE c == sess[job[j].of].client
  <2>1. created' = created
    BY <1>4 DEF Connected
  <2>2. CASE c = None
    <3>1. \A k \in Checks : CheckKept(k)
      BY <1>4, <2>2, CheckEnds DEF Connected
    <3> QED
      BY <1>4, <2>2, <3>1, CalmKeeps DEF Connected, apiVars
  <2>3. CASE c # None
    BY <1>4, <2>1, <2>3, GiveUpKeepsLone, ProceedKeepsLone DEF Connected
  <2> QED
    BY <2>2, <2>3
<1>5. CASE SubscribeDevice(j)
  <2>1. PICK d \in job[j].todo :
            /\ Handled(j, d)
            /\ IF IsConnected(mqttsession)
               THEN SubscribeSends(mqttsession, d)
                    \/ SubscribeFails(mqttsession, d)
               ELSE UNCHANGED <<sess, conn>>
    BY <1>5 DEF SubscribeDevice
  <2>2. \A k \in Checks : CheckKept(k)
    BY <1>5, <2>1, CheckHandles DEF SubscribeDevice, Active, Looping
  <2>3. d \in Devices /\ UNCHANGED <<mqttsession, created>>
    BY <1>5, ApiUse DEF MqttInv, SubscribeDevice, apiVars
  <2> QED
    BY <2>1, <2>2, <2>3, SubscribeKeepsLone, CalmKeeps
<1>6. CASE Resubscribe(j)
  <2>1. PICK d \in job[j].todo :
            /\ Handled(j, d)
            /\ \/ /\ IsConnected(mqttsession)
                  /\ SubscribeSends(mqttsession, d)
               \/ /\ IsConnected(mqttsession)
                  /\ SubscribeFails(mqttsession, d)
               \/ UNCHANGED <<sess, conn>>
    BY <1>6 DEF Resubscribe
  <2>2. \A k \in Checks : CheckKept(k)
    BY <1>6, <2>1, CheckHandles DEF Resubscribe, Active, Looping
  <2>3. d \in Devices /\ UNCHANGED <<mqttsession, created>>
    BY <1>6, ApiUse DEF MqttInv, Resubscribe
  <2> QED
    BY <2>1, <2>2, <2>3, SubscribeKeepsLone, CalmKeeps
<1>7. CASE CreateDevices(j) \/ Resubscribed(j)
  <2>1. \A k \in Checks : CheckKept(k)
    BY <1>7, CheckEnds DEF CreateDevices, Resubscribed
  <2> QED
    BY <1>7, <2>1, CalmKeeps DEF CreateDevices, Resubscribed, apiVars
<1> QED
  BY <1>1, <1>2, <1>3, <1>4, <1>5, <1>6, <1>7 DEF Step

LEMMA FaultKeepsLone ==
    ASSUME MqttInv, MqttInv', LoneInv, NEW j \in Checks,
           RequestFails(j) \/ NoServer(j) \/ TimedOut(j)
    PROVE  LoneInv'
<1>1. CASE RequestFails(j)
  BY <1>1, CreateFailsKeepsLone DEF RequestFails, Active
<1>2. CASE NoServer(j)
  BY <1>2, GiveUpKeepsLone DEF NoServer
<1>3. CASE TimedOut(j)
  BY <1>3, GiveUpKeepsLone, ProceedKeepsLone DEF TimedOut
<1> QED
  BY <1>1, <1>2, <1>3

LEMMA CacheKeepsLone ==
    ASSUME MqttInv, MqttInv', LoneInv,
           \/ Disable \/ Enable \/ ClearCaches
           \/ \E d \in Devices :
                  RecycleDevice(d) \/ FindDevice(d) \/ RemoveDevice(d)
           \/ UNCHANGED vars
    PROVE  LoneInv'
<1>1. CASE Disable
  BY <1>1, StopSessionKeepsLone DEF Disable
<1>2. CASE ClearCaches
  BY <1>2, StopSessionKeepsLone DEF ClearCaches
<1>3. CASE UNCHANGED <<mqttsession, created, sess, conn, job>>
  BY <1>3, SameChecksKept, CalmKeeps
<1> QED
  BY <1>1, <1>2, <1>3
     DEF Enable, RecycleDevice, FindDevice, RemoveDevice, vars, apiVars

LEMMA SendKeepsLone ==
    ASSUME MqttInv, MqttInv', LoneInv, NEW d \in Devices, Send(d)
    PROVE  LoneInv'
<1>1. ASSUME NEW c \in Clients
      PROVE  ConnectionKept(c)
  <2> DEFINE k == [conn[c] EXCEPT !.inbox = Append(@, <<d, sent + 1>>)]
  <2>1. CASE d \in conn[c].granted
    <3>1. conn[c] \in Connection
      BY SessionUse DEF MqttInv
    <3>2. conn'[c] = k
      BY <2>1 DEF Send
    <3>3. /\ k.owner = conn[c].owner /\ k.state = conn[c].state
          /\ k.todo = conn[c].todo /\ Engaged(conn[c])
      BY <2>1, <3>1 DEF Connection, Engaged
    <3> HIDE DEF k
    <3> QED
      BY <3>2, <3>3
         DEF ConnectionKept, LoneInv, EngagedIsCurrent, DroppedIsOver, Running
  <2>2. CASE d \notin conn[c].granted
    BY <2>2, UntouchedKept DEF Send
  <2> QED
    BY <2>1, <2>2
<1>2. UNCHANGED <<mqttsession, created, sess, job>>
  BY DEF Send, apiVars
<1> QED
  BY <1>1, <1>2, SameChecksKept, SameSessionsKept, SameClientsKeep

LEMMA NextKeepsLone ==
    ASSUME LoneCheck, MqttInv, MqttInv', LoneInv, [Next]_vars
    PROVE  LoneInv'
BY StartKeepsLone, StepKeepsLone, FaultKeepsLone, ThreadKeepsLone,
   CacheKeepsLone, SendKeepsLone DEF Next

LEMMA InitLone == Init => LoneInv
<1> SUFFICES ASSUME Init PROVE LoneInv
  OBVIOUS
<1>1. /\ NoConnection.granted = {} /\ NoConnection.sending = {}
      /\ NoConnection.inbox = <<>> /\ NoConnection.state = "none"
      /\ NoConnection.todo = {} /\ NoConnection.owner = None
  BY DEF NoConnection, Anew
<1>2. NewSession.client = None /\ NewSession.subscriptions = {}
  BY DEF NewSession
<1>3. Idle.pc = "idle" /\ Idle.of = None
  BY DEF Idle
<1>4. \A c \in Clients : ~Engaged(conn[c]) /\ ~Running(conn[c])
                         /\ conn[c].todo = {} /\ conn[c].owner = None
  BY <1>1 DEF Init, Engaged, Running
<1>5. created.sessions = 0 /\ None <= 0
  BY DEF Init, None
<1>6. EngagedIsCurrent /\ DroppedIsOver
  BY <1>4 DEF EngagedIsCurrent, DroppedIsOver
<1>7. OthersWithoutTopics
  BY <1>2 DEF Init, OthersWithoutTopics
<1>8. Numbered
  BY <1>2, <1>3, <1>4, <1>5 DEF Init, Numbered
<1>9. ClientToCome
  BY <1>3 DEF Init, ClientToCome
<1> QED
  BY <1>6, <1>7, <1>8, <1>9 DEF LoneInv

----------------------------------------------------------------------------
(* The order of messages and values *)

\* Only a merge sets values, and only a device adds messages.
InboxKept(c) ==
    \/ conn'[c].inbox = conn[c].inbox
    \/ conn'[c].inbox = <<>>
    \/ conn[c].inbox # <<>> /\ conn'[c].inbox = Tail(conn[c].inbox)
ValueKept(d) == data'[d] = data[d] \/ data'[d] = 0
NothingNew ==
    /\ sent' = sent /\ \A c \in Clients : InboxKept(c)
    /\ \A d \in Devices : ValueKept(d)

LEMMA TailItems ==
    ASSUME NEW S, NEW s \in Seq(S), s # <<>>
    PROVE  /\ Len(s) \in Nat \ {0} /\ Len(Tail(s)) = Len(s) - 1
           /\ \A i \in 1..Len(Tail(s)) :
                  /\ Tail(s)[i] = s[i + 1] /\ i + 1 \in 1..Len(s)
OBVIOUS

\* The messages on their way, with their numbers.
LEMMA InboxItems ==
    ASSUME MqttInv
    PROVE  /\ sent \in Nat /\ \A d \in Devices : data[d] \in Nat
           /\ \A c \in Clients : /\ conn[c].inbox \in Seq(Messages)
                                 /\ Len(conn[c].inbox) \in Nat
                                 /\ \A i \in 1..Len(conn[c].inbox) :
                                        conn[c].inbox[i][2] \in Nat \ {0}
<1>1. sent \in Nat /\ \A d \in Devices : data[d] \in Nat
  BY MqttAssumption DEF MqttInv, SessionInv, SessionTypes, ApiInv, ApiTypes
<1>2. ASSUME NEW c \in Clients
      PROVE  /\ conn[c].inbox \in Seq(Messages)
             /\ Len(conn[c].inbox) \in Nat
             /\ \A i \in 1..Len(conn[c].inbox) :
                    conn[c].inbox[i][2] \in Nat \ {0}
  <2>1. conn[c].inbox \in Seq(Messages)
    BY SessionUse DEF MqttInv, Connection
  <2>2. \A i \in 1..Len(conn[c].inbox) : conn[c].inbox[i] \in Messages
    BY <2>1
  <2>3. \A m \in Messages : m[2] \in Nat \ {0}
    BY DEF Messages
  <2> QED
    BY <2>1, <2>2, <2>3
<1> QED
  BY <1>1, <1>2

LEMMA QuietOrder ==
    ASSUME MqttInv, InOrder, NothingNew
    PROVE  InOrder'
<1>1. \A d \in Devices : data'[d] <= data[d] /\ data'[d] \in Nat
                         /\ data'[d] <= sent
  BY InboxItems DEF NothingNew, ValueKept, InOrder
<1>2. ASSUME NEW c \in Clients, NEW i \in 1..Len(conn'[c].inbox)
      PROVE  /\ conn'[c].inbox[i][2] <= sent
             /\ \A d \in Devices : data'[d] < conn'[c].inbox[i][2]
             /\ \A k \in 1..Len(conn'[c].inbox) :
                    i < k => conn'[c].inbox[i][2] < conn'[c].inbox[k][2]
  <2> DEFINE q == conn[c].inbox
  <2>1. q \in Seq(Messages) /\ Len(q) \in Nat
        /\ \A h \in 1..Len(q) : /\ q[h][2] \in Nat \ {0} /\ q[h][2] <= sent
                                /\ \A d \in Devices : data[d] < q[h][2]
                                /\ \A k \in 1..Len(q) :
                                       h < k => q[h][2] < q[k][2]
    BY InboxItems DEF InOrder
  <2>2. \A h \in 1..Len(q) : \A d \in Devices : data'[d] < q[h][2]
    <3> SUFFICES ASSUME NEW h \in 1..Len(q), NEW d \in Devices
                 PROVE  data'[d] < q[h][2]
      OBVIOUS
    <3>1. data[d] < q[h][2] /\ q[h][2] \in Nat /\ data[d] \in Nat
      BY <2>1, InboxItems
    <3>2. data'[d] <= data[d] /\ data'[d] \in Nat
      BY <1>1
    <3> QED
      BY <3>1, <3>2
  <2>3. CASE conn'[c].inbox = q
    BY <1>2, <2>1, <2>2, <2>3
  <2>4. CASE conn'[c].inbox = <<>>
    BY <1>2, <2>4
  <2>5. CASE q # <<>> /\ conn'[c].inbox = Tail(q)
    <3>1. \A h \in 1..Len(Tail(q)) :
              /\ Tail(q)[h] = q[h + 1] /\ h + 1 \in 1..Len(q)
      BY <2>1, <2>5, TailItems
    <3> HIDE DEF q
    <3>2. i \in 1..Len(Tail(q)) /\ conn'[c].inbox = Tail(q)
      BY <1>2, <2>5
    <3>3. /\ Tail(q)[i][2] <= sent
          /\ \A d \in Devices : data'[d] < Tail(q)[i][2]
      BY <2>1, <2>2, <3>1, <3>2
    <3>4. ASSUME NEW k \in 1..Len(Tail(q)), i < k
          PROVE  Tail(q)[i][2] < Tail(q)[k][2]
      <4>1. i + 1 < k + 1
        BY <3>2, <3>4
      <4> QED
        BY <2>1, <3>1, <3>2, <3>4, <4>1
    <3> QED
      BY <3>2, <3>3, <3>4
  <2> QED
    BY <2>3, <2>4, <2>5 DEF NothingNew, InboxKept
<1> QED
  BY <1>1, <1>2 DEF InOrder, NothingNew

LEMMA SendOrder ==
    ASSUME MqttInv, InOrder, NEW d \in Devices, Send(d)
    PROVE  InOrder'
<1>1. sent' = sent + 1 /\ data' = data /\ sent \in Nat
      /\ \A e \in Devices : data[e] \in Nat /\ data[e] <= sent
  BY InboxItems DEF Send, apiVars, InOrder
<1>2. ASSUME NEW c \in Clients, NEW i \in 1..Len(conn'[c].inbox)
      PROVE  /\ conn'[c].inbox[i][2] <= sent + 1
             /\ \A e \in Devices : data[e] < conn'[c].inbox[i][2]
             /\ \A k \in 1..Len(conn'[c].inbox) :
                    i < k => conn'[c].inbox[i][2] < conn'[c].inbox[k][2]
  <2> DEFINE q == conn[c].inbox
             r == Append(q, <<d, sent + 1>>)
  <2>1. q \in Seq(Messages) /\ Len(q) \in Nat
        /\ \A h \in 1..Len(q) : /\ q[h][2] \in Nat \ {0} /\ q[h][2] <= sent
                                /\ \A e \in Devices : data[e] < q[h][2]
                                /\ \A k \in 1..Len(q) :
                                       h < k => q[h][2] < q[k][2]
    BY InboxItems DEF InOrder
  <2>2. CASE d \notin conn[c].granted
    <3>1. conn'[c].inbox = q
      BY <2>2 DEF Send
    <3> HIDE DEF q
    <3> QED
      BY <1>1, <1>2, <2>1, <3>1
  <2>3. CASE d \in conn[c].granted
    <3>1. conn'[c].inbox = r
      <4>1. conn[c] \in Connection
        BY SessionUse DEF MqttInv
      <4> QED
        BY <2>3, <4>1 DEF Send, Connection
    <3>2. /\ Len(r) = Len(q) + 1 /\ r[Len(q) + 1][2] = sent + 1
          /\ \A h \in 1..Len(q) : r[h] = q[h]
      BY <2>1
    <3> HIDE DEF q, r
    <3>3. i \in 1..Len(q) \/ i = Len(q) + 1
      BY <1>2, <2>1, <3>1, <3>2
    <3>4. r[i][2] \in Nat /\ r[i][2] <= sent + 1
          /\ \A e \in Devices : data[e] < r[i][2]
      BY <1>1, <2>1, <3>2, <3>3
    <3>5. ASSUME NEW k \in 1..Len(r), i < k
          PROVE  r[i][2] < r[k][2]
      <4>1. i \in 1..Len(q) /\ (k \in 1..Len(q) \/ k = Len(q) + 1)
        BY <2>1, <3>2, <3>3, <3>5
      <4> QED
        BY <1>1, <2>1, <3>2, <3>5, <4>1
    <3> QED
      BY <3>1, <3>4, <3>5
  <2> QED
    BY <2>2, <2>3
<1> QED
  BY <1>1, <1>2 DEF InOrder

\* The client that merges a message is the only one with messages.
LEMMA MergeOrder ==
    ASSUME MqttInv, LoneInv, InOrder, NEW c \in Clients, Merge(c)
    PROVE  /\ InOrder'
           /\ mqttsession # None
           /\ Head(conn[c].inbox)[1] \in Devices
           /\ Head(conn[c].inbox)[2] \in Nat
           /\ \A d \in Devices : data[d] < Head(conn[c].inbox)[2]
<1> DEFINE q == conn[c].inbox
           d == Head(q)[1]
           m == Head(q)[2]
<1>1. q # <<>>
  BY DEF Merge, InState, MqttInv, SessionInv, ConnectionOK
<1>2. Current(c)
  BY <1>1 DEF LoneInv, EngagedIsCurrent, Engaged
<1>3. \A b \in Clients : b # c => conn[b].inbox = <<>>
  BY <1>2 DEF LoneInv, EngagedIsCurrent, Engaged, Current
<1>4. /\ q \in Seq(Messages) /\ Len(q) \in Nat \ {0}
      /\ \A h \in 1..Len(q) : /\ q[h][2] \in Nat \ {0} /\ q[h][2] <= sent
                              /\ \A e \in Devices : data[e] < q[h][2]
                              /\ \A k \in 1..Len(q) :
                                     h < k => q[h][2] < q[k][2]
  BY <1>1, InboxItems DEF InOrder
<1>5. Head(q) = q[1]
  BY <1>1, <1>4
<1>6. d \in Devices
  BY <1>1, HeadMessage DEF MqttInv
<1>7. m = q[1][2] /\ m \in Nat /\ m <= sent
      /\ \A e \in Devices : data[e] < m
  BY <1>4, <1>5
<1>8. \A b \in Clients : b # c => conn'[b].inbox = <<>>
  BY <1>3 DEF Merge, MqttInv, SessionInv, SessionTypes
<1>9. conn'[c].inbox = Tail(q)
  <2>1. conn[c] \in Connection
    BY SessionUse DEF MqttInv
  <2> QED
    BY <2>1 DEF Merge, MqttInv, SessionInv, SessionTypes, Connection
<1>10. data' = data \/ data' = [data EXCEPT ![d] = m]
  BY DEF Merge
<1>11. sent' = sent
  BY DEF Merge
<1>12. \A h \in 1..Len(Tail(q)) :
           /\ Tail(q)[h] = q[h + 1] /\ h + 1 \in 1..Len(q)
  BY <1>1, <1>4, TailItems
<1> HIDE DEF q, d, m
<1>13. \A e \in Devices : data'[e] <= m /\ data'[e] \in Nat
                          /\ data'[e] <= sent
  BY <1>6, <1>7, <1>10, InboxItems
     DEF MqttInv, ApiInv, ApiTypes, InOrder
<1>14. ASSUME NEW i \in 1..Len(Tail(q))
       PROVE  /\ Tail(q)[i][2] <= sent
              /\ \A e \in Devices : data'[e] < Tail(q)[i][2]
              /\ \A k \in 1..Len(Tail(q)) :
                     i < k => Tail(q)[i][2] < Tail(q)[k][2]
  <2>1. Tail(q)[i] = q[i + 1] /\ i + 1 \in 1..Len(q) /\ 1 < i + 1
        /\ 1 \in 1..Len(q)
    BY <1>4, <1>12
  <2>2. m < q[i + 1][2] /\ q[i + 1][2] <= sent /\ q[i + 1][2] \in Nat
    BY <1>4, <1>7, <2>1
  <2>3. \A e \in Devices : data'[e] < q[i + 1][2]
    BY <1>7, <1>13, <2>2
  <2>4. ASSUME NEW k \in 1..Len(Tail(q)), i < k
        PROVE  Tail(q)[i][2] < Tail(q)[k][2]
    <3>1. i + 1 < k + 1
      BY <2>4
    <3> QED
      BY <1>4, <1>12, <2>1, <2>4, <3>1
  <2> QED
    BY <2>1, <2>2, <2>3, <2>4
<1>15. InOrder'
  <2> SUFFICES ASSUME NEW b \in Clients, NEW i \in 1..Len(conn'[b].inbox)
               PROVE  /\ conn'[b].inbox[i][2] <= sent
                      /\ \A e \in Devices : data'[e] < conn'[b].inbox[i][2]
                      /\ \A k \in 1..Len(conn'[b].inbox) :
                             i < k => conn'[b].inbox[i][2]
                                          < conn'[b].inbox[k][2]
    BY <1>11, <1>13 DEF InOrder
  <2>1. CASE b = c
    BY <1>9, <1>14, <2>1
  <2>2. CASE b # c
    <3>1. conn'[b].inbox = <<>>
      BY <1>8, <2>2
    <3> QED
      BY <3>1
  <2> QED
    BY <2>1, <2>2
<1> QED
  BY <1>2, <1>6, <1>7, <1>15 DEF Current, d, m, q

----------------------------------------------------------------------------
(* What the other steps do to messages and values *)

InboxesKept == \A c \in Clients : InboxKept(c)

LEMMA InboxesKeptBy ==
    ASSUME MqttInv
    PROVE  /\ conn' = conn => InboxesKept
           /\ \A c : Connect(c) => InboxesKept
           /\ \A s \in Sessions : Cleanup(s) => InboxesKept
           /\ \A s \in Sessions : \A d : SubscribeSends(s, d) => InboxesKept
           /\ \A s \in Sessions : \A d : SubscribeFails(s, d) => InboxesKept
           /\ \A c, k : conn' = [conn EXCEPT ![c] = k] /\ k.inbox = <<>>
                        => InboxesKept
<1>1. conn \in [Clients -> Connection]
      /\ \A c \in Clients : conn[c] \in Connection
  BY SessionUse DEF MqttInv, SessionInv, SessionTypes
<1>2. conn' = conn => InboxesKept
  BY DEF InboxesKept, InboxKept
<1>3. ASSUME NEW c, Connect(c)
      PROVE  InboxesKept
  BY <1>1, <1>3 DEF Connect, InboxesKept, InboxKept, Connection
<1>4. ASSUME NEW c, NEW k, conn' = [conn EXCEPT ![c] = k], k.inbox = <<>>
      PROVE  InboxesKept
  BY <1>1, <1>4 DEF InboxesKept, InboxKept
<1>5. ASSUME NEW s \in Sessions, Cleanup(s)
      PROVE  InboxesKept
  <2>1. Anew("stopped", s).inbox = <<>>
    BY DEF Anew
  <2>2. conn' = conn
        \/ conn' = [conn EXCEPT ![sess[s].client] = Anew("stopped", s)]
    BY <1>5 DEF Cleanup
  <2> QED
    BY <1>2, <1>4, <2>1, <2>2
<1>6. ASSUME NEW s \in Sessions, NEW d, SubscribeSends(s, d)
      PROVE  InboxesKept
  <2>1. CASE conn' = conn
    BY <1>2, <2>1
  <2>2. CASE conn' = [conn EXCEPT ![sess[s].client].sending = @ \cup {d}]
    BY <1>1, <2>2 DEF InboxesKept, InboxKept, Connection
  <2> QED
    BY <1>6, <2>1, <2>2 DEF SubscribeSends
<1>7. ASSUME NEW s \in Sessions, NEW d, SubscribeFails(s, d)
      PROVE  InboxesKept
  BY <1>2, <1>7 DEF SubscribeFails
<1> QED
  BY <1>2, <1>3, <1>4, <1>5, <1>6, <1>7

LEMMA ValuesKeptBy ==
    ASSUME MqttInv
    PROVE  /\ data' = data => \A d \in Devices : ValueKept(d)
           /\ data' = [d \in Devices |-> 0] => \A d \in Devices : ValueKept(d)
           /\ \A d : ClearValues(d) => \A e \in Devices : ValueKept(e)
           /\ \A d : data' = [data EXCEPT ![d] = 0]
                     => \A e \in Devices : ValueKept(e)
BY DEF ValueKept, ClearValues, MqttInv, ApiInv, ApiTypes

LEMMA ThreadNothingNew ==
    ASSUME MqttInv, NEW c \in Clients, Thread(c) \/ Lose(c), ~Merge(c)
    PROVE  NothingNew
<1>1. conn \in [Clients -> Connection]
      /\ \A b \in Clients : conn[b] \in Connection
  BY SessionUse DEF MqttInv, SessionInv, SessionTypes
<1>2. data' = data /\ sent' = sent
  BY DEF Thread, Lose, Connack, OnConnect, Renew, Suback, Receive, apiVars
<1>3. CASE Connack(c) \/ OnConnect(c) \/ Suback(c) \/ Lose(c)
  <2>1. \A b \in Clients : InboxKept(b)
    <3>1. CASE Connack(c)
      BY <1>1, <3>1 DEF Connack, InboxKept, Connection
    <3>2. CASE OnConnect(c)
      <4> DEFINE topics == sess[conn[c].owner].subscriptions
                 state == IF topics = {} THEN "up" ELSE "renew"
      <4>1. conn' = [conn EXCEPT ![c].state = state, ![c].todo = topics,
                                 ![c].size = Cardinality(topics)]
        BY <3>2 DEF OnConnect
      <4> HIDE DEF topics, state
      <4> QED
        BY <1>1, <4>1 DEF InboxKept, Connection
    <3>3. CASE Suback(c)
      BY <1>1, <3>3 DEF Suback, InboxKept, Connection
    <3>4. CASE Lose(c)
      BY <1>1, <3>4 DEF Lose, InboxKept, Connection
    <3> QED
      BY <1>3, <3>1, <3>2, <3>3, <3>4
  <2> QED
    BY <1>2, <2>1, ValuesKeptBy DEF NothingNew
<1>4. CASE Receive(c)
  <2>1. conn[c].inbox # <<>>
    BY <1>4 DEF Receive
  <2>2. \A b \in Clients : InboxKept(b)
    BY <1>1, <1>4, <2>1 DEF Receive, InboxKept, Connection
  <2> QED
    BY <1>2, <2>2, ValuesKeptBy DEF NothingNew
<1>5. CASE Renew(c)
  <2>1. \A b \in Clients : conn'[b].inbox = conn[b].inbox
    <3> DEFINE t == sess[conn[c].owner].client
               done(d) == [conn EXCEPT ![c].todo = @ \ {d}]
    <3>1. CASE conn' = [conn EXCEPT ![c].state = "dead", ![c].todo = {}]
      BY <1>1, <3>1 DEF Connection
    <3>2. ASSUME NEW d \in conn[c].todo,
                 conn' = IF ClientConnected(t)
                         THEN [done(d) EXCEPT ![t].sending = @ \cup {d}]
                         ELSE done(d)
          PROVE  \A b \in Clients : conn'[b].inbox = conn[b].inbox
      <4>1. /\ done(d) \in [Clients -> Connection]
            /\ \A b \in Clients : done(d)[b].inbox = conn[b].inbox
        BY <1>1 DEF Connection
      <4> HIDE DEF done, t
      <4>2. CASE conn' = done(d)
        BY <4>1, <4>2
      <4>3. CASE conn' = [done(d) EXCEPT ![t].sending = @ \cup {d}]
        BY <4>1, <4>3 DEF Connection
      <4> QED
        BY <3>2, <4>2, <4>3
    <3>3. CASE conn' = [conn EXCEPT ![c].state = "up"]
      BY <1>1, <3>3 DEF Connection
    <3> QED
      BY <1>5, <3>1, <3>2, <3>3 DEF Renew
  <2> QED
    BY <1>2, <2>1, ValuesKeptBy DEF NothingNew, InboxKept
<1> QED
  BY <1>3, <1>4, <1>5 DEF Thread

LEMMA GiveUpNothingNew ==
    ASSUME MqttInv, NEW j \in Checks, GiveUp(j) \/ Proceed(j), sent' = sent
    PROVE  NothingNew
<1>1. data' = data
  BY DEF GiveUp, Proceed, apiVars
<1>2. InboxesKept
  BY InboxesKeptBy, ApiUse DEF GiveUp, Proceed, MqttInv
<1> QED
  BY <1>1, <1>2, ValuesKeptBy DEF NothingNew, InboxesKept

LEMMA CreateFailsNothingNew ==
    ASSUME MqttInv, NEW j \in Checks, job[j].of \in Sessions, CreateFails(j)
    PROVE  NothingNew
<1>1. data' = data /\ sent' = sent /\ InboxesKept
  BY InboxesKeptBy DEF CreateFails, apiVars
<1> QED
  BY <1>1, ValuesKeptBy DEF NothingNew, InboxesKept

LEMMA JobNothingNew ==
    ASSUME MqttInv, NEW j \in Checks,
           \/ Start(j) \/ Step(j) \/ RequestFails(j) \/ NoServer(j)
           \/ TimedOut(j)
    PROVE  NothingNew
<1>1. sent' = sent
  BY DEF Start, StartSession, RestartSession, CheckSubscriptions, Step,
         InfoAnswered, FilesWritten, TlsSet, Connected, SubscribeDevice,
         CreateDevices, Resubscribe, Resubscribed, RequestFails, NoServer,
         TimedOut, CreateFails
<1>2. job[j].pc \in {"info", "files"} => job[j].of \in Sessions
  BY ApiUse DEF MqttInv
<1>3. CASE UNCHANGED <<data, conn>>
  BY <1>1, <1>3, InboxesKeptBy, ValuesKeptBy DEF NothingNew, InboxesKept
<1>4. CASE RestartSession(j)
  BY <1>1, <1>4, InboxesKeptBy, ValuesKeptBy
     DEF RestartSession, apiVars, NothingNew, InboxesKept
<1>5. CASE InfoAnswered(j)
  <2>1. Anew("new", job[j].of).inbox = <<>>
    BY DEF Anew
  <2>2. conn' = [conn EXCEPT ![created.clients + 1] = Anew("new", job[j].of)]
        /\ data' = data
    BY <1>5 DEF InfoAnswered, apiVars
  <2> QED
    BY <1>1, <2>1, <2>2, InboxesKeptBy, ValuesKeptBy
       DEF NothingNew, InboxesKept
<1>6. CASE FilesWritten(j)
  <2> DEFINE c == sess[job[j].of].client
  <2>1. CASE conn' = [conn EXCEPT ![c].tls = TRUE] /\ data' = data
    <3>1. \A b \in Clients : InboxKept(b)
      BY <2>1, SessionUse
         DEF InboxKept, MqttInv, SessionInv, SessionTypes, Connection
    <3> QED
      BY <1>1, <2>1, <3>1, ValuesKeptBy DEF NothingNew
  <2>2. CASE CreateFails(j)
    BY <1>2, <1>6, <2>2, CreateFailsNothingNew DEF FilesWritten, Active
  <2> QED
    BY <1>6, <2>1, <2>2 DEF FilesWritten, apiVars
<1>7. CASE TlsSet(j)
  <2>1. CASE GiveUp(j) \/ Proceed(j)
    BY <1>1, <2>1, GiveUpNothingNew
  <2>2. CASE data' = data /\ Connect(sess[job[j].of].client)
    BY <1>1, <2>2, InboxesKeptBy, ValuesKeptBy DEF NothingNew, InboxesKept
  <2> QED
    BY <1>3, <1>7, <2>1, <2>2 DEF TlsSet, apiVars
<1>8. CASE Connected(j)
  BY <1>1, <1>3, <1>8, GiveUpNothingNew DEF Connected, apiVars
<1>9. CASE SubscribeDevice(j)
  <2>1. data' = data
    BY <1>9 DEF SubscribeDevice, apiVars
  <2>2. IsConnected(mqttsession) => mqttsession \in Sessions
    BY ApiUse DEF IsConnected, MqttInv
  <2>3. InboxesKept
    BY <1>9, <2>2, InboxesKeptBy DEF SubscribeDevice
  <2> QED
    BY <1>1, <2>1, <2>3, ValuesKeptBy DEF NothingNew, InboxesKept
<1>10. CASE Resubscribe(j)
  <2>1. IsConnected(mqttsession) => mqttsession \in Sessions
    BY ApiUse DEF IsConnected, MqttInv
  <2>2. InboxesKept
    BY <1>10, <2>1, InboxesKeptBy DEF Resubscribe
  <2>3. \A d \in Devices : ValueKept(d)
    BY <1>10, ValuesKeptBy DEF Resubscribe
  <2> QED
    BY <1>1, <2>2, <2>3 DEF NothingNew, InboxesKept
<1>11. CASE RequestFails(j)
  BY <1>2, <1>11, CreateFailsNothingNew DEF RequestFails, Active
<1>12. CASE NoServer(j) \/ TimedOut(j)
  BY <1>1, <1>12, GiveUpNothingNew DEF NoServer, TimedOut
<1> QED
  BY <1>3, <1>4, <1>5, <1>6, <1>7, <1>8, <1>9, <1>10, <1>11, <1>12
     DEF Start, Step, StartSession, CheckSubscriptions, CreateDevices,
         Resubscribed, apiVars

LEMMA CacheNothingNew ==
    ASSUME MqttInv,
           \/ Disable \/ Enable \/ ClearCaches
           \/ \E d \in Devices :
                  RecycleDevice(d) \/ FindDevice(d) \/ RemoveDevice(d)
           \/ UNCHANGED vars
    PROVE  NothingNew
<1>1. sent' = sent
  BY DEF Disable, Enable, ClearCaches, RecycleDevice, FindDevice,
         RemoveDevice, vars
<1>2. CASE Disable \/ ClearCaches
  <2>1. InboxesKept
    BY <1>2, InboxesKeptBy, ApiUse DEF Disable, ClearCaches, StopSession,
                                       MqttInv
  <2>2. \A d \in Devices : ValueKept(d)
    BY <1>2, ValuesKeptBy DEF Disable, ClearCaches
  <2> QED
    BY <1>1, <2>1, <2>2 DEF NothingNew, InboxesKept
<1>3. CASE UNCHANGED <<data, conn>>
  BY <1>1, <1>3, InboxesKeptBy, ValuesKeptBy DEF NothingNew, InboxesKept
<1>4. ASSUME NEW d \in Devices, RecycleDevice(d)
      PROVE  NothingNew
  BY <1>1, <1>4, InboxesKeptBy, ValuesKeptBy
     DEF RecycleDevice, NothingNew, InboxesKept
<1> QED
  BY <1>2, <1>3, <1>4
     DEF Enable, FindDevice, RemoveDevice, vars, apiVars

----------------------------------------------------------------------------
(* The invariant and the steps of MqttFeed *)

LEMMA InitFeedInv == Init => FeedInv
<1> SUFFICES ASSUME Init PROVE FeedInv
  OBVIOUS
<1>1. NoConnection.inbox = <<>>
  BY DEF NoConnection, Anew
<1>2. InOrder
  BY <1>1 DEF Init, InOrder
<1> QED
  BY <1>2, InitMqttInv, InitLone DEF FeedInv

LEMMA NextInOrder ==
    ASSUME MqttInv, LoneInv, InOrder, [Next]_vars
    PROVE  InOrder'
<1>1. ASSUME NEW c \in Clients, Thread(c) \/ Lose(c)
      PROVE  InOrder'
  BY <1>1, MergeOrder, ThreadNothingNew, QuietOrder
<1>2. ASSUME NEW j \in Checks,
             \/ Start(j) \/ Step(j) \/ RequestFails(j) \/ NoServer(j)
             \/ TimedOut(j)
      PROVE  InOrder'
  BY <1>2, JobNothingNew, QuietOrder
<1>3. ASSUME \/ Disable \/ Enable \/ ClearCaches
             \/ \E d \in Devices :
                    RecycleDevice(d) \/ FindDevice(d) \/ RemoveDevice(d)
             \/ UNCHANGED vars
      PROVE  InOrder'
  BY <1>3, CacheNothingNew, QuietOrder
<1> QED
  BY <1>1, <1>2, <1>3, SendOrder DEF Next

LEMMA FeedInductive ==
    ASSUME LoneCheck
    PROVE  FeedInv /\ [Next]_vars => FeedInv'
<1> SUFFICES ASSUME FeedInv, [Next]_vars PROVE FeedInv'
  OBVIOUS
<1>1. MqttInv'
  BY MqttInductive DEF FeedInv
<1> QED
  BY <1>1, NextKeepsLone, NextInOrder DEF FeedInv

LEMMA InitFeed == Init => Feed!Init
BY DEF Init, Feed!Init

LEMMA GiveUpFeeds ==
    ASSUME NEW j \in Checks, GiveUp(j) \/ Proceed(j)
    PROVE  [Feed!Next]_Feed!vars
<1>1. data' = data /\ (mqttsession' = mqttsession
                       \/ (mqttsession # None /\ mqttsession' = None))
  BY DEF GiveUp, Proceed, apiVars
<1> QED
  BY <1>1 DEF Feed!vars, Feed!Next, Feed!Fail

LEMMA JobFeeds ==
    ASSUME MqttInv, MqttInv', NEW j \in Checks,
           \/ Start(j) \/ Step(j) \/ RequestFails(j) \/ NoServer(j)
           \/ TimedOut(j)
    PROVE  [Feed!Next]_Feed!vars
<1>1. CASE UNCHANGED <<mqttsession, data>>
  BY <1>1 DEF Feed!vars
<1>2. CASE StartSession(j)
  <2>1. mqttsession = None /\ mqttsession' # None /\ data' = data
    BY <1>2, MqttAssumption, NumbersUse DEF StartSession, None
  <2> QED
    BY <2>1 DEF Feed!Next, Feed!Start
<1>3. CASE GiveUp(j) \/ Proceed(j)
  BY <1>3, GiveUpFeeds
<1>4. CASE Resubscribe(j)
  <2>1. PICK d \in job[j].todo : data' = data \/ ClearValues(d)
    BY <1>4 DEF Resubscribe
  <2>2. d \in Devices /\ mqttsession' = mqttsession
    BY <1>4, ApiUse DEF MqttInv, Resubscribe
  <2>3. CASE data' = [data EXCEPT ![d] = 0]
    BY <2>2, <2>3 DEF Feed!Next, Feed!Forget
  <2>4. CASE data' = data
    BY <2>2, <2>4 DEF Feed!vars
  <2> QED
    BY <2>1, <2>3, <2>4 DEF ClearValues
<1> QED
  BY <1>1, <1>2, <1>3, <1>4
     DEF Start, RestartSession, CheckSubscriptions, Step, InfoAnswered,
         FilesWritten, TlsSet, Connected, SubscribeDevice, CreateDevices,
         Resubscribed, RequestFails, NoServer, TimedOut, CreateFails, apiVars

LEMMA MergeFeeds ==
    ASSUME FeedInv, NEW c \in Clients, Merge(c)
    PROVE  [Feed!Next]_Feed!vars
<1> DEFINE d == Head(conn[c].inbox)[1]
           m == Head(conn[c].inbox)[2]
<1>1. mqttsession # None /\ d \in Devices /\ m \in Nat /\ data[d] < m
  BY MergeOrder DEF FeedInv
<1>2. mqttsession' = mqttsession
      /\ (data' = [data EXCEPT ![d] = m] \/ data' = data)
  BY DEF Merge
<1>3. data \in [Devices -> 0..MaxMessages]
  BY DEF FeedInv, MqttInv, ApiInv, ApiTypes
<1> HIDE DEF d, m
<1>4. CASE data' = data
  BY <1>2, <1>4 DEF Feed!vars
<1>5. CASE data' = [data EXCEPT ![d] = m]
  <2>1. data'[d] = m
    BY <1>1, <1>3, <1>5
  <2>2. Feed!Receive(d)
    BY <1>1, <1>2, <1>3, <1>5, <2>1 DEF Feed!Receive
  <2> QED
    BY <1>1, <2>2 DEF Feed!Next
<1> QED
  BY <1>2, <1>4, <1>5

LEMMA CacheFeeds ==
    ASSUME \/ Disable \/ Enable \/ ClearCaches
           \/ \E d \in Devices :
                  RecycleDevice(d) \/ FindDevice(d) \/ RemoveDevice(d)
           \/ UNCHANGED vars
    PROVE  [Feed!Next]_Feed!vars
<1>1. CASE UNCHANGED <<mqttsession, data>>
  BY <1>1 DEF Feed!vars
<1>2. CASE mqttsession' = None /\ data' = [d \in Devices |-> 0]
  BY <1>2 DEF Feed!Next, Feed!Stop
<1>3. ASSUME NEW d \in Devices, RecycleDevice(d)
      PROVE  [Feed!Next]_Feed!vars
  BY <1>3 DEF RecycleDevice, Feed!Next, Feed!Forget
<1> QED
  BY <1>1, <1>2, <1>3
     DEF Disable, ClearCaches, StopSession, Enable, FindDevice, RemoveDevice,
         vars, apiVars

LEMMA NextFeeds ==
    ASSUME FeedInv, FeedInv', [Next]_vars
    PROVE  [Feed!Next]_Feed!vars
<1> USE DEF FeedInv
<1>1. ASSUME NEW c \in Clients, Thread(c) \/ Lose(c)
      PROVE  [Feed!Next]_Feed!vars
  <2>1. CASE Merge(c)
    BY <2>1, MergeFeeds
  <2>2. CASE ~Merge(c)
    <3>1. UNCHANGED <<mqttsession, data>>
      BY <1>1, <2>2 DEF Thread, Lose, Connack, OnConnect, Renew, Suback,
                        Receive, apiVars
    <3> QED
      BY <3>1 DEF Feed!vars
  <2> QED
    BY <2>1, <2>2
<1>2. ASSUME NEW d \in Devices, Send(d)
      PROVE  [Feed!Next]_Feed!vars
  BY <1>2 DEF Send, apiVars, Feed!vars
<1> QED
  BY <1>1, <1>2, JobFeeds, CacheFeeds DEF Next

----------------------------------------------------------------------------
(* Theorems *)

\* apibase.py:451, mqtt.py:590: with one check at a time, the session, its
\* clients and the device cache implement MqttFeed: whatever connections are
\* lost, renewed or replaced, a device's values follow its messages in their
\* order, and only while there is a session.
THEOREM LoneCheckFeeds ==
    ASSUME LoneCheck
    PROVE  Spec => FeedSpec
<1>1. Init => FeedInv
  BY InitFeedInv
<1>2. FeedInv /\ [Next]_vars => FeedInv'
  BY FeedInductive
<1>3. Init => Feed!Init
  BY InitFeed
<1>4. FeedInv /\ FeedInv' /\ [Next]_vars => [Feed!Next]_Feed!vars
  BY NextFeeds
<1> QED
  BY <1>1, <1>2, <1>3, <1>4, PTL DEF Spec, FeedSpec, Feed!Spec

\* mqtt.py:590: with one check at a time, a client that a session dropped gets
\* no messages: cleanup() stops it if it is connected, and if it connects
\* later it has no topics to renew.
THEOREM LoneCheckSilent ==
    ASSUME LoneCheck
    PROVE  Spec => []OldClientsSilent
<1>1. Init => FeedInv
  BY InitFeedInv
<1>2. FeedInv /\ [Next]_vars => FeedInv'
  BY FeedInductive
<1>3. FeedInv => OldClientsSilent
  BY DEF FeedInv, LoneInv, EngagedIsCurrent, Engaged, Current,
         OldClientsSilent
<1> QED
  BY <1>1, <1>2, <1>3, PTL DEF Spec
=============================================================================
