----------------------------- MODULE MqttFeed ------------------------------
(***************************************************************************)
(* What the api cache's users may rely on of MQTT, whatever happens to     *)
(* sessions, clients and connections: a device's values come from the      *)
(* messages of that device in the order they were sent, they arrive only   *)
(* while a session exists, and they go when the session is stopped or the  *)
(* device leaves the cache.                                                *)
(***************************************************************************)
EXTENDS Naturals

CONSTANTS Devices

VARIABLES
    session,  \* there is an MQTT session
    feed      \* per device the last message its values hold, 0 if none

vars == <<session, feed>>

Init == session = FALSE /\ feed = [d \in Devices |-> 0]

Start == ~session /\ session' = TRUE /\ UNCHANGED feed

\* The restart of a session failed: its values stay until the next one.
Fail == session /\ session' = FALSE /\ UNCHANGED feed

\* MQTT is stopped, or the caches are cleared.
Stop ==
    /\ session' = FALSE
    /\ feed' = [d \in Devices |-> 0]

Receive(d) ==
    /\ session
    /\ feed' = [feed EXCEPT ![d] = feed'[d]]
    /\ feed'[d] \in Nat /\ feed'[d] > feed[d]
    /\ UNCHANGED session

\* A device left the cache, or its subscription could not be renewed.
Forget(d) == feed' = [feed EXCEPT ![d] = 0] /\ UNCHANGED session

Next ==
    \/ Start \/ Fail \/ Stop
    \/ \E d \in Devices : Receive(d) \/ Forget(d)

Spec == Init /\ [][Next]_vars
=============================================================================
