------------------------- MODULE RefreshCoordinator -------------------------
(***************************************************************************)
(* The refresh of one hub: the update coordinator (coordinator.py), the    *)
(* client's async_get_data() (api_client.py) and the polls that build the  *)
(* api cache (solixapi/poller.py, solixapi/apibase.py).                    *)
(*                                                                         *)
(* Several activations run at once on the event loop: the timed update, a  *)
(* pressed refresh button and the switch that allows refreshes again.  An  *)
(* activation is a job; its pc names the await it is suspended at, and a   *)
(* step is the code from one await to the next.  Of the api cache the      *)
(* model keeps which devices it holds; the cloud lists a device in the     *)
(* site list, in the scene of its site or among the bound devices.         *)
(***************************************************************************)
EXTENDS Integers, Sequences, FiniteSets

CONSTANTS
    Devices,      \* device serials
    SiteList,     \* the devices in site_device_list, in its order
    Scenes,       \* the devices found in scene infos
    Bound,        \* the devices found among the bound devices
    Known,        \* the devices the cloud knows at first
    Updates,      \* jobs of the coordinator's timer
    Buttons,      \* jobs of the refresh button
    Switches,     \* jobs of the switch that allows refreshes
    Account,      \* the account's key in the merged caches
    Intervals,    \* updates per details refresh (_deviceintervals)
    MaxPresses,   \* bound: presses of the button
    MaxToggles,   \* bound: refreshes suspended and allowed again
    MaxChanges,   \* bound: devices that come or go in the cloud
    MaxFaults     \* bound: failed requests and reloads

Jobs == Updates \cup Buttons \cup Switches

ASSUME RefreshAssumption ==
    /\ IsFiniteSet(Devices) /\ Account \notin Devices
    /\ SiteList \in Seq(Devices) /\ Scenes \subseteq Devices
    /\ Bound \subseteq Devices /\ Known \subseteq Devices
    /\ Updates \cap Buttons = {} /\ Updates \cap Switches = {}
    /\ Buttons \cap Switches = {}
    /\ Intervals \in Nat /\ Intervals >= 2
    /\ MaxPresses \in Nat /\ MaxToggles \in Nat
    /\ MaxChanges \in Nat /\ MaxFaults \in Nat

VARIABLES
    job,          \* the activation of each job
    allow,        \* _allow_refresh
    startup,      \* startup: energy data not requested yet
    deferred,     \* deferred_data: energy data arrived, entities to be added
    active,       \* active_device_refresh
    count,        \* _intervalcount
    recent,       \* last_device_refresh is less than 60 s ago
    devices,      \* the keys of api.devices
    siteDevices,  \* api._site_devices
    caches,       \* how often the caches were cleared (new dictionaries)
    energy,       \* the current caches hold energy data
    data,         \* the keys of the coordinator's data
    registered,   \* registered_devices
    scheduled,    \* the timer of the next update is set
    ready,        \* the first update succeeded, the hub is set up
    cloud,        \* the devices the cloud knows
    left,         \* the devices that left the cloud at some time
    outdated,     \* what is registered was found in caches cleared before
    lost,         \* devices removed although they never left the cloud, and
                  \* whether the job polled alone and they were not outdated
    presses, toggles, changes, faults

clientVars == <<allow, startup, deferred, active, count, recent>>
cacheVars == <<devices, siteDevices, caches, energy>>
coordVars == <<data, registered, scheduled, ready, outdated, lost>>
boundVars == <<presses, toggles, changes, faults>>
cloudVars == <<cloud, left>>
vars == <<job, clientVars, cacheVars, coordVars, cloudVars, boundVars>>

----------------------------------------------------------------------------

Request == {"list", "scene", "bind", "loop", "energy", "deferred"}
Keys == Devices \cup {Account}

\* snap and born: the devices a details poll iterates over, and the cache
\* they are in; ids and late: what a reload registers (found in the cache
\* born), and whether it adds the deferred entities; alone: no other job
\* polled meanwhile.
Job == [pc : {"idle", "stagger", "reload"} \cup Request,
        snap : SUBSET Devices, born : Nat, ids : SUBSET Keys,
        late : BOOLEAN, alone : BOOLEAN]
Idle == [pc |-> "idle", snap |-> {}, born |-> 0, ids |-> {}, late |-> FALSE,
         alone |-> TRUE]

At(j, pc) == job[j].pc = pc
Polling(j) == job[j].pc \in Request
Goto(j, pc) == job' = [job EXCEPT ![j].pc = pc]
Enter(j, pc) == job' = [job EXCEPT ![j].pc = pc, ![j].born = caches]

\* Starts the requests of a job; jobs that poll already are no longer alone.
Poll(j) ==
    job' = [k \in Jobs |->
              IF k = j THEN [Idle EXCEPT !.pc = "list",
                                !.alone = \A i \in Jobs \ {j} : ~Polling(i)]
              ELSE IF Polling(k) THEN [job[k] EXCEPT !.alone = FALSE]
              ELSE job[k]]

\* Faulty: async_get_data() without its finally clause.
UnmarkOmitted == UNCHANGED active

\* The finally clause of async_get_data().
Unmark == active' = FALSE

\* getCaches(): the devices and the account (sites and vehicles left out).
GetCaches(devs) == devs \cup {Account}

Init ==
    /\ job = [j \in Jobs |-> Idle]
    /\ allow = TRUE /\ startup = TRUE /\ deferred = FALSE
    /\ active = FALSE /\ count = 0 /\ recent = FALSE
    /\ devices = {} /\ siteDevices = {} /\ caches = 0 /\ energy = FALSE
    /\ data = {} /\ registered = {} /\ scheduled = TRUE /\ ready = FALSE
    /\ cloud = Known /\ left = {} /\ outdated = FALSE /\ lost = {}
    /\ presses = 0 /\ toggles = 0 /\ changes = 0 /\ faults = 0

----------------------------------------------------------------------------
(* What the coordinator does with the data it got *)

Done(j) == job' = [job EXCEPT ![j] = Idle]

\* Unloads the platforms and sets them up again, then registers ids.
Reload(j, ids, late) ==
    job' = [job EXCEPT ![j].pc = "reload", ![j].ids = ids, ![j].late = late,
                       ![j].born = caches]

\* async_remove_device(): drops the devices without data.
Remove(j, gone) ==
    /\ registered' = registered \ gone
    /\ lost' = lost \cup {<<d, job[j].alone /\ ~outdated>> :
                             d \in (gone \cap cloud) \ left}
    /\ UNCHANGED outdated

\* The timed update: HA takes the result for the data once it returns, so a
\* device is dropped by the second update that misses it.
FinishUpdate(j, ids, late, start) ==
    LET gone == registered \ ids
        added == ids \ registered
    IN
    /\ ready' = TRUE
    /\ \/ /\ late \/ (~start /\ added # {})
          /\ Reload(j, ids, late)
          /\ UNCHANGED <<data, registered, scheduled, outdated, lost>>
       \/ /\ ~late /\ (start \/ added = {})
          /\ IF start THEN registered' = ids /\ outdated' = FALSE /\ UNCHANGED lost
             ELSE IF ids # {} THEN Remove(j, gone \ data)
             ELSE UNCHANGED <<registered, outdated, lost>>
          /\ data' = ids
          /\ Done(j)
          /\ scheduled' = TRUE

\* The button sets the data first, which also restarts the timer.
FinishButton(j, ids) ==
    LET added == ids \ registered IN
    /\ data' = ids
    /\ scheduled' = TRUE
    /\ IF added # {}
       THEN Reload(j, ids, FALSE) /\ UNCHANGED <<registered, outdated, lost>>
       ELSE /\ Done(j)
            /\ IF ids # {} THEN Remove(j, registered \ ids)
               ELSE UNCHANGED <<registered, outdated, lost>>
    /\ UNCHANGED ready

FinishSwitch(j, ids) ==
    /\ data' = ids
    /\ Reload(j, ids, FALSE)
    /\ UNCHANGED <<registered, scheduled, ready, outdated, lost>>

Finish(j, ids, late, start) ==
    \/ j \in Updates /\ FinishUpdate(j, ids, late, start)
    \/ j \in Buttons /\ FinishButton(j, ids)
    \/ j \in Switches /\ FinishSwitch(j, ids)

----------------------------------------------------------------------------
(* The start of a job *)

\* async_get_data() without options: the caches are polled, or there are no
\* data while refreshes are suspended.
BeginUpdate(j) ==
    \/ /\ allow
       /\ Poll(j)
       /\ scheduled' = (scheduled /\ At(j, "stagger"))
       /\ UNCHANGED <<active, data, registered, ready, outdated, lost>>
    \/ /\ ~allow
       /\ Unmark
       /\ FinishUpdate(j, {}, deferred, startup)

\* _async_update_data(): an update during a details refresh returns the
\* existing data, and all but the first ones are staggered.
StartUpdate(j) ==
    /\ j \in Updates /\ At(j, "idle") /\ scheduled /\ ~active
    /\ \/ /\ startup
          /\ BeginUpdate(j)
       \/ /\ ~startup
          /\ Goto(j, "stagger")
          /\ scheduled' = FALSE
          /\ UNCHANGED <<active, data, registered, ready, outdated, lost>>
    /\ UNCHANGED <<allow, startup, deferred, count, recent, cacheVars,
                   cloudVars, boundVars>>

Stagger(j) ==
    /\ At(j, "stagger")
    /\ BeginUpdate(j)
    /\ UNCHANGED <<allow, startup, deferred, count, recent, cacheVars,
                   cloudVars, boundVars>>

\* The refresh button: not within 60 seconds, during a details refresh or at
\* startup.
Press(j) ==
    /\ j \in Buttons /\ At(j, "idle") /\ ready /\ presses < MaxPresses
    /\ ~recent /\ ~active /\ ~startup
    /\ presses' = presses + 1
    /\ \/ /\ allow
          /\ active' = TRUE
          /\ Poll(j)
          /\ UNCHANGED coordVars
       \/ /\ ~allow
          /\ Unmark
          /\ FinishButton(j, {})
    /\ UNCHANGED <<allow, startup, deferred, count, recent, cacheVars,
                   cloudVars, toggles, changes, faults>>

\* The switch suspends refreshes and takes the empty data.
Suspend ==
    /\ ready /\ allow /\ toggles < MaxToggles
    /\ toggles' = toggles + 1
    /\ allow' = FALSE /\ data' = {} /\ Unmark
    /\ UNCHANGED <<job, startup, deferred, count, recent, cacheVars,
                   registered, scheduled, ready, outdated, lost, cloudVars,
                   presses, changes, faults>>

\* The switch allows refreshes: data from the caches, then new caches and a
\* details refresh.
Resume(j) ==
    /\ j \in Switches /\ At(j, "idle") /\ ready /\ ~allow
    /\ allow' = TRUE /\ data' = GetCaches(devices)
    /\ recent' = FALSE /\ startup' = TRUE /\ deferred' = FALSE
    /\ devices' = {} /\ caches' = caches + 1 /\ energy' = FALSE
    /\ active' = TRUE
    /\ Poll(j)
    /\ UNCHANGED <<count, siteDevices, registered, scheduled, ready, outdated,
                   lost, cloudVars, boundVars>>

\* Entities and MQTT messages refresh the data from the caches.
RefreshFromCache ==
    /\ ready
    /\ data' = IF allow THEN GetCaches(devices) ELSE {}
    /\ Unmark
    /\ UNCHANGED <<job, allow, startup, deferred, count, recent, cacheVars,
                   registered, scheduled, ready, outdated, lost, cloudVars,
                   boundVars>>

----------------------------------------------------------------------------
(* The requests of a job, poll_sites() first *)

\* The site list: the devices of its site_device_list are cached, the last of
\* them is taken for a site device.
ListAnswered(j) ==
    LET listed == {i \in 1 .. Len(SiteList) : SiteList[i] \in cloud} IN
    /\ At(j, "list")
    /\ siteDevices' = {SiteList[i] : i \in {k \in listed :
                                               \A n \in listed : n <= k}}
    /\ devices' = devices \cup {SiteList[i] : i \in listed}
    /\ Goto(j, "scene")
    /\ UNCHANGED <<clientVars, caches, energy, coordVars, cloudVars,
                   boundVars>>

\* The devices in the scene infos of the sites: all site devices.
Seen == Scenes \cap cloud

\* Faulty: the updates are not counted.
CountdownStuck(j) == count

\* The updates left to the next details refresh.
Countdown(j) == IF j \in Updates THEN count - 1 ELSE count

\* The scenes end poll_sites().  Every so many updates, and in a details
\* refresh, the device details follow; the second update after the start
\* requests the energy data.
SceneAnswered(j) ==
    LET details == j \notin Updates \/ Countdown(j) <= 0
        late == ~details /\ startup /\ ~deferred
    IN
    /\ At(j, "scene")
    /\ siteDevices' = siteDevices \cup Seen
    /\ devices' = devices \cup Seen
    /\ count' = Countdown(j)
    /\ \/ /\ details \/ late
          /\ active' = (IF j \in Updates THEN TRUE ELSE active)
          /\ Enter(j, IF late THEN "deferred" ELSE "bind")
          /\ UNCHANGED coordVars
       \/ /\ ~details /\ ~late
          /\ Unmark
          /\ Finish(j, GetCaches(devices'), deferred, startup)
    /\ UNCHANGED <<allow, startup, deferred, recent, caches, energy, cloudVars,
                   boundVars>>

\* Faulty: only the bound devices are kept.
RecycleUnbound(bound) == (devices \cup bound) \cap bound

\* recycleDevices(): only bound devices and site devices stay cached.
Recycle(bound) == (devices \cup bound) \cap (siteDevices \cup bound)

\* get_bind_devices() adds the bound devices and recycles all that are
\* neither bound nor site devices; then each device's details are requested.
BindAnswered(j) ==
    /\ At(j, "bind")
    /\ devices' = Recycle(Bound \cap cloud)
    /\ job' = [job EXCEPT ![j].pc = "loop", ![j].snap = devices',
                          ![j].born = caches]
    /\ UNCHANGED <<clientVars, siteDevices, caches, energy, coordVars,
                   cloudVars, boundVars>>

\* The details refresh is complete.
EndDetails(j) ==
    /\ count' = Intervals /\ recent' = TRUE /\ active' = FALSE
    /\ Finish(j, GetCaches(devices'), deferred, startup)

\* poll_device_details() iterates over api.devices: in old caches it goes on
\* and may put devices into the new ones.
LoopAnswered(j) ==
    /\ At(j, "loop")
    /\ \/ /\ job[j].born = caches
          /\ Cardinality(devices) = Cardinality(job[j].snap)
          /\ devices' = devices
       \/ /\ job[j].born # caches
          /\ \E stale \in SUBSET job[j].snap : devices' = devices \cup stale
    /\ \/ startup /\ EndDetails(j)
       \/ /\ ~startup
          /\ Enter(j, "energy")
          /\ UNCHANGED <<active, count, recent, coordVars>>
    /\ UNCHANGED <<allow, startup, deferred, siteDevices, caches, energy,
                   cloudVars, boundVars>>

EnergyAnswered(j) ==
    /\ At(j, "energy")
    /\ energy' = (energy \/ job[j].born = caches)
    /\ UNCHANGED devices
    /\ EndDetails(j)
    /\ UNCHANGED <<allow, startup, deferred, siteDevices, caches,
                   cloudVars, boundVars>>

\* The deferred energy data end the startup.
DeferredAnswered(j) ==
    /\ At(j, "deferred")
    /\ energy' = (energy \/ job[j].born = caches)
    /\ deferred' = TRUE /\ startup' = FALSE /\ active' = FALSE
    /\ Finish(j, GetCaches(devices), TRUE, FALSE)
    /\ UNCHANGED <<allow, count, recent, devices, siteDevices, caches,
                   cloudVars, boundVars>>

\* A failed job leaves the data alone, and an update is tried again.  A failed
\* first update is repeated by a new client.  (Refused credentials instead stop
\* the updates until the user sets the hub up anew: left out.)
Abandon(j) ==
    /\ Done(j)
    /\ Unmark
    /\ scheduled' = (scheduled \/ j \in Updates)
    /\ IF ready THEN UNCHANGED <<count, devices, siteDevices>>
       ELSE count' = 0 /\ devices' = {} /\ siteDevices' = {}
    /\ UNCHANGED <<allow, startup, deferred, recent, caches, energy, data,
                   registered, ready, outdated, lost, cloudVars, presses,
                   toggles, changes>>

Fail(j) ==
    /\ Polling(j) /\ faults < MaxFaults
    /\ faults' = faults + 1
    /\ Abandon(j)

\* The dictionary changed its size during the iteration.
LoopBroken(j) ==
    /\ At(j, "loop") /\ job[j].born = caches
    /\ Cardinality(devices) # Cardinality(job[j].snap)
    /\ Abandon(j)
    /\ UNCHANGED faults

\* Faulty: the collection of keys is registered as if it were a key.
RegisterNested(j) == registered' = {job[j].ids} /\ UNCHANGED outdated

\* The caches may have been cleared since the ids were found.
Register(j) ==
    /\ registered' = job[j].ids
    /\ outdated' = (job[j].born # caches)

\* The platforms are set up again, or (a fault) could not be unloaded.
ReloadDone(j) ==
    /\ At(j, "reload")
    /\ \/ /\ Register(j)
          /\ deferred' = (deferred /\ ~job[j].late)
          /\ UNCHANGED faults
       \/ /\ faults < MaxFaults
          /\ faults' = faults + 1
          /\ UNCHANGED <<registered, outdated, deferred>>
    /\ IF j \in Updates THEN data' = job[j].ids /\ scheduled' = TRUE
       ELSE UNCHANGED <<data, scheduled>>
    /\ Done(j)
    /\ UNCHANGED <<allow, startup, active, count, recent, cacheVars, ready,
                   lost, cloudVars, presses, toggles, changes>>

----------------------------------------------------------------------------
(* The environment *)

SixtySecondsPass ==
    /\ recent /\ recent' = FALSE
    /\ UNCHANGED <<job, allow, startup, deferred, active, count, cacheVars,
                   coordVars, cloudVars, boundVars>>

CloudChange ==
    /\ changes < MaxChanges
    /\ changes' = changes + 1
    /\ \E d \in Devices :
           \/ d \in cloud /\ cloud' = cloud \ {d} /\ left' = left \cup {d}
           \/ d \notin cloud /\ cloud' = cloud \cup {d} /\ UNCHANGED left
    /\ UNCHANGED <<job, clientVars, cacheVars, coordVars, presses, toggles,
                   faults>>

Step(j) ==
    \/ Stagger(j) \/ ListAnswered(j) \/ SceneAnswered(j) \/ BindAnswered(j)
    \/ LoopAnswered(j) \/ LoopBroken(j) \/ EnergyAnswered(j)
    \/ DeferredAnswered(j) \/ ReloadDone(j)

Next ==
    \/ \E j \in Jobs : StartUpdate(j) \/ Press(j) \/ Resume(j) \/ Step(j)
                       \/ Fail(j)
    \/ Suspend \/ RefreshFromCache \/ SixtySecondsPass \/ CloudChange

\* Requests are answered or time out, and the timer fires again and again.
Fairness ==
    /\ \A j \in Jobs : WF_vars(Step(j))
    /\ WF_vars(\E j \in Updates : StartUpdate(j))

Spec == Init /\ [][Next]_vars /\ Fairness

----------------------------------------------------------------------------
(* Properties *)

TypeOK ==
    /\ job \in [Jobs -> Job]
    /\ allow \in BOOLEAN /\ startup \in BOOLEAN /\ deferred \in BOOLEAN
    /\ active \in BOOLEAN /\ count \in Int /\ recent \in BOOLEAN
    /\ devices \subseteq Devices /\ siteDevices \subseteq Devices
    /\ caches \in Nat /\ energy \in BOOLEAN
    /\ data \subseteq Keys /\ registered \subseteq Keys
    /\ scheduled \in BOOLEAN /\ ready \in BOOLEAN
    /\ cloud \subseteq Devices /\ left \subseteq Devices
    /\ outdated \in BOOLEAN /\ lost \subseteq Devices \X BOOLEAN
    /\ presses \in Nat /\ toggles \in Nat /\ changes \in Nat /\ faults \in Nat

Refreshing(j) ==
    job[j].pc \in IF j \in Updates THEN {"bind", "loop", "energy", "deferred"}
                  ELSE Request

\* The mark of a details refresh never outlives it, however jobs end: else no
\* update would ever get data again (coordinator.py:65).
FlagOwned == active => \E j \in Jobs : Refreshing(j)

\* A job that polls alone removes no device that never left the cloud, unless
\* a reload registered what it had found in caches that were cleared meanwhile.
LoneJobsRemoveNothing == \A d \in Devices : <<d, TRUE>> \notin lost

\* api_client.py:395 refuses a details refresh "while another update is still
\* running": no two run at once.
OneDetailsRefresh ==
    \A i, j \in Jobs : i # j => ~(Refreshing(i) /\ Refreshing(j))

\* api_client.py:520: "do not provide data when refresh suspended to avoid
\* stale data from cache is used for real".
SuspendedNoData ==
    ~allow => data = {}

\* coordinator.py:207: a device is removed "if not found anymore".  A device
\* that never left the cloud stays, whatever jobs meet.
OnlyOrphansRemoved == lost = {}

\* Once commands, changes and faults are over, the data and the registered
\* devices are those of the cloud, energy data included, or nothing while
\* refreshes are suspended.
Found == cloud \cap (Scenes \cup Bound)
Settles ==
    <>[](IF allow THEN /\ data = GetCaches(Found) /\ registered = data
                       /\ energy /\ ~startup
         ELSE data = {})
=============================================================================
