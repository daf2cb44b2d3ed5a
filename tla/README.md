# Specifications of ha-anker-solix

TLA+ specifications of the Home Assistant integration `anker_solix`
(`custom_components/anker_solix`): what its parts do between two awaits, what
they promise, what TLC checks of it on small instances and what TLAPS proves
for all of them. File names below are relative to that directory.

## 1. Inventory

The integration is one asyncio program. Home Assistant (HA) runs its coroutines
on one event loop; between two awaits code is not interrupted, at an await any
other coroutine may run. Only the MQTT client (paho) and file access use threads
of their own.

```
 entities, services, switch and buttons
      |  async_execute_command, async_get_data(from_cache)
 AnkerSolixDataUpdateCoordinator (coordinator.py)  <- timer of HA
      |  async_get_data()                             ^ mqtt_update_callback
 AnkerSolixApiClient (api_client.py)                  |
      |  update_sites, update_device_details, ...     |
 AnkerSolixApi (api.py, apibase.py, poller.py) -- cache: sites, devices, account
      |  request()                   |  startMqttSession, callbacks per device
 AnkerSolixClientSession          AnkerSolixMqttSession (mqtt.py, paho thread)
 (session.py: HTTP, login file)      |  SolixMqttDevice (mqtt_device.py)
      |                              |  DeviceHexData (mqtttypes.py)
    cloud (HTTPS)                  cloud (MQTT broker)
```

| Component | State | Operations | What is hard | What makes it correct |
| --- | --- | --- | --- | --- |
| HTTP session, `solixapi/session.py` | `_loggedIn`, `_token`, `_retry_attempt`, `_authFileTime`, the cache file of the account, the module's `API_HEADERS` | `request`, `async_authenticate`, `_wait_delay`, `loadFromFile` | `request` and `async_authenticate` call each other; three retries and the login share one flag; the file is rewritten over several awaits; several hubs share the headers | bounded retries, fail-fast logins, file and session agree, recovery from lost tokens, own token only |
| Request throttle, `session.py`, `helpers.py` | `RequestCounter`, `_endpoint_limit` | `add`, `recycle`, `add_throttle`, `_wait_delay` | checked before an await, counted after the answer | no more requests per minute than the limit, and no starvation |
| Coordinator and client, `coordinator.py`, `api_client.py` | data, `registered_devices`, `startup`, `deferred_data`, `active_device_refresh`, `_intervalcount`, `_allow_refresh` | timed update, refresh button, suspend switch, refresh from cache, reload, removal of devices | the timer, the button and the switch overlap at every await | marks do not outlive what they mark; only vanished devices are removed; data converge to the cloud |
| Pollers and cache, `poller.py`, `apibase.py` | `sites`, `devices`, `_site_devices`, `account` | `poll_sites`, `poll_device_details`, `poll_site_details`, `poll_device_energy`, `recycleDevices`, `clearCaches` | sets are reset and rebuilt across awaits, dictionaries are iterated across awaits | the cache holds what the cloud lists |
| Device updates, `api.py`, `apibase.py` | entries of `devices`, their `mqtt_data` | `_update_dev`, `update_device_mqtt`, `customizeCacheId` | MQTT and HTTP values of one field; values derived from others that arrive in any order | derived values follow what they are derived from |
| MQTT session, `mqtt.py`, `api_client.py` | client, subscriptions, trigger list, `mqttdata` | `check_mqtt_session`, `connect`, `subscribe`, `publish`, callbacks | callbacks on a thread; reconnects; replaced sessions | every wanted device subscribed after each connect, nothing delivered to removed ones |
| MQTT devices, `mqtt_device.py` and the models | controls, `mqttdata` | `update_device`, `validate_cmd_value`, `run_command` | stale device, mocked state | only described commands within their ranges are sent |
| Codec, `mqtttypes.py`, `mqttmap.py`, `mqttcmdmap.py` | none | `extract_value`, `encode_value` | width, sign, padding, lengths of one and two bytes that only what follows tells apart | what was built is read |
| Schedules, `schedule.py` | schedule of a site or device | `set_home_load`, `set_sb2_home_load`, `set_sb2_use_time`, ... | splitting and merging of slots | slots stay ordered, disjoint, within the day |
| Energy statistics, `energy.py`, `poller.py` | `energy_details`, `energy_offset_*` of a site and its devices | `poll_device_energy`, `energy_daily`, `get_energy_offset` | the cloud lags behind; one of many requests fails; yesterday is asked for once | what is stored for yesterday is final |
| Solar forecast, prices, `energy.py`, `apibase.py` | trend and hours of a site; price tables of the account, prices of a site | `refresh_pv_forecast`, `extractSolarForecast`, `refresh_provider_prices`, `extractPriceData` | answers, hours, days, restarts and selections overlap | one value per hour, the one of now, from the provider and with the fee named |
| Vehicles, `vehicle.py`, `select.py`, `button.py`, `number.py` | `vehicles`, `vehicles_registered` and the tree of options of the account | `get_vehicle_list`, `get_vehicle_details`, `update_vehicle_options`, `manage_vehicle` | poll and calls share and replace dictionaries at every request; a vehicle leaves the cache before its call | after an undisturbed call the cache holds what the cloud has |
| Subordinate APIs, `powerpanel.py`, `hesapi.py`, ... | cache entries | the same polls with other endpoints | as above | as above |
| Export, setup, entities, services | options | export, reload, forms | caches randomised in place | callers wait or skip |

`PROJECT.json` lists all components and, under `hazards`, every place found
where a test would hardly reach what can go wrong, with the properties that
would catch it. A hazard without a property carries the reason.

## 2. Modules

| Module | Models | Checked by | Proved in |
| --- | --- | --- | --- |
| `ApiSession` | HTTP session | `MCApiSession` | `ApiSessionProofs` |
| `RefreshCoordinator` | coordinator, client, pollers | `MCRefreshCoordinator` | `RefreshCoordinatorProofs` |
| `MqttSession`, refining the abstract `MqttFeed` | MQTT session, client threads, device cache | the module itself | `MqttSessionProofs` |
| `DeviceCommand` | MQTT commands and the mocked state | `MCSolixUnits` | `DeviceProofs` |
| `RequestThrottle` | request counter and endpoint limit | `MCSolixUnits` | `ApiSessionProofs` |
| `SlotList`, `HomeLoadSchedule`, `RatePlans` | the schedules | `MCSolixUnits` | `ScheduleProofs` |
| `UseTimePlan` | the use time plan | `MCSolixUnits` | `UseTimePlanProofs` |
| `EnergyStatistics` | daily energy | `MCSolixUnits` | `SiteDataProofs` |
| `SolarForecast`, `DynamicPrices` | forecast, dynamic prices | `MCSolixUnits` | `SiteDataProofs` |
| `Vehicles` | the vehicles of an account | `MCSolixUnits` | `VehiclesProofs` |
| `DeviceValues` | values of a device from messages and cloud | `MCSolixUnits` | `DeviceProofs` |
| `HexMessage` | the codec of binary messages | `MCSolixUnits` | `DeviceProofs` |

The first three are the core: tasks of the event loop that overlap at their
awaits, and threads. The others each change data of their own within one
coroutine at a time (or, in the throttle, the commands, the prices and the
vehicles, a few of them); `MCSolixUnits` puts them side by side: a behaviour chooses a unit and
stays with it. `RatePlans` and `HomeLoadSchedule` share the walk over slots that
the code has twice, `SlotList`.

How the modules meet: `RefreshCoordinator` uses of a session only that a request
is answered or fails, which `ApiSession` shows with the exceptions of `Answered`. `MqttSession` has
of the coordinator what touches MQTT: the periodic check, the recycling of
devices and the clearing of the caches; its own promise to the readers of the
cache is `MqttFeed`. `DeviceCommand` takes the connection as given and lost.

An abstract specification of the HTTP session (a call is answered once or
raises) was considered and dropped: `Answered`, `IdleIsReady` and `OwnToken`
already say it, and what an account's caller may rely on beyond them is false
(section 8).

## 3. ApiSession

### State and actions

A task that calls the session has a stack of activations of `request()`. The
login request that `async_authenticate()` awaits is a second frame. `pc` names
the code a frame stands at: `SyncPc` is code that runs without an await,
`AwaitPc` an await. `running` is the task whose code the loop executes;
a task resumes from an await only when no other runs.

| Action | Code |
| --- | --- |
| `Call` | `api_client.request`, `authenticate`, or the credential test of the dialog (`restart=True`) |
| `CheckExpiration`, `CheckLogin` | `request`, 439-457: expired token, missing login, refreshed file |
| `GenerateHeader`, `Send` | 245-268 and 549-571: the shared header dictionary, the delay, the request |
| `AnswerOk`, `AnswerLogin`, `AnswerKicked`, `AnswerForbidden`, `AnswerLimit`, `AnswerGateway`, `AnswerBusy`, `AnswerError` | 572-765: the branches on the answer, `_retry_attempt` and the repetition of the request |
| `Backoff` | 270-321: the end of a delay |
| `Restart`, `Authenticate`, `ReadFile`, `UseCachedLogin`, `UseNewLogin` | `async_authenticate`, 323-424 |
| `OpenFile`, `StampFile`, `CloseFile` | 398-402: the file is truncated when opened, stamped, and complete when closed |
| `Kick`, `Expire` | the cloud drops a token, a token nears its end |
| `RestartHomeAssistant` | only the file survives |

### Runs

| Run | Instance | Shows |
| --- | --- | --- |
| `session_single` | one task, two calls of any kind, any number of answers 429, gateway errors and busy answers, two other unhealthy answers, one lost token, one restart (about 560 000 states) | `TypeOK`, `LoginFailsFast`, `CacheCoherent`, `HealthyCloudNeverFails`, `SecondRepeatNeedsOtherCause`, and `Answered`: every call returns or raises, however long one kind of overload lasts |
| `session_concurrent` | two tasks, one session, one fault, one lost token (about 1.5 million states, symmetric in the tasks) | `IdleIsReady`, `CacheFileComplete` |
| `session_sticky_retry` | as `session_single` | `KickedTokenRecovers` fails: the retry flag outlives a failed call |
| `session_stale_cache` | two tasks, no fault, one lost token | `CacheCoherent` fails for two tasks: the file is read before it is stamped |
| `session_two_hubs` | two hubs of two accounts | `OwnToken` fails: `API_HEADERS` is one dictionary |

Bounds. The kinds of unhealthy answers in `Persistent` are given without end:
`faults` counts them up to `MaxFaults` and stays there, so that a property of
liveness cannot rest on their running out. The other kinds (refusals, other errors) are
given `MaxFaults` times, two, and each token is lost at most once, one in all: with an
overload before or after them they make every pair of causes for a repetition, the
most that one flag can confuse. A second call finds what the first left behind. With two tasks one fault and one lost token suffice, since
each is multiplied by all interleavings. `MaxLogins` is above what these
allow. `repeats` is capped at two: the properties tell zero, one and more
apart.

Fairness. The code of each task and the answers to it are weakly fair: the event
loop and the worker threads go on, and each request ends by its answer or by
its timeout (`ClientTimeout`). Nothing is assumed of faults. `Answered` has two
exceptions, which the code really has. Kinds of overload that take turns (429,
then 502, then 429, ...) overwrite each other's mark in `_retry_attempt`
(`session.py:667`, 703, 744) and repeat the request for ever, where the comments
say "repeat once" (666, 734). A 401 or 403 that persists while logins succeed does so
too: each login clears the mark (619, 359, 419) that would make the next refusal
"fail immediately" (649). The property therefore speaks of behaviours
in which, from some time on, the answers after which `request()` may go on are of one kind of
overload; it is stated with the actions themselves, as `[]<><<AnswerUnlike(t, kind)>>_vars`
for every kind. Without the first exception TLC finds the lasso of 429 and a
gateway error in this instance. `Answered` is claimed for one task: two tasks can in principle keep each other logging in by
truncating the file the other is about to read.

Simplifications. For answer 429 an endpoint limit is taken to be set (the
default). The content of answers, encryption, the length of delays and the
throttle are left out.

## 4. RefreshCoordinator

### State and actions

An activation of the coordinator is a job: the timed update (`Updates`), a
pressed refresh button (`Buttons`) or the switch that allows refreshes again
(`Switches`). Its `pc` names the await it is at. Of the cache the model keeps
which devices it holds, `_site_devices`, whether it holds energy data, and how
often it was replaced (`caches`): code that still iterates over a replaced
dictionary is told by the number it was `born` with. The cloud shows a device
in a site list, in a scene, or among the bound devices.

| Action | Code |
| --- | --- |
| `StartUpdate`, `Stagger` | `_async_update_data`, `async_refresh_delay` |
| `Press`, `Suspend`, `Resume`, `RefreshFromCache` | `async_execute_command`, `async_refresh_data_from_apidict` with the start of `async_get_data` |
| `ListAnswered`, `SceneAnswered` | `poll_sites`, and what `async_get_data` does next: count down, start a details refresh or the deferred energy request, or end |
| `BindAnswered`, `LoopAnswered`, `LoopBroken` | `get_bind_devices` with `recycleDevices`, `poll_device_details` and `poll_site_details` |
| `EnergyAnswered`, `DeferredAnswered` | `poll_device_energy` |
| `Finish...`, `Reload`, `ReloadDone`, `Remove` | what the coordinator does with the data |
| `Fail`, `Abandon` | an exception and the `finally` clause |
| `SixtySecondsPass`, `CloudChange` | the clock, devices that come and go |

`lost` records removals of devices that never left the cloud, and whether the
job that removed them was alone and the registered devices were not `outdated`:
found in caches that were cleared before a reload registered them. Both are
history variables; no guard reads them.

Observation. A reload registers the devices found before its first await
(`coordinator.py:259`). If refreshes are suspended and allowed again meanwhile,
which clears the caches, and the details refresh that follows fails, the next
updates find the devices of the sites only: a bound device that never left is
unregistered although nothing else runs. `LoneJobsRemoveNothing` leaves this case
out by name (`outdated`).

### Runs

| Run | Instance | Shows |
| --- | --- | --- |
| `refresh_hub` | one timer, one button, one switch; one press, one suspension, one failure, one device that joins or leaves; a device found in its site and one only among the bound devices (about 690 000 states) | `TypeOK`, `FlagOwned`, `LoneJobsRemoveNothing`, and `Settles`: once commands, changes and failures are over, data and registry are those of the cloud |
| `refresh_overlap` | one press, no failure | `OneDetailsRefresh` fails: an update starts its details refresh without testing the mark again |
| `refresh_suspended` | one press, one suspension | `SuspendedNoData` fails: an update in flight restores data after the switch |
| `refresh_orphans` | one press, two devices listed by a site, none bound; nothing fails, nothing changes | `OnlyOrphansRemoved` fails: a device is recycled while the set of site devices is being rebuilt |

Bounds. One job of each kind runs. A second press or a second update can start
during the first only after a refresh from the cache has cleared the mark, or
a press has set the timer during an update; it would add a third refresh to the
two whose overlap `refresh_overlap` shows already, and `FlagOwned` is proved
for any number of jobs. Two devices tell apart the ways the cloud shows a
device. `Intervals` is 3 in `refresh_hub`: an update with deferred data, one without
details and one with them then follow each other (with 2, the least the options
allow, the update after the deferred data always gets the details, and the
observation above cannot be made). One command, one failure and one change
each meet every await of the other jobs.

Fairness. The steps of each job are weakly fair (requests end by answer or
timeout, platforms load), and the timer of the coordinator fires when it is set.
Presses, suspensions and failures need never happen.

Simplifications. Failures are those after which HA tries again; refused
credentials stop the timer until the user logs in again, which sets the hub up
anew. Sites, vehicles, passive devices, the MQTT session check, the
cache export (`toggle_cache`) and the delays between hubs are left out, and so
is the count of MQTT values, which can cause more reloads. `count` may fall
below zero in the code as in the model.

## 5. MqttSession

### State and actions

Two worlds meet: jobs on the event loop (`check_mqtt_session`, the recycling of
devices, the switch of the MQTT usage) and one paho thread per client. A loop
over devices without an await keeps the event loop (`LoopFree`) but not the
threads waiting. `sess` holds what a session object keeps (client,
subscriptions, callback, devices known by message), `conn` what a client and
its thread are at, with what the server has granted it. A session or client is
a number, in the order of creation: an old one may go on after its
session dropped it. A topic is the device it is about; `mdev` says whether the
MQTT device of a device holds the dictionary that is in the cache (`fresh`) or
one that was replaced (`stale`), `watched` who is registered for callbacks.

| Action | Code |
| --- | --- |
| `StartSession`, `RestartSession`, `CheckSubscriptions` | `check_mqtt_session` and the start of `startMqttSession` |
| `InfoAnswered`, `FilesWritten`, `TlsSet` | `create_client`, from await to await |
| `Connected`, `TimedOut`, `NoServer`, `RequestFails` | the wait of 15 s and what can fail before it |
| `SubscribeDevice`, `CreateDevices`, `Resubscribe`, `Resubscribed` | `subscribe_device`, the MQTT devices made anew, the later checks |
| `Disable`, `Enable`, `ClearCaches`, `RecycleDevice`, `FindDevice`, `RemoveDevice` | `mqtt_usage`, `stopMqttSession`, `clearCaches`, `recycleDevices` with the callbacks of the devices |
| `Connack`, `OnConnect`, `Renew`, `Suback` | a thread: connection, `on_connect`, the loop over the subscriptions, the answers of the server |
| `Receive`, `Merge` | `on_message`, `mqtt_received` with `update_device_mqtt` |
| `Send`, `Lose` | the devices and the network |

### What it refines

`MqttFeed` is what a reader of the cache may rely on: per device the values come
from its messages in their order, only while there is a session, and they go
when it is stopped or the device leaves the cache. `FeedSpec` maps `session` to
`mqttsession # None` and `feed` to `data`. It holds with one check at a time.
With two that overlap it does not: each creates a client for the session
they found, the first client is dropped with its subscriptions in force, and
its messages, handled by a second thread, can put an older value over a newer
one. The check is called by every details refresh and by the switch of the MQTT
usage (`api_client.py:424`, `495`, `690`); those that overlap (section 4) can
bring two checks together while a start is waiting.

### Runs

| Run | Instance | Shows |
| --- | --- | --- |
| `mqtt_hub` | two devices, one of whose topics the server refuses; one check at a time; one fault, one change of the cache, one disabling or clearing, two messages, three sessions and clients (about 980 000 states) | `TypeOK`, `SubscriptionsRenewed`, `OldClientsSilent`, `RegisteredDevicesCurrent`, the refinement `FeedSpec` and `SessionSettles` |
| `mqtt_disabled` | one device, two faults | `DisabledLeavesNoValues` fails: a session that cannot be restarted is dropped without its values, which `stopMqttSession` then no longer clears |

Bounds. Each restart or stop costs a session or a client: three of them are more
than one fault, one toggle and the first start use up. Two messages are needed
for an order; one change meets every point of the thread and of the check.
Faults (a lost connection, a failed request, a time-out) are bounded, a clean
`Suback` or refusal is not a fault.

Fairness. Threads run, requests are answered or time out, the check is called
again and again, and the polls find every device. `SessionSettles` names the one
case in which the session does not settle: `on_connect` iterates the set of
subscriptions while the event loop, which already sees the connection, adds to
it; the exception ends the thread, `is_connected()` stays true and nobody
notices (state `dead`).

Observations. Devices found after the session has started get no MQTT device
until MQTT starts anew. `update_device({})` ignores the removal it is told of
(`apibase.py:230`), so that the MQTT device keeps the old dictionary. The test
for a refused subscription (`mqtt.py:427`) runs before the answer can be there
(`mqtt.py:106`) and finds only failures of earlier attempts whose answers came
in between. The message poller is not called by the integration, which has
triggers of its own. Left out: publishing, the topics of one device apart from each
other, and the one command that a charger of type A2345 is sent while the MQTT
devices are created (`api_client.py:802`).

## 6. The units

`MCSolixUnits` with `SolixUnits.cfg` (run `units`, about 2.7 million states)
checks the following modules, one per behaviour. They have no liveness
property; their next-state relations stop at the named bounds.

### DeviceCommand

A command to change one setting carries the others that share its byte (as the
settings of the charger's display do): what is known of them when it is
composed. After it is published the entity writes what it sent into the known
state ("mock"), and after a pause asks the device for a report. `wire` and `air`
are what is under way to and from the device, `held` what the device has, `due`
what was published or reported last, per flag.

`CommandsAddUp`: two switches set one after the other do not undo each other,
and flags that are no setting are kept. It speaks of commands composed from
what was known just before (`ComposedFresh`), since the code has two exceptions:
a command composed before it awaits the start of the MQTT session
(`mqtt_device.py`, `startMqttSession`) is published with the settings of
before, and a report sent before a command but received after it makes the next
command reset that setting. `QuietCacheTrue`: when nothing is under way
and no report was lost, the known state is the device's, whatever it refused.
Bounds: two commands (three: 20 million states, no violation), one change at the
device, one report of its own, one lost connection, messages in order.

### RequestThrottle

Time passes in ticks; the counter holds the ages of the requests it counts.
`LoneTaskKeepsLimit`: a task that has the session for itself never has more
requests in the last minute than the limit or what was there when the throttle
began, over late answers, refused requests and changes of the limit. For
several tasks this does not hold: they read the same count and are released by
the same oldest request, so that the excess grows with each round; a
request that times out is not counted at all.

### Schedules

`SlotList` is the walk over the slots of a day, `HomeLoadSchedule` the
schedule of the first generation (`set_home_load`), `RatePlans` the plans for
weekdays with the backup charge (`set_sb2_home_load`, `set_sb2_ac_charge`, with
request, rejection and the cached schedule), `UseTimePlan` the seasons and
tariffs (`set_sb2_use_time`). A call is a record of its arguments. The
properties compare each call with a definition by the minute (or hour, month,
weekday): what was asked for holds at the times asked for, everything else stays
as it was; slots stay ordered and disjoint, seasons cover the year, loads stay
within their limits (`HomeScheduleSound`, `HomeEditsExact`, `PlanEditExact`,
`BackupAhead`, `UsePlanStaysComplete`, `UseEditsExact`; the parts each is made
of are definitions of their own). The walk itself is code of 500 lines per function that
compares texts; the reference definitions are a few lines each.

Bounds: a day of five ticks, where the last but one stands for 23:59 and the
last for 24:00; two calls for the first generation (the second finds every list
the first can leave), one for plans and use times, whose first lists already
hold one, two and three plans or seasons, equal and different day types; a year
of four months, a day of three hours, three tariffs; an hour of the call may end
at midnight (0), which the code tests once as a number and once as `None`.

Defects met while modelling, each kept in the model and named in the property
that leaves it out:

1. `schedule.py:1678`: `int(rate_plan[-1].get("index") or -1) + 1` is 0 again
   when the last index is 0; the new plan takes the index of the only one, which
   loses its weekdays (`Clash`).
2. `2053`, `3016`: `{usage_mode_options}` is a set of a set. Deleting the
   use time plan while the mode is `use_time` raises a `TypeError` after the
   cached schedule was emptied and before the request; a later call sends the
   deletion.
3. Deleting a tariff or slot where weekday and weekend differ reads a variable
   that is not set (an exception) or is that of an earlier season (the other day
   type is changed and copied). Where they are the same, one day type cannot be
   selected (`2728`): the tariff or slot is deleted from both, although the docstring
   has "from selected day type(s)" (`2398`) and "from given day type" (`2400`).
4. `2699`, `2837`: a start month or hour without an end leaves the time before
   it without a season or slot, unlike the docstring (`OpenEnded`).
5. A call in the last minute of the day adds a second slot 23:59-24:00
   (`NowTimes`).
6. A slot that fills a gap in advanced mode keeps the loads of the slot it
   is copied from, while its appliance load is the default.
7. The cached schedule is changed before the request: after a rejected request
   it stays changed until the next poll, and the next call sends it.
8. `2235`: enabling the backup charge with a start in the future and no end
   replaces the start by now; with a duration and an old start, the time it
   enables may be over.
9. `2664`, `2800`: a deletion of a range of months or hours that begins in the first
   season or slot and ends with the next one or later, but before the end of the year or
   day, deletes the first only; the next is stretched to the start. The docstring
   (`2400`, `2406`) and `INFO.md:960`, 969 have all of them deleted.
10. A deletion with a tariff and an hour deletes the slot (`2548`; so does
   `INFO.md:961`), where the docstring puts the tariff first (`2398`).
11. Smaller disagreements with the docstring or with `INFO.md:934-970`, each with its
   lines at `UnlikeDocs`, which lists all cases that `UseEditsExact` leaves
   out: an end without a start changes the whole season or slot; an end at midnight
   (0:00) is before every hour for a change and no hour for a deletion; a tariff with a
   price and no hours changes the price only, where there are several slots;
   deleting one of two equal day types changes nothing; deleting with a price only
   deletes nothing, deleting all day types without months the whole plan.
12. `select.py:1833`: leaving the backup mode clears the switch in the cache only.

### EnergyStatistics

A poll is a queue of requests, each of which may fail and end it. Time passes in
ticks, a value is the number of ticks of a day the cloud had counted in it, and
the cloud's clock is shifted. Sites of three kinds run: one bank with a
meter, third-party PV and channels; two banks and a charger; two power stations,
for which `get_energy_offset` measures how far the cloud is behind.

`YesterdayFinal`: yesterday is asked for once, and what is stored is that of the
whole day. `OffsetSettles`: the measured offset never falls behind the cloud's
and is exact after 40 minutes of polls. `BreakdownFollows`: the banks hold
yesterday if and only if the site does. Exceptions, named in the module:
`PeriodTotals` (the total of a period stored for its first day contains
today), `cut` (a failure within the requests of the banks leaves them without
yesterday for a whole day: whether it is asked for is decided by the site),
`settled` and `empty` (records that are missing in the cloud's table).

Bounds: a day of four ticks, records every two, nine ticks; clocks one tick
before or behind (larger instances without violation: 13 ticks with shifts from
-2 to 2, 10.7 million states; a day of six ticks with records every three, 3.1
million states).

Observations: `offset.total_seconds == 0` (`energy.py:1408`) compares a
method and is never true: after a pause of the polls at the turn of a record the
offset stays up to 20 minutes too high; with poll intervals above five minutes
the margin does not cover the error.

### SolarForecast

`TrendInOrder`: no hour occurs twice in the trend, whatever answers, hours, days,
restarts and changes of the smart mode come in between. `ShownHourCurrent`: the
hours shown are those of the trend, and a refresh within the hour finds
it, the last one of a day too. Bounds: a day of four hours, ten hours (13: no
violation), one restart, change of mode and failure each.

Observations: an hour that passes during a refresh leaves a hole in the trend
until the next day; right after midnight the production of yesterday
may be subtracted from today's; without smart mode each poll after midnight
adds the whole day's production again; an empty entry for today raises a
`TypeError` at the comparison of its date.

### DynamicPrices

The account keeps a table per provider, a site the prices calculated from the
table of its provider with its fee. The poll of the site and the selection of a
provider are two tasks; the owner's provider is a setting of the cloud,
that of a member a customization, restored at the start. `PriceShownTrue`: the
price shown is one of the provider named beside it, with the current fee, for
the hour of its extraction; on the day after a table without a next day the last
slot stays. Bounds: a day of two hours, three hours, two providers, one call
(four hours and two calls: 2.5 million states, no violation). That it holds for
any bounds is proved (section 9).

### Vehicles

`garage` is what the cloud knows, `vehicles` and `registered` the cache,
`options` the nodes of the tree of brands, models and years that are loaded. Two
errands run: the details poll (`poll`) and a call of the user (`user`, which may
also be the refresh button). An errand's `at` names the request it awaits, `then`
what follows once options are loaded.

| Action | Code |
| --- | --- |
| `PollVehicles`, `RefreshVehicles` | `poll_device_details`, the refresh button |
| `Manage` | the entities of a vehicle and `manage_vehicle`: it takes the vehicle out of the cache before it asks for anything |
| `Load` | `update_vehicle_options`, a node at a time, and what its callers do next |
| `AnswerList`, `AnswerDetails` | `get_vehicle_list`, `get_vehicle_details` |
| `AnswerAction`, `Refuse`, `FailErrand` | the answers to `manage_vehicle`; an exception of a request |
| `ChangeGarage` | the owner's app |

A dictionary that two errands hold is one until one of them stores another:
`same` and `list` tell whether an errand still holds the cache's, `base` what
it holds otherwise. `broken` marks the loop over vehicles that raises because a
call has taken one out of the dictionary while options were awaited
(`vehicle.py:61`).

`VehiclesFollow`: a poll or call that met no failure, no other errand and no
change in the app leaves the cache as the cloud is, what it had removed included.
`RestoreExact`: the one pass over the variants, whose order is that of a set,
finds the variant selected, or one with the present capacity. Bounds: two
vehicles, four variants of three models and two brands, one call, one failure and one
change, which meet every request of the poll.

Observations: after a refused or failed call the vehicle is missing until
the next poll (643). The list has already brought the brand, model and
capacity when the details are compared with the cache (103), so a model changed
in the app keeps the old model id unless power or use differ too. `apitypes.py:2215` reads `brand:` where the other
attributes have their names.

### DeviceValues

`ReceiveValues` merges the values of one message into `mqtt_data`, in their
order, and calculates what is derived (`Efficiency`, `Combined`, `PortMask`,
`Batteries`); `PollDevice` takes state of charge and expansions from the cloud;
`CustomizeSize` and `CustomizeOverlay` are the two settings the energy depends
on. `heard` is what the MQTT session has of the device (the message included),
`merged` what the device shows.

`EnergyCurrent`: each source of a state of charge, a capacity or a number of
expansions calculates the energy from what is known by then. `CircuitsAddUp`:
circuits that share an id are counted once. Bounds: a bank, a panel and a charger
with the messages that set each value alone and together; three messages, two
polls, two settings.

Observations: the priority of ports is shifted right, `>>` (`apibase.py:1104`),
so that only the first port counts, where the comment at 1098 and
`mqttcmdmap.py:2122` speak of a bit per port. A battery that falls to 0 % leaves
the energy as it was (1141). Choosing the values of MQTT (`mqtt_overlay`) does not
calculate the energy again. Left out: values copied one by one under the
same or another name, sums over more channels, times and texts.

### HexMessage

`UpdateField`, `PopField` edit a message, `Hex` builds its bytes, `Parsed` takes
them apart; `SendValue` is `MqttCmdValidator.check` and `encode_value` for one
number, `ComposeField` a field with subfields. All are pure; the module checks
the code that reads against the code that writes.

`WrittenIsRead` has three parts. `ReadAsBuilt`: a message is read as it was
built. `SentIsRead`: a device decodes the number that was asked for, to the nearest
step, for each type, sign and divider. `PartsReadBack`: subfields do not
disturb each other, whatever their padding; of a text the end is cut when its
field is full. Bounds: up to four fields of six
names, of no byte, a few, 32, 240 and 301 bytes; numbers at the limits of their widths.

Observations, each named in the property that leaves it out: a message that ends
in text swallows its checksum when that is a printable byte (`mqtttypes.py:218`);
a short field followed by 256 bytes or more is misread when its bytes look like
a long length (162). And beside the properties: `set_grid_export_limit` allows 0
to 100000 (`mqttcmdmap.py:881`) in two signed bytes, so that values above 32767
raise an `OverflowError` (776), which nobody catches; `int(value / divider)` (855)
truncates, so that a value that is not exactly representable is sent one unit too
low. Left out: JSON (a text that begins with "{" or "[" is taken for it), floating point, factors, times and bit masks.

## 7. Choice of bounds, in general

Every bound is a constant named `Max...`, `...End` or as listed above, and sits
in the guard of the action it limits. `CHECK_DEADLOCK FALSE` is set where a
behaviour ends at its bounds or where the code ends (a hub that is unloaded).

## 8. Findings

Seven runs are expected to fail; each checks one sentence of a comment, a log
message or a document against the code, and `PROJECT.json` gives the line and
the course of events. Three concern the session (the sticky retry flag, the
stale time stamp, the shared headers), three the refresh (overlapping details
refreshes, data while suspended, devices removed that were never gone), one MQTT
(values that outlive it). The observations of sections 3, 5 and 6 have no run of their own: no
text of the repository promises otherwise, or a property that holds for
all other cases leaves them out by name, with the lines that disagree (`Answered`,
`UnlikeDocs`).

## 9. Proofs

All theorems hold for any values of the constants that satisfy the named
assumptions. The order of an argument is the same everywhere: an invariant that
is inductive, one lemma per action or kind of action, the theorem by PTL.

`ApiSessionProofs`: `TypeCorrect` (`TypeOK`). The inductive invariant is
`IInv == StackOK /\ DataOK`. `StackOK` joins the types of the stacks with what the
event loop and `await` guarantee of them, `OneTaskRuns` (one task is at synchronous code) and
`WellNested` (a login stands on the frame that awaits it); these two are parts of
the proof and say nothing of `session.py` by themselves. That a login returns to
a frame that awaits it needs that frame to be the one below the top, and that a
step touches only the top frame of the task that runs. A few lemmas say what replacing, pushing and
popping the top of a stack keeps (`PutStep`, `PushStep`, `PopStep`, `DropStep`,
`FirstStep`); each action is then one of these.

`RefreshCoordinatorProofs`: `TypeCorrect` and `MarkOwned` (`TypeOK`,
`FlagOwned`: the mark is set only while a details refresh is under way), from
`RefreshAssumption`. `FlagOwned` with `TypeOK` is inductive: a step clears the
mark, moves a job that does not refresh, or moves a job to a point where it
refreshes. `LoneJobsKeepDevices` (`LoneJobsRemoveNothing`) also assumes
`ListedShown`: what a site lists the cloud shows in its scene or among the bound
devices too. Without it the property is false (TLC: nothing in a scene, one of
two listed devices bound), since a details refresh forgets a device that it
finds in the list alone. The invariant `Lone` says that only what the cloud showed
is cached or registered (`AllShown`), that nothing is registered before the hub is
set up (`SetUp`), that the caches keep the bound devices a reload registers
(`BoundCached`), and what a job that polls alone has at each of its
awaits (`LoneDetails`). What a job does with its data is summed up once
(`Outcome`).

`MqttSessionProofs`: `MqttTypesKept`, `TopicsRenewed` and `DevicesFollowCache`
(`TypeOK`, `SubscriptionsRenewed`, `RegisteredDevicesCurrent`), for any number
of checks that overlap. The invariant `MqttInv` joins `SessionInv`
(types of sessions and connections, `ClientOwned`, and `TopicsKept`: at each
point of a thread every topic of its session is granted, refused, being sent or
still to be renewed) with `ApiInv` (types, `JobOK` and the property itself).

The second part of `MqttSessionProofs`: from `LoneCheck` (one check at a time),
`LoneCheckFeeds` is
the refinement `Spec => FeedSpec` and `LoneCheckSilent` the property
`OldClientsSilent`. `FeedInv` adds that the client of the session is the only
one with topics (`EngagedIsCurrent`, `OthersWithoutTopics`, `ClientToCome`,
`DroppedIsOver`), and that messages on their way are numbered upwards and newer
than the values (`Numbered`, `InOrder`). Each step is then a step of `MqttFeed`
or leaves `session` and `feed` alone.

`DeviceProofs`, first part (`DeviceCommand`): `CommandTypesKept`, `CommandsKeepOthers`
(`CommandsAddUp`) and `QuietKnowledge` (`QuietCacheTrue`), for any settings and
bounds. The first rests on `KnownIsDue` and `ComposedFromBasis`: what is known
equals what is due as long as no report of before is on its way. The second
follows what each party will know once the messages on their way have
arrived (`VersionsTrue`, `CommandsAsked`, `LastWordTrue`): the last report is
always asked for after the last command.

Second part (`DeviceValues`): `EnergyFollows` (`EnergyCurrent`), from
`MessageAssumption`: a message is a sequence of keys the code tells apart, with
their values. `ValuesInv` keeps that the capacity is that of the expansions counted
last, so that an unchanged count needs no new capacity (`CalculatedRight`). The
rest is that every source of a new state of charge calculates: for a message this is
an induction over the number of its values (`AllValuesAsk`), none of which takes
back what another one asked for (`OneValueAsks`).

`CircuitsStaySummed` (`CircuitsAddUp`), from `OrderAssumption` too: no key occurs
twice in a message, and the ids of circuits come before their power, as the fields
e3 and e4 do. Ids in any number of messages may name any circuits alike.
`Walked` says what holds after the first values: no circuit is in two groups
(`CircuitAdded`), each has been told in this message, and once a circuit is known,
every power that was told is shown as told; before, it would be dropped, which is
why the ids must come first (`IdWalks`). Of three circuits two at most share an id or all
three do, so that there is one group at most (`OneGroup`); combining it moves the power of
the others to its first (`CombinedAddsUp`), and what else is derived spares the
circuits (`DerivedAddsUp`). `CircuitsInv` keeps that the circuits shown are good
ones, for a message that tells power only.

Third part (`HexMessage`): `WrittenStaysRead` (`WrittenIsRead`), for any fields,
numbers and layouts, of any number and length. The assumptions say what may be
written. `FieldAssumption`: an increment is no field name of the start (160 to
169); a field has a type or is what cannot be taken for one, it is not empty and
its length fits two bytes, only texts and binary data are longer than one byte
can tell, and a text does not begin with the byte 4. `DescAssumption`: ranges
are integers, and what is sent with a divider is a multiple of it.
`LayoutAssumption`: numbers fit their bytes, texts are shorter than 256 letters
and have no space at their ends, which reading strips (`mqtttypes.py:424`), and
in a field of a given length only the last part has a length byte. The messages
`ReadAsBuilt` leaves out are left out by the property, not by an assumption. The
invariant `HexInv` says only that the fields are from the choices and that what
was sent or composed last is as a command builds it; each part of the property
is then a fact about operators, proved as a lemma.

1. `SentReads`: of 1, 2 or 4 bytes, signed or not, `Decoded` gives the number
   again (`DecodedIs`); a number is checked to the nearest multiple of the step.
2. `ReadsAsBuilt`: by induction over the fields not read yet, from the last to
   the first. At the start of a field its length is recognised as one byte or
   two (a long one by its type and by what would follow it; a short one because
   too few bytes are left or, for a text, because the next name is no text), its
   text takes no byte of the next name, because names ascend, and the checksum
   is one byte no field begins with.
3. `AllWritten`: after each part `WriteInv` holds. The parts so far are in their
   places (`PlacedIn`), later ones do not reach them, and beyond the last one
   the field is zero, which is what a part that writes nothing is read from.
4. `AllPartsRead`: reading goes on where writing did (`Going`) as long as no
   text was cut, which only happens to a last one when it has a length byte;
   beyond the end of the field only empty texts were written (`Ended`,
   `NothingThere`).

`SiteDataProofs`, first part (`EnergyStatistics`): `OffsetsSettle` (`OffsetSettles`), `BreakdownsFollow`
(`BreakdownFollows`) and `YesterdaysFinal` (`YesterdayFinal`), for any sites and
shifts of the cloud's clock, and days of any number of intervals. The
assumptions: a day is two or more whole intervals (`EnergyAssumption`); where no offset is measured the cloud is behind by
the margin at most, and time zones are less than a day apart
(`ShiftAssumption`); each bank is named once (`SiteAssumption`).
`SettleInv` follows the offset from tick to tick: while each is polled it falls
by one (`Falls`) until it is exact (`Settled`), but for the last interval of a
day, whose next record is looked for on the next day an interval later (`Waits`).
TLC found each of the three on a day of nine ticks before they were proved.
`PollInv` says that the table of a poll that asks for yesterday holds it, whole
if the cloud's day is over, which the exact offset and the margin ensure.
`FollowInv` says that the banks up to the one being polled have what the site has.

Second part (`SolarForecast`, `DynamicPrices`): `TrendsInOrder` (`TrendInOrder`), `ShownHoursCurrent`
(`ShownHourCurrent`) and `PricesStayTrue` (`PriceShownTrue`). The forecast holds
for days of more than two hours (`ForecastAssumption`: with fewer, an answer may
be nothing but the slot that is dropped). Today's answer and tomorrow's are one
run of hours without a gap, whatever hour each arrives in, and 00:00 is in
it once (`TodaysAnswer`, `TomorrowsAnswer`); old slots are kept before its first
hour only (`KeptFacts`, `GrownFacts`). `DetailsTrue` then adds that the hours
shown are in the trend and follow each other. The prices: each step leaves
them or is an extraction; the only step that changes the fee always calculates
again, and an extraction with the same provider and fee keeps true prices true.

Second part of `ApiSessionProofs`: the six invariants that runs of single calls check
(`LoneLoginFailsFast`, `LoneCacheCoherent`, `LoneHealthyCloudNeverFails`,
`LoneSecondRepeatNeedsOtherCause`, `LoneIdleIsReady`, `LoneCacheFileComplete`),
for any number of hubs, calls, faults, kicks and restarts, under the assumption
`LoneTasks`: a session is called by one task and an account used by one session.
The violation runs show that overlapping calls need this assumption. `LoneInv`
says of each task what the point it has reached knows about its session: which
recovery set the flag, whether the file exists and holds the token, which
repetitions are counted. Every step of a task keeps the facts about it (one
lemma per action), and steps of others leave its variables alone.

Third part of `ApiSessionProofs` (`RequestThrottle`): `LoneTaskIsThrottled`
(`LoneTaskKeepsLimit`), from `ThrottleAssumption`. `RoomKept` says that a request
that may be sent finds room under the bound, `OldestFirst` that the ages are
ordered, so that the wait for the oldest one makes room, `OneBusy` that nobody
else uses it.

`ScheduleProofs`, first part (`SlotList`, `HomeLoadSchedule`):
`HomeScheduleStaysSound` (`HomeScheduleSound`) and `HomeEditsStayExact`
(`HomeEditsExact`), for schedules of any number of slots, from `HomeAssumption`.
The walk over the slots has two invariants over the slots passed. `Inserting`: until
the new slot begins the list holds exactly what was passed; from then on it
holds the new slot (`Done`), every other time as before (`Spared`), and the end the
walk still has to start the next slot at. `Setting`: a slot that was passed is
updated if it covers the current time, kept otherwise, and the gap of the current time
is filled once. What a turn does to the list is one of three additions
(`AddBefore`, `AddAfter`, `AddNothing`), whatever a slot contains; the second part
uses them again. `HomeInv` adds the limits of every slot. It assumes
`AllAgree`: in a schedule of two banks the lower limit of the appliance
is twice that of a bank, which is also what the code takes where the cloud
does not tell it (`int(min_load / 2)`, `schedule.py:708`). Without it the load that
follows from the two banks (`schedule.py:1218-1241`) is not brought back to the
schedule's limit.

Second part (`RatePlans`), from `PlanAssumption`. `BackupStaysAhead` (`BackupAhead`):
what one call makes of a charge is arithmetic (`BackupIs`), and `ChargeInv` says that
each copy of the schedule, the part on its way included, holds a charge that ends
after it starts. `PlanEditsStayExact` (`PlanEditExact`), for any number of plans,
days and slots. `PlanInv` adds to `ChargeInv` that each copy holds plans with slots
in order, also when a `Clash` has spoilt the weekdays; that a call then finds,
cuts and fills the right plan follows from the call alone:

1. `PlanSlotsAre`: the slots of one plan, by the two invariants of the walk above.
2. `ChooseTarget`: in tidy plans and without a `Clash` the call has a plan at some
   place `k`, known or added, whose index is `k - 1` (`Target`), and it starts from the
   slots of a plan of its days (`ChosenFrom`).
3. `CuratedTidy`: `Cleared` is the invariant of the pass that takes the days of the
   call from the other plans and numbers them anew. Each plan that is left stems from
   one before it, none that keeps a day is lost, and the index that is carried
   along is still that of the plan of the call, also after an earlier plan is dropped.
   `Ready` with `k = 0` is the call that deletes.
4. `RewriteDays`, `OtherDays`: that plan is the only one of the days of the call,
   and every other day has the slots it had.

`UseTimePlanProofs`: `UsePlansComplete` (`UsePlanStaysComplete`) and `UsePlanTyped`
(each season keeps slots and prices for both day types, also after a call that
fails or leaves gaps), from `UseAssumption`: months, hours and tariffs within their
ranges, and plans of the form the cloud has. Nothing is assumed of how many
seasons, slots and prices there are, or whether the first plan is complete. One call
is four walks inside each other, and each has two facts: what it keeps whatever
the plan is (`SlotKept`, `SeasonKept`), and what holds of what it has passed of a
complete plan:

1. `SlotSound`: the slots end at the hour that is passed or, when slots after
   them are gone or overwritten, at the hour the next one is delayed to; a delay
   beyond the passed hour comes from the slot that was looked for only, so that
   another one cannot be hit, and the end of the call is still as it was
   given (`SlotTurnSound`).
2. `PriceSound`: the prices that are kept are for different tariffs, and a price that
   is cleared is of a tariff no slot has; the tariffs found without a price get one each, because
   `Ascending` lists a finite set without repetition (`AscendingIs`, by cardinalities).
3. `DayTurnFull`, `DaysWalkWell`: a day type without slots takes those of the
   other one, a copied one its prices too, so that the flag that both are the same
   stays true; a change never takes the last slots (`~Low`).
4. `SeasonSound`: as for the slots, with the months; a deletion within seasons goes
   on after a delay, a change does not. At the end of the year the list covers it
   or is empty (`SeasonWalkCompletes`).

`OpenEnded` calls are left out by the property and are where the proof needs it: a
start without an end has no month or hour at which the slot before it could end.

`VehiclesProofs`: `CacheFollows` (`VehiclesFollow`) and `RestoresExactly`
(`RestoreExact`), from `VehicleAssumption`: the catalogue is finite, its ids are
not 0, and vehicles have their attributes. `VehiclesFollow` speaks of the end of an
errand only, so `VehicleInv` says what an errand that still counts has reached
(`StageOf`): once the list is stored the cache agrees with the cloud and
everything in it is registered, and while options are awaited in a loop the
dictionary the errand holds is the cache's. That rests on `JudgedInv`: an errand that
counts is the only one since it began, because each start and each change in
the app spoils those that run. A step of an errand that runs is brought to one
form (`Advances`: it goes on as `n`, what it replaces leaves the others alike), and
so is a start (`Begins`); two lemmas then keep the invariant for all actions.
`RestoresExactly` needs what the pass over the variants ends with for every order of
them: an induction over their number (`BestMatchIs`), and that each order
contains every variant (`MatchesAre`, with the cardinality of the set).

Only model-checked. Liveness (`Answered`, `Settles`, `SessionSettles`): the
prover has no fairness. `UseEditsExact`, which compares every
hour of the use time plan before and after a call: no
proof was tried. Where a proof rests on a recursive
function over a list (`SolarForecast`, `Vehicles`, `DeviceValues`, `HexMessage`, the schedules, the use time plan), it
shows that the function exists and what it gives by an induction over the set of
lengths (`NatSet`, with `KeptExists`, `BestExists`, `AfterExists`, `CurationExists`,
`StepsExist`). The folds of the community modules take an operator, so there is no
such way for them, and the modules proved about do without.

## 10. Not modelled

* Most lines of the repository are tables: the maps of MQTT fields and commands
  (`mqttmap.py`, `mqttcmdmap.py`), the types of devices (`apitypes.py`), the
  descriptions of entities. They have no behaviour to specify, and they are why
  the share of mapped lines stays small.
* Of the codec: fields of JSON and floating point, factors, times. Of
  `_update_dev` and `update_device_mqtt`: the fields that are copied or renamed
  one by one.
* The export (`export.py`) randomises the caches in place while it writes them.
  What the randomised values do to a reader depends on the reader.
* Setup, options, forms, services and diagnostics are Home Assistant's
  interfaces. A restart of Home Assistant is an action of `ApiSession` and
  of `SolarForecast`.
* The subordinate APIs (power panel, home energy, chargers) repeat
  the polls with other endpoints.
* The totals derived from the forecast, helpers for time and weekdays, the
  formatting of values.

## 11. Running the checks

```
tlc -workers 2 -config SessionSingle.cfg MCApiSession
tlc -workers 2 -config RefreshHub.cfg MCRefreshCoordinator
tlc -workers 2 -config MqttHub.cfg MqttSession
tlc -workers 2 -config SolixUnits.cfg MCSolixUnits
for m in *Proofs.tla; do tlapm $m; done
```

Each `.cfg` names its specification, constants and properties; `PROJECT.json`
says which runs must pass and which must find a violation, maps every
definition to the lines it models, and gives for each property a faulty variant
of a definition (commented *Faulty* in the modules) that it catches.
