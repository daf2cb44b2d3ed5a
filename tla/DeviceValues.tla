---------------------------- MODULE DeviceValues ----------------------------
(***************************************************************************)
(* The values of a device: what update_device_mqtt() of solixapi/apibase.py*)
(* makes of the values of a message, and how _update_dev() of              *)
(* solixapi/api.py calculates the capacity and the remaining energy from   *)
(* the state of charge of the cloud or of the messages.                    *)
(*                                                                         *)
(* A message is a sequence of keys with values, handled in this order.  Of *)
(* the keys handled alike a few stand for all.  Percentages and energies   *)
(* are integers; a numeral written as text is the number it shows.         *)
(***************************************************************************)
EXTENDS Integers, Sequences, SequencesExt, Functions, FiniteSets, FiniteSetsExt

CONSTANTS
  Kinds,            \* kinds of devices: "bank", "panel", "charger"
  DeviceMessages,   \* [kind |-> the messages it sends]
  CloudSocs,        \* states of charge the cloud tells; NoValue: none
  CloudPacks,       \* sub_package_num the cloud tells; NoValue: none
  CustomSizes,      \* capacities a user may set
  PackSize,         \* battery size by the product number, in Wh
  MaxMessages, MaxPolls, MaxCustoms \* bounds

VARIABLES
  deviceKind,
  dev,              \* the device in the cache, but for its mqtt_data
  merged,           \* mqtt_data of the device
  heard,            \* mqtt_data of the session: the latest value of each key
  lastMessage,      \* the message merged last
  messages, polls, customs \* counters for the bounds

valueVars == <<deviceKind, dev, merged, heard, lastMessage, messages, polls,
               customs>>

NoValue == -1
Get(f, k, default) == IF k \in DOMAIN f THEN f[k] ELSE default
Put(f, k, v) == [x \in DOMAIN f \cup {k} |-> IF x = k THEN v ELSE f[x]]
Drop(f, keys) == Restrict(f, DOMAIN f \ keys)
Keys(message) == {message[i].key : i \in DOMAIN message}
ValuesOf(message) ==
  [k \in Keys(message) |->
     message[CHOOSE i \in DOMAIN message : message[i].key = k].value]

(***************************************************************************)
(* Keys that are handled alike.                                            *)
(***************************************************************************)
Ports == 1..4
PortPriority == <<"usbc_1_priority", "usbc_2_priority", "usbc_3_priority",
                  "usbc_4_priority">>
Demands == <<"home_demand_circuit_01", "home_demand_circuit_02",
             "home_demand_circuit_03">>
Ids == <<"id_circuit_01", "id_circuit_02", "id_circuit_03">>
Packs == <<"exp_1_soc", "exp_2_soc">>

SocKeys == {"battery_soc", "main_battery_soc"}
PvKeys == {"device_1_pv_1_power", "device_1_pv_2_power"}
NumberKeys == SocKeys \cup PvKeys \cup Range(Demands) \cup {"output_power"}
CounterKeys == {"pv_yield", "output_energy", "charged_energy",
                "discharged_energy", "consumed_energy"}
PlainKeys == Range(PortPriority) \cup Range(Ids)
             \cup {"set_port_priority", "expansion_packs", "charger_mode"}

Bit(mask, i) == (mask \div (2 ^ (i - 1))) % 2
Mask(prioritized) == SumSet({2 ^ (i - 1) : i \in prioritized})

AllKeys == NumberKeys \cup CounterKeys \cup PlainKeys \cup Range(Packs)

\* Other keys are only copied.
ASSUME MessageAssumption ==
  \A kind \in Kinds : DeviceMessages[kind] \subseteq Seq([key : AllKeys, value : Int])

\* A message is a dictionary in the order of the fields (mqttmap.py): no key
\* occurs twice, and the ids of circuits (e3) come before their power (e4).
ASSUME OrderAssumption ==
  \A kind \in Kinds : \A message \in DeviceMessages[kind] :
    \A i, j \in 1..Len(message) : i < j =>
      /\ message[i].key # message[j].key
      /\ ~(message[i].key \in Range(Demands) /\ message[j].key \in Range(Ids))

(***************************************************************************)
(* One value of a message.                                                 *)
(***************************************************************************)
\* Numbers replace the old value; the mode of an alternator charger turns its
\* power around, circuits are shown once they are known, and the channels of
\* a device are added up unless the message has their sum.
Number(acc, k, v, values) ==
  LET shown ==
        CASE k = "output_power" /\ Get(values, "charger_mode", 0) # 0 ->
               Put(acc.mqtt, k, -v)
          [] /\ k \in Range(Demands) /\ acc.circuits = <<>>
             /\ Get(acc.mqtt, "circuits", <<>>) = <<>> -> Drop(acc.mqtt, {k})
          [] /\ k = "device_1_pv_1_power"
             /\ "device_1_pv_power" \notin DOMAIN values ->
               Put(Put(acc.mqtt, k, v), "device_1_pv_power",
                   v + Get(values, "device_1_pv_2_power", 0))
          [] OTHER -> Put(acc.mqtt, k, v)
  IN [acc EXCEPT !.mqtt = shown, !.capacity = @ \/ k \in SocKeys]

\* Counters never decrease, and 0 is no value.
Counter(acc, k, v) ==
  IF 0 < v /\ v > Get(acc.mqtt, k, 0)
    THEN [acc EXCEPT !.mqtt = Put(@, k, v), !.efficiency = TRUE]
    ELSE acc

\* A set priority is one bit per port; circuits with one id are a pair.
PortPriorities(shown, v) ==
  [k \in DOMAIN shown \cup Range(PortPriority) |->
     IF k \in Range(PortPriority)
       THEN 1 + Bit(v, CHOOSE i \in Ports : PortPriority[i] = k) ELSE shown[k]]

Plain(acc, k, v) ==
  CASE k = "set_port_priority" ->
         [acc EXCEPT !.mqtt = PortPriorities(Put(Put(@, k, v), "port_priority", v), v)]
    [] k \in Range(Ids) ->
         LET i == CHOOSE j \in DOMAIN Ids : Ids[j] = k
         IN [acc EXCEPT !.mqtt = Put(@, k, v),
                        !.circuits = Put(@, v, Append(Get(@, v, <<>>), i))]
    [] OTHER -> [acc EXCEPT !.mqtt = Put(@, k, v)]

\* Expansions count if they are installed, or have a state of charge.
Expansion(acc, k, v) ==
  LET i == CHOOSE j \in DOMAIN Packs : Packs[j] = k
  IN IF Get(acc.heard, "expansion_packs", 0) >= i \/ Get(acc.heard, k, 0) > 0
       THEN [acc EXCEPT !.mqtt = Put(@, k, v), !.capacity = TRUE]
       ELSE acc

OneValue(acc, item, values) ==
  CASE item.key \in NumberKeys -> Number(acc, item.key, item.value, values)
    [] item.key \in CounterKeys -> Counter(acc, item.key, item.value)
    [] item.key \in PlainKeys -> Plain(acc, item.key, item.value)
    [] item.key \in Range(Packs) -> Expansion(acc, item.key, item.value)

\* The values of a message, one after the other.
AllValues(start, message, values) ==
  LET after[i \in 0..Len(message)] ==
        IF i = 0 THEN start ELSE OneValue(after[i - 1], message[i], values)
  IN after[Len(message)]

(***************************************************************************)
(* What is derived from the values.                                        *)
(***************************************************************************)
Percent(a, b) == Min({100, (100 * a) \div b})

\* Charge and discharge stand in for one another; 0 is no value.
Efficiency(m) ==
  LET pv == Get(m, "pv_yield", 0)
      out == Get(m, "output_energy", 0)
      charged == Get(m, "charged_energy", 0)
      discharged == Get(m, "discharged_energy", 0)
      consumed == Get(m, "consumed_energy", 0)
      discharge == IF discharged # 0 \/ pv = 0 \/ out = 0 \/ charged = 0
                     THEN discharged
                     ELSE Min({charged, Max({0, out + charged - pv})})
      charge == IF charged # 0 \/ discharged = 0 \/ pv = 0 \/ out = 0
                  THEN charged
                  ELSE Max({discharged, pv - out + discharged})
      ac == IF pv = 0 \/ out = 0 \/ charge = 0 \/ discharge = 0 THEN 0
            ELSE Max({0, out - pv + consumed + charge - discharge})
      lost == Max({0, consumed - ac})
      device == IF pv = 0 \/ out = 0 THEN m
                ELSE Put(m, "device_efficiency", Percent(out, pv + ac + lost))
  IN IF charge = 0 \/ discharge = 0 THEN device
     ELSE Put(device, "battery_efficiency", Percent(discharge, charge + lost))

\* The circuits that share an id, and the power of each such group.
Groups(m) == {g \in Range(Get(m, "circuits", <<>>)) : Len(g) > 1}
FirstDemands(m) == {Demands[g[1]] : g \in Groups(m)}
OtherDemands(m) == UNION {{Demands[g[j]] : j \in 2..Len(g)} : g \in Groups(m)}
Share(m, g, i) == IF i \in Range(g) THEN Get(m, Demands[i], 0) ELSE 0
Shared(m, k) ==
  LET g == CHOOSE g \in Groups(m) : Demands[g[1]] = k
  IN Share(m, g, 1) + Share(m, g, 2) + Share(m, g, 3)

\* Faulty: the other circuits of a group stay.
CombinedTwice(m) ==
  [k \in DOMAIN m \cup FirstDemands(m) |->
     IF k \in FirstDemands(m) THEN Shared(m, k) ELSE m[k]]

\* The first circuit of a group shows the power of all of it.
Combined(m) ==
  [k \in (DOMAIN m \cup FirstDemands(m)) \ OtherDemands(m) |->
     IF k \in FirstDemands(m) THEN Shared(m, k) ELSE m[k]]

\* The mask shifts each bit to the right: only the first port ever counts.
PortMask(m, values) ==
  Put(m, "port_priority",
      SumSet({(IF Get(values, PortPriority[i], 0) > 1 THEN 1 ELSE 0)
                \div (2 ^ (i - 1)) : i \in Ports}))

\* round(): a half goes to the even number.
RoundedMean(sum, n) ==
  LET low == sum \div n
      twice == 2 * (sum % n)
  IN IF twice < n \/ (twice = n /\ low % 2 = 0) THEN low ELSE low + 1

\* Without a number of expansions those with a value count; without a state of
\* charge of the whole the mean of the batteries is taken.
Batteries(m, all) ==
  LET counted == IF "expansion_packs" \in DOMAIN all THEN m
                 ELSE Put(m, "expansion_packs",
                          Cardinality({k \in Range(Packs) : Get(m, k, 0) > 0}))
      socs == {k \in {"main_battery_soc"} \cup Range(Packs) : k \in DOMAIN m}
      mean == RoundedMean(SumFunction([k \in socs |-> m[k]]), Cardinality(socs))
  IN IF Get(all, "battery_soc", 0) # 0 \/ socs = {} THEN counted
     ELSE Put(counted, "battery_soc", mean)

(***************************************************************************)
(* Capacity and remaining energy.                                          *)
(***************************************************************************)
Soc(d, m) ==
  LET own == Get(m, "battery_soc", NoValue)
  IN IF d.overlay THEN IF own # NoValue THEN own ELSE d.soc
                  ELSE IF d.soc # NoValue THEN d.soc ELSE own
PackCount(d, m) ==
  IF d.packs \notin {0, NoValue} THEN d.packs ELSE Get(m, "expansion_packs", 0)
Energy(d, capacity, soc) ==
  ((IF d.custom # NoValue THEN d.custom ELSE capacity) * soc) \div 100

\* Faulty: the capacity stays as it was calculated first.
CalculatedOnce(d, m) ==
  LET capacity == IF d.capacity = NoValue THEN PackSize * (1 + PackCount(d, m))
                  ELSE d.capacity
  IN [d EXCEPT !.count = PackCount(d, m), !.capacity = capacity,
        !.energy = IF Soc(d, m) = NoValue THEN @
                   ELSE Energy(d, capacity, Soc(d, m))]

Calculated(d, m) ==
  LET count == PackCount(d, m)
      capacity == IF d.capacity = NoValue \/ count # d.count
                    THEN PackSize * (1 + count) ELSE d.capacity
  IN [d EXCEPT !.count = count, !.capacity = capacity,
        !.energy = IF Soc(d, m) = NoValue THEN @
                   ELSE Energy(d, capacity, Soc(d, m))]

(***************************************************************************)
(* Steps.                                                                  *)
(***************************************************************************)
\* mqtt_received() with the values of a message, which the session has stored.
ReceiveValues ==
  /\ messages < MaxMessages /\ messages' = messages + 1
  /\ \E message \in DeviceMessages[deviceKind] :
       LET values == ValuesOf(message)
           all == values @@ heard
           acc == AllValues([mqtt |-> merged, circuits |-> <<>>, heard |-> all,
                             capacity |-> FALSE, efficiency |-> FALSE],
                            message, values)
           rated == IF acc.efficiency THEN Efficiency(acc.mqtt) ELSE acc.mqtt
           known == IF acc.circuits = <<>> THEN rated
                    ELSE Put(rated, "circuits", acc.circuits)
           drawn == IF Demands[1] \in DOMAIN values THEN Combined(known)
                    ELSE IF PortPriority[1] \in DOMAIN values
                      THEN PortMask(known, values)
                    ELSE known
           batteries == acc.capacity /\ dev.capacity # NoValue
           now == IF batteries THEN Batteries(drawn, all) ELSE drawn
       IN /\ heard' = all
          /\ merged' = now
          /\ dev' = IF /\ batteries /\ Get(now, "battery_soc", 0) # 0
                       /\ dev.soc = NoValue \/ dev.overlay
                      THEN Calculated(dev, now) ELSE dev
          /\ lastMessage' = message
  /\ UNCHANGED <<deviceKind, polls, customs>>

\* The cloud's state of charge, number of expansions and product number.
PollDevice ==
  /\ deviceKind = "bank"
  /\ polls < MaxPolls /\ polls' = polls + 1
  /\ \E s \in CloudSocs, p \in CloudPacks :
       LET new == [dev EXCEPT !.soc = IF s = NoValue THEN @ ELSE s,
                              !.packs = IF p = NoValue THEN @ ELSE p]
       IN dev' = IF \/ dev.capacity = NoValue
                    \/ new.soc # dev.soc \/ new.packs # dev.packs
                   THEN Calculated(new, merged) ELSE new
  /\ UNCHANGED <<deviceKind, merged, heard, lastMessage, messages, customs>>

\* customizeCacheId() with another capacity calculates again, the choice of the
\* values to be preferred does not.
CustomizeSize ==
  /\ dev.capacity # NoValue
  /\ customs < MaxCustoms /\ customs' = customs + 1
  /\ \E c \in CustomSizes : dev' = Calculated([dev EXCEPT !.custom = c], merged)
  /\ UNCHANGED <<deviceKind, merged, heard, lastMessage, messages, polls>>

CustomizeOverlay ==
  /\ dev.capacity # NoValue
  /\ customs < MaxCustoms /\ customs' = customs + 1
  /\ dev' = [dev EXCEPT !.overlay = ~@]
  /\ UNCHANGED <<deviceKind, merged, heard, lastMessage, messages, polls>>

ValuesInit ==
  /\ deviceKind \in Kinds
  /\ dev = [soc |-> NoValue, packs |-> NoValue, overlay |-> FALSE,
            count |-> NoValue, capacity |-> NoValue, energy |-> 0,
            custom |-> NoValue]
  /\ merged = <<>> /\ heard = <<>> /\ lastMessage = <<>>
  /\ messages = 0 /\ polls = 0 /\ customs = 0

ValuesNext == ReceiveValues \/ PollDevice \/ CustomizeSize \/ CustomizeOverlay

ValuesSpec == ValuesInit /\ [][ValuesNext]_valueVars

(***************************************************************************)
(* Properties.                                                             *)
(***************************************************************************)
EnergyRight(d, m) ==
  /\ d.capacity = PackSize * (1 + PackCount(d, m))
  /\ Soc(d, m) # NoValue => d.energy = Energy(d, d.capacity, Soc(d, m))

MessageTells(keys) ==
  /\ messages' # messages /\ dev.capacity # NoValue
  /\ Keys(lastMessage') \cap keys # {}
  /\ dev.soc = NoValue \/ dev.overlay

\* Whenever a message or the cloud tells a new state of charge that is to be
\* used, or the user another capacity, the capacity counts the expansions known
\* by then and the remaining energy follows from both.
EnergyCurrent ==
  [][(\/ MessageTells(SocKeys) /\ Get(merged', "battery_soc", 0) # 0
      \/ dev'.soc # dev.soc
      \/ dev'.custom # dev.custom)
       => EnergyRight(dev', merged')]_valueVars

Power(m) == Get(m, Demands[1], 0) + Get(m, Demands[2], 0) + Get(m, Demands[3], 0)

\* The circuits shown add up to the power the message told, with the circuits
\* of a group shown as one.
CircuitsAddUp ==
  [][(/\ messages' # messages /\ "circuits" \in DOMAIN merged'
      /\ Range(Demands) \subseteq Keys(lastMessage'))
       => Power(merged') = Power(ValuesOf(lastMessage'))]_valueVars
=============================================================================
