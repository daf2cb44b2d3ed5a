---------------------------- MODULE MCSolixUnits ----------------------------
(***************************************************************************)
(* The units of the library that change their own data only, each in a     *)
(* small instance.  A behaviour chooses a unit and stays with it; the      *)
(* other units keep the idle values of their variables.                    *)
(***************************************************************************)
EXTENDS HomeLoadSchedule, RatePlans, UseTimePlan, RequestThrottle,
        DeviceCommand, EnergyStatistics, SolarForecast, DynamicPrices,
        Vehicles, DeviceValues, HexMessage, TLC

VARIABLE unit

ownVars == <<homeVars, planVars, useVars, throttleVars, commandVars>>
cloudVars == <<energyVars, forecastVars, priceVars>>
cacheVars == <<vehicleVars, valueVars, hexVars>>
unitVars == <<ownVars, cloudVars, cacheVars, unit>>

(***************************************************************************)
(* First generation schedules: one bank, or two with device loads.         *)
(***************************************************************************)
MCHomeCalls ==
  LET Call(kind) == [kind : {kind}, prio : {Unset}, now : {0}]
      Times(c) == c.start < c.end
      Now == [kind : {"now", "all"}, start : {0}, end : {LastMinute},
              power : {Unset, 3}, own : {Unset, 4}, on : {Unset},
              prio : {Unset, 5}, now : {0}]
      Insert == [kind : {"insert"}, start : 0..LastMinute,
                 end : 0..LastMinute, power : {Unset, 6}, own : {Unset, 1},
                 on : {0, Unset}, prio : {Unset}, now : {0}]
      Set == [kind : {"set"}, start : {1}, end : {2, LastMinute},
              power : {6}, own : {Unset, 1}, on : {0, Unset},
              prio : {Unset}, now : {0}]
  IN {c \in Now : c.power # Unset \/ c.own # Unset \/ c.prio # Unset}
     \cup {c \in Insert \cup Set : Times(c) /\ (c.on = Unset \/ c.own = Unset)}

HomeSlot(start, end, power, mode, load) ==
  [start |-> start, end |-> end, power |-> power, on |-> 1, prio |-> 8,
   mode |-> mode, own |-> load, other |-> load]

MCHomeSchedules ==
  {[ranges |-> <<>>, banks |-> 2],
   [ranges |-> <<HomeSlot(0, Midnight, 2, "none", 0)>>, banks |-> 1],
   [ranges |-> <<HomeSlot(0, 2, 4, "normal", 2),
                 HomeSlot(3, Midnight, 4, "normal", 2)>>, banks |-> 2]}

(***************************************************************************)
(* Plans for weekdays, and the backup charge.                              *)
(***************************************************************************)
PlanCall(kind, plan, mode, week, power, start, end) ==
  [kind |-> kind, plan |-> plan, mode |-> mode, week |-> week,
   power |-> power, type |-> IF kind = "now" THEN 1 ELSE Unset,
   start |-> start, end |-> end, now |-> 0, day |-> 0]

MCPlanCalls ==
  LET Weeks == {{}, {0}, {1, 2}}
  IN {PlanCall("insert", "custom", "", w, p, s, e) :
        w \in Weeks, p \in {Unset, 9}, s \in {0, 1}, e \in {2, 4}}
     \cup {PlanCall("set", "", "", w, 2, 1, 3) : w \in Weeks}
     \cup {PlanCall("now", "", "", {}, p, 0, 4) : p \in {Unset, 3}}
     \cup {PlanCall("delete", p, "", w, Unset, 0, 0) :
             w \in Weeks, p \in {"custom", "use_time"}}
     \cup {PlanCall("mode", "", m, {}, Unset, 0, 0) :
             m \in {"smartmeter", "use_time", "smartplugs"}}

PlanSlot(start, end, power) ==
  [start |-> start, end |-> end, power |-> power, type |-> 0]

MCPlanLists ==
  {<<>>,
   <<[index |-> 0, week |-> {0, 1, 2},
      slots |-> <<PlanSlot(0, 2, 1), PlanSlot(2, 5, 3)>>]>>,
   <<[index |-> 0, week |-> {0}, slots |-> <<PlanSlot(0, 2, 2)>>],
     [index |-> 1, week |-> {1}, slots |-> <<PlanSlot(1, 3, 2)>>],
     [index |-> 2, week |-> {2}, slots |-> <<PlanSlot(2, 5, 2)>>]>>}

MCBackups == {NoBackup, [known |-> TRUE, start |-> 1, end |-> 2,
                         switch |-> FALSE]}

\* The service gives all of it; the two time entities change the cache only.
MCChargeCalls ==
  {c \in [kind : {"backup"}, start : {Unset, 2, 6}, end : {Unset, 3, 5},
          duration : {Unset, 1}, switch : {Unset, 0, 1},
          cacheOnly : BOOLEAN, now : {0}] :
     /\ c.start # Unset \/ c.end # Unset \/ c.switch # Unset
     /\ c.cacheOnly => c.switch = 0 /\ c.duration = Unset}

(***************************************************************************)
(* Use time plans.                                                         *)
(***************************************************************************)
MCUseCalls ==
  {c \in [startMonth : {Missing, 2}, endMonth : {Missing, 3},
          startHour : {Missing, 1}, endHour : {Missing, 0, 2},
          day : {"none", "weekend"}, tariff : {Missing, 1},
          price : {Missing, 9}, delete : BOOLEAN, merge : {TRUE},
          clear : {TRUE}, month : {0}, hour : {0}, today : {"weekday"},
          raised : {FALSE}] :
     c.tariff # Missing \/ c.price # Missing \/ c.delete}

TariffSlot(start, end, type) == [start |-> start, end |-> end, type |-> type]

MCUsePlans ==
  LET Flat == <<TariffSlot(0, 3, 3)>>
      Peak == <<TariffSlot(0, 1, 3), TariffSlot(1, 2, 1), TariffSlot(2, 3, 3)>>
      Cheap == <<TariffSlot(0, 2, 1), TariffSlot(2, 3, 3)>>
      Types(slots) == {slots[i].type : i \in 1..Len(slots)}
      Prices(slots) ==
        LET types == Ascending(Types(slots))
        IN [i \in 1..Len(types) |->
              [type |-> types[i], price |-> 10 - types[i]]]
      Season(start, end, weekday, weekend) ==
        [start |-> start, end |-> end, same |-> weekday = weekend,
         slots |-> [weekday |-> weekday, weekend |-> weekend],
         price |-> [weekday |-> Prices(weekday), weekend |-> Prices(weekend)]]
  IN {<<>>}
     \cup {<<Season(1, 4, a, b)>> : a \in {Flat, Peak}, b \in {Peak, Cheap}}
     \cup {<<Season(1, 2, a, b), Season(3, 4, Cheap, Cheap)>> :
             a \in {Flat, Peak}, b \in {Peak, Flat}}
     \cup {<<Season(1, 1, Peak, Peak), Season(2, 3, a, a),
             Season(4, 4, Peak, Peak)>> : a \in {Flat, Cheap, Peak}}

(***************************************************************************)
(* Sites: one bank with a meter, two banks, two power stations.            *)
(***************************************************************************)
EnergySite(types, third, channels, banks, pps) ==
  [types |-> types, sb2 |-> ~pps, otherPv |-> third, channels |-> channels,
   banks |-> banks, pps |-> pps]

MCEnergySites ==
  {EnergySite({"solarbank", "smartmeter", "inverter"}, TRUE, <<"pv1">>,
              <<"b1">>, FALSE),
   EnergySite({"solarbank", "ev_charger"}, FALSE, <<>>, <<"b1", "b2">>, FALSE),
   EnergySite({"solarbank_pps"}, FALSE, <<>>, <<"b1", "b2">>, TRUE)}

MCShifts == [pps \in BOOLEAN |-> IF pps THEN {-1, 1} ELSE {-1, 0}]

(***************************************************************************)
(* Two vehicles, four variants of three models, two of them of one year.   *)
(***************************************************************************)
Variant(car, id, capacity, power) ==
  [car |-> car, id |-> id, capacity |-> capacity, power |-> power, use |-> 1]
MCCatalogue ==
  {Variant(<<1, 1, 1>>, 11, 5, 1), Variant(<<1, 1, 1>>, 12, 6, 1),
   Variant(<<1, 2, 1>>, 13, 5, 1), Variant(<<2, 3, 1>>, 14, 6, 2)}
Owned(car, capacity, default) ==
  [car |-> car, id |-> NoDetail, capacity |-> capacity, power |-> 1, use |-> 1,
   default |-> default]
MCNewVehicle == Owned(<<1, 1, 1>>, 5, FALSE)
MCGarages ==
  {<<>>, <<Owned(<<1, 1, 1>>, 5, TRUE)>>,
   <<Owned(<<1, 2, 1>>, 5, TRUE), Owned(<<1, 1, 1>>, 6, FALSE)>>}
VehicleIdle == VehicleInit /\ garage = <<>>

(***************************************************************************)
(* A power bank with two expansions, a smart panel and a charger.          *)
(***************************************************************************)
Item(k, v) == [key |-> k, value |-> v]
MCDeviceMessages ==
  [bank |->
     {<<Item("battery_soc", 50)>>, <<Item("battery_soc", 0)>>,
      <<Item("main_battery_soc", 42), Item("exp_1_soc", 61)>>,
      <<Item("expansion_packs", 1), Item("main_battery_soc", 20)>>,
      <<Item("pv_yield", 10), Item("output_energy", 4), Item("charged_energy", 6)>>,
      <<Item("charged_energy", 6), Item("discharged_energy", 9)>>,
      <<Item("output_energy", 12), Item("discharged_energy", 5), Item("consumed_energy", 3)>>,
      <<Item("device_1_pv_1_power", 3), Item("device_1_pv_2_power", 4)>>},
   panel |->
     {<<Item("id_circuit_01", 7), Item("id_circuit_02", 7), Item("id_circuit_03", 8),
        Item("home_demand_circuit_01", 1), Item("home_demand_circuit_02", 2), Item("home_demand_circuit_03", 4)>>,
      <<Item("home_demand_circuit_01", 3), Item("home_demand_circuit_02", 5), Item("home_demand_circuit_03", 0)>>,
      <<Item("id_circuit_01", 7), Item("id_circuit_02", 8), Item("id_circuit_03", 8)>>},
   charger |->
     {[i \in Ports |-> Item(PortPriority[i], IF i \in s THEN 2 ELSE 1)] : s \in {{}, {1}, {2}, {1, 4}}}
     \cup {<<Item("set_port_priority", v)>> : v \in {0, 5}}
     \cup {<<Item("output_power", 3), Item("charger_mode", v)>> : v \in {0, 1}}]
MCCloudSocs == {NoValue, 30, 50}
MCCloudPacks == {NoValue, 2}
ValuesIdle == ValuesInit /\ deviceKind = "bank"

(***************************************************************************)
(* Messages of up to four fields, numbers of all widths, fields with parts.*)
(***************************************************************************)
Typed(type, value) == [type |-> <<type>>, value |-> value]
MCFields ==
  LET Times(n, b) == [i \in 1..n |-> b]
  IN 161 :> {[type |-> <<>>, value |-> <<34>>]} @@
     162 :> {Typed(Ui, <<4>>), Typed(Str, <<0, 0, 0>>), Typed(Sile, <<0, 1>>),
             Typed(Str, Times(300, 65)), Typed(Bin, Times(300, 1))} @@
     163 :> {Typed(6, Times(239, 255)), Typed(Var, <<4, 0, 0, 1>>),
             Typed(Str, <<66>>), Typed(Bin, <<4, 4, 4>>)} @@
     164 :> {Typed(6, Times(31, 255)), Typed(Bin, Times(300, 4))} @@
     253 :> {Typed(Str, Times(13, 49))} @@
     254 :> {Typed(Var, <<200, 215, 182, 104>>)}

MCValueDescs ==
  LET NumberDesc(type, signed, min, max, step) ==
        [type |-> type, signed |-> signed, min |-> min, max |-> max, step |-> step,
         divider |-> 1, options |-> {}, default |-> 0]
  IN {NumberDesc(Ui, FALSE, 0, 200, 5), NumberDesc(Ui, TRUE, -20, 20, 4),
      NumberDesc(Sile, TRUE, -300, 300, 8), NumberDesc(Sile, TRUE, 0, 100000, 100),
      NumberDesc(Sile, FALSE, 0, 60000, 10), NumberDesc(Var, TRUE, -70000, 70000, 0),
      [NumberDesc(Ui, FALSE, 0, 0, 0) EXCEPT !.divider = 30, !.options = {0, 30, 60, 1440}]}
MCTestValues ==
  {-70000, -300, -17, -2, -1, 0, 1, 2, 3, 6, 7, 10, 12, 19, 30, 60, 127, 128, 150,
   199, 200, 255, 256, 298, 300, 1440, 32767, 33000, 59996, 65535, 70000, 100000}

MCLayouts ==
  LET Part(type, length, value) ==
        [gap |-> 0, type |-> type, length |-> length, signed |-> type # Ui,
         value |-> value]
  IN {[length |-> 0,
       parts |-> <<Part(Ui, 0, 2), Part(Str, n, t),
                   [Part(Sile, 0, -5) EXCEPT !.gap = 2], Part(Var, 0, 70000)>>] :
        n \in {0, 3}, t \in {<<>>, <<65>>, <<65, 66, Space, 68>>}}
     \cup {[length |-> 7,
            parts |-> <<Part(Ui, 0, 200), Part(Sile, 0, 300), Part(Str, n, t)>>] :
             n \in {0, 3, 6}, t \in {<<>>, <<65>>, <<65, 66, 67, 68, 69>>}}
MCIncrements == {<<>>, <<1>>}
HexIdle == HexInit /\ increment = <<>>

(***************************************************************************)
(* One unit at a time.                                                     *)
(***************************************************************************)
HomeIdle == /\ ranges = <<>> /\ homeBanks = 1
            /\ homeCall = [kind |-> "none"] /\ homeCalls = 0
PlanIdle == /\ cached = 0 /\ stored = 0 /\ planCall = 0 /\ sending = 0
            /\ planCalls = 0
UseIdle == seasons = <<>> /\ useMode = FALSE /\ useCall = 0 /\ useCalls = 0
ThrottleIdle == ThrottleInit /\ limit = 0
CommandIdle == CommandInit /\ held = Zero

EnergyIdle == /\ EnergyInit /\ site.pps /\ shift = 1 /\ empty = {}
              /\ clock = DayLength
ForecastIdle == ForecastInit /\ hour = DayHours /\ smart
PriceIdle == PriceInit /\ owned /\ setting = NoProvider /\ fee = 1

OwnIdle == HomeIdle /\ PlanIdle /\ UseIdle /\ ThrottleIdle /\ CommandIdle
CloudIdle == EnergyIdle /\ ForecastIdle /\ PriceIdle
CacheIdle == VehicleIdle /\ ValuesIdle /\ HexIdle

Init ==
  \/ /\ unit = "vehicles" /\ VehicleInit
     /\ ValuesIdle /\ HexIdle
     /\ OwnIdle /\ CloudIdle
  \/ /\ unit = "home" /\ HomeInit
     /\ PlanIdle /\ UseIdle /\ ThrottleIdle /\ CommandIdle
     /\ CloudIdle /\ CacheIdle
  \/ /\ unit = "plan" /\ PlanInit
     /\ HomeIdle /\ UseIdle /\ ThrottleIdle /\ CommandIdle
     /\ CloudIdle /\ CacheIdle
  \/ /\ unit = "use" /\ UseInit
     /\ HomeIdle /\ PlanIdle /\ ThrottleIdle /\ CommandIdle
     /\ CloudIdle /\ CacheIdle
  \/ /\ unit = "throttle" /\ ThrottleInit
     /\ HomeIdle /\ PlanIdle /\ UseIdle /\ CommandIdle
     /\ CloudIdle /\ CacheIdle
  \/ /\ unit = "command" /\ CommandInit
     /\ HomeIdle /\ PlanIdle /\ UseIdle /\ ThrottleIdle
     /\ CloudIdle /\ CacheIdle
  \/ /\ unit = "energy" /\ EnergyInit
     /\ ForecastIdle /\ PriceIdle
     /\ OwnIdle /\ CacheIdle
  \/ /\ unit = "forecast" /\ ForecastInit
     /\ EnergyIdle /\ PriceIdle
     /\ OwnIdle /\ CacheIdle
  \/ /\ unit = "price" /\ PriceInit
     /\ EnergyIdle /\ ForecastIdle
     /\ OwnIdle /\ CacheIdle
  \/ /\ unit = "values" /\ ValuesInit
     /\ VehicleIdle /\ HexIdle
     /\ OwnIdle /\ CloudIdle
  \/ /\ unit \in {"message", "number", "field"} /\ HexInit
     /\ VehicleIdle /\ ValuesIdle
     /\ OwnIdle /\ CloudIdle

Next ==
  \/ /\ unit = "home" /\ HomeNext
     /\ UNCHANGED <<planVars, useVars, throttleVars, commandVars, unit>>
     /\ UNCHANGED <<cloudVars, cacheVars>>
  \/ /\ unit = "plan" /\ PlanNext
     /\ UNCHANGED <<homeVars, useVars, throttleVars, commandVars, unit>>
     /\ UNCHANGED <<cloudVars, cacheVars>>
  \/ /\ unit = "use" /\ UseNext
     /\ UNCHANGED <<homeVars, planVars, throttleVars, commandVars, unit>>
     /\ UNCHANGED <<cloudVars, cacheVars>>
  \/ /\ unit = "throttle" /\ ThrottleNext
     /\ UNCHANGED <<homeVars, planVars, useVars, commandVars, unit>>
     /\ UNCHANGED <<cloudVars, cacheVars>>
  \/ /\ unit = "command" /\ CommandNext
     /\ UNCHANGED <<homeVars, planVars, useVars, throttleVars, unit>>
     /\ UNCHANGED <<cloudVars, cacheVars>>
  \/ /\ unit = "energy" /\ EnergyNext
     /\ UNCHANGED <<forecastVars, priceVars, unit>>
     /\ UNCHANGED <<ownVars, cacheVars>>
  \/ /\ unit = "forecast" /\ ForecastNext
     /\ UNCHANGED <<energyVars, priceVars, unit>>
     /\ UNCHANGED <<ownVars, cacheVars>>
  \/ /\ unit = "price" /\ PriceNext
     /\ UNCHANGED <<energyVars, forecastVars, unit>>
     /\ UNCHANGED <<ownVars, cacheVars>>
  \/ /\ unit = "vehicles" /\ VehicleNext
     /\ UNCHANGED <<valueVars, hexVars, unit>>
     /\ UNCHANGED <<ownVars, cloudVars>>
  \/ /\ unit = "values" /\ ValuesNext
     /\ UNCHANGED <<vehicleVars, hexVars, unit>>
     /\ UNCHANGED <<ownVars, cloudVars>>
  \/ /\ unit \in {"message", "number", "field"} /\ HexNext
     /\ \/ unit = "message" /\ UNCHANGED <<sent, composed>>
        \/ unit = "number" /\ UNCHANGED <<increment, msgFields, composed>>
        \/ unit = "field" /\ UNCHANGED <<increment, msgFields, sent>>
     /\ UNCHANGED <<vehicleVars, valueVars, unit>>
     /\ UNCHANGED <<ownVars, cloudVars>>

Spec == Init /\ [][Next]_unitVars
=============================================================================
