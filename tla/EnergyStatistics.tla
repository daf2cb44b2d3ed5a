-------------------------- MODULE EnergyStatistics --------------------------
(***************************************************************************)
(* The daily energy of a site: poll_device_energy() of solixapi/poller.py  *)
(* with energy_daily(), device_pv_energy_daily() and get_energy_offset()   *)
(* of solixapi/energy.py.                                                  *)
(*                                                                         *)
(* Yesterday is asked for once, with the first poll of a day, and never    *)
(* again; today is asked for with every poll.  The cloud lags behind, by   *)
(* minutes or by a time zone, so that a poll shifts the clock back by the  *)
(* margin of five minutes and, for a site of power stations, by an offset  *)
(* that get_energy_offset() measures.  A poll is a sequence of requests,   *)
(* one per kind of statistics and often one per day, each of which may     *)
(* fail and end the poll; several banks are asked for one by one after the *)
(* statistics of the site are stored.                                      *)
(*                                                                         *)
(* Time passes in ticks.  A value stands for the number of ticks of a day  *)
(* the cloud has counted in it, a total over several days for their sum.   *)
(* Days and time stamps of the cloud are those of its own clock.           *)
(***************************************************************************)
EXTENDS Integers, Sequences, FiniteSets

CONSTANTS
  DayLength,      \* ticks of a day
  Interval,       \* ticks between two records of a state of charge: 20 minutes
  Margin,         \* ticks a poll stays behind: 300 seconds
  EnergyEnd,      \* the last tick
  EnergySites,    \* sites: types, generation, channels, banks
  Shifts,         \* how far the clock of the cloud can be ahead, for each kind
  EmptyRecords,   \* sets of records that may show a state of charge of 0 %
  NotYet,         \* Python's None
  MaxEnergyFaults,\* bound on requests that fail
  MaxPollTicks    \* bound on the ticks a poll takes

ASSUME EnergyAssumption ==
  /\ DayLength \in Nat /\ Interval \in Nat \ {0} /\ Margin \in Nat
  /\ DayLength % Interval = 0 /\ DayLength >= 2 * Interval
  /\ NotYet \notin Int

\* The margin is as long as the statistics of the cloud are behind; where the
\* offset is measured, the time zones are less than a day apart.
ASSUME ShiftAssumption ==
  /\ Shifts \in [BOOLEAN -> SUBSET Int]
  /\ \A s \in Shifts[FALSE] : s >= -Margin
  /\ \A s \in Shifts[TRUE] : -DayLength < s /\ s < DayLength

\* Each bank is named once.
ASSUME SiteAssumption ==
  \A s \in EnergySites :
    /\ s.pps \in BOOLEAN
    /\ s.channels \in Seq(STRING) /\ s.banks \in Seq(STRING \ {"site", "idle"})
    /\ \A i, j \in 1..Len(s.banks) : s.banks[i] = s.banks[j] => i = j

VARIABLES
  clock,          \* the time of Home Assistant
  shift,          \* what the statistics of the cloud are ahead of it
  site,           \* the site
  empty,          \* records with a state of charge of 0 %
  offset,         \* energy_offset_seconds plus 5 seconds, NotYet when unknown
  checked,        \* energy_offset_check, NotYet before the first check
  energy,         \* energy_details of the site and of its banks
  poll,           \* the poll under way
  energyFaults,   \* number of requests that failed
  polled,         \* the offset was asked for in this tick
  steady,         \* ticks since it was first asked for, negative after a gap
  cut             \* banks whose request failed after the site's were stored

energyVars == <<clock, shift, site, empty, offset, checked, energy, poll,
                energyFaults, polled, steady, cut>>

NoEntry == <<>>     \* an empty entry of a day
NoDetails == [today |-> NoEntry, last |-> NoEntry, lastDate |-> NotYet]
NoPoll == [at |-> "idle"]

Lesser(a, b) == IF a <= b THEN a ELSE b
Greater(a, b) == IF a >= b THEN a ELSE b

(***************************************************************************)
(* Requests.  One asks for the days from..to; the list of the answer       *)
(* carries the fields "items" of each day, its totals the fields "totals", *)
(* which are stored for the day "total".                                   *)
(***************************************************************************)
Request(from, to, items, totals, total) ==
  [from |-> from, to |-> to, items |-> items, totals |-> totals,
   total |-> total, more |-> FALSE]

\* One request for all days.
Period(items, from, to) == <<Request(from, to, items, {}, NotYet)>>

\* Daily totals: the first request asks for the first day only, each further
\* day has a request of its own.
EachDay(items, totals, from, to) ==
  [i \in 1..(to - from + 1) |->
     [Request(from + i - 1, from + i - 1, items, totals, from + i - 1)
        EXCEPT !.more = i > 1]]

\* As EachDay, but the first request asks for all days, and its totals are
\* stored for the first one.
PeriodThenDays(items, totals, from, to) ==
  <<Request(from, to, items, totals, from)>>
  \o Tail(EachDay(items, totals, from, to))

Statistics(daily, items, totals, from, to) ==
  IF daily THEN EachDay(items, totals, from, to) ELSE Period(items, from, to)

ThirdParty(fields) == IF site.otherPv THEN fields ELSE {}

SolarbankRequests(daily, from, to) ==
  IF "solarbank" \in site.types
    THEN Statistics(daily /\ site.sb2, {"battery_discharge"},
           {"ac_socket", "battery_to_home", "grid_to_battery"}
             \cup ThirdParty({"3rd_party_pv_to_bat"}), from, to)
    ELSE <<>>

HomeUsageRequests(daily, from, to) ==
  IF \/ "solarbank" \in site.types /\ site.sb2
     \/ {"smartmeter", "smartplug", "solarbank_pps"} \cap site.types # {}
    THEN Statistics(daily, {"home_usage"},
           {"grid_to_home", "smartplugs_total", "battery_to_home"}, from, to)
    ELSE <<>>

GridRequests(daily, from, to) ==
  LET items == {"solar_to_grid", "grid_to_home"}
  IN IF \/ "smartmeter" \notin site.types
        \/ "solarbank" \in site.types /\ ~site.otherPv
       THEN <<>>
       ELSE IF daily
         THEN PeriodThenDays(items, ThirdParty({"3rd_party_pv_to_grid"}), from, to)
         ELSE Period(items, from, to)

ChannelRequests(from, to) ==
  IF "inverter" \in site.types
    THEN [i \in 1..Len(site.channels) |->
            Request(from, to, {site.channels[i]}, {}, NotYet)]
    ELSE <<>>

ChargerRequests(from, to) ==
  IF "ev_charger" \in site.types THEN Period({"ev_charge"}, from, to) ELSE <<>>

SolarRequests(daily, from, to) ==
  IF "solarbank_pps" \in site.types
    THEN Period({"battery_charge", "grid_to_battery", "solar_to_battery",
                 "3rd_party_pv_to_bat"}, from, to)
    ELSE Statistics(daily, {"solar_production"},
           {"battery_charge", "solar_to_grid", "solar_to_battery",
            "solar_to_home"}, from, to)

\* energy_daily() of a site, and of one of several devices: a bank is asked for
\* its production only, a power station for all of it.
SiteRequests(from, to) ==
  SolarbankRequests(TRUE, from, to) \o HomeUsageRequests(TRUE, from, to)
  \o GridRequests(TRUE, from, to) \o ChannelRequests(from, to)
  \o ChargerRequests(from, to) \o SolarRequests(TRUE, from, to)

\* Faulty: the banks are asked for today only.
BankRequestsToday(from, to) == Period({"solar_production"}, to, to)

BankRequests(from, to) ==
  IF site.pps THEN SiteRequests(from, to)
              ELSE Period({"solar_production"}, from, to)

(***************************************************************************)
(* What the cloud knows, and what a table makes of an answer.              *)
(***************************************************************************)
Recorded(day) ==
  Greater(0, Lesser(DayLength, clock + shift - day * DayLength))

Over(from, to) == Recorded(from) + (IF to > from THEN Recorded(to) ELSE 0)

EntryOf(table, day) == IF day \in DOMAIN table THEN table[day] ELSE NoEntry

\* entry.update(): fields replace those of the same name.
Extended(entry, fields, value) ==
  [f \in DOMAIN entry \cup fields |-> IF f \in fields THEN value ELSE entry[f]]

\* The list of an answer names the days that have a record.
Listed(table, request) ==
  LET days == {d \in request.from .. request.to : Recorded(d) > 0}
  IN [d \in DOMAIN table \cup days |->
        IF d \in days THEN Extended(EntryOf(table, d), request.items, Recorded(d))
                      ELSE table[d]]

Totalled(table, request) ==
  IF request.total = NotYet \/ DOMAIN table = {} THEN table
  ELSE [d \in DOMAIN table \cup {request.total} |->
          IF d = request.total
            THEN Extended(EntryOf(table, d), request.totals,
                          Over(request.from, request.to))
            ELSE table[d]]

\* Further days are asked for only when the table holds a day.
Answered(table, request) ==
  IF request.more /\ DOMAIN table = {} THEN table
                                       ELSE Totalled(Listed(table, request), request)

\* energy["today"] and, when there is an entry, energy["last_period"].
Stored(details, table, today) ==
  LET yesterday == EntryOf(table, today - 1)
  IN [today |-> EntryOf(table, today),
      last |-> IF yesterday = NoEntry THEN details.last ELSE yesterday,
      lastDate |-> IF yesterday = NoEntry THEN details.lastDate ELSE today - 1]

(***************************************************************************)
(* get_energy_offset(), called with each poll of the sites.                *)
(***************************************************************************)
DateOf(time) == time \div DayLength

\* The day of datetime.now() + offset, five seconds before a whole tick.
ShiftedDate(time) ==
  DateOf(clock + IF offset = NotYet THEN time ELSE offset + time - 1)

\* The time of the last record of a day that is known and not 0 %.
LastRecord(day) ==
  LET records == {r \in (day * DayLength) .. ((day + 1) * DayLength - 1) :
                    /\ r % Interval = 0 /\ r <= clock + shift
                    /\ r \div Interval \notin empty}
  IN IF records = {} THEN NotYet
     ELSE CHOOSE r \in records : \A s \in records : s <= r

Latest(days) ==
  LET found == {d \in days : LastRecord(d) # NotYet}
  IN IF found = {} THEN NotYet
     ELSE LastRecord(CHOOSE d \in found : \A e \in found : e <= d)

\* Two days when the offset is unknown or grew by more than 21 minutes.
Reach(old, ahead) ==
  IF old = NotYet \/ ahead > old + Interval THEN 2 * DayLength ELSE old

\* Faulty: the next measurement is always due after the interval.
NextCheckLate(old, ahead) == clock

\* An offset that fell is measured again with the next poll; within one tick
\* it falls by seconds.
NextCheck(old, ahead) ==
  IF ahead = Lesser(Reach(old, ahead), ahead) THEN clock - Interval ELSE clock

CheckOffset ==
  /\ site.pps
  /\ polled' = TRUE
  /\ IF checked # NotYet /\ clock - checked < Interval
       THEN UNCHANGED <<offset, checked>>
       ELSE LET days == {ShiftedDate(0) + d :
                           d \in IF offset = NotYet THEN {1, 0, -1} ELSE {0}}
                last == Latest(days)
                ahead == last + Interval - clock
            IN IF last = NotYet
                 THEN checked' = clock /\ UNCHANGED offset
                 ELSE /\ offset' = Lesser(Reach(offset, ahead), ahead)
                      /\ checked' = NextCheck(offset, ahead)
  /\ UNCHANGED <<clock, shift, site, empty, energy, poll, energyFaults, steady,
                 cut>>

(***************************************************************************)
(* poll_device_energy().                                                   *)
(***************************************************************************)
\* Faulty: the poll does not stay behind.
PollDateEager ==
  IF offset = NotYet THEN DateOf(clock) ELSE DateOf(clock + offset - 1)

\* The day of the shifted clock less the margin.
PollDate ==
  IF offset = NotYet THEN DateOf(clock - Margin)
                     ELSE DateOf(clock + offset - 1 - Margin)

\* update_sites() has measured the offset before.
StartEnergy ==
  /\ poll = NoPoll
  /\ site.pps => checked # NotYet
  /\ LET today == PollDate
         both == today - 1 # energy.site.lastDate
         from == IF both THEN today - 1 ELSE today
     IN poll' = [at |-> "site", today |-> today, from |-> from,
                 settled |-> steady = 2 * Interval, ticks |-> 0,
                 queue |-> SiteRequests(from, today), table |-> <<>>]
  /\ UNCHANGED <<clock, shift, site, empty, offset, checked, energy,
                 energyFaults, polled, steady, cut>>

\* The next bank to ask for after one, or after the site; none for one bank.
Following(at) ==
  LET i == IF at = "site" THEN 1
           ELSE 1 + CHOOSE j \in 1..Len(site.banks) : site.banks[j] = at
  IN IF Len(site.banks) > 1 /\ i <= Len(site.banks) THEN site.banks[i] ELSE "idle"

AnswerEnergy ==
  /\ poll # NoPoll
  /\ LET table == Answered(poll.table, Head(poll.queue))
         next == Following(poll.at)
     IN IF Len(poll.queue) > 1
          THEN /\ poll' = [poll EXCEPT !.table = table, !.queue = Tail(@)]
               /\ UNCHANGED <<energy, cut>>
          ELSE /\ energy' = [energy EXCEPT
                              ![poll.at] = Stored(@, table, poll.today)]
               /\ poll' = IF next = "idle" THEN NoPoll
                          ELSE [poll EXCEPT !.at = next, !.table = <<>>,
                                  !.queue = BankRequests(poll.from, poll.today)]
               /\ cut' = IF poll.from < poll.today THEN cut \ {poll.at} ELSE cut
  /\ UNCHANGED <<clock, shift, site, empty, offset, checked, energyFaults,
                 polled, steady>>

\* A request fails: the poll ends with what it has stored.
FailEnergy ==
  /\ poll # NoPoll
  /\ energyFaults < MaxEnergyFaults
  /\ energyFaults' = energyFaults + 1
  /\ poll' = NoPoll
  /\ cut' = IF poll.at = "site" THEN cut
            ELSE cut \cup {site.banks[i] : i \in {j \in 1..Len(site.banks) :
                    \E k \in 1..j : site.banks[k] = poll.at}}
  /\ UNCHANGED <<clock, shift, site, empty, offset, checked, energy, polled,
                 steady>>

PassTick ==
  /\ clock < EnergyEnd
  /\ poll # NoPoll => poll.ticks < MaxPollTicks
  /\ clock' = clock + 1
  /\ poll' = IF poll = NoPoll THEN NoPoll ELSE [poll EXCEPT !.ticks = @ + 1]
  /\ polled' = FALSE
  /\ steady' = IF steady >= 0 /\ polled THEN Lesser(steady + 1, 2 * Interval)
               ELSE IF checked = NotYet THEN 0 ELSE -1
  /\ UNCHANGED <<shift, site, empty, offset, checked, energy, energyFaults,
                 cut>>

\* The hub starts somewhere in the second day, with an empty cache.
EnergyInit ==
  /\ site \in EnergySites
  /\ shift \in Shifts[site.pps]
  /\ empty \in IF site.pps THEN EmptyRecords ELSE {{}}
  /\ clock \in DayLength .. (2 * DayLength - 1)
  /\ offset = NotYet /\ checked = NotYet
  /\ energy = [u \in {"site"} \cup {site.banks[i] : i \in 1..Len(site.banks)} |->
                 NoDetails]
  /\ poll = NoPoll
  /\ energyFaults = 0 /\ polled = FALSE /\ steady = 0 /\ cut = {}

EnergyNext ==
  CheckOffset \/ StartEnergy \/ AnswerEnergy \/ FailEnergy \/ PassTick

EnergySpec == EnergyInit /\ [][EnergyNext]_energyVars

(***************************************************************************)
(* Properties.                                                             *)
(***************************************************************************)
\* The totals the code stores for the first day of a period; see the README.
PeriodTotals == {"3rd_party_pv_to_grid"}

\* What is stored for yesterday stays: every value of it is that of the whole
\* day, for a site of power stations once its offset was measured for 40
\* minutes (the margin of poll_device_energy, poller.py:1566).
YesterdayFinal ==
  [][\A u \in DOMAIN energy :
       /\ energy'[u].lastDate # energy[u].lastDate
       /\ site.pps => poll.settled /\ empty = {}
       => \A f \in DOMAIN energy'[u].last \ PeriodTotals :
            energy'[u].last[f] = DayLength]_energyVars

\* The offset never takes the cloud for being behind more than it is, and is
\* less than one tick off once it was measured for 40 minutes
\* (get_energy_offset, energy.py:1384).
OffsetSettles ==
  (site.pps /\ empty = {} /\ offset # NotYet) =>
    /\ offset > shift
    /\ steady = 2 * Interval => offset = shift + 1

\* After a poll the banks hold yesterday exactly if the site does, except for
\* those whose requests a failure cut off: they are not asked again.
BreakdownFollows ==
  poll = NoPoll =>
    \A i \in 1..Len(site.banks) :
      Len(site.banks) > 1 /\ site.banks[i] \notin cut =>
        energy[site.banks[i]].lastDate = energy.site.lastDate
=============================================================================
