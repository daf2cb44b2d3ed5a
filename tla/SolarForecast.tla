---------------------------- MODULE SolarForecast ----------------------------
(***************************************************************************)
(* The solar forecast of a site: refresh_pv_forecast() of                  *)
(* solixapi/energy.py and extractSolarForecast() of solixapi/apibase.py.   *)
(*                                                                         *)
(* While the site is in smart mode the cloud forecasts the next 24 hours,  *)
(* once per hour and in one answer per day; the hours of today that are    *)
(* over are kept from earlier answers or, after a restart, taken from the  *)
(* last state of the sensor.  The totals of the day that are computed from *)
(* the trend and the production are left out: no other step reads them.    *)
(*                                                                         *)
(* Time passes in hours.  A slot carries the hour its hour ends with and   *)
(* the hour the cloud was asked in.  Answers arrive in another hour than   *)
(* the one the refresh began in when one passes in between.                *)
(***************************************************************************)
EXTENDS Integers, Sequences

CONSTANTS
  DayHours,        \* hours of a day
  ForecastEnd,     \* the last hour
  MaxModeChanges,  \* bound on changes of the smart mode
  MaxRestarts,     \* bound on restarts
  MaxForecastFaults \* bound on requests that fail

ASSUME ForecastAssumption == DayHours \in Nat /\ DayHours > 2

VARIABLES
  hour,            \* the current hour
  smart,           \* the site is in smart mode
  details,         \* pv_forecast_details, NoForecast before the first refresh
  saved,           \* the trend the sensor had at the last restart
  refresh,         \* the refresh under way
  fcChanges, fcRestarts, fcFaults \* counters for the bounds

forecastVars == <<hour, smart, details, saved, refresh, fcChanges, fcRestarts,
                  fcFaults>>

Never == -1         \* Python's None, the empty text
NoForecast == [known |-> FALSE]
NoRefresh == [at |-> "idle"]

DayOf(h) == h \div DayHours
DayStart(h) == DayOf(h) * DayHours
NextDay(h) == DayStart(h) + DayHours

FirstTs(slots) == IF slots = <<>> THEN Never ELSE slots[1].ts
LastTs(slots) == IF slots = <<>> THEN Never ELSE slots[Len(slots)].ts

(***************************************************************************)
(* Answers of the cloud.                                                   *)
(***************************************************************************)
\* The next 24 hours, as far as they end within the day or at its end; the
\* last one is called 00:00 of the day.
ForecastOf(day) ==
  LET end == (day + 1) * DayHours
      first == IF hour + 1 >= day * DayHours THEN hour + 1 ELSE day * DayHours
      last == IF hour + DayHours <= end THEN hour + DayHours ELSE end
  IN [i \in 1 .. (IF last < first THEN 0 ELSE last - first + 1) |->
        [ts |-> IF first + i - 1 = end THEN day * DayHours ELSE first + i - 1,
         seen |-> hour]]

\* The duplicate at the end of a day is dropped.
WithoutRepeated(slots) ==
  IF \/ Len(slots) = 1
     \/ Len(slots) > 1 /\ LastTs(slots) < slots[Len(slots) - 1].ts
    THEN SubSeq(slots, 1, Len(slots) - 1)
    ELSE slots

(***************************************************************************)
(* refresh_pv_forecast().                                                  *)
(***************************************************************************)
\* The slots of a list that begin a day or come later, and before the start of
\* another list, if it has one.
Between(slots, first, start) ==
  LET kept[i \in 0..Len(slots)] ==
        IF i = 0 THEN <<>>
        ELSE IF slots[i].ts >= first /\ (start = Never \/ slots[i].ts < start)
          THEN Append(kept[i - 1], slots[i])
          ELSE kept[i - 1]
  IN kept[Len(slots)]

\* Faulty: the first hour of the new trend is kept, too.
KeptTrendToo(old, now, start) ==
  Between(old, DayStart(now), IF start = Never THEN Never ELSE start + 1)

\* Slots of today from an older trend, before those of a new one.
KeptTrend(old, now, start) == Between(old, DayStart(now), start)

\* The slot of an hour in a trend, as extractSolarForecast() shows it.
NoHour == [ts |-> Never, seen |-> Never]
SlotAt(trend, ts) ==
  LET places == {i \in 1..Len(trend) : trend[i].ts = ts}
  IN IF places = {} THEN NoHour
     ELSE trend[CHOOSE i \in places : \A j \in places : j <= i]

\* extractSolarForecast(): the shown hours change with the hour only.
Shown(d) ==
  IF d.this.ts = hour + 1 THEN d
  ELSE [d EXCEPT !.this = SlotAt(d.trend, hour + 1),
                 !.next = SlotAt(d.trend, hour + 2)]

\* What is known before anything was asked for.
Blank == [known |-> TRUE, poll |-> Never, trend |-> <<>>, this |-> NoHour,
          next |-> NoHour]

OldDetails == IF details.known THEN details ELSE Blank

\* Faulty: the shown hour stays.
ShownStays(d) == d

\* A new answer clears the shown hour.
ShownAgain(d) == [d EXCEPT !.this = NoHour]

\* The end of a refresh that began at "now"; one that asked for nothing only
\* drops what is not of today.
Refreshed(old, now, new) ==
  Shown([old EXCEPT !.trend = KeptTrend(@, now, FirstTs(new)) \o new])

StartForecast ==
  /\ refresh = NoRefresh
  /\ IF smart /\ (OldDetails.poll # hour \/ OldDetails.trend = <<>>)
       THEN /\ refresh' = [at |-> "today", now |-> hour, new |-> <<>>]
            /\ UNCHANGED details
       ELSE /\ details' = Refreshed(OldDetails, hour, <<>>)
            /\ UNCHANGED refresh
  /\ UNCHANGED <<hour, smart, saved, fcChanges, fcRestarts, fcFaults>>

\* The answer for today, then the one for tomorrow, which is not asked for in
\* the first hour of a day.
AnswerForecast ==
  /\ refresh # NoRefresh
  /\ LET now == refresh.now
         day == DayOf(now) + IF refresh.at = "today" THEN 0 ELSE 1
         new == WithoutRepeated(refresh.new \o ForecastOf(day))
     IN IF refresh.at = "today" /\ now > DayStart(now)
          THEN /\ refresh' = [refresh EXCEPT !.at = "tomorrow", !.new = new]
               /\ UNCHANGED details
          ELSE /\ details' = Refreshed(ShownAgain([OldDetails EXCEPT !.poll = now]),
                                       now, new)
               /\ refresh' = NoRefresh
  /\ UNCHANGED <<hour, smart, saved, fcChanges, fcRestarts, fcFaults>>

\* A request fails: the refresh ends without a change.
FailForecast ==
  /\ refresh # NoRefresh
  /\ fcFaults < MaxForecastFaults
  /\ fcFaults' = fcFaults + 1
  /\ refresh' = NoRefresh
  /\ UNCHANGED <<hour, smart, details, saved, fcChanges, fcRestarts>>

(***************************************************************************)
(* The other steps.                                                        *)
(***************************************************************************)
\* poll_sites() extracts the hours shown.
ExtractForecast ==
  /\ details.known
  /\ details' = Shown(details)
  /\ UNCHANGED <<hour, smart, saved, refresh, fcChanges, fcRestarts, fcFaults>>

\* The sensor is added with the first details and brings back its last trend.
RestoreForecast ==
  /\ details.known /\ saved # <<>>
  /\ saved' = <<>>
  /\ details' =
       IF details.trend = saved THEN details
       ELSE Shown([details EXCEPT !.trend =
                     KeptTrend(saved, hour, FirstTs(@)) \o @])
  /\ UNCHANGED <<hour, smart, refresh, fcChanges, fcRestarts, fcFaults>>

RestartForecast ==
  /\ fcRestarts < MaxRestarts
  /\ fcRestarts' = fcRestarts + 1
  /\ saved' = IF details.known THEN details.trend ELSE saved
  /\ details' = NoForecast /\ refresh' = NoRefresh
  /\ UNCHANGED <<hour, smart, fcChanges, fcFaults>>

SwitchSmart ==
  /\ fcChanges < MaxModeChanges
  /\ fcChanges' = fcChanges + 1
  /\ smart' = ~smart
  /\ UNCHANGED <<hour, details, saved, refresh, fcRestarts, fcFaults>>

\* A refresh takes less than an hour.
PassHour ==
  /\ hour < ForecastEnd
  /\ refresh # NoRefresh => hour = refresh.now
  /\ hour' = hour + 1
  /\ UNCHANGED <<smart, details, saved, refresh, fcChanges, fcRestarts, fcFaults>>

ForecastInit ==
  /\ hour \in DayHours .. (2 * DayHours - 1)
  /\ smart \in BOOLEAN
  /\ details = NoForecast /\ saved = <<>> /\ refresh = NoRefresh
  /\ fcChanges = 0 /\ fcRestarts = 0 /\ fcFaults = 0

ForecastNext ==
  \/ StartForecast \/ AnswerForecast \/ FailForecast
  \/ ExtractForecast \/ RestoreForecast \/ RestartForecast
  \/ SwitchSmart \/ PassHour

ForecastSpec == ForecastInit /\ [][ForecastNext]_forecastVars

(***************************************************************************)
(* Properties.                                                             *)
(***************************************************************************)
\* No hour occurs twice in the trend, in whatever order answers, restarts and
\* changes of the day come (refresh_pv_forecast, energy.py:1152-1176, and
\* extractSolarForecast, apibase.py:2402).
TrendInOrder ==
  details.known =>
    \A i \in 1..(Len(details.trend) - 1) :
      details.trend[i].ts < details.trend[i + 1].ts

\* The hours shown are the newest ones of the trend, and a refresh within the
\* current hour always finds that hour, the last one of a day too
\* (energy.py:1163, apibase.py:2416).
ShownHourCurrent ==
  details.known =>
    /\ (details.poll = hour => details.this.ts = hour + 1)
    /\ \A i \in 1..Len(details.trend) :
         /\ (details.trend[i].ts = details.this.ts => details.trend[i] = details.this)
         /\ (details.trend[i].ts = details.next.ts => details.trend[i] = details.next)
=============================================================================
