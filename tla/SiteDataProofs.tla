--------------------------- MODULE SiteDataProofs ---------------------------
(***************************************************************************)
(* Proofs about the data of a site that come by the day and by the hour:   *)
(* its energy statistics, the solar forecast and the dynamic prices.       *)
(*                                                                         *)
(* EnergyStatistics, for any sites, offsets, lengths of the day and the    *)
(* interval, and any order of polls, failures and ticks: the offset        *)
(* settles, what is stored for yesterday is that of the whole day, and the *)
(* banks follow the site.                                                  *)
(* Days are multiples of intervals, so that the first part is arithmetic:  *)
(* Floor(x) is the record of a time, LastOf(x) the last one of its day.    *)
(* SettleInv follows the offset tick by tick: while every tick is polled   *)
(* it falls (Falls) until it settles (Settled), with a pause of one        *)
(* interval where it reaches into the next day (Waits).                    *)
(* The second part follows a poll: one of its requests enters a field of   *)
(* the first day it asks for, so that a table that asked for yesterday     *)
(* holds it (Holds), and whole where the day is over (Whole).              *)
(*                                                                         *)
(* SolarForecast, for any length of the day and number of hours, requests, *)
(* failures, restarts and changes of the mode: the trend is in order and   *)
(* the hours shown are its own.  The loop that drops old slots is a        *)
(* recursive function; KeptFacts tells what it keeps.  Two answers make one*)
(* Run of hours without a gap (TodaysAnswer, TomorrowsAnswer), so that a   *)
(* trend is in order if the old slots come before the new ones.            *)
(*                                                                         *)
(* DynamicPrices, for any providers, fees, length of the day and number of *)
(* calls and failures: the price shown is one of the provider it is shown  *)
(* for, with the current fee.  The state changes the prices by Extracted() *)
(* only; ExtractedTrue says that it keeps what the invariant says of them, *)
(* and SetFee, which changes the fee the invariant refers to, always       *)
(* calculates them again.                                                  *)
(***************************************************************************)
EXTENDS EnergyStatistics, SolarForecast, DynamicPrices, WellFoundedInduction,
        TLAPS

----------------------------------------------------------------------------
(* Days and intervals *)

Floor(x) == x - (x % Interval)

\* What \div and % are.
LEMMA Division ==
  ASSUME NEW n \in Nat \ {0}, NEW x \in Int
  PROVE  /\ x \div n \in Int /\ x % n \in 0..(n - 1)
         /\ x = n * (x \div n) + (x % n)
OBVIOUS

\* A quotient is the only one.
LEMMA SameQuotient ==
  ASSUME NEW n \in Nat \ {0}, NEW a \in Int, NEW b \in Int,
         NEW r \in 0..(n - 1), NEW s \in 0..(n - 1), n * a + r = n * b + s
  PROVE  a = b
<1>1. CASE a < b
  <2>1. n * (b - a) >= n BY <1>1
  <2>2. n * (b - a) = r - s OBVIOUS
  <2> QED BY <2>1, <2>2
<1>2. CASE b < a
  <2>1. n * (a - b) >= n BY <1>2
  <2>2. n * (a - b) = s - r OBVIOUS
  <2> QED BY <2>1, <2>2
<1> QED BY <1>1, <1>2

\* A number written as quotient and remainder.
LEMMA DivisionIs ==
  ASSUME NEW n \in Nat \ {0}, NEW q \in Int, NEW r \in 0..(n - 1)
  PROVE  (n * q + r) \div n = q /\ (n * q + r) % n = r
<1> DEFINE x == n * q + r
<1>0. x \in Int OBVIOUS
<1>1. /\ x \div n \in Int /\ x % n \in 0..(n - 1)
      /\ x = n * (x \div n) + (x % n)
  BY <1>0, Division
<1>2. x \div n = q BY <1>1, SameQuotient
<1> QED BY <1>1, <1>2

\* The record of a time: a multiple of the interval, less than one before it.
LEMMA FloorFacts ==
  ASSUME NEW x \in Int
  PROVE  /\ Floor(x) \in Int /\ Floor(x) <= x /\ x < Floor(x) + Interval
         /\ x % Interval \in 0..(Interval - 1)
         /\ \E q \in Int : Floor(x) = Interval * q
<1>1. /\ x \div Interval \in Int /\ x % Interval \in 0..(Interval - 1)
      /\ x = Interval * (x \div Interval) + (x % Interval)
  BY EnergyAssumption, Division
<1>2. Floor(x) = Interval * (x \div Interval)
  BY <1>1, EnergyAssumption DEF Floor
<1>3. Floor(x) \in Int /\ Floor(x) <= x /\ x < Floor(x) + Interval
  BY <1>1, EnergyAssumption DEF Floor
<1> QED
  BY <1>1, <1>2, <1>3

\* The record of a time is the only one less than an interval back.
LEMMA FloorIs ==
  ASSUME NEW x \in Int, NEW q \in Int,
         Interval * q <= x, x < Interval * q + Interval
  PROVE  Floor(x) = Interval * q /\ x % Interval = x - Interval * q
<1> DEFINE r == x - Interval * q
<1>1. r \in 0..(Interval - 1) /\ x = Interval * q + r
  BY EnergyAssumption
<1>2. x % Interval = r
  BY <1>1, EnergyAssumption, DivisionIs
<1> QED
  BY <1>2, EnergyAssumption DEF Floor

\* Multiples of the interval.
LEMMA MultipleIs ==
  ASSUME NEW x \in Int
  PROVE  x % Interval = 0 <=> \E q \in Int : x = Interval * q
<1>1. ASSUME NEW q \in Int, x = Interval * q PROVE x % Interval = 0
  <2>1. Interval * q <= x /\ x < Interval * q + Interval
    BY <1>1, EnergyAssumption
  <2>2. x % Interval = x - Interval * q
    BY <2>1, FloorIs
  <2> QED
    BY <2>2, <1>1
<1>2. ASSUME x % Interval = 0 PROVE \E q \in Int : x = Interval * q
  <2>1. Floor(x) = x
    BY <1>2 DEF Floor
  <2> QED
    BY <2>1, FloorFacts
<1> QED
  BY <1>1, <1>2

\* A time lies in its day.
LEMMA DayFacts ==
  ASSUME NEW x \in Int
  PROVE  /\ DateOf(x) \in Int /\ DateOf(x) * DayLength <= x
         /\ x < DateOf(x) * DayLength + DayLength
<1>1. /\ DayLength \in Nat \ {0}
  BY EnergyAssumption
<1>2. /\ x \div DayLength \in Int /\ x % DayLength \in 0..(DayLength - 1)
      /\ x = DayLength * (x \div DayLength) + (x % DayLength)
  BY <1>1, Division
<1> QED
  BY <1>1, <1>2 DEF DateOf

\* The day a time lies in is its day.
LEMMA DayIs ==
  ASSUME NEW x \in Int, NEW d \in Int,
         d * DayLength <= x, x < d * DayLength + DayLength
  PROVE  DateOf(x) = d
<1> DEFINE r == x - DayLength * d
<1>1. DayLength \in Nat \ {0}
  BY EnergyAssumption
<1>2. r \in 0..(DayLength - 1) /\ x = DayLength * d + r
  BY <1>1
<1>3. x \div DayLength = d
  BY <1>1, <1>2, DivisionIs
<1> QED
  BY <1>3 DEF DateOf

\* A day is a number of intervals.
LEMMA DayIntervals == \E n \in Nat : n >= 2 /\ DayLength = Interval * n
<1>1. PICK n \in Int : DayLength = Interval * n
  BY EnergyAssumption, MultipleIs
<1>2. n >= 2
  <2>1. CASE n <= 1
    <3>1. Interval * n <= Interval * 1
      BY <2>1, EnergyAssumption
    <3> QED
      BY <3>1, <1>1, EnergyAssumption
  <2> QED
    BY <2>1
<1> QED
  BY <1>1, <1>2

\* A set of integers that is bounded has a largest one.
LEMMA Largest ==
  ASSUME NEW S \in SUBSET Int, S # {}, NEW b \in Int, \A s \in S : s <= b
  PROVE  \E m \in S : \A s \in S : s <= m
<1> DEFINE T == {n \in Nat : b - n \in S}
<1>1. T \subseteq Nat /\ T # {}
  <2>1. PICK s \in S : TRUE
    OBVIOUS
  <2>2. b - s \in T
    BY <2>1
  <2> QED
    BY <2>2
<1>2. PICK n \in T : \A k \in T : ~(<<k, n>> \in OpToRel(<, Nat))
  BY <1>1, WFMin, NatLessThanWellFounded
<1>3. \A k \in T : n <= k
  <2> SUFFICES ASSUME NEW k \in T, k < n PROVE FALSE
    BY <1>1
  <2>1. <<k, n>> \in OpToRel(<, Nat)
    BY <1>1 DEF OpToRel
  <2> QED
    BY <2>1, <1>2
<1>4. ASSUME NEW s \in S PROVE s <= b - n
  <2>1. b - s \in T
    OBVIOUS
  <2> QED
    BY <2>1, <1>3
<1> QED
  BY <1>4

----------------------------------------------------------------------------
(* The last record *)

Records(day) ==
  {r \in (day * DayLength) .. ((day + 1) * DayLength - 1) :
     /\ r % Interval = 0 /\ r <= clock + shift
     /\ r \div Interval \notin empty}

\* No record is later than the clock of the cloud.
LEMMA LastRecordBound ==
  ASSUME NEW day \in Int, clock \in Int, shift \in Int,
         LastRecord(day) # NotYet
  PROVE  LastRecord(day) \in Int /\ LastRecord(day) <= clock + shift
<1>0. day * DayLength \in Int /\ (day + 1) * DayLength - 1 \in Int
  BY EnergyAssumption
<1>1. Records(day) \in SUBSET Int /\ \A r \in Records(day) : r <= clock + shift
  BY <1>0 DEF Records
<1>2. Records(day) # {}
  BY DEF LastRecord, Records
<1>3. \E m \in Records(day) : \A s \in Records(day) : s <= m
  <2> DEFINE b == clock + shift
  <2>1. b \in Int /\ \A r \in Records(day) : r <= b
    BY <1>1
  <2> HIDE DEF b
  <2> QED
    BY <1>1, <1>2, <2>1, Largest
<1>4. LastRecord(day) = CHOOSE r \in Records(day) : \A s \in Records(day) : s <= r
  BY <1>2 DEF LastRecord, Records
<1>5. LastRecord(day) \in Records(day)
  BY <1>3, <1>4
<1> QED
  BY <1>1, <1>5

\* Neither is the latest one of several days.
LEMMA LatestBound ==
  ASSUME NEW days \in SUBSET Int, NEW b \in Int, \A d \in days : d <= b,
         clock \in Int, shift \in Int, Latest(days) # NotYet
  PROVE  Latest(days) \in Int /\ Latest(days) <= clock + shift
<1> DEFINE found == {d \in days : LastRecord(d) # NotYet}
           d == CHOOSE d \in found : \A e \in found : e <= d
<1>1. found # {} /\ Latest(days) = LastRecord(d)
  BY DEF Latest
<1>2. \E m \in found : \A e \in found : e <= m
  BY <1>1, Largest
<1>3. d \in found
  BY <1>2
<1>4. d \in Int /\ LastRecord(d) # NotYet
  BY <1>3
<1> HIDE DEF d, found
<1>5. LastRecord(d) \in Int /\ LastRecord(d) <= clock + shift
  BY <1>4, LastRecordBound
<1> QED
  BY <1>1, <1>5

\* With no record of 0 % that of a day is the last interval of the cloud's
\* clock, and a later day has none.
LEMMA LastRecordToday ==
  ASSUME clock \in Int, shift \in Int, empty = {}
  PROVE  LastRecord(DateOf(clock + shift)) = Floor(clock + shift)
<1> DEFINE x == clock + shift
           d == DateOf(x)
<1>0. x \in Int /\ d \in Int
  BY DayFacts
<1>1. d * DayLength <= x /\ x < d * DayLength + DayLength
  BY <1>0, DayFacts
<1>2. PICK n \in Nat : n >= 2 /\ DayLength = Interval * n
  BY DayIntervals
<1>3. PICK q \in Int : Floor(x) = Interval * q
  BY <1>0, FloorFacts
<1>4. Floor(x) \in Int /\ Floor(x) <= x /\ x < Floor(x) + Interval
  BY <1>0, FloorFacts
<1> HIDE DEF x, d
<1>5. d * DayLength <= Floor(x)
  <2>1. d * DayLength = Interval * (d * n)
    BY <1>0, <1>2, EnergyAssumption
  <2>2. CASE q < d * n
    <3>1. Interval * (q + 1) <= Interval * (d * n)
      BY <2>2, <1>0, EnergyAssumption
    <3>2. Interval * (q + 1) = Floor(x) + Interval
      BY <1>3, EnergyAssumption
    <3> QED
      BY <3>1, <3>2, <2>1, <1>0, <1>1, <1>4, EnergyAssumption
  <2>3. CASE q >= d * n
    <3>1. Interval * q >= Interval * (d * n)
      BY <2>3, <1>0, EnergyAssumption
    <3> QED
      BY <3>1, <2>1, <1>3
  <2> QED
    BY <2>2, <2>3, <1>0
<1>6. Floor(x) % Interval = 0
  BY <1>3, <1>4, MultipleIs
<1>7. Floor(x) \in Records(d)
  <2>1. (d + 1) * DayLength = d * DayLength + DayLength /\ d * DayLength \in Int
    BY <1>0, EnergyAssumption
  <2> QED
    BY <2>1, <1>0, <1>1, <1>4, <1>5, <1>6, EnergyAssumption DEF Records, x
<1>8. ASSUME NEW r \in Records(d) PROVE r <= Floor(x)
  <2>1. r \in Int /\ r % Interval = 0 /\ r <= x
    <3>1. d * DayLength \in Int /\ (d + 1) * DayLength - 1 \in Int
      BY <1>0, EnergyAssumption
    <3> QED
      BY <3>1 DEF Records, x
  <2>2. PICK p \in Int : r = Interval * p
    BY <2>1, MultipleIs
  <2>3. CASE p <= q
    <3>1. Interval * p <= Interval * q
      BY <2>3, EnergyAssumption
    <3> QED
      BY <3>1, <2>2, <1>3
  <2>4. CASE p > q
    <3>1. Interval * p >= Interval * (q + 1)
      BY <2>4, EnergyAssumption
    <3>2. Interval * (q + 1) = Floor(x) + Interval
      BY <1>3, EnergyAssumption
    <3> QED
      BY <3>1, <3>2, <2>1, <2>2, <1>0, <1>4, EnergyAssumption
  <2> QED
    BY <2>3, <2>4
<1>9. \A r \in Records(d) : r \in Int
  <2>1. d * DayLength \in Int /\ (d + 1) * DayLength - 1 \in Int
    BY <1>0, EnergyAssumption
  <2> QED
    BY <2>1 DEF Records
<1>10. LastRecord(d) = CHOOSE r \in Records(d) : \A s \in Records(d) : s <= r
  BY <1>7 DEF LastRecord, Records
<1>11. ASSUME NEW r \in Records(d), \A s \in Records(d) : s <= r
       PROVE  r = Floor(x)
  BY <1>11, <1>7, <1>8, <1>9, <1>4
<1>12. LastRecord(d) = Floor(x)
  BY <1>7, <1>8, <1>10, <1>11
<1> QED
  BY <1>12 DEF x, d

\* A day that has not begun has no record.
LEMMA LastRecordLater ==
  ASSUME clock \in Int, shift \in Int, NEW d \in Int, d * DayLength > clock + shift
  PROVE  LastRecord(d) = NotYet
<1>1. d * DayLength \in Int /\ (d + 1) * DayLength - 1 \in Int
  BY EnergyAssumption
<1>2. Records(d) = {}
  BY <1>1 DEF Records
<1> QED
  BY <1>2 DEF LastRecord, Records

\* Later days begin after a time, earlier ones before it.
LEMMA DayOrder ==
  ASSUME NEW x \in Int, NEW d \in Int
  PROVE  /\ d > DateOf(x) => d * DayLength > x
         /\ d < DateOf(x) => d * DayLength + DayLength <= x
<1>1. /\ DateOf(x) \in Int /\ DateOf(x) * DayLength <= x
      /\ x < DateOf(x) * DayLength + DayLength
  BY DayFacts
<1>2. CASE d > DateOf(x)
  <2>1. d * DayLength >= (DateOf(x) + 1) * DayLength
    BY <1>1, <1>2, EnergyAssumption
  <2>2. (DateOf(x) + 1) * DayLength = DateOf(x) * DayLength + DayLength
    BY <1>1, EnergyAssumption
  <2> QED
    BY <1>1, <1>2, <2>1, <2>2, EnergyAssumption
<1>3. CASE d < DateOf(x)
  <2>1. (d + 1) * DayLength <= DateOf(x) * DayLength
    BY <1>1, <1>3, EnergyAssumption
  <2>2. (d + 1) * DayLength = d * DayLength + DayLength
    BY <1>1, EnergyAssumption
  <2> QED
    BY <1>1, <1>3, <2>1, <2>2, EnergyAssumption
<1> QED
  BY <1>1, <1>2, <1>3

\* Among days that include the cloud's today, its last record is the latest.
LEMMA LatestToday ==
  ASSUME clock \in Int, shift \in Int, empty = {}, NEW days \in SUBSET Int,
         DateOf(clock + shift) \in days
  PROVE  Latest(days) = Floor(clock + shift)
<1> DEFINE x == clock + shift
           found == {d \in days : LastRecord(d) # NotYet}
           last == CHOOSE d \in found : \A e \in found : e <= d
<1>1. x \in Int /\ DateOf(x) \in Int /\ Floor(x) \in Int
  BY DayFacts, FloorFacts
<1>2. LastRecord(DateOf(x)) = Floor(x)
  BY LastRecordToday
<1>3. DateOf(x) \in found
  BY <1>1, <1>2, EnergyAssumption
<1>4. ASSUME NEW d \in found PROVE d <= DateOf(x)
  <2>1. d \in Int /\ LastRecord(d) # NotYet
    OBVIOUS
  <2>2. CASE d > DateOf(x)
    <3>1. d * DayLength > clock + shift
      BY <2>1, <2>2, <1>1, DayOrder
    <3> QED
      BY <2>1, <3>1, LastRecordLater
  <2> QED
    BY <2>1, <2>2, <1>1
<1>5. ASSUME NEW d \in found, \A e \in found : e <= d PROVE d = DateOf(x)
  <2>1. d \in Int /\ DateOf(x) <= d /\ d <= DateOf(x)
    BY <1>3, <1>4, <1>5
  <2> QED
    BY <2>1, <1>1
<1>6. last = DateOf(x)
  BY <1>3, <1>4, <1>5
<1>7. Latest(days) = LastRecord(last)
  BY <1>3 DEF Latest
<1> QED
  BY <1>2, <1>6, <1>7

\* The cloud's tomorrow has no record.
LEMMA LatestTomorrow ==
  ASSUME clock \in Int, shift \in Int, NEW d \in Int, d > DateOf(clock + shift)
  PROVE  Latest({d}) = NotYet
<1>1. d * DayLength > clock + shift
  <2> DEFINE x == clock + shift
  <2>1. x \in Int /\ d > DateOf(x)
    OBVIOUS
  <2> HIDE DEF x
  <2>2. d * DayLength > x
    BY <2>1, DayOrder
  <2> QED
    BY <2>2 DEF x
<1>2. LastRecord(d) = NotYet
  BY <1>1, LastRecordLater
<1> QED
  BY <1>2 DEF Latest

\* What is measured: the offset of the last record, unless the offset known
\* reaches into the next day.
LEMMA Measured ==
  ASSUME clock \in Int, shift \in Shifts[TRUE], empty = {},
         offset = NotYet \/ offset \in (shift + 1)..(shift + Interval),
         checked = NotYet \/ checked \in Int,
         CheckOffset, checked = NotYet \/ clock - checked >= Interval
  PROVE  LET x == clock + shift
             ahead == shift + Interval - (x % Interval)
         IN /\ offset = NotYet => offset' = ahead /\ checked' = clock - Interval
            /\ /\ offset # NotYet
               /\ DateOf(x + (offset - shift - 1)) = DateOf(x)
               => IF ahead <= offset
                    THEN offset' = ahead /\ checked' = clock - Interval
                    ELSE offset' = offset /\ checked' = clock
            /\ /\ offset # NotYet
               /\ DateOf(x + (offset - shift - 1)) > DateOf(x)
               => offset' = offset /\ checked' = clock
<1> DEFINE x == clock + shift
           ahead == shift + Interval - (x % Interval)
           days == {ShiftedDate(0) + d :
                      d \in IF offset = NotYet THEN {1, 0, -1} ELSE {0}}
<1>1. shift \in Int /\ -DayLength < shift /\ shift < DayLength /\ x \in Int
  <2>1. Shifts[TRUE] \in SUBSET Int
    BY ShiftAssumption
  <2>2. shift \in Int
    BY <2>1
  <2>3. -DayLength < shift /\ shift < DayLength
    BY ShiftAssumption
  <2> QED
    BY <2>2, <2>3
<1>2. /\ Floor(x) \in Int /\ Floor(x) <= x /\ x < Floor(x) + Interval
      /\ x % Interval \in 0..(Interval - 1) /\ Floor(x) = x - (x % Interval)
  BY <1>1, FloorFacts DEF Floor
<1>3. Floor(x) + Interval - clock = ahead
  BY <1>1, <1>2, EnergyAssumption
<1>4. ahead \in (shift + 1)..(shift + Interval)
  BY <1>1, <1>2, EnergyAssumption
<1>5. IF Latest(days) = NotYet
        THEN checked' = clock /\ UNCHANGED offset
        ELSE /\ offset' = Lesser(Reach(offset, Latest(days) + Interval - clock),
                                 Latest(days) + Interval - clock)
             /\ checked' = NextCheck(offset, Latest(days) + Interval - clock)
  <2>1. ~(checked # NotYet /\ clock - checked < Interval)
    BY EnergyAssumption
  <2> QED
    BY <2>1 DEF CheckOffset
<1>6. CASE offset = NotYet
  <2>1. DateOf(x) \in days /\ days \in SUBSET Int
    <3>1. ShiftedDate(0) = DateOf(clock)
      BY <1>6 DEF ShiftedDate
    <3>2. /\ DateOf(clock) \in Int /\ DateOf(x) \in Int
          /\ DateOf(clock) * DayLength <= clock
          /\ clock < DateOf(clock) * DayLength + DayLength
      BY <1>1, DayFacts
    <3>3. DateOf(x) <= DateOf(clock) + 1
      <4>1. CASE DateOf(clock) + 1 < DateOf(x)
        <5>1. (DateOf(clock) + 1) * DayLength + DayLength <= x
          BY <4>1, <3>2, <1>1, DayOrder
        <5>2. (DateOf(clock) + 1) * DayLength = DateOf(clock) * DayLength + DayLength
          BY <3>2, EnergyAssumption
        <5> QED
          BY <5>1, <5>2, <3>2, <1>1, EnergyAssumption
      <4> QED
        BY <4>1, <3>2
    <3>4. DateOf(x) >= DateOf(clock) - 1
      <4>1. CASE DateOf(clock) - 1 > DateOf(x)
        <5>1. (DateOf(clock) - 1) * DayLength > x
          BY <4>1, <3>2, <1>1, DayOrder
        <5>2. (DateOf(clock) - 1) * DayLength = DateOf(clock) * DayLength - DayLength
          BY <3>2, EnergyAssumption
        <5> QED
          BY <5>1, <5>2, <3>2, <1>1, EnergyAssumption
      <4> QED
        BY <4>1, <3>2
    <3>5. days = {DateOf(clock) + 1, DateOf(clock) + 0, DateOf(clock) + -1}
      BY <1>6, <3>1
    <3> HIDE DEF days, x
    <3>6. days = {DateOf(clock) + 1, DateOf(clock), DateOf(clock) - 1}
      BY <3>2, <3>5
    <3>7. \/ DateOf(x) = DateOf(clock) + 1 \/ DateOf(x) = DateOf(clock)
          \/ DateOf(x) = DateOf(clock) - 1
      BY <3>2, <3>3, <3>4
    <3> QED
      BY <3>2, <3>6, <3>7
  <2>2. Latest(days) = Floor(x)
    BY <2>1, <1>1, LatestToday
  <2>3. offset' = Lesser(Reach(offset, ahead), ahead) /\ checked' = NextCheck(offset, ahead)
    BY <2>2, <1>2, <1>3, <1>5, EnergyAssumption
  <2> HIDE DEF ahead
  <2>4. Reach(offset, ahead) = 2 * DayLength /\ Lesser(2 * DayLength, ahead) = ahead
    BY <1>6, <1>1, <1>4, EnergyAssumption DEF Reach, Lesser
  <2>5. offset' = ahead /\ checked' = clock - Interval
    BY <2>3, <2>4 DEF NextCheck
  <2> QED
    BY <1>6, <2>5 DEF ahead
<1>7. CASE offset # NotYet
  <2> DEFINE y == x + (offset - shift - 1)
  <2>1. offset \in Int /\ offset >= shift + 1 /\ offset <= shift + Interval
    BY <1>1, <1>7, EnergyAssumption
  <2>2. y \in Int /\ DateOf(y) \in Int /\ DateOf(x) \in Int
    BY <1>1, <2>1, DayFacts
  <2>3. days = {DateOf(y)}
    <3>1. clock + (offset + 0 - 1) = y
      BY <1>1, <2>1
    <3>2. ShiftedDate(0) = DateOf(y)
      BY <1>7, <3>1 DEF ShiftedDate
    <3>3. days = {ShiftedDate(0) + 0}
      BY <1>7
    <3> QED
      BY <3>2, <3>3, <2>2
  <2>4. CASE DateOf(y) = DateOf(x)
    <3>1. Latest(days) = Floor(x)
      BY <2>2, <2>3, <2>4, <1>1, LatestToday
    <3>2. offset' = Lesser(Reach(offset, ahead), ahead) /\ checked' = NextCheck(offset, ahead)
      BY <3>1, <1>2, <1>3, <1>5, EnergyAssumption
    <3> HIDE DEF ahead
    <3>3. Reach(offset, ahead) = offset
      BY <1>7, <1>1, <1>4, <2>1, EnergyAssumption DEF Reach
    <3>4. IF ahead <= offset
            THEN offset' = ahead /\ checked' = clock - Interval
            ELSE offset' = offset /\ checked' = clock
      BY <3>2, <3>3, <1>1, <1>4, <2>1 DEF Lesser, NextCheck
    <3> QED
      BY <1>7, <2>2, <2>4, <3>4 DEF ahead
  <2>5. CASE DateOf(y) > DateOf(x)
    <3>1. Latest(days) = NotYet
      BY <2>2, <2>3, <2>5, <1>1, LatestTomorrow
    <3>2. offset' = offset /\ checked' = clock
      BY <3>1, <1>5
    <3> QED
      BY <1>7, <2>2, <2>5, <3>2
  <2> HIDE DEF ahead
  <2>6. CASE ~(DateOf(y) = DateOf(x) \/ DateOf(y) > DateOf(x))
    BY <1>7, <2>2, <2>6
  <2> QED
    BY <2>4, <2>5, <2>6
<1> QED
  BY <1>6, <1>7

----------------------------------------------------------------------------
(* The offset settles *)

DayEnd(x) == DateOf(x) * DayLength + DayLength

\* The interval of a time is the last one of its day.
LastOf(x) == Floor(x) + Interval = DayEnd(x)

\* An interval ends at the latest with the day.
LEMMA NextInterval ==
  ASSUME NEW x \in Int
  PROVE  DayEnd(x) \in Int /\ Floor(x) + Interval <= DayEnd(x)
<1>1. /\ DateOf(x) \in Int /\ DateOf(x) * DayLength <= x
      /\ x < DateOf(x) * DayLength + DayLength
  BY DayFacts
<1>2. PICK n \in Nat : n >= 2 /\ DayLength = Interval * n
  BY DayIntervals
<1>3. PICK q \in Int : Floor(x) = Interval * q
  BY FloorFacts
<1>4. Floor(x) \in Int /\ Floor(x) <= x
  BY FloorFacts
<1> DEFINE m == DateOf(x) * n + n
<1>5. m \in Int /\ DayEnd(x) = Interval * m
  <2>1. DateOf(x) * (Interval * n) + Interval * n = Interval * (DateOf(x) * n + n)
    BY <1>1, EnergyAssumption
  <2> QED
    BY <2>1, <1>1, <1>2 DEF DayEnd
<1> HIDE DEF m
<1>6. CASE q >= m
  <2>1. Interval * q >= Interval * m
    BY <1>5, <1>6, EnergyAssumption
  <2>2. DayEnd(x) <= x
    BY <2>1, <1>3, <1>4, <1>5, EnergyAssumption
  <2> QED
    BY <2>2, <1>1, EnergyAssumption DEF DayEnd
<1>7. CASE q < m
  <2>1. Interval * (q + 1) <= Interval * m
    BY <1>5, <1>7, EnergyAssumption
  <2>2. Interval * (q + 1) = Interval * q + Interval
    BY EnergyAssumption
  <2> QED
    BY <2>1, <2>2, <1>3, <1>5, EnergyAssumption
<1> QED
  BY <1>5, <1>6, <1>7

\* The day of a later time, up to the begin of the next interval.
LEMMA SameDay ==
  ASSUME NEW x \in Int, NEW y \in Int, x <= y
  PROVE  /\ DateOf(y) = DateOf(x) \/ DateOf(y) > DateOf(x)
         /\ y < Floor(x) + Interval => DateOf(y) = DateOf(x)
         /\ y = Floor(x) + Interval /\ ~LastOf(x) => DateOf(y) = DateOf(x)
         /\ y = Floor(x) + Interval /\ LastOf(x) => DateOf(y) > DateOf(x)
<1>1. /\ DateOf(x) \in Int /\ DateOf(x) * DayLength <= x
      /\ DateOf(y) \in Int
      /\ x < DateOf(x) * DayLength + DayLength
  BY DayFacts
<1>2. DayEnd(x) \in Int /\ Floor(x) + Interval <= DayEnd(x) /\ Floor(x) \in Int
  BY NextInterval, FloorFacts
<1>3. y < DayEnd(x) => DateOf(y) = DateOf(x)
  <2> SUFFICES ASSUME y < DayEnd(x) PROVE DateOf(y) = DateOf(x)
    OBVIOUS
  <2>1. DateOf(x) * DayLength <= y /\ y < DateOf(x) * DayLength + DayLength
    BY <1>1, EnergyAssumption DEF DayEnd
  <2> QED
    BY <2>1, <1>1, DayIs
<1>4. y >= DayEnd(x) => DateOf(y) > DateOf(x)
  <2> SUFFICES ASSUME y >= DayEnd(x), DateOf(y) <= DateOf(x) PROVE FALSE
    BY <1>1
  <2>1. y < DateOf(y) * DayLength + DayLength
    BY DayFacts
  <2>2. DateOf(y) * DayLength <= DateOf(x) * DayLength
    BY <1>1, EnergyAssumption
  <2> QED
    BY <2>1, <2>2, <1>1, EnergyAssumption DEF DayEnd
<1>5. y < DayEnd(x) \/ y >= DayEnd(x)
  BY <1>2
<1> QED
  BY <1>2, <1>3, <1>4, <1>5, EnergyAssumption DEF LastOf

\* An interval after one in the last interval of a day.
LEMMA AfterLast ==
  ASSUME NEW x \in Int, LastOf(x)
  PROVE  /\ Floor(x + Interval) = Floor(x) + Interval
         /\ (x + Interval) % Interval = x % Interval
         /\ ~LastOf(x + Interval)
<1>1. PICK q \in Int : Floor(x) = Interval * q
  BY FloorFacts
<1>2. /\ Floor(x) \in Int /\ Floor(x) <= x /\ x < Floor(x) + Interval
      /\ Floor(x) = x - (x % Interval) /\ x % Interval \in 0..(Interval - 1)
  BY FloorFacts DEF Floor
<1> DEFINE y == x + Interval
<1>3. y \in Int
  BY EnergyAssumption
<1>4. Interval * (q + 1) = Floor(x) + Interval
  BY <1>1, EnergyAssumption
<1>5. Interval * (q + 1) <= y /\ y < Interval * (q + 1) + Interval
  BY <1>2, <1>4, EnergyAssumption
<1> HIDE DEF y
<1>6. Floor(y) = Interval * (q + 1) /\ y % Interval = y - Interval * (q + 1)
  BY <1>3, <1>5, FloorIs
<1>7. Floor(y) = Floor(x) + Interval /\ y % Interval = x % Interval
  BY <1>2, <1>4, <1>6, EnergyAssumption DEF y
<1>8. DateOf(x) \in Int
  BY DayFacts
<1>9. (DateOf(x) + 1) * DayLength = DayEnd(x) /\ DayEnd(x) \in Int
  BY <1>8, NextInterval, EnergyAssumption DEF DayEnd
<1>10. DateOf(y) = DateOf(x) + 1
  <2>1. DayEnd(x) <= y /\ y < DayEnd(x) + DayLength
    BY <1>2, <1>9, EnergyAssumption DEF LastOf, y
  <2> QED
    BY <2>1, <1>3, <1>8, <1>9, DayIs
<1>11. DayEnd(y) = DayEnd(x) + DayLength
  BY <1>9, <1>10 DEF DayEnd
<1>12. ~LastOf(y)
  BY <1>7, <1>9, <1>11, <1>2, EnergyAssumption DEF LastOf
<1> QED
  BY <1>7, <1>12 DEF y

\* The next tick of an interval.
LEMMA NextTick ==
  ASSUME NEW x \in Int, x % Interval < Interval - 1
  PROVE  /\ Floor(x + 1) = Floor(x) /\ (x + 1) % Interval = (x % Interval) + 1
         /\ LastOf(x + 1) <=> LastOf(x)
<1>1. PICK q \in Int : Floor(x) = Interval * q
  BY FloorFacts
<1>2. /\ Floor(x) \in Int /\ Floor(x) <= x /\ x < Floor(x) + Interval
      /\ Floor(x) = x - (x % Interval) /\ x % Interval \in 0..(Interval - 1)
  BY FloorFacts DEF Floor
<1> DEFINE y == x + 1
<1>3. y \in Int
  OBVIOUS
<1>4. Interval * q <= y /\ y < Interval * q + Interval
  BY <1>1, <1>2, EnergyAssumption
<1>5. y < Floor(x) + Interval /\ x <= y
  BY <1>1, <1>4, EnergyAssumption
<1> HIDE DEF y
<1>6. Floor(y) = Interval * q /\ y % Interval = y - Interval * q
  BY <1>3, <1>4, FloorIs
<1>7. Floor(y) = Floor(x) /\ y % Interval = (x % Interval) + 1
  BY <1>1, <1>2, <1>6, EnergyAssumption DEF y
<1>8. DateOf(y) = DateOf(x)
  BY <1>3, <1>5, SameDay
<1>9. LastOf(y) <=> LastOf(x)
  BY <1>7, <1>8 DEF LastOf, DayEnd
<1> QED
  BY <1>7, <1>9 DEF y

\* The time of the cloud and how far into an interval it is.
CloudTime == clock + shift
Into == CloudTime % Interval

Settled == offset = shift + 1

\* Each tick that is polled takes a tick off the offset, until an interval
\* ends.  In the last interval of a day this happens with the first poll only.
Falls ==
  /\ checked \in Int /\ clock - checked >= Interval
  /\ offset = shift + Interval - Into + (IF polled THEN 0 ELSE 1)
  /\ polled \/ Into >= 1
  /\ steady <= Interval + Into
  /\ LastOf(CloudTime) => steady = IF polled THEN 0 ELSE 1

\* There the second one finds no record, and the next one comes an interval
\* later.
Waits ==
  /\ checked \in Int /\ clock - checked = steady - 1
  /\ 1 <= steady /\ steady <= Interval + 1
  /\ polled => steady <= Interval
  /\ steady = 1 => polled
  /\ (checked + shift) % Interval >= 1
  /\ offset = shift + 1 + Interval - ((checked + shift) % Interval)
  /\ LastOf(checked + shift)

TickInv ==
  /\ clock \in Int /\ site \in EnergySites /\ shift \in Shifts[site.pps]
  /\ checked \in Int \cup {NotYet}
  /\ polled \in BOOLEAN /\ steady \in -1..(2 * Interval)
  /\ offset # NotYet =>
       site.pps /\ offset \in Int /\ offset <= shift + Interval

SettleInv ==
  /\ checked = NotYet <=> offset = NotYet
  /\ checked = NotYet => steady = 0 /\ ~polled
  /\ offset # NotYet => /\ offset \in (shift + 1)..(shift + Interval)
                        /\ steady = 0 => polled
                        /\ steady >= 0 => Settled \/ Falls \/ Waits

\* The kind of a site and what the cloud may be ahead of it.
LEMMA SiteFacts ==
  ASSUME TickInv
  PROVE  /\ site.pps \in BOOLEAN /\ shift \in Int
         /\ site.pps => /\ shift \in Shifts[TRUE] /\ -DayLength < shift
                        /\ shift < DayLength
         /\ ~site.pps => shift >= -Margin
<1>1. site.pps \in BOOLEAN
  BY SiteAssumption DEF TickInv
<1>2. Shifts[TRUE] \in SUBSET Int /\ Shifts[FALSE] \in SUBSET Int
  BY ShiftAssumption
<1>3. CASE site.pps
  <2>1. site.pps = TRUE
    BY <1>1, <1>3
  <2>2. shift \in Shifts[TRUE]
    BY <2>1 DEF TickInv
  <2>3. -DayLength < shift /\ shift < DayLength
    BY <2>2, ShiftAssumption
  <2> QED
    BY <1>1, <1>2, <1>3, <2>2, <2>3
<1>4. CASE ~site.pps
  <2>1. site.pps = FALSE
    BY <1>1, <1>4
  <2>2. shift \in Shifts[FALSE]
    BY <2>1 DEF TickInv
  <2>3. shift >= -Margin
    BY <2>2, ShiftAssumption
  <2> QED
    BY <1>1, <1>2, <1>4, <2>2, <2>3
<1> QED
  BY <1>3, <1>4

\* The offset is at most an interval more than what it stands for.
LEMMA CheckKeepsTickInv ==
  ASSUME TickInv, CheckOffset
  PROVE  TickInv'
<1>1. site.pps /\ shift \in Int
  BY SiteFacts DEF CheckOffset
<1>2. /\ UNCHANGED <<clock, site, shift, steady>> /\ polled' = TRUE
  BY DEF CheckOffset
<1> DEFINE days == {ShiftedDate(0) + d :
                      d \in IF offset = NotYet THEN {1, 0, -1} ELSE {0}}
           last == Latest(days)
<1>3. CASE UNCHANGED <<offset, checked>>
  BY <1>2, <1>3 DEF TickInv
<1>4. CASE ~UNCHANGED <<offset, checked>>
  <2>1. IF last = NotYet
        THEN checked' = clock /\ UNCHANGED offset
        ELSE /\ offset' = Lesser(Reach(offset, last + Interval - clock),
                                 last + Interval - clock)
             /\ checked' = NextCheck(offset, last + Interval - clock)
    BY <1>4 DEF CheckOffset
  <2>2. CASE last = NotYet
    BY <1>2, <2>1, <2>2 DEF TickInv
  <2>3. CASE last # NotYet
    <3>1. ShiftedDate(0) \in Int
      <4>1. CASE offset = NotYet
        <5>1. ShiftedDate(0) = DateOf(clock)
          BY <4>1 DEF ShiftedDate, TickInv
        <5> QED
          BY <5>1, DayFacts DEF TickInv
      <4>2. CASE offset # NotYet
        <5> DEFINE t == clock + (offset + 0 - 1)
        <5>1. t \in Int /\ ShiftedDate(0) = DateOf(t)
          BY <4>2 DEF ShiftedDate, TickInv
        <5> QED
          BY <5>1, DayFacts
      <4> QED
        BY <4>1, <4>2
    <3>2. days \in SUBSET Int /\ \A d \in days : d <= ShiftedDate(0) + 1
      BY <3>1
    <3> DEFINE b == ShiftedDate(0) + 1
    <3>3. b \in Int /\ \A d \in days : d <= b
      BY <3>1, <3>2
    <3> HIDE DEF days, b
    <3>4. last \in Int /\ last <= clock + shift
      BY <1>1, <2>3, <3>2, <3>3, LatestBound DEF TickInv
    <3> HIDE DEF last
    <3> DEFINE ahead == last + Interval - clock
    <3>5. ahead \in Int /\ ahead <= shift + Interval
      BY <1>1, <3>4, EnergyAssumption DEF TickInv
    <3>6. /\ offset' = Lesser(Reach(offset, ahead), ahead)
          /\ checked' = NextCheck(offset, ahead)
      BY <2>1, <2>3
    <3> HIDE DEF ahead
    <3>7. Reach(offset, ahead) \in Int
      BY <3>5, EnergyAssumption DEF Reach, TickInv
    <3>8. offset' \in Int /\ offset' <= shift + Interval
      BY <1>1, <3>5, <3>6, <3>7, EnergyAssumption DEF Lesser
    <3>9. checked' \in Int
      BY <3>6, EnergyAssumption DEF NextCheck, TickInv
    <3> QED
      BY <1>1, <1>2, <3>8, <3>9 DEF TickInv
  <2> QED
    BY <2>2, <2>3
<1> QED
  BY <1>3, <1>4

\* A measurement settles the offset, takes a tick off it, or has to wait.
LEMMA CheckKeepsSettleInv ==
  ASSUME TickInv, SettleInv, empty = {}, CheckOffset
  PROVE  SettleInv'
<1>1. /\ site.pps /\ shift \in Int /\ shift \in Shifts[TRUE]
      /\ clock \in Int /\ steady \in -1..(2 * Interval)
      /\ offset \in Int \cup {NotYet} /\ checked \in Int \cup {NotYet}
      /\ polled \in BOOLEAN
  BY SiteFacts DEF CheckOffset, TickInv
<1>2. UNCHANGED <<clock, site, shift, steady>> /\ polled' = TRUE
  BY DEF CheckOffset
<1> DEFINE x == CloudTime
<1>3. /\ x \in Int /\ Floor(x) \in Int /\ Floor(x) <= x /\ x < Floor(x) + Interval
      /\ Into \in 0..(Interval - 1) /\ Floor(x) = x - Into
  BY <1>1, FloorFacts DEF CloudTime, Into, Floor
<1>4. x = clock + shift /\ x' = x /\ Into' = Into
  BY <1>2 DEF CloudTime, Into
<1>5. CASE checked # NotYet /\ clock - checked < Interval
  <2>1. UNCHANGED <<offset, checked>>
    BY <1>5 DEF CheckOffset
  <2>2. offset # NotYet /\ offset \in (shift + 1)..(shift + Interval)
    BY <1>5 DEF SettleInv
  <2>3. ~Falls
    BY <1>5, <1>1, EnergyAssumption DEF Falls
  <2>4. Settled => Settled'
    BY <1>2, <2>1 DEF Settled
  <2>5. Waits => Waits'
    BY <1>1, <1>2, <1>5, <2>1, EnergyAssumption DEF Waits, LastOf, Floor, DayEnd, DateOf
  <2> QED
    BY <1>2, <1>5, <2>1, <2>2, <2>3, <2>4, <2>5 DEF SettleInv
<1>6. CASE checked = NotYet \/ clock - checked >= Interval
  <2> DEFINE ahead == shift + Interval - Into
  <2>1. offset = NotYet \/ offset \in (shift + 1)..(shift + Interval)
    BY DEF SettleInv
  <2>2. /\ offset = NotYet => offset' = ahead /\ checked' = clock - Interval
        /\ /\ offset # NotYet
           /\ DateOf(x + (offset - shift - 1)) = DateOf(x)
           => IF ahead <= offset
                THEN offset' = ahead /\ checked' = clock - Interval
                ELSE offset' = offset /\ checked' = clock
        /\ /\ offset # NotYet
           /\ DateOf(x + (offset - shift - 1)) > DateOf(x)
           => offset' = offset /\ checked' = clock
    BY <1>1, <1>6, <2>1, Measured DEF CloudTime, Into
  <2>3. ahead \in (shift + 1)..(shift + Interval)
    BY <1>1, <1>3, EnergyAssumption
  <2> DEFINE FallsNow == offset' = ahead /\ checked' = clock - Interval
  <2>4. FallsNow /\ steady <= Interval + Into /\ (LastOf(x) => steady = 0)
        => Falls'
    <3>1. LastOf(x)' = LastOf(x)
      BY <1>4 DEF LastOf, Floor, DayEnd, DateOf
    <3> QED
      BY <1>1, <1>2, <1>3, <1>4, <3>1, EnergyAssumption DEF Falls
  <2>5. (offset' \in {offset, ahead} /\ offset' # NotYet /\ checked' \in Int)
        /\ (steady >= 0 => (Settled \/ Falls \/ Waits)') => SettleInv'
    BY <1>2, <2>1, <2>3, EnergyAssumption DEF SettleInv
  <2>6. clock - Interval \in Int /\ clock \in Int
    BY <1>1, EnergyAssumption
  <2>7. CASE offset = NotYet
    <3>1. steady = 0 /\ FallsNow
      BY <2>2, <2>7 DEF SettleInv
    <3>2. Falls'
      BY <2>4, <3>1, <1>3, EnergyAssumption
    <3>3. ahead # NotYet
      BY <2>3, <1>1, EnergyAssumption
    <3> QED
      BY <2>5, <2>6, <3>1, <3>2, <3>3
  <2>8. CASE offset # NotYet
    <3> DEFINE y == x + (offset - shift - 1)
    <3>1. /\ offset \in Int /\ offset >= shift + 1 /\ offset <= shift + Interval
          /\ checked \in Int /\ clock - checked >= Interval
      BY <1>1, <1>6, <2>1, <2>8 DEF SettleInv
    <3>2. y \in Int /\ x <= y
      BY <1>1, <1>3, <3>1
    <3>3. DateOf(y) = DateOf(x) \/ DateOf(y) > DateOf(x)
      BY <1>3, <3>2, SameDay
    <3>4. /\ offset' \in {offset, ahead} /\ offset' # NotYet /\ checked' \in Int
      BY <2>2, <2>3, <2>6, <2>8, <3>1, <3>3, EnergyAssumption
    <3>5. CASE steady < 0
      BY <2>5, <3>4, <3>5, <1>1
    <3>6. CASE steady >= 0 /\ Settled
      <4>1. y = x
        BY <1>1, <1>3, <3>6 DEF Settled
      <4>2. offset' = shift + 1
        BY <2>2, <2>3, <2>8, <4>1, <3>6, <1>1 DEF Settled
      <4>3. Settled'
        BY <4>2, <1>2 DEF Settled
      <4> QED
        BY <2>5, <3>4, <4>3
    <3>7. CASE steady >= 0 /\ Falls /\ polled
      <4>1. offset = ahead /\ y < Floor(x) + Interval
        BY <3>7, <1>1, <1>3, <3>1, EnergyAssumption DEF Falls
      <4>2. DateOf(y) = DateOf(x)
        BY <1>3, <3>2, <4>1, SameDay
      <4>3. FallsNow
        BY <2>2, <2>3, <2>8, <4>1, <4>2
      <4>4. Falls'
        BY <2>4, <4>3, <3>7 DEF Falls
      <4> QED
        BY <2>5, <3>4, <4>4
    <3>8. CASE steady >= 0 /\ Falls /\ ~polled
      <4>1. /\ offset = ahead + 1 /\ y = Floor(x) + Interval /\ Into >= 1
            /\ steady <= Interval + Into
        BY <3>8, <1>1, <1>3, <3>1, EnergyAssumption DEF Falls
      <4>2. CASE LastOf(x)
        <5>1. DateOf(y) > DateOf(x)
          BY <1>3, <3>2, <4>1, <4>2, SameDay
        <5>2. offset' = offset /\ checked' = clock
          BY <2>2, <2>8, <5>1
        <5>3. steady = 1
          BY <3>8, <4>2 DEF Falls
        <5>4. LastOf(checked + shift)' /\ (checked + shift)' = x
          BY <4>2, <5>2, <1>2, <1>4 DEF LastOf, Floor, DayEnd, DateOf
        <5>5. ((checked + shift) % Interval)' = Into
          BY <5>4 DEF Into
        <5>6. Waits'
          BY <5>2, <5>3, <5>4, <5>5, <4>1, <1>1, <1>2, <1>3, EnergyAssumption DEF Waits
        <5> QED
          BY <2>5, <3>4, <5>6
      <4>3. CASE ~LastOf(x)
        <5>1. DateOf(y) = DateOf(x)
          BY <1>3, <3>2, <4>1, <4>3, SameDay
        <5>2. FallsNow
          BY <2>2, <2>3, <2>8, <4>1, <5>1
        <5>3. Falls'
          BY <2>4, <5>2, <4>1, <4>3
        <5> QED
          BY <2>5, <3>4, <5>3
      <4> QED
        BY <4>2, <4>3
    <3>9. CASE steady >= 0 /\ Waits
      <4>1. clock - checked = Interval /\ steady = Interval + 1
        BY <3>9, <3>1, <1>1, EnergyAssumption DEF Waits
      <4> DEFINE z == checked + shift
      <4>2. z \in Int /\ LastOf(z) /\ x = z + Interval
        BY <3>9, <4>1, <3>1, <1>1, <1>4, EnergyAssumption DEF Waits
      <4>3. z % Interval >= 1 /\ offset = shift + 1 + Interval - (z % Interval)
        BY <3>9 DEF Waits
      <4> HIDE DEF z
      <4>4. Into = z % Interval /\ ~LastOf(x)
        BY <4>2, AfterLast DEF Into
      <4>5. offset = ahead + 1 /\ Into >= 1
        BY <4>3, <4>4, <1>1, <1>3, EnergyAssumption
      <4>6. y = Floor(x) + Interval
        BY <4>5, <1>1, <1>3, <3>1, EnergyAssumption
      <4>7. DateOf(y) = DateOf(x)
        BY <1>3, <3>2, <4>4, <4>6, SameDay
      <4>8. FallsNow
        BY <2>2, <2>3, <2>8, <4>5, <4>7
      <4>9. Falls'
        BY <2>4, <4>1, <4>4, <4>5, <4>8, <1>3, EnergyAssumption
      <4> QED
        BY <2>5, <3>4, <4>9
    <3> QED
      BY <3>5, <3>6, <3>7, <3>8, <3>9, <2>8, <1>1 DEF SettleInv
  <2> QED
    BY <2>7, <2>8
<1> QED
  BY <1>1, <1>5, <1>6, EnergyAssumption

\* A tick keeps the types.
LEMMA TickKeepsTickInv ==
  ASSUME TickInv, PassTick
  PROVE  TickInv'
<1>1. /\ UNCHANGED <<shift, site, offset, checked>>
      /\ clock' = clock + 1 /\ polled' = FALSE
      /\ steady' \in {Lesser(steady + 1, 2 * Interval), 0, -1}
  BY DEF PassTick
<1>2. steady \in -1..(2 * Interval) => steady' \in -1..(2 * Interval)
  <2> SUFFICES ASSUME steady \in -1..(2 * Interval)
               PROVE  steady' \in -1..(2 * Interval)
    OBVIOUS
  <2>1. Lesser(steady + 1, 2 * Interval) \in -1..(2 * Interval)
    BY EnergyAssumption DEF Lesser
  <2> QED
    BY <1>1, <2>1, EnergyAssumption
<1>3. clock \in Int => clock' \in Int
  BY <1>1
<1> QED
  BY <1>1, <1>2, <1>3 DEF TickInv

\* A tick after a poll keeps the offset falling, waiting or settled.
LEMMA TickKeepsSettleInv ==
  ASSUME TickInv, SettleInv, site.pps, PassTick
  PROVE  SettleInv'
<1>1. /\ shift \in Int /\ clock \in Int /\ steady \in -1..(2 * Interval)
      /\ offset \in Int \cup {NotYet} /\ checked \in Int \cup {NotYet}
      /\ polled \in BOOLEAN
  BY SiteFacts DEF TickInv
<1>2. /\ UNCHANGED <<shift, site, empty, offset, checked>>
      /\ clock' = clock + 1 /\ polled' = FALSE
      /\ steady' = IF steady >= 0 /\ polled THEN Lesser(steady + 1, 2 * Interval)
                   ELSE IF checked = NotYet THEN 0 ELSE -1
  BY DEF PassTick
<1> DEFINE x == CloudTime
<1>3. /\ x \in Int /\ Floor(x) \in Int /\ Floor(x) <= x /\ x < Floor(x) + Interval
      /\ Into \in 0..(Interval - 1) /\ Floor(x) = x - Into
  BY <1>1, FloorFacts DEF CloudTime, Into, Floor
<1>4. x = clock + shift /\ x' = x + 1
  BY <1>1, <1>2 DEF CloudTime
<1>5. CASE checked = NotYet
  BY <1>2, <1>5 DEF SettleInv
<1>6. CASE checked # NotYet /\ ~(steady >= 0 /\ polled)
  <2>1. steady' = -1
    BY <1>2, <1>6
  <2> QED
    BY <2>1, <1>2, <1>6 DEF SettleInv
<1>7. CASE checked # NotYet /\ steady >= 0 /\ polled
  <2>1. steady' = Lesser(steady + 1, 2 * Interval)
    BY <1>2, <1>7
  <2>2. /\ steady' \in 1..(2 * Interval) /\ steady' <= steady + 1
        /\ steady < 2 * Interval => steady' = steady + 1
    BY <2>1, <1>1, <1>7, EnergyAssumption DEF Lesser
  <2>3. offset # NotYet /\ offset \in (shift + 1)..(shift + Interval) /\ checked \in Int
    BY <1>1, <1>7 DEF SettleInv
  <2>4. (Settled \/ Falls \/ Waits)' => SettleInv'
    BY <1>2, <2>2, <2>3, <1>7 DEF SettleInv
  <2>5. CASE Settled
    BY <2>4, <2>5, <1>2 DEF Settled
  <2>6. CASE Falls
    <3>1. /\ clock - checked >= Interval /\ offset = shift + Interval - Into
          /\ steady <= Interval + Into
          /\ LastOf(x) => steady = 0
      BY <2>6, <1>1, <1>3, <1>7, EnergyAssumption DEF Falls
    <3>2. CASE Into = Interval - 1
      <4>1. Settled
        BY <3>1, <3>2, <1>1, EnergyAssumption DEF Settled
      <4> QED
        BY <2>5, <4>1
    <3>3. CASE Into # Interval - 1
      <4>1. x % Interval < Interval - 1
        BY <1>3, <3>3, EnergyAssumption DEF Into
      <4>2. /\ (x + 1) % Interval = (x % Interval) + 1
            /\ LastOf(x + 1) <=> LastOf(x)
        BY <1>3, <4>1, NextTick
      <4>3. Into' = Into + 1
        BY <4>2, <1>4 DEF Into
      <4>4. LastOf(x)' <=> LastOf(x)
        <5>1. LastOf(x)' = LastOf(x + 1)
          BY <1>4 DEF LastOf, Floor, DayEnd, DateOf
        <5> QED
          BY <5>1, <4>2
      <4>5. /\ checked' \in Int /\ (clock - checked)' >= Interval
            /\ offset' = (shift + Interval - Into + 1)'
            /\ Into' >= 1 /\ steady' <= (Interval + Into)'
        BY <3>1, <4>3, <1>1, <1>2, <1>3, <2>2, <2>3, EnergyAssumption
      <4>6. LastOf(x)' => steady' = 1
        BY <3>1, <4>4, <2>2, EnergyAssumption
      <4>7. Falls'
        BY <4>5, <4>6, <1>2, <1>1, <1>3, EnergyAssumption DEF Falls
      <4> QED
        BY <2>4, <4>7
    <3> QED
      BY <3>2, <3>3
  <2>7. CASE Waits
    <3>1. /\ clock - checked = steady - 1 /\ 1 <= steady /\ steady <= Interval
      BY <2>7, <1>7 DEF Waits
    <3>2. steady' = steady + 1
      BY <2>2, <3>1, <1>1, EnergyAssumption
    <3>3. LastOf(checked + shift)' = LastOf(checked + shift)
      BY <1>2 DEF LastOf, Floor, DayEnd, DateOf
    <3>4. Waits'
      BY <2>7, <3>1, <3>2, <3>3, <2>3, <1>1, <1>2, EnergyAssumption DEF Waits
    <3> QED
      BY <2>4, <3>4
  <2> QED
    BY <2>3, <2>5, <2>6, <2>7, <1>7 DEF SettleInv
<1> QED
  BY <1>5, <1>6, <1>7

\* After 40 minutes of polls the offset is that of the cloud.
LEMMA Settles ==
  ASSUME TickInv, SettleInv, site.pps, offset # NotYet
  PROVE  /\ offset > shift
         /\ steady = 2 * Interval => offset = shift + 1
<1>1. /\ shift \in Int /\ offset \in Int /\ offset > shift
      /\ clock \in Int /\ checked \in Int
  <2>1. shift \in Int
    BY SiteFacts
  <2>2. clock \in Int /\ checked \in Int
    BY DEF SettleInv, TickInv
  <2>3. offset \in (shift + 1)..(shift + Interval)
    BY DEF SettleInv
  <2> QED
    BY <2>1, <2>2, <2>3, EnergyAssumption
<1>2. Into \in 0..(Interval - 1) /\ (checked + shift) % Interval \in 0..(Interval - 1)
  <2>1. clock + shift \in Int /\ checked + shift \in Int
    BY <1>1
  <2> QED
    BY <2>1, FloorFacts DEF CloudTime, Into
<1>3. CASE steady = 2 * Interval /\ Falls
  BY <1>2, <1>3, EnergyAssumption DEF Falls
<1>4. CASE steady = 2 * Interval /\ Waits
  BY <1>2, <1>4, EnergyAssumption DEF Waits
<1>5. CASE steady = 2 * Interval /\ Settled
  BY <1>1, <1>5 DEF Settled
<1> QED
  BY <1>1, <1>3, <1>4, <1>5, EnergyAssumption DEF SettleInv

----------------------------------------------------------------------------
(* Requests for the days from..to *)

Fields ==
  {"battery_discharge", "ac_socket", "battery_to_home", "grid_to_battery",
   "3rd_party_pv_to_bat", "home_usage", "grid_to_home", "smartplugs_total",
   "solar_to_grid", "3rd_party_pv_to_grid", "ev_charge", "battery_charge",
   "solar_to_battery", "solar_production", "solar_to_home"}
  \cup UNION {{s.channels[i] : i \in 1..Len(s.channels)} : s \in EnergySites}

Requests ==
  [from : Int, to : Int, items : SUBSET Fields, totals : SUBSET Fields,
   total : Int \cup {NotYet}, more : BOOLEAN]

\* A request within the days from..to: it stores its totals, if any, for its
\* first day, and unless it is for one day these are totals of a period.
Fitting(from, to) ==
  {r \in Requests :
     /\ from <= r.from /\ r.to <= to
     /\ r.total # NotYet => /\ r.total = r.from /\ r.from <= r.to
                            /\ r.from = r.to \/ r.totals \subseteq PeriodTotals}

\* A request that enters fields of the first day it asks for.
Asks(r, day) == r.from = day /\ day <= r.to /\ r.items # {} /\ ~r.more

Covers(queue, day) == \E i \in 1..Len(queue) : Asks(queue[i], day)

\* Requests before others do not change that a day is asked for.
LEMMA CoversLonger ==
  ASSUME NEW S, NEW s \in Seq(S), NEW t \in Seq(S), NEW day, Covers(t, day)
  PROVE  Covers(s \o t, day)
<1>1. PICK i \in 1..Len(t) : Asks(t[i], day)
  BY DEF Covers
<1>2. Len(s) + i \in 1..Len(s \o t) /\ (s \o t)[Len(s) + i] = t[i]
  BY <1>1
<1> QED
  BY <1>1, <1>2 DEF Covers

\* One request for some of the days.
LEMMA RequestFits ==
  ASSUME NEW from \in Int, NEW to \in Int, NEW a \in Int, NEW b \in Int,
         from <= a, b <= to, NEW items \in SUBSET Fields,
         NEW totals \in SUBSET Fields, NEW total \in {NotYet, a},
         total = a => a <= b /\ (a = b \/ totals \subseteq PeriodTotals)
  PROVE  /\ Request(a, b, items, totals, total) \in Fitting(from, to)
         /\ a <= b /\ items # {} => Asks(Request(a, b, items, totals, total), a)
BY EnergyAssumption DEF Request, Fitting, Requests, Asks

\* One request for all days.
LEMMA PeriodFits ==
  ASSUME NEW from \in Int, NEW to \in Int, from <= to,
         NEW items \in SUBSET Fields
  PROVE  /\ Period(items, from, to) \in Seq(Fitting(from, to))
         /\ items # {} => Covers(Period(items, from, to), from)
<1> DEFINE r == Request(from, to, items, {}, NotYet)
<1>1. r \in Fitting(from, to) /\ (items # {} => Asks(r, from))
  BY DEF Request, Fitting, Requests, Asks
<1> HIDE DEF r
<1>2. Period(items, from, to) = <<r>>
  BY DEF Period, r
<1>3. Len(<<r>>) = 1 /\ <<r>>[1] = r
  OBVIOUS
<1> QED
  BY <1>1, <1>2, <1>3 DEF Covers

\* A request for one day, the first or a further one.
DayRequest(a, items, totals, more) ==
  [Request(a, a, items, totals, a) EXCEPT !.more = more]

\* A request for one day.
LEMMA DayFits ==
  ASSUME NEW from \in Int, NEW to \in Int, NEW a \in Int, from <= a, a <= to,
         NEW items \in SUBSET Fields, NEW totals \in SUBSET Fields,
         NEW more \in BOOLEAN
  PROVE  /\ DayRequest(a, items, totals, more) \in Fitting(from, to)
         /\ items # {} /\ ~more => Asks(DayRequest(a, items, totals, more), a)
BY EnergyAssumption DEF DayRequest, Request, Fitting, Requests, Asks

\* A request for each day; the first one asks for the first day.
LEMMA EachDayFits ==
  ASSUME NEW from \in Int, NEW to \in Int, from <= to,
         NEW items \in SUBSET Fields, NEW totals \in SUBSET Fields
  PROVE  /\ EachDay(items, totals, from, to) \in Seq(Fitting(from, to))
         /\ Len(EachDay(items, totals, from, to)) > 0
         /\ items # {} => Covers(EachDay(items, totals, from, to), from)
<1> DEFINE n == to - from + 1
           one(i) == DayRequest(from + i - 1, items, totals, i > 1)
           q == [i \in 1..n |-> one(i)]
<1>1. n \in Nat /\ n > 0
  OBVIOUS
<1>2. ASSUME NEW i \in 1..n PROVE one(i) \in Fitting(from, to)
  <2>1. from + i - 1 \in Int /\ from <= from + i - 1 /\ from + i - 1 <= to
    OBVIOUS
  <2>2. (i > 1) \in BOOLEAN
    OBVIOUS
  <2> QED
    BY <2>1, <2>2, DayFits
<1>3. items # {} => Asks(one(1), from)
  <2>1. from + 1 - 1 = from /\ (1 > 1) = FALSE
    OBVIOUS
  <2>2. items # {} => Asks(DayRequest(from, items, totals, FALSE), from)
    BY DEF DayRequest, Request, Asks
  <2> QED
    BY <2>1, <2>2
<1>4. EachDay(items, totals, from, to) = q
  BY DEF EachDay, DayRequest
<1> HIDE DEF n, one
<1>5. q \in Seq(Fitting(from, to)) /\ Len(q) = n /\ q[1] = one(1)
  BY <1>1, <1>2
<1> HIDE DEF q
<1>6. items # {} => Covers(q, from)
  BY <1>1, <1>3, <1>5 DEF Covers
<1> QED
  BY <1>1, <1>4, <1>5, <1>6

\* A request for all days and one for each further day.
LEMMA PeriodThenDaysFits ==
  ASSUME NEW from \in Int, NEW to \in Int, from <= to,
         NEW items \in SUBSET Fields, NEW totals \in SUBSET PeriodTotals
  PROVE  PeriodThenDays(items, totals, from, to) \in Seq(Fitting(from, to))
<1> DEFINE r == Request(from, to, items, totals, from)
           days == EachDay(items, totals, from, to)
<1>0. PeriodTotals \subseteq Fields
  BY DEF PeriodTotals, Fields
<1>1. totals \in SUBSET Fields
  BY <1>0
<1>2. r \in Fitting(from, to)
  BY <1>1 DEF Request, Fitting, Requests
<1>3. days \in Seq(Fitting(from, to)) /\ Len(days) > 0
  BY <1>1, EachDayFits
<1> HIDE DEF r, days
<1>4. days # <<>>
  BY <1>3
<1>5. Tail(days) \in Seq(Fitting(from, to)) /\ <<r>> \in Seq(Fitting(from, to))
  BY <1>2, <1>3, <1>4
<1>6. <<r>> \o Tail(days) \in Seq(Fitting(from, to))
  BY <1>5
<1>7. PeriodThenDays(items, totals, from, to) = <<r>> \o Tail(days)
  BY DEF PeriodThenDays, r, days
<1> QED
  BY <1>6, <1>7

\* Daily totals or not.
LEMMA StatisticsFit ==
  ASSUME NEW from \in Int, NEW to \in Int, from <= to, NEW daily,
         NEW items \in SUBSET Fields, NEW totals \in SUBSET Fields
  PROVE  /\ Statistics(daily, items, totals, from, to) \in Seq(Fitting(from, to))
         /\ items # {} => Covers(Statistics(daily, items, totals, from, to), from)
BY PeriodFits, EachDayFits DEF Statistics

----------------------------------------------------------------------------
(* The requests of a site or a bank fit its days, and one of them asks for *)
(* the first day.                                                          *)

\* No request at all.
LEMMA NoRequests == ASSUME NEW S PROVE <<>> \in Seq(S)
OBVIOUS

\* Sequences of requests one after the other.
LEMMA JoinedRequests ==
  ASSUME NEW S
  PROVE  \A s, t, u, v, w \in Seq(S) : s \o t \o u \o v \o w \in Seq(S)
<1>1. \A s, t \in Seq(S) : s \o t \in Seq(S)
  OBVIOUS
<1> SUFFICES ASSUME NEW s \in Seq(S), NEW t \in Seq(S), NEW u \in Seq(S),
                    NEW v \in Seq(S), NEW w \in Seq(S)
             PROVE  s \o t \o u \o v \o w \in Seq(S)
  OBVIOUS
<1> DEFINE a == s \o t
           b == a \o u
           c == b \o v
<1>2. a \in Seq(S)
  BY <1>1
<1> HIDE DEF a
<1>3. b \in Seq(S)
  BY <1>1, <1>2
<1> HIDE DEF b
<1>4. c \in Seq(S)
  BY <1>1, <1>3
<1> HIDE DEF c
<1>5. c \o w \in Seq(S)
  BY <1>1, <1>4
<1> QED
  BY <1>5 DEF a, b, c

\* Fields of third-party generation are asked for or not.
LEMMA ThirdPartyFields ==
  ASSUME NEW fields \in SUBSET Fields
  PROVE  ThirdParty(fields) \in SUBSET Fields
BY DEF ThirdParty

\* The production, which every site is asked for.
LEMMA SolarRequestsFit ==
  ASSUME NEW from \in Int, NEW to \in Int, from <= to, NEW daily
  PROVE  /\ SolarRequests(daily, from, to) \in Seq(Fitting(from, to))
         /\ Covers(SolarRequests(daily, from, to), from)
<1> DEFINE pps == {"battery_charge", "grid_to_battery", "solar_to_battery",
                   "3rd_party_pv_to_bat"}
           totals == {"battery_charge", "solar_to_grid", "solar_to_battery",
                      "solar_to_home"}
<1>1. pps \in SUBSET Fields /\ pps # {}
  BY DEF Fields
<1>2. {"solar_production"} \in SUBSET Fields /\ {"solar_production"} # {}
  BY DEF Fields
<1>3. totals \in SUBSET Fields
  BY DEF Fields
<1>4. /\ Period(pps, from, to) \in Seq(Fitting(from, to))
      /\ Covers(Period(pps, from, to), from)
  BY <1>1, PeriodFits
<1>5. /\ Statistics(daily, {"solar_production"}, totals, from, to) \in Seq(Fitting(from, to))
      /\ Covers(Statistics(daily, {"solar_production"}, totals, from, to), from)
  BY <1>2, <1>3, StatisticsFit
<1> QED
  BY <1>4, <1>5 DEF SolarRequests

\* The discharge of banks.
LEMMA SolarbankRequestsFit ==
  ASSUME NEW from \in Int, NEW to \in Int, from <= to, NEW daily
  PROVE  SolarbankRequests(daily, from, to) \in Seq(Fitting(from, to))
<1> DEFINE totals == {"ac_socket", "battery_to_home", "grid_to_battery"}
                       \cup ThirdParty({"3rd_party_pv_to_bat"})
           d2 == daily /\ site.sb2
<1>1. {"battery_discharge"} \in SUBSET Fields
      /\ {"ac_socket", "battery_to_home", "grid_to_battery"} \in SUBSET Fields
      /\ {"3rd_party_pv_to_bat"} \in SUBSET Fields
  BY DEF Fields
<1>2. totals \in SUBSET Fields
  BY <1>1, ThirdPartyFields
<1> HIDE DEF totals
<1>3. Statistics(d2, {"battery_discharge"}, totals, from, to) \in Seq(Fitting(from, to))
  BY <1>1, <1>2, StatisticsFit
<1> QED
  BY <1>3, NoRequests DEF SolarbankRequests, totals

\* The usage of the home.
LEMMA HomeUsageRequestsFit ==
  ASSUME NEW from \in Int, NEW to \in Int, from <= to, NEW daily
  PROVE  HomeUsageRequests(daily, from, to) \in Seq(Fitting(from, to))
<1>1. /\ {"home_usage"} \in SUBSET Fields
      /\ {"grid_to_home", "smartplugs_total", "battery_to_home"} \in SUBSET Fields
  BY DEF Fields
<1> QED
  BY <1>1, StatisticsFit, NoRequests DEF HomeUsageRequests

\* The grid: the totals stored for a period are those of PeriodTotals.
LEMMA GridRequestsFit ==
  ASSUME NEW from \in Int, NEW to \in Int, from <= to, NEW daily
  PROVE  GridRequests(daily, from, to) \in Seq(Fitting(from, to))
<1>1. {"solar_to_grid", "grid_to_home"} \in SUBSET Fields
  BY DEF Fields
<1>2. ThirdParty({"3rd_party_pv_to_grid"}) \in SUBSET PeriodTotals
  BY DEF ThirdParty, PeriodTotals
<1> QED
  BY <1>1, <1>2, PeriodFits, PeriodThenDaysFits, NoRequests DEF GridRequests

\* The channels of an inverter.
LEMMA ChannelRequestsFit ==
  ASSUME NEW from \in Int, NEW to \in Int, from <= to, site \in EnergySites
  PROVE  ChannelRequests(from, to) \in Seq(Fitting(from, to))
<1> DEFINE n == Len(site.channels)
           one(i) == Request(from, to, {site.channels[i]}, {}, NotYet)
           q == [i \in 1..n |-> one(i)]
<1>1. n \in Nat
  BY SiteAssumption
<1>2. ASSUME NEW i \in 1..n PROVE one(i) \in Fitting(from, to)
  <2>1. {site.channels[i]} \in SUBSET Fields
    BY <1>2 DEF Fields
  <2> QED
    BY <2>1 DEF Request, Fitting, Requests
<1> HIDE DEF one, n
<1>3. q \in Seq(Fitting(from, to))
  BY <1>1, <1>2
<1>4. ChannelRequests(from, to) \in {q, <<>>}
  BY DEF ChannelRequests, one, n
<1> QED
  BY <1>3, <1>4, NoRequests

\* The chargers.
LEMMA ChargerRequestsFit ==
  ASSUME NEW from \in Int, NEW to \in Int, from <= to
  PROVE  ChargerRequests(from, to) \in Seq(Fitting(from, to))
<1>1. {"ev_charge"} \in SUBSET Fields
  BY DEF Fields
<1> QED
  BY <1>1, PeriodFits, NoRequests DEF ChargerRequests

\* All requests of a site.
LEMMA SiteRequestsFit ==
  ASSUME NEW from \in Int, NEW to \in Int, from <= to, site \in EnergySites
  PROVE  /\ SiteRequests(from, to) \in Seq(Fitting(from, to))
         /\ Covers(SiteRequests(from, to), from)
<1> DEFINE S == Fitting(from, to)
           before == SolarbankRequests(TRUE, from, to) \o HomeUsageRequests(TRUE, from, to)
                     \o GridRequests(TRUE, from, to) \o ChannelRequests(from, to)
                     \o ChargerRequests(from, to)
           last == SolarRequests(TRUE, from, to)
<1>1. last \in Seq(S) /\ Covers(last, from)
  BY SolarRequestsFit
<1>2. /\ SolarbankRequests(TRUE, from, to) \in Seq(S)
      /\ HomeUsageRequests(TRUE, from, to) \in Seq(S)
      /\ GridRequests(TRUE, from, to) \in Seq(S)
      /\ ChannelRequests(from, to) \in Seq(S)
      /\ ChargerRequests(from, to) \in Seq(S)
  BY SolarbankRequestsFit, HomeUsageRequestsFit, GridRequestsFit,
     ChannelRequestsFit, ChargerRequestsFit
<1>3. before \in Seq(S)
  BY <1>2, JoinedRequests
<1> HIDE DEF S, before, last
<1>4. before \o last \in Seq(S) /\ Covers(before \o last, from)
  BY <1>1, <1>3, CoversLonger
<1> QED
  BY <1>4 DEF SiteRequests, before, last, S

\* All requests of a bank.
LEMMA BankRequestsFit ==
  ASSUME NEW from \in Int, NEW to \in Int, from <= to, site \in EnergySites
  PROVE  /\ BankRequests(from, to) \in Seq(Fitting(from, to))
         /\ Covers(BankRequests(from, to), from)
<1>1. {"solar_production"} \in SUBSET Fields /\ {"solar_production"} # {}
  BY DEF Fields
<1> QED
  BY <1>1, SiteRequestsFit, PeriodFits DEF BankRequests

----------------------------------------------------------------------------
(* Tables.  One spans days, holds a day when it has fields for it, and is   *)
(* whole for a day when each of them, but for the totals of a period, is    *)
(* that of the whole day.                                                   *)

Spans(table, from, to) == DOMAIN table \subseteq from..to

Holds(table, day) == day \in DOMAIN table /\ DOMAIN table[day] # {}

Whole(table, day) ==
  day \in DOMAIN table =>
    \A f \in DOMAIN table[day] \ PeriodTotals : table[day][f] = DayLength

\* An empty entry has no field.
LEMMA NoEntryEmpty == DOMAIN NoEntry = {}
BY DEF NoEntry

\* The fields of an entry extended.
LEMMA ExtendedDomain ==
  ASSUME NEW entry, NEW fields, NEW value
  PROVE  DOMAIN Extended(entry, fields, value) = DOMAIN entry \cup fields
BY DEF Extended

\* The value of a field extended.
LEMMA ExtendedValue ==
  ASSUME NEW entry, NEW fields, NEW value, NEW new,
         new = Extended(entry, fields, value), NEW f \in DOMAIN new
  PROVE  new[f] = IF f \in fields THEN value ELSE entry[f]
BY DEF Extended

\* A day has a record once it began, and is whole when it is over.
LEMMA RecordedFacts ==
  ASSUME NEW day \in Int, clock \in Int, shift \in Int
  PROVE  /\ Recorded(day) \in 0..DayLength
         /\ Recorded(day) > 0 <=> clock + shift > day * DayLength
         /\ Recorded(day) = DayLength
              <=> clock + shift >= day * DayLength + DayLength
<1>1. day * DayLength \in Int /\ DayLength \in Nat /\ DayLength > 0
  BY EnergyAssumption
<1> QED
  BY <1>1 DEF Recorded, Greater, Lesser

\* The list of an answer enters its fields for each day recorded.
LEMMA ListedFacts ==
  ASSUME NEW table, NEW r \in Requests, clock \in Int, shift \in Int
  PROVE  /\ DOMAIN Listed(table, r) \subseteq DOMAIN table \cup (r.from .. r.to)
         /\ \A d : Holds(table, d) => Holds(Listed(table, r), d)
         /\ \A d \in r.from .. r.to :
              Recorded(d) > 0 /\ r.items # {} => Holds(Listed(table, r), d)
         /\ \A d \in Int : Recorded(d) = DayLength /\ Whole(table, d)
                           => Whole(Listed(table, r), d)
<1> DEFINE days == {d \in r.from .. r.to : Recorded(d) > 0}
           new == Listed(table, r)
<1>1. days \subseteq Int
  BY DEF Requests
<1>2. /\ DOMAIN new = DOMAIN table \cup days
      /\ \A d \in days :
           new[d] = Extended(EntryOf(table, d), r.items, Recorded(d))
      /\ \A d \in DOMAIN table \ days : new[d] = table[d]
  BY DEF Listed
<1>3. days \subseteq r.from .. r.to
  OBVIOUS
<1>4. \A d \in r.from .. r.to : Recorded(d) > 0 => d \in days
  OBVIOUS
<1> HIDE DEF new, days
<1>5. ASSUME NEW d, Holds(table, d) PROVE Holds(new, d)
  <2>1. d \in DOMAIN table /\ DOMAIN table[d] # {} /\ d \in DOMAIN new
    BY <1>2, <1>5 DEF Holds
  <2>2. CASE d \in days
    <3>0. new[d] = Extended(EntryOf(table, d), r.items, Recorded(d))
      BY <1>2, <2>2
    <3>1. DOMAIN new[d] = DOMAIN EntryOf(table, d) \cup r.items
      BY ZenonT(40), <3>0, ExtendedDomain
    <3>2. EntryOf(table, d) = table[d]
      BY <2>1 DEF EntryOf
    <3> QED
      BY <2>1, <3>1, <3>2 DEF Holds
  <2>3. CASE d \notin days
    BY <1>2, <2>1, <2>3 DEF Holds
  <2> QED
    BY <2>2, <2>3
<1>6. ASSUME NEW d \in r.from .. r.to, Recorded(d) > 0, r.items # {}
      PROVE  Holds(new, d)
  <2>1. d \in days
    BY <1>4, <1>6
  <2>0. new[d] = Extended(EntryOf(table, d), r.items, Recorded(d))
    BY <1>2, <2>1
  <2>2. DOMAIN new[d] = DOMAIN EntryOf(table, d) \cup r.items
    BY ZenonT(40), <2>0, ExtendedDomain
  <2> QED
    BY <1>2, <1>6, <2>1, <2>2 DEF Holds
<1>7. ASSUME NEW d \in Int, Recorded(d) = DayLength, Whole(table, d)
      PROVE  Whole(new, d)
  <2> SUFFICES ASSUME d \in DOMAIN new,
                      NEW f \in DOMAIN new[d] \ PeriodTotals
               PROVE  new[d][f] = DayLength
    BY DEF Whole
  <2>1. CASE d \in days
    <3> DEFINE e == EntryOf(table, d)
    <3>1. new[d] = Extended(e, r.items, DayLength)
      BY <1>2, <1>7, <2>1
    <3> HIDE DEF e
    <3>2. f \in r.items => new[d][f] = DayLength
      BY <3>1, ExtendedValue
    <3>5. DOMAIN new[d] = DOMAIN e \cup r.items
      BY ZenonT(40), <3>1, ExtendedDomain
    <3>3. f \notin r.items => f \in DOMAIN e /\ new[d][f] = e[f]
      BY <3>1, <3>5, ExtendedValue
    <3>4. f \in DOMAIN e => e[f] = DayLength
      <4>1. CASE d \in DOMAIN table
        <5>1. e = table[d]
          BY <4>1 DEF EntryOf, e
        <5> QED
          BY <1>7, <4>1, <5>1 DEF Whole
      <4>2. CASE d \notin DOMAIN table
        <5>1. e = NoEntry
          BY <4>2 DEF EntryOf, e
        <5> QED
          BY <5>1, NoEntryEmpty
      <4> QED
        BY <4>1, <4>2
    <3> QED
      BY <3>2, <3>3, <3>4
  <2>2. CASE d \notin days
    <3>1. d \in DOMAIN table /\ new[d] = table[d]
      BY <1>2, <2>2
    <3> QED
      BY <3>1, <1>7 DEF Whole
  <2> QED
    BY <2>1, <2>2
<1>8. DOMAIN new \subseteq DOMAIN table \cup (r.from .. r.to)
  BY <1>2, <1>3
<1> QED
  BY <1>5, <1>6, <1>7, <1>8 DEF new

\* Its totals are stored for one day; those of the whole period are not the
\* whole day's.
LEMMA TotalledFacts ==
  ASSUME NEW table, NEW from \in Int, NEW to \in Int, NEW r \in Fitting(from, to),
         clock \in Int, shift \in Int
  PROVE  /\ DOMAIN Totalled(table, r) \subseteq DOMAIN table \cup (from..to)
         /\ \A d : Holds(table, d) => Holds(Totalled(table, r), d)
         /\ \A d \in Int : Recorded(d) = DayLength /\ Whole(table, d)
                           => Whole(Totalled(table, r), d)
<1> DEFINE new == Totalled(table, r)
           t == r.total
           value == Over(r.from, r.to)
<1>1. CASE t = NotYet \/ DOMAIN table = {}
  BY <1>1 DEF Totalled
<1>2. CASE ~(t = NotYet \/ DOMAIN table = {})
  <2>1. /\ r \in Requests /\ t = r.from /\ r.from <= r.to
        /\ r.from = r.to \/ r.totals \subseteq PeriodTotals
        /\ from <= r.from /\ r.to <= to
    BY <1>2 DEF Fitting
  <2>2. t \in from..to
    BY <2>1 DEF Requests
  <2>3. /\ DOMAIN new = DOMAIN table \cup {t}
        /\ new[t] = Extended(EntryOf(table, t), r.totals, value)
        /\ \A d \in DOMAIN table \ {t} : new[d] = table[d]
    BY <1>2 DEF Totalled
  <2> HIDE DEF new, value, t
  <2>4. ASSUME NEW d, Holds(table, d) PROVE Holds(new, d)
    <3>1. d \in DOMAIN table /\ DOMAIN table[d] # {} /\ d \in DOMAIN new
      BY <2>3, <2>4 DEF Holds
    <3>2. CASE d = t
      <4>0. new[t] = Extended(EntryOf(table, t), r.totals, value)
        BY <2>3
      <4>1. DOMAIN new[t] = DOMAIN EntryOf(table, t) \cup r.totals
        BY ZenonT(40), <4>0, ExtendedDomain
      <4>2. EntryOf(table, t) = table[d]
        BY <3>1, <3>2 DEF EntryOf
      <4> QED
        BY <3>1, <3>2, <4>1, <4>2 DEF Holds
    <3>3. CASE d # t
      BY <2>3, <3>1, <3>3 DEF Holds
    <3> QED
      BY <3>2, <3>3
  <2>5. ASSUME NEW d \in Int, Recorded(d) = DayLength, Whole(table, d)
        PROVE  Whole(new, d)
    <3> SUFFICES ASSUME d \in DOMAIN new,
                        NEW f \in DOMAIN new[d] \ PeriodTotals
                 PROVE  new[d][f] = DayLength
      BY DEF Whole
    <3>1. CASE d = t
      <4> DEFINE e == EntryOf(table, t)
      <4>1. f \in r.totals => new[d][f] = DayLength
        <5>1. CASE f \in r.totals
          <6>1. r.from = r.to /\ r.from = d
            BY <2>1, <3>1, <5>1
          <6>2. value = Recorded(d)
            <7>1. value = Recorded(d) + 0
              BY <6>1, <2>1 DEF Over, value, Requests
            <7>2. Recorded(d) \in Int
              BY RecordedFacts
            <7> QED
              BY <7>1, <7>2
          <6>3. new[t][f] = value
            BY <2>3, <3>1, <5>1, ExtendedValue
          <6> QED
            BY <6>2, <6>3, <2>5, <3>1
        <5> QED
          BY <5>1
      <4>5. new[t] = Extended(e, r.totals, value)
        BY <2>3
      <4> HIDE DEF e
      <4>6. DOMAIN new[t] = DOMAIN e \cup r.totals
        BY ZenonT(40), <4>5, ExtendedDomain
      <4>2. f \notin r.totals => f \in DOMAIN e /\ new[d][f] = e[f]
        BY <4>5, <4>6, <3>1, ExtendedValue
      <4>3. f \in DOMAIN e => e[f] = DayLength
        <5>1. CASE d \in DOMAIN table
          <6>1. e = table[d]
            BY <3>1, <5>1 DEF EntryOf, e
          <6> QED
            BY <2>5, <5>1, <6>1 DEF Whole
        <5>2. CASE d \notin DOMAIN table
          <6>1. e = NoEntry
            BY <3>1, <5>2 DEF EntryOf, e
          <6> QED
            BY <6>1, NoEntryEmpty
        <5> QED
          BY <5>1, <5>2
      <4> QED
        BY <4>1, <4>2, <4>3
    <3>2. CASE d # t
      <4>1. d \in DOMAIN table /\ new[d] = table[d]
        BY <2>3, <3>2
      <4> QED
        BY <4>1, <2>5 DEF Whole
    <3> QED
      BY <3>1, <3>2
  <2>6. DOMAIN new \subseteq DOMAIN table \cup (from..to)
    BY <2>2, <2>3
  <2> QED
    BY <2>4, <2>5, <2>6 DEF new
<1> QED
  BY <1>1, <1>2

\* An answer keeps what the table holds and adds what it was asked for.
LEMMA AnsweredFacts ==
  ASSUME NEW table, NEW from \in Int, NEW to \in Int, NEW r \in Fitting(from, to),
         clock \in Int, shift \in Int, Spans(table, from, to)
  PROVE  /\ Spans(Answered(table, r), from, to)
         /\ Holds(table, from) => Holds(Answered(table, r), from)
         /\ Asks(r, from) /\ Recorded(from) > 0 => Holds(Answered(table, r), from)
         /\ Recorded(from) = DayLength /\ Whole(table, from)
              => Whole(Answered(table, r), from)
<1>1. /\ r \in Requests /\ from <= r.from /\ r.to <= to
      /\ r.from \in Int /\ r.to \in Int
  BY DEF Fitting, Requests
<1>2. CASE r.more /\ DOMAIN table = {}
  BY <1>2 DEF Answered, Asks
<1>3. CASE ~(r.more /\ DOMAIN table = {})
  <2> DEFINE list == Listed(table, r)
             new == Totalled(list, r)
  <2>1. Answered(table, r) = new
    BY <1>3 DEF Answered
  <2>2. /\ DOMAIN list \subseteq DOMAIN table \cup (r.from .. r.to)
        /\ Holds(table, from) => Holds(list, from)
        /\ from \in r.from .. r.to /\ Recorded(from) > 0 /\ r.items # {}
             => Holds(list, from)
        /\ Recorded(from) = DayLength /\ Whole(table, from) => Whole(list, from)
    BY <1>1, ListedFacts
  <2> HIDE DEF list
  <2>3. /\ DOMAIN new \subseteq DOMAIN list \cup (from..to)
        /\ Holds(list, from) => Holds(new, from)
        /\ Recorded(from) = DayLength /\ Whole(list, from) => Whole(new, from)
    BY TotalledFacts
  <2> HIDE DEF new
  <2>4. Spans(new, from, to)
    BY <1>1, <2>2, <2>3 DEF Spans
  <2>5. Asks(r, from) => from \in r.from .. r.to /\ r.items # {}
    BY <1>1 DEF Asks
  <2> QED
    BY <2>1, <2>2, <2>3, <2>4, <2>5
<1> QED
  BY <1>2, <1>3

----------------------------------------------------------------------------
(* The poll *)

Banks == {site.banks[i] : i \in 1..Len(site.banks)}
Units == {"site"} \cup Banks

\* What is stored for yesterday by this poll is that of the whole day.
Final == site.pps => poll.settled /\ empty = {}

PollInv ==
  poll # NoPoll =>
    /\ poll = [at |-> poll.at, today |-> poll.today, from |-> poll.from,
               settled |-> poll.settled, ticks |-> poll.ticks,
               queue |-> poll.queue, table |-> poll.table]
    /\ poll.at \in Units
    /\ poll.today \in Int /\ poll.from \in {poll.today - 1, poll.today}
    /\ poll.queue \in Seq(Fitting(poll.from, poll.today)) /\ Len(poll.queue) > 0
    /\ Spans(poll.table, poll.from, poll.today)
    /\ Recorded(poll.today - 1) > 0
    /\ poll.from = poll.today - 1 =>
         Holds(poll.table, poll.from) \/ Covers(poll.queue, poll.from)
    /\ Final => /\ Recorded(poll.today - 1) = DayLength
                /\ poll.from = poll.today - 1 => Whole(poll.table, poll.from)

\* The banks hold what the site does, but for those cut off.
Agree ==
  Len(site.banks) > 1 =>
    \A i \in 1..Len(site.banks) : site.banks[i] \notin cut =>
      energy[site.banks[i]].lastDate = energy["site"].lastDate

FollowInv ==
  /\ poll = NoPoll \/ poll.at = "site" => Agree
  /\ poll # NoPoll /\ poll.at = "site" =>
       (poll.from = poll.today <=> energy["site"].lastDate = poll.today - 1)
  /\ poll # NoPoll =>
       \A k \in 1..Len(site.banks) : poll.at = site.banks[k] =>
         /\ Len(site.banks) > 1
         /\ energy["site"].lastDate = poll.today - 1
         /\ \A i \in 1..Len(site.banks) :
              /\ site.banks[i] \notin cut
              /\ i < k \/ poll.from = poll.today
              => energy[site.banks[i]].lastDate = poll.today - 1

EnergyInv ==
  /\ TickInv
  /\ site.pps /\ empty = {} => SettleInv
  /\ energy = [u \in Units |-> energy[u]]
  /\ PollInv /\ FollowInv

\* The banks of a site have names of their own.
LEMMA BankFacts ==
  ASSUME TickInv
  PROVE  /\ Len(site.banks) \in Nat
         /\ "site" \notin Banks /\ "idle" \notin Units
         /\ \A i, j \in 1..Len(site.banks) : site.banks[i] = site.banks[j] => i = j
<1>1. site \in EnergySites
  BY DEF TickInv
<1>2. /\ site.banks \in Seq(STRING \ {"site", "idle"})
      /\ \A i, j \in 1..Len(site.banks) : site.banks[i] = site.banks[j] => i = j
  BY <1>1, SiteAssumption
<1>3. \A i \in 1..Len(site.banks) : site.banks[i] \in STRING \ {"site", "idle"}
  BY <1>2
<1> QED
  BY <1>2, <1>3 DEF Banks, Units

\* What a poll that begins can rely on.
LEMMA PollDateFacts ==
  ASSUME TickInv, site.pps /\ empty = {} => SettleInv,
         site.pps => checked # NotYet
  PROVE  /\ PollDate \in Int
         /\ Recorded(PollDate - 1) > 0
         /\ (site.pps => steady = 2 * Interval /\ empty = {})
              => Recorded(PollDate - 1) = DayLength
<1>1. /\ clock \in Int /\ shift \in Int /\ site.pps \in BOOLEAN
      /\ Margin \in Nat /\ DayLength \in Nat /\ Interval \in Nat
      /\ DayLength >= 2 * Interval /\ Interval > 0
  <2>1. shift \in Int /\ site.pps \in BOOLEAN
    BY SiteFacts
  <2>2. clock \in Int
    BY DEF TickInv
  <2> QED
    BY <2>1, <2>2, EnergyAssumption
<1> DEFINE t == IF offset = NotYet THEN clock - Margin
                ELSE clock + (offset - 1) - Margin
<1>2. t \in Int /\ PollDate = DateOf(t)
  <2>1. CASE offset = NotYet
    BY <2>1, <1>1 DEF PollDate
  <2>2. CASE offset # NotYet
    <3>1. offset \in Int
      BY <2>2 DEF TickInv
    <3>2. clock + offset - 1 - Margin = clock + (offset - 1) - Margin
      BY <3>1, <1>1
    <3> QED
      BY <2>2, <3>1, <3>2, <1>1 DEF PollDate
  <2> QED
    BY <2>1, <2>2
<1>3. /\ PollDate \in Int /\ PollDate * DayLength <= t
  BY <1>2, DayFacts
<1> DEFINE before == PollDate - 1
<1>4. before \in Int /\ before * DayLength = PollDate * DayLength - DayLength
      /\ before * DayLength \in Int
  BY <1>1, <1>3
<1>5. clock + shift > before * DayLength
  <2>1. CASE offset = NotYet /\ site.pps
    <3>1. -DayLength < shift
      BY <2>1, SiteFacts
    <3> QED
      BY <2>1, <3>1, <1>1, <1>3, <1>4
  <2>2. CASE offset = NotYet /\ ~site.pps
    <3>1. shift >= -Margin
      BY <2>2, SiteFacts
    <3> QED
      BY <2>2, <3>1, <1>1, <1>3, <1>4
  <2>3. CASE offset # NotYet
    <3>1. offset \in Int /\ offset <= shift + Interval
      BY <2>3 DEF TickInv
    <3> QED
      BY <2>3, <3>1, <1>1, <1>3, <1>4
  <2> QED
    BY <2>1, <2>2, <2>3
<1>6. ASSUME site.pps => steady = 2 * Interval /\ empty = {}
      PROVE  clock + shift >= before * DayLength + DayLength
  <2>1. CASE ~site.pps
    <3>1. offset = NotYet /\ shift >= -Margin
      BY <2>1, SiteFacts DEF TickInv
    <3> QED
      BY <3>1, <1>1, <1>3, <1>4
  <2>2. CASE site.pps
    <3>1. offset # NotYet /\ SettleInv
      BY <2>2, <1>6 DEF SettleInv
    <3>2. offset = shift + 1
      BY <2>2, <3>1, <1>6, Settles
    <3> QED
      BY <3>1, <3>2, <1>1, <1>3, <1>4
  <2> QED
    BY <2>1, <2>2
<1>7. Recorded(before) > 0
  BY <1>1, <1>4, <1>5, RecordedFacts
<1>8. ASSUME site.pps => steady = 2 * Interval /\ empty = {}
      PROVE  Recorded(before) = DayLength
  BY <1>1, <1>4, <1>6, <1>8, RecordedFacts
<1> QED
  BY <1>3, <1>7, <1>8

\* What is recorded stays, and so do days that are over.
LEMMA RecordedLater ==
  ASSUME NEW day \in Int, clock \in Int, shift \in Int, shift' = shift,
         clock' = clock + 1
  PROVE  /\ Recorded(day) > 0 => Recorded(day)' > 0
         /\ Recorded(day) = DayLength => Recorded(day)' = DayLength
<1>1. PICK m \in Int : m = day * DayLength
  BY EnergyAssumption
<1>2. Recorded(day) = Greater(0, Lesser(DayLength, clock + shift - m))
  BY <1>1 DEF Recorded
<1>3. Recorded(day)' = Greater(0, Lesser(DayLength, (clock + 1) + shift - m))
  BY <1>1 DEF Recorded
<1>4. ASSUME NEW a \in Int, NEW b \in Int, b >= a, NEW s \in Int, NEW n \in Int
      PROVE  /\ Greater(0, Lesser(DayLength, a + s - n)) > 0
                  => Greater(0, Lesser(DayLength, b + s - n)) > 0
             /\ Greater(0, Lesser(DayLength, a + s - n)) = DayLength
                  => Greater(0, Lesser(DayLength, b + s - n)) = DayLength
  BY EnergyAssumption, <1>4 DEF Greater, Lesser
<1>5. clock + 1 \in Int /\ clock + 1 >= clock
  OBVIOUS
<1>6. /\ Greater(0, Lesser(DayLength, clock + shift - m)) > 0
           => Greater(0, Lesser(DayLength, (clock + 1) + shift - m)) > 0
      /\ Greater(0, Lesser(DayLength, clock + shift - m)) = DayLength
           => Greater(0, Lesser(DayLength, (clock + 1) + shift - m)) = DayLength
  BY <1>4, <1>5
<1> QED
  BY <1>2, <1>3, <1>6

\* The invariant holds at the start.
LEMMA InitKeeps ==
  ASSUME EnergyInit
  PROVE  EnergyInv
<1>1. TickInv
  <2>1. site \in EnergySites /\ shift \in Shifts[site.pps]
    BY DEF EnergyInit
  <2>2. clock \in Int
    BY EnergyAssumption DEF EnergyInit
  <2>3. checked = NotYet /\ polled \in BOOLEAN /\ steady \in -1..(2 * Interval)
    <3>1. checked = NotYet
      BY DEF EnergyInit
    <3>2. polled = FALSE
      BY DEF EnergyInit
    <3>3. steady = 0
      BY DEF EnergyInit
    <3>4. polled \in BOOLEAN
      BY <3>2
    <3>5. steady \in -1..(2 * Interval)
      BY <3>3, EnergyAssumption
    <3> QED
      BY <3>1, <3>4, <3>5
  <2>4. offset = NotYet
    BY DEF EnergyInit
  <2> QED
    BY <2>1, <2>2, <2>3, <2>4 DEF TickInv
<1>2. SettleInv
  BY DEF EnergyInit, SettleInv
<1>3. energy = [u \in Units |-> NoDetails]
  BY DEF EnergyInit, Units, Banks
<1>4. energy = [u \in Units |-> energy[u]]
  BY <1>3
<1>5. poll = NoPoll
  BY DEF EnergyInit
<1>6. Agree
  <2> SUFFICES ASSUME NEW i \in 1..Len(site.banks)
               PROVE  energy[site.banks[i]].lastDate = energy["site"].lastDate
    BY DEF Agree
  <2>1. site.banks[i] \in Units /\ "site" \in Units
    BY DEF Units, Banks
  <2> QED
    BY <2>1, <1>3
<1>7. FollowInv
  BY <1>5, <1>6 DEF FollowInv
<1>8. PollInv
  BY <1>5 DEF PollInv
<1> QED
  BY <1>1, <1>2, <1>4, <1>7, <1>8 DEF EnergyInv

\* A step that leaves the poll, the tables and the clock alone.
LEMMA PollStays ==
  ASSUME EnergyInv, UNCHANGED <<clock, shift, site, empty, energy, poll, cut>>
  PROVE  (PollInv /\ FollowInv)' /\ (energy = [u \in Units |-> energy[u]])'
<1>1. PollInv'
  BY DEF EnergyInv, PollInv, Units, Banks, Final, Recorded, Greater, Lesser
<1>2. FollowInv'
  BY DEF EnergyInv, FollowInv, Agree
<1>3. (energy = [u \in Units |-> energy[u]])'
  BY DEF EnergyInv, Units, Banks
<1> QED
  BY <1>1, <1>2, <1>3

\* CheckOffset keeps the invariant.
LEMMA CheckKeeps ==
  ASSUME EnergyInv, CheckOffset
  PROVE  EnergyInv'
<1>1. TickInv'
  BY CheckKeepsTickInv DEF EnergyInv
<1>2. (site.pps /\ empty = {} => SettleInv)'
  <2>1. UNCHANGED <<site, empty>>
    BY DEF CheckOffset
  <2> QED
    BY <2>1, CheckKeepsSettleInv DEF EnergyInv
<1>3. UNCHANGED <<clock, shift, site, empty, energy, poll, cut>>
  BY DEF CheckOffset
<1> QED
  BY <1>1, <1>2, <1>3, PollStays DEF EnergyInv

\* PassTick keeps the invariant.
LEMMA TickKeeps ==
  ASSUME EnergyInv, PassTick
  PROVE  EnergyInv'
<1>1. TickInv'
  BY TickKeepsTickInv DEF EnergyInv
<1>2. UNCHANGED <<shift, site, empty, offset, checked, energy, energyFaults, cut>>
      /\ clock' = clock + 1
      /\ poll' = IF poll = NoPoll THEN NoPoll ELSE [poll EXCEPT !.ticks = @ + 1]
  BY DEF PassTick
<1>3. (site.pps /\ empty = {} => SettleInv)'
  BY <1>2, TickKeepsSettleInv DEF EnergyInv
<1>4. (energy = [u \in Units |-> energy[u]])'
  BY <1>2 DEF EnergyInv, Units, Banks
<1>5. CASE poll = NoPoll
  <2>1. poll' = NoPoll
    BY <1>2, <1>5
  <2>2. FollowInv'
    BY <1>2, <1>5, <2>1 DEF EnergyInv, FollowInv, Agree
  <2>3. PollInv'
    BY <2>1 DEF PollInv
  <2> QED
    BY <1>1, <1>3, <1>4, <2>2, <2>3 DEF EnergyInv
<1>6. CASE poll # NoPoll
  <2>1. poll = [at |-> poll.at, today |-> poll.today, from |-> poll.from,
               settled |-> poll.settled, ticks |-> poll.ticks,
               queue |-> poll.queue, table |-> poll.table]
    BY <1>6 DEF EnergyInv, PollInv
  <2>2. poll' = [poll EXCEPT !.ticks = @ + 1]
    BY <1>2, <1>6
  <2>3. /\ poll' = [at |-> poll'.at, today |-> poll'.today, from |-> poll'.from,
                    settled |-> poll'.settled, ticks |-> poll'.ticks,
                    queue |-> poll'.queue, table |-> poll'.table]
        /\ UNCHANGED <<poll.at, poll.today, poll.from, poll.settled, poll.queue, poll.table>>
    BY <2>1, <2>2
  <2>4. poll.today - 1 \in Int /\ clock \in Int /\ shift \in Int
    <3>1. shift \in Int
      BY SiteFacts DEF EnergyInv
    <3> QED
      BY <3>1, <1>6 DEF EnergyInv, PollInv, TickInv
  <2> DEFINE before == poll.today - 1
  <2>5. /\ Recorded(before) > 0 => Recorded(before)' > 0
        /\ Recorded(before) = DayLength => Recorded(before)' = DayLength
    <3>1. clock' = clock + 1 /\ shift' = shift
      BY <1>2, <2>4
    <3> HIDE DEF before
    <3>2. ASSUME NEW day \in Int
          PROVE  /\ Recorded(day) > 0 => Recorded(day)' > 0
                 /\ Recorded(day) = DayLength => Recorded(day)' = DayLength
      BY <2>4, <3>1, RecordedLater
    <3> QED
      BY <3>2, <2>3, <2>4 DEF before, Recorded
  <2>6. PollInv'
    <3>1. Final' => Final
      BY <1>2, <2>3 DEF Final
    <3>2. Units' = Units
      BY <1>2 DEF Units, Banks
    <3>3. (Recorded(poll.today - 1) > 0)'
      BY <1>6, <2>5 DEF EnergyInv, PollInv
    <3>4. Final' => (Recorded(poll.today - 1) = DayLength)'
      BY <1>6, <2>5, <3>1 DEF EnergyInv, PollInv
    <3> QED
      BY <1>6, <2>3, <3>1, <3>2, <3>3, <3>4 DEF EnergyInv, PollInv
  <2>7. FollowInv'
    BY <1>2, <1>6, <2>3 DEF EnergyInv, FollowInv, Agree, NoPoll
  <2> QED
    BY <1>1, <1>3, <1>4, <2>6, <2>7 DEF EnergyInv
<1> QED
  BY <1>5, <1>6

\* StartEnergy keeps the invariant.
LEMMA StartKeeps ==
  ASSUME EnergyInv, StartEnergy
  PROVE  EnergyInv'
<1> DEFINE today == PollDate
           both == today - 1 # energy["site"].lastDate
           from == IF both THEN today - 1 ELSE today
<1>1. /\ poll = NoPoll
      /\ site.pps => checked # NotYet
      /\ poll' = [at |-> "site", today |-> today, from |-> from,
                  settled |-> steady = 2 * Interval, ticks |-> 0,
                  queue |-> SiteRequests(from, today), table |-> <<>>]
      /\ UNCHANGED <<clock, shift, site, empty, offset, checked, energy,
                     energyFaults, polled, steady, cut>>
  BY DEF StartEnergy
<1>2. /\ today \in Int /\ Recorded(today - 1) > 0
      /\ (site.pps => steady = 2 * Interval /\ empty = {})
           => Recorded(today - 1) = DayLength
  BY <1>1, PollDateFacts DEF EnergyInv
<1>3. from \in {today - 1, today} /\ from \in Int /\ from <= today
      /\ (from = today <=> energy["site"].lastDate = today - 1)
  <2>1. today - 1 # today /\ today - 1 \in Int
    BY <1>2
  <2> HIDE DEF today
  <2> QED
    BY <1>2, <2>1
<1> HIDE DEF today, both, from
<1>4. /\ SiteRequests(from, today) \in Seq(Fitting(from, today))
      /\ Covers(SiteRequests(from, today), from)
  BY <1>2, <1>3, SiteRequestsFit DEF EnergyInv, TickInv
<1> DEFINE queue == SiteRequests(from, today)
<1> HIDE DEF queue
<1>5. queue \in Seq(Fitting(from, today)) /\ Covers(queue, from) /\ Len(queue) > 0
  <2>1. queue \in Seq(Fitting(from, today)) /\ Covers(queue, from)
    BY <1>4 DEF queue
  <2>2. Len(queue) \in Nat /\ Len(queue) # 0
    BY <2>1 DEF Covers
  <2> QED
    BY <2>1, <2>2
<1>6. /\ poll'.at = "site" /\ poll'.today = today /\ poll'.from = from
      /\ poll'.queue = queue /\ poll'.table = <<>>
      /\ poll'.settled = (steady = 2 * Interval)
      /\ poll' = [at |-> poll'.at, today |-> poll'.today, from |-> poll'.from,
                  settled |-> poll'.settled, ticks |-> poll'.ticks,
                  queue |-> poll'.queue, table |-> poll'.table]
  BY <1>1 DEF queue
<1>7. (Recorded(poll.today - 1))' = Recorded(today - 1)
  BY <1>1, <1>6 DEF Recorded
<1>8. Spans(<<>>, from, today) /\ Whole(<<>>, from)
  BY NoEntryEmpty DEF Spans, Whole, NoEntry
<1>9. Final' => (site.pps => steady = 2 * Interval /\ empty = {})
  BY <1>1, <1>6 DEF Final
<1>10. PollInv'
  <2>1. (poll.at \in Units)'
    BY <1>6 DEF Units
  <2>2. (poll.today \in Int /\ poll.from \in {poll.today - 1, poll.today})'
    BY <1>2, <1>3, <1>6
  <2>3. /\ (poll.queue \in Seq(Fitting(poll.from, poll.today)))'
        /\ (Len(poll.queue) > 0)'
    BY <1>5, <1>6
  <2>4. (Spans(poll.table, poll.from, poll.today))'
    BY <1>6, <1>8 DEF Spans
  <2>5. (Recorded(poll.today - 1) > 0)'
    BY <1>2, <1>7
  <2>6. Covers(poll.queue, poll.from)'
    BY <1>5, <1>6 DEF Covers, Asks
  <2>7. Final' => (Recorded(poll.today - 1) = DayLength)'
    BY <1>2, <1>7, <1>9
  <2>8. Whole(poll.table, poll.from)'
    BY <1>6, <1>8 DEF Whole
  <2> QED
    BY <1>6, <2>1, <2>2, <2>3, <2>4, <2>5, <2>6, <2>7, <2>8 DEF PollInv
<1>11. FollowInv'
  <2>1. "site" \notin Banks
    BY BankFacts DEF EnergyInv
  <2>2. Agree'
    BY <1>1 DEF EnergyInv, FollowInv, Agree
  <2>3. (\A k \in 1..Len(site.banks) : poll.at # site.banks[k])'
    BY <1>1, <1>6, <2>1 DEF Banks
  <2> QED
    BY <1>1, <1>3, <1>6, <2>2, <2>3 DEF FollowInv
<1>12. TickInv' /\ (site.pps /\ empty = {} => SettleInv)'
  <2>1. TickInv'
    BY <1>1 DEF EnergyInv, TickInv
  <2>2. SettleInv => SettleInv'
    BY <1>1 DEF SettleInv, Settled, Falls, Waits, CloudTime, Into, LastOf,
                Floor, DayEnd, DateOf
  <2> QED
    BY <1>1, <2>1, <2>2 DEF EnergyInv
<1>13. (energy = [u \in Units |-> energy[u]])'
  BY <1>1 DEF EnergyInv, Units, Banks
<1> QED
  BY <1>10, <1>11, <1>12, <1>13 DEF EnergyInv

\* A step that leaves the clock and the offset alone.
LEMMA ClockStays ==
  ASSUME EnergyInv,
         UNCHANGED <<clock, shift, site, empty, offset, checked, polled, steady>>
  PROVE  /\ TickInv' /\ (site.pps /\ empty = {} => SettleInv)'
         /\ Units' = Units
         /\ \A d : Recorded(d)' = Recorded(d)
<1>1. TickInv'
  BY DEF EnergyInv, TickInv
<1>2. SettleInv => SettleInv'
  BY DEF SettleInv, Settled, Falls, Waits, CloudTime, Into, LastOf,
         Floor, DayEnd, DateOf
<1>3. Units' = Units /\ \A d : Recorded(d)' = Recorded(d)
  BY DEF Units, Banks, Recorded
<1> QED
  BY <1>1, <1>2, <1>3 DEF EnergyInv

\* FailEnergy keeps the invariant: the banks not asked for are cut off.
LEMMA FailKeeps ==
  ASSUME EnergyInv, FailEnergy
  PROVE  EnergyInv'
<1>1. /\ poll # NoPoll /\ poll' = NoPoll
      /\ cut' = IF poll.at = "site" THEN cut
                ELSE cut \cup {site.banks[i] : i \in {j \in 1..Len(site.banks) :
                        \E k \in 1..j : site.banks[k] = poll.at}}
      /\ UNCHANGED <<clock, shift, site, empty, offset, checked, energy, polled,
                     steady>>
  BY DEF FailEnergy
<1>2. /\ TickInv' /\ (site.pps /\ empty = {} => SettleInv)' /\ Units' = Units
  BY <1>1, ClockStays
<1>3. PollInv'
  BY <1>1 DEF PollInv
<1>4. Agree'
  <2>1. CASE poll.at = "site"
    BY <1>1, <2>1 DEF EnergyInv, FollowInv, Agree
  <2>2. CASE poll.at # "site"
    <3>1. poll.at \in Banks
      BY <1>1, <2>2 DEF EnergyInv, PollInv, Units
    <3>2. PICK k \in 1..Len(site.banks) : poll.at = site.banks[k]
      BY <3>1 DEF Banks
    <3>3. /\ Len(site.banks) > 1 /\ energy["site"].lastDate = poll.today - 1
          /\ \A i \in 1..Len(site.banks) :
               /\ site.banks[i] \notin cut
               /\ i < k \/ poll.from = poll.today
               => energy[site.banks[i]].lastDate = poll.today - 1
      BY <1>1, <3>2 DEF EnergyInv, FollowInv
    <3>4. ASSUME NEW i \in 1..Len(site.banks), site.banks[i] \notin cut'
          PROVE  energy[site.banks[i]].lastDate = poll.today - 1
      <4>1. site.banks[i] \notin cut
        BY <1>1, <2>2, <3>4
      <4>2. ~(\E m \in 1..i : site.banks[m] = poll.at)
        BY <1>1, <2>2, <3>4
      <4>3. Len(site.banks) \in Nat
        BY BankFacts DEF EnergyInv
      <4>4. i < k
        BY <3>2, <4>2, <4>3
      <4> QED
        BY <3>3, <4>1, <4>4
    <3> QED
      BY <1>1, <3>3, <3>4 DEF Agree
  <2> QED
    BY <2>1, <2>2
<1>5. FollowInv'
  BY <1>1, <1>4 DEF FollowInv
<1>6. (energy = [u \in Units |-> energy[u]])'
  BY <1>1, <1>2 DEF EnergyInv
<1> QED
  BY <1>2, <1>3, <1>5, <1>6 DEF EnergyInv

\* What a poll under way has.
LEMMA PollFacts ==
  ASSUME EnergyInv, poll # NoPoll
  PROVE  /\ poll = [at |-> poll.at, today |-> poll.today, from |-> poll.from,
                    settled |-> poll.settled, ticks |-> poll.ticks,
                    queue |-> poll.queue, table |-> poll.table]
         /\ poll.at \in Units
         /\ poll.today \in Int /\ poll.from \in Int
         /\ poll.from \in {poll.today - 1, poll.today} /\ poll.from <= poll.today
         /\ poll.queue \in Seq(Fitting(poll.from, poll.today)) /\ Len(poll.queue) > 0
         /\ Head(poll.queue) \in Fitting(poll.from, poll.today)
         /\ Head(poll.queue) = poll.queue[1]
         /\ Spans(poll.table, poll.from, poll.today)
         /\ Recorded(poll.today - 1) > 0
         /\ poll.from = poll.today - 1 =>
              Holds(poll.table, poll.from) \/ Covers(poll.queue, poll.from)
         /\ Final => /\ Recorded(poll.today - 1) = DayLength
                     /\ poll.from = poll.today - 1 => Whole(poll.table, poll.from)
         /\ clock \in Int /\ shift \in Int
<1>1. shift \in Int /\ clock \in Int
  <2>1. shift \in Int
    BY SiteFacts DEF EnergyInv
  <2> QED
    BY <2>1 DEF EnergyInv, TickInv
<1>2. /\ poll.today \in Int /\ poll.from \in {poll.today - 1, poll.today}
      /\ poll.queue \in Seq(Fitting(poll.from, poll.today)) /\ Len(poll.queue) > 0
  BY DEF EnergyInv, PollInv
<1>3. /\ Head(poll.queue) \in Fitting(poll.from, poll.today)
      /\ Head(poll.queue) = poll.queue[1]
  BY <1>2
<1>4. poll.from \in Int /\ poll.from <= poll.today
  BY <1>2
<1> QED
  BY <1>1, <1>2, <1>3, <1>4 DEF EnergyInv, PollInv

\* What an answer makes of the table.
LEMMA AnswerFacts ==
  ASSUME EnergyInv, poll # NoPoll
  PROVE  LET table == Answered(poll.table, Head(poll.queue))
         IN /\ Spans(table, poll.from, poll.today)
            /\ poll.from = poll.today - 1 =>
                 Holds(table, poll.from) \/ Covers(Tail(poll.queue), poll.from)
            /\ poll.from = poll.today - 1 /\ Len(poll.queue) = 1 =>
                 Holds(table, poll.from)
            /\ Final /\ poll.from = poll.today - 1 => Whole(table, poll.from)
<1> DEFINE r == Head(poll.queue)
           table == Answered(poll.table, r)
           from == poll.from
           to == poll.today
           queue == poll.queue
<1>1. /\ from \in Int /\ to \in Int /\ r \in Fitting(from, to) /\ r = queue[1]
      /\ queue \in Seq(Fitting(from, to)) /\ Len(queue) > 0
      /\ Spans(poll.table, from, to)
      /\ clock \in Int /\ shift \in Int
  BY PollFacts
<1>2. /\ Spans(table, from, to)
      /\ Holds(poll.table, from) => Holds(table, from)
      /\ Asks(r, from) /\ Recorded(from) > 0 => Holds(table, from)
      /\ Recorded(from) = DayLength /\ Whole(poll.table, from) => Whole(table, from)
  BY <1>1, AnsweredFacts
<1>3. from = to - 1 => /\ Recorded(from) > 0
                       /\ Holds(poll.table, from) \/ Covers(queue, from)
                       /\ Final => Recorded(from) = DayLength /\ Whole(poll.table, from)
  BY PollFacts
<1> HIDE DEF r, table, from, to, queue
<1>4. Covers(queue, from) => Asks(r, from) \/ Covers(Tail(queue), from)
  <2> SUFFICES ASSUME NEW i \in 1..Len(queue), Asks(queue[i], from)
               PROVE  Asks(r, from) \/ Covers(Tail(queue), from)
    BY DEF Covers
  <2>1. CASE i = 1
    BY <1>1, <2>1
  <2>2. CASE i # 1
    <3>1. /\ i - 1 \in 1..Len(Tail(queue)) /\ Tail(queue)[i - 1] = queue[i]
      BY <1>1, <2>2
    <3> QED
      BY <3>1 DEF Covers
  <2> QED
    BY <2>1, <2>2
<1>5. Len(queue) = 1 => ~Covers(Tail(queue), from)
  <2>1. Len(queue) = 1 => Len(Tail(queue)) = 0
    BY <1>1
  <2> QED
    BY <2>1 DEF Covers
<1> QED
  BY <1>2, <1>3, <1>4, <1>5 DEF r, table, from, to, queue

\* An answer that is not the last one of a unit keeps the invariant.
LEMMA AnswerMoreKeeps ==
  ASSUME EnergyInv, AnswerEnergy, Len(poll.queue) > 1
  PROVE  EnergyInv'
<1> DEFINE table == Answered(poll.table, Head(poll.queue))
<1>1. /\ poll # NoPoll
      /\ poll' = [poll EXCEPT !.table = table, !.queue = Tail(@)]
      /\ UNCHANGED <<energy, cut>>
      /\ UNCHANGED <<clock, shift, site, empty, offset, checked, energyFaults,
                     polled, steady>>
  BY DEF AnswerEnergy
<1>2. /\ TickInv' /\ (site.pps /\ empty = {} => SettleInv)' /\ Units' = Units
      /\ \A d : Recorded(d)' = Recorded(d)
  BY <1>1, ClockStays
<1>3. /\ Spans(table, poll.from, poll.today)
      /\ poll.from = poll.today - 1 =>
           Holds(table, poll.from) \/ Covers(Tail(poll.queue), poll.from)
      /\ Final /\ poll.from = poll.today - 1 => Whole(table, poll.from)
  BY <1>1, AnswerFacts
<1> HIDE DEF table
<1>4. /\ UNCHANGED <<poll.at, poll.today, poll.from, poll.settled, poll.ticks>>
      /\ poll'.table = table /\ poll'.queue = Tail(poll.queue)
      /\ poll' = [at |-> poll'.at, today |-> poll'.today, from |-> poll'.from,
                  settled |-> poll'.settled, ticks |-> poll'.ticks,
                  queue |-> poll'.queue, table |-> poll'.table]
      /\ poll' # NoPoll
  <2>1. poll = [at |-> poll.at, today |-> poll.today, from |-> poll.from,
                settled |-> poll.settled, ticks |-> poll.ticks,
                queue |-> poll.queue, table |-> poll.table]
    BY <1>1, PollFacts
  <2>2. poll.at # "idle"
    <3>1. poll.at \in Units
      BY <1>1, PollFacts
    <3>2. "idle" \notin Units
      BY BankFacts DEF EnergyInv
    <3> QED
      BY <3>1, <3>2
  <2>3. /\ UNCHANGED <<poll.at, poll.today, poll.from, poll.settled, poll.ticks>>
        /\ poll'.table = table /\ poll'.queue = Tail(poll.queue)
        /\ poll' = [at |-> poll'.at, today |-> poll'.today, from |-> poll'.from,
                    settled |-> poll'.settled, ticks |-> poll'.ticks,
                    queue |-> poll'.queue, table |-> poll'.table]
    BY <1>1, <2>1
  <2> QED
    BY <2>2, <2>3 DEF NoPoll
<1>5. /\ Tail(poll.queue) \in Seq(Fitting(poll.from, poll.today))
      /\ Len(Tail(poll.queue)) > 0
  <2>1. poll.queue \in Seq(Fitting(poll.from, poll.today))
    BY <1>1, PollFacts
  <2>2. ASSUME NEW S, NEW q \in Seq(S), Len(q) > 1
        PROVE  Tail(q) \in Seq(S) /\ Len(Tail(q)) > 0
    BY <2>2
  <2> QED
    BY <2>1, <2>2
<1>6. Final' = Final
  BY <1>1, <1>4 DEF Final
<1>7. PollInv'
  <2>1. (poll.at \in Units)' /\ (poll.today \in Int)'
        /\ (poll.from \in {poll.today - 1, poll.today})'
    BY <1>1, <1>2, <1>4, PollFacts
  <2>2. /\ (poll.queue \in Seq(Fitting(poll.from, poll.today)))'
        /\ (Len(poll.queue) > 0)'
    BY <1>4, <1>5
  <2>3. (Spans(poll.table, poll.from, poll.today))'
    BY <1>3, <1>4 DEF Spans
  <2>4. (Recorded(poll.today - 1) > 0)'
        /\ (Final => Recorded(poll.today - 1) = DayLength)'
    <3>1. (Recorded(poll.today - 1))' = Recorded(poll.today - 1)
      BY <1>1, <1>4 DEF Recorded
    <3> QED
      BY <1>1, <1>6, <3>1, PollFacts
  <2>5. (poll.from = poll.today - 1 =>
           Holds(poll.table, poll.from) \/ Covers(poll.queue, poll.from))'
    BY <1>3, <1>4 DEF Holds, Covers, Asks
  <2>6. (Final /\ poll.from = poll.today - 1 => Whole(poll.table, poll.from))'
    BY <1>3, <1>4, <1>6 DEF Whole
  <2> QED
    BY <1>4, <2>1, <2>2, <2>3, <2>4, <2>5, <2>6 DEF PollInv
<1>8. FollowInv'
  BY <1>1, <1>4 DEF EnergyInv, FollowInv, Agree
<1>9. (energy = [u \in Units |-> energy[u]])'
  BY <1>1, <1>2 DEF EnergyInv
<1> QED
  BY <1>2, <1>7, <1>8, <1>9 DEF EnergyInv

\* The unit asked for after another.
LEMMA FollowingFacts ==
  ASSUME TickInv
  PROVE  /\ Following("site") = IF Len(site.banks) > 1 THEN site.banks[1] ELSE "idle"
         /\ \A k \in 1..Len(site.banks) : Len(site.banks) > 1 =>
              Following(site.banks[k])
                = IF k < Len(site.banks) THEN site.banks[k + 1] ELSE "idle"
<1>1. /\ Len(site.banks) \in Nat /\ "site" \notin Banks
      /\ \A i, j \in 1..Len(site.banks) : site.banks[i] = site.banks[j] => i = j
  BY BankFacts
<1>2. Following("site") = IF Len(site.banks) > 1 THEN site.banks[1] ELSE "idle"
  BY <1>1 DEF Following
<1>3. ASSUME NEW k \in 1..Len(site.banks), Len(site.banks) > 1
      PROVE  Following(site.banks[k])
               = IF k < Len(site.banks) THEN site.banks[k + 1] ELSE "idle"
  <2> DEFINE at == site.banks[k]
             j0 == CHOOSE j \in 1..Len(site.banks) : site.banks[j] = at
  <2>1. j0 = k
    BY <1>1
  <2>2. at # "site"
    BY <1>1 DEF Banks
  <2>3. Following(at) = LET i == 1 + j0
                        IN IF Len(site.banks) > 1 /\ i <= Len(site.banks)
                             THEN site.banks[i] ELSE "idle"
    BY <2>2 DEF Following
  <2> HIDE DEF j0, at
  <2>4. 1 + j0 = k + 1 /\ (1 + j0 <= Len(site.banks) <=> k < Len(site.banks))
    BY <2>1, <1>1
  <2>5. Following(at) = IF k < Len(site.banks) THEN site.banks[k + 1] ELSE "idle"
    BY <1>3, <2>3, <2>4
  <2> QED
    BY <2>5 DEF at
<1> QED
  BY <1>2, <1>3

\* What the last answer stores.
LEMMA StoredFacts ==
  ASSUME EnergyInv, AnswerEnergy, ~(Len(poll.queue) > 1)
  PROVE  /\ poll # NoPoll
         /\ energy' = [u \in Units |-> energy'[u]]
         /\ \A u \in Units \ {poll.at} : energy'[u] = energy[u]
         /\ poll.from = poll.today => energy'[poll.at].lastDate = energy[poll.at].lastDate
         /\ poll.from = poll.today - 1 => energy'[poll.at].lastDate = poll.today - 1
         /\ Final => \/ energy'[poll.at].lastDate = energy[poll.at].lastDate
                     \/ \A f \in DOMAIN energy'[poll.at].last \ PeriodTotals :
                          energy'[poll.at].last[f] = DayLength
<1> DEFINE table == Answered(poll.table, Head(poll.queue))
           before == poll.today - 1
           yesterday == EntryOf(table, before)
           new == Stored(energy[poll.at], table, poll.today)
<1>1. /\ poll # NoPoll
      /\ energy' = [energy EXCEPT ![poll.at] = new]
  BY DEF AnswerEnergy
<1>2. poll.at \in Units /\ energy = [u \in Units |-> energy[u]]
  BY <1>1, PollFacts DEF EnergyInv
<1>3. /\ energy' = [u \in Units |-> energy'[u]]
      /\ energy'[poll.at] = new
      /\ \A u \in Units \ {poll.at} : energy'[u] = energy[u]
  <2> HIDE DEF new
  <2>1. energy' = [u \in DOMAIN energy |-> IF u = poll.at THEN new ELSE energy[u]]
    BY <1>1
  <2>2. DOMAIN energy = Units
    BY <1>2
  <2> QED
    BY <1>2, <2>1, <2>2
<1>4. /\ Spans(table, poll.from, poll.today)
      /\ poll.from = before /\ Len(poll.queue) = 1 => Holds(table, poll.from)
      /\ Final /\ poll.from = before => Whole(table, poll.from)
  BY <1>1, AnswerFacts
<1>5. /\ poll.today \in Int /\ poll.from \in {before, poll.today}
      /\ Len(poll.queue) = 1
  <2>1. /\ poll.queue \in Seq(Fitting(poll.from, poll.today)) /\ Len(poll.queue) > 0
        /\ poll.today \in Int /\ poll.from \in {before, poll.today}
    BY <1>1, PollFacts
  <2>2. Len(poll.queue) \in Nat /\ Len(poll.queue) > 0
    BY <2>1
  <2>3. \A n \in Nat : n > 0 /\ ~(n > 1) => n = 1
    OBVIOUS
  <2>4. Len(poll.queue) = 1
    BY <2>2, <2>3
  <2> QED
    BY <2>1, <2>4
<1>6. /\ new.last = IF yesterday = NoEntry THEN energy[poll.at].last ELSE yesterday
      /\ new.lastDate = IF yesterday = NoEntry THEN energy[poll.at].lastDate ELSE before
  BY DEF Stored
<1> HIDE DEF table, new
<1>7. CASE poll.from = poll.today
  <2>1. before \notin DOMAIN table
    BY <1>4, <1>5, <1>7 DEF Spans
  <2>2. yesterday = NoEntry
    BY <2>1 DEF EntryOf
  <2>3. poll.from # before
    BY <1>5, <1>7
  <2> QED
    BY <1>1, <1>3, <1>6, <1>7, <2>2, <2>3
<1>8. CASE poll.from = before
  <2>1. before \in DOMAIN table /\ DOMAIN table[before] # {}
    BY <1>4, <1>5, <1>8 DEF Holds
  <2>2. yesterday = table[before] /\ yesterday # NoEntry
    BY <2>1, NoEntryEmpty DEF EntryOf
  <2>3. new.last = table[before] /\ new.lastDate = before
    BY <1>6, <2>2
  <2>4. Final => \A f \in DOMAIN table[before] \ PeriodTotals :
                   table[before][f] = DayLength
    BY <1>4, <1>8, <2>1 DEF Whole
  <2>5. poll.from # poll.today
    BY <1>5, <1>8
  <2> QED
    BY <1>1, <1>3, <1>8, <2>3, <2>4, <2>5
<1> QED
  BY <1>5, <1>7, <1>8

\* The last answer of the site or of a bank keeps the invariant.
LEMMA AnswerLastKeeps ==
  ASSUME EnergyInv, AnswerEnergy, ~(Len(poll.queue) > 1)
  PROVE  EnergyInv'
<1> DEFINE next == Following(poll.at)
           n == Len(site.banks)
           today == poll.today
           from == poll.from
<1>1. /\ poll # NoPoll
      /\ poll' = IF next = "idle" THEN NoPoll
                 ELSE [poll EXCEPT !.at = next, !.table = <<>>,
                         !.queue = BankRequests(poll.from, poll.today)]
      /\ cut' = IF poll.from < poll.today THEN cut \ {poll.at} ELSE cut
      /\ UNCHANGED <<clock, shift, site, empty, offset, checked, energyFaults,
                     polled, steady>>
  BY DEF AnswerEnergy
<1>2. /\ TickInv' /\ (site.pps /\ empty = {} => SettleInv)' /\ Units' = Units
      /\ \A d : Recorded(d)' = Recorded(d)
  BY <1>1, ClockStays
<1>3. /\ energy' = [u \in Units |-> energy'[u]]
      /\ \A u \in Units \ {poll.at} : energy'[u] = energy[u]
      /\ from = today => energy'[poll.at].lastDate = energy[poll.at].lastDate
      /\ from = today - 1 => energy'[poll.at].lastDate = today - 1
  BY StoredFacts
<1>4. /\ today \in Int /\ from \in Int /\ from \in {today - 1, today} /\ from <= today
      /\ poll.at \in Units
  BY <1>1, PollFacts
<1>5. /\ n \in Nat /\ "site" \notin Banks /\ "idle" \notin Units
      /\ \A i, j \in 1..n : site.banks[i] = site.banks[j] => i = j
  BY BankFacts DEF EnergyInv
<1>6. /\ Following("site") = IF n > 1 THEN site.banks[1] ELSE "idle"
      /\ \A k \in 1..n : n > 1 =>
           Following(site.banks[k]) = IF k < n THEN site.banks[k + 1] ELSE "idle"
  BY FollowingFacts DEF EnergyInv
<1>7. \A i \in 1..n : site.banks[i] \in Banks /\ site.banks[i] \in Units
  BY DEF Banks, Units
<1> HIDE DEF next
\* The next poll.
<1>8. ASSUME next # "idle"
      PROVE  /\ poll' # NoPoll
             /\ poll' = [at |-> poll'.at, today |-> poll'.today, from |-> poll'.from,
                         settled |-> poll'.settled, ticks |-> poll'.ticks,
                         queue |-> poll'.queue, table |-> poll'.table]
             /\ poll'.at = next /\ poll'.table = <<>>
             /\ poll'.queue = BankRequests(from, today)
             /\ UNCHANGED <<poll.today, poll.from, poll.settled>>
  <2>1. poll = [at |-> poll.at, today |-> poll.today, from |-> poll.from,
                settled |-> poll.settled, ticks |-> poll.ticks,
                queue |-> poll.queue, table |-> poll.table]
    BY <1>1, PollFacts
  <2>2. /\ poll' = [at |-> poll'.at, today |-> poll'.today, from |-> poll'.from,
                    settled |-> poll'.settled, ticks |-> poll'.ticks,
                    queue |-> poll'.queue, table |-> poll'.table]
        /\ poll'.at = next /\ poll'.table = <<>>
        /\ poll'.queue = BankRequests(from, today)
        /\ UNCHANGED <<poll.today, poll.from, poll.settled>>
    BY <1>1, <1>8, <2>1
  <2> QED
    BY <1>8, <2>2 DEF NoPoll
<1>9. ASSUME next # "idle", next \in Banks
      PROVE  PollInv'
  <2> DEFINE queue == BankRequests(from, today)
  <2>1. queue \in Seq(Fitting(from, today)) /\ Covers(queue, from)
    BY <1>4, BankRequestsFit DEF EnergyInv, TickInv
  <2> HIDE DEF queue
  <2>2. Len(queue) \in Nat /\ Len(queue) # 0
    BY <2>1 DEF Covers
  <2>3. (poll.at \in Units)' /\ (poll.today \in Int)'
        /\ (poll.from \in {poll.today - 1, poll.today})'
    BY <1>2, <1>4, <1>8, <1>9 DEF Units
  <2>4. /\ (poll.queue \in Seq(Fitting(poll.from, poll.today)))'
        /\ (Len(poll.queue) > 0)' /\ Covers(poll.queue, poll.from)'
    <3>1. poll'.queue = queue
      BY <1>8, <1>9 DEF queue
    <3> QED
      BY <1>8, <1>9, <2>1, <2>2, <3>1 DEF Covers, Asks
  <2>5. (Spans(poll.table, poll.from, poll.today))' /\ Whole(poll.table, poll.from)'
    BY <1>8, <1>9, NoEntryEmpty DEF Spans, Whole, NoEntry
  <2>6. (Recorded(poll.today - 1) > 0)'
        /\ (Final => Recorded(poll.today - 1) = DayLength)'
    <3>1. (Recorded(poll.today - 1))' = Recorded(poll.today - 1)
      BY <1>1, <1>8, <1>9 DEF Recorded
    <3>2. Final' = Final
      BY <1>1, <1>8, <1>9 DEF Final
    <3> QED
      BY <1>1, <3>1, <3>2, PollFacts
  <2> QED
    BY <1>8, <1>9, <2>3, <2>4, <2>5, <2>6 DEF PollInv
<1>10. ASSUME next = "idle" PROVE poll' = NoPoll /\ PollInv'
  BY <1>1, <1>10 DEF PollInv
\* After the site.
<1>11. CASE poll.at = "site"
  <2>1. Agree /\ (from = today <=> energy["site"].lastDate = today - 1)
    BY <1>1, <1>11 DEF EnergyInv, FollowInv
  <2>2. energy'["site"].lastDate = today - 1
    BY <1>3, <1>4, <1>11, <2>1
  <2>3. \A i \in 1..n : /\ energy'[site.banks[i]] = energy[site.banks[i]]
                        /\ site.banks[i] \in cut' <=> site.banks[i] \in cut
    BY <1>1, <1>3, <1>5, <1>7, <1>11
  <2>4. CASE n > 1
    <3>1. next = site.banks[1] /\ 1 \in 1..n
      BY <1>5, <1>6, <1>11, <2>4 DEF next
    <3>2. next \in Banks /\ next # "idle" /\ next # "site"
      BY <1>5, <1>7, <3>1
    <3>3. ASSUME NEW i \in 1..n, site.banks[i] \notin cut', from = today
          PROVE  energy'[site.banks[i]].lastDate = today - 1
      <4>1. energy[site.banks[i]].lastDate = energy["site"].lastDate
        BY <2>1, <2>3, <2>4, <3>3 DEF Agree
      <4> QED
        BY <4>1, <2>1, <2>3, <3>3
    <3>4. FollowInv'
      <4>1. ASSUME NEW k \in 1..n, next = site.banks[k]
            PROVE  k = 1
        BY <1>5, <3>1, <4>1
      <4>2. \A k \in 1..n, i \in 1..n : next = site.banks[k] => ~(i < k)
        BY <1>5, <4>1
      <4> QED
        BY <1>1, <1>8, <2>2, <2>4, <3>2, <3>3, <4>2 DEF FollowInv
    <3> QED
      BY <1>2, <1>3, <1>9, <3>2, <3>4 DEF EnergyInv
  <2>5. CASE ~(n > 1)
    <3>1. next = "idle"
      BY <1>6, <1>11, <2>5 DEF next
    <3>2. FollowInv'
      BY <1>1, <1>10, <2>5, <3>1 DEF FollowInv, Agree
    <3> QED
      BY <1>2, <1>3, <1>10, <3>1, <3>2 DEF EnergyInv
  <2> QED
    BY <2>4, <2>5
\* After a bank.
<1>12. CASE poll.at # "site"
  <2>1. PICK k \in 1..n : poll.at = site.banks[k]
    BY <1>4, <1>12 DEF Units, Banks
  <2>2. /\ n > 1 /\ energy["site"].lastDate = today - 1
        /\ \A i \in 1..n : /\ site.banks[i] \notin cut
                           /\ i < k \/ from = today
                           => energy[site.banks[i]].lastDate = today - 1
    BY <1>1, <2>1 DEF EnergyInv, FollowInv
  <2>3. energy'["site"].lastDate = today - 1
    <3>1. "site" \in Units \ {poll.at}
      BY <1>12 DEF Units
    <3> QED
      BY <1>3, <2>2, <3>1
  <2>4. ASSUME NEW i \in 1..n, site.banks[i] \notin cut',
               i <= k \/ from = today
        PROVE  energy'[site.banks[i]].lastDate = today - 1
    <3>1. CASE i = k
      <4>1. CASE from = today
        <5>1. site.banks[i] \notin cut
          BY <1>1, <1>4, <2>4, <4>1
        <5>2. energy[site.banks[i]].lastDate = today - 1
          BY <2>2, <4>1, <5>1
        <5> QED
          BY <1>3, <2>1, <3>1, <4>1, <5>2
      <4>2. CASE from = today - 1
        BY <1>3, <2>1, <3>1, <4>2
      <4> QED
        BY <1>4, <4>1, <4>2
    <3>2. CASE i # k
      <4>1. site.banks[i] # poll.at /\ site.banks[i] \notin cut
        BY <1>1, <1>5, <2>1, <2>4, <3>2
      <4>2. energy'[site.banks[i]] = energy[site.banks[i]]
        BY <1>3, <1>7, <4>1
      <4>3. i < k \/ from = today
        BY <1>5, <2>4, <3>2
      <4> QED
        BY <2>2, <4>1, <4>2, <4>3
    <3> QED
      BY <3>1, <3>2
  <2>5. next = IF k < n THEN site.banks[k + 1] ELSE "idle"
    BY <1>6, <2>1, <2>2 DEF next
  <2>6. CASE k < n
    <3>1. next = site.banks[k + 1] /\ k + 1 \in 1..n
      BY <1>5, <2>5, <2>6
    <3>2. next \in Banks /\ next # "idle" /\ next # "site"
      BY <1>5, <1>7, <3>1
    <3>3. \A m \in 1..n : next = site.banks[m] => m = k + 1
      BY <1>5, <3>1
    <3>4. \A m \in 1..n, i \in 1..n : next = site.banks[m] /\ i < m => i <= k
      BY <1>5, <3>3
    <3>5. FollowInv'
      BY <1>1, <1>8, <2>2, <2>3, <2>4, <3>2, <3>4 DEF FollowInv
    <3> QED
      BY <1>2, <1>3, <1>9, <3>2, <3>5 DEF EnergyInv
  <2>7. CASE ~(k < n)
    <3>1. next = "idle" /\ \A i \in 1..n : i <= k
      BY <1>5, <2>5, <2>7
    <3>2. Agree'
      BY <1>1, <2>3, <2>4, <3>1 DEF Agree
    <3>3. FollowInv'
      BY <1>10, <3>1, <3>2 DEF FollowInv
    <3> QED
      BY <1>2, <1>3, <1>10, <3>1, <3>3 DEF EnergyInv
  <2> QED
    BY <2>6, <2>7
<1> QED
  BY <1>11, <1>12

\* AnswerEnergy keeps the invariant.
LEMMA AnswerKeeps ==
  ASSUME EnergyInv, AnswerEnergy
  PROVE  EnergyInv'
BY AnswerMoreKeeps, AnswerLastKeeps

\* So does a step of the other components.
LEMMA IdleKeeps ==
  ASSUME EnergyInv, UNCHANGED energyVars
  PROVE  EnergyInv'
<1>1. /\ UNCHANGED <<clock, shift, site, empty, offset, checked, polled, steady>>
      /\ UNCHANGED <<clock, shift, site, empty, energy, poll, cut>>
  BY DEF energyVars
<1> QED
  BY <1>1, ClockStays, PollStays DEF EnergyInv

\* Every step keeps the invariant.
LEMMA EnergyKeeps ==
  ASSUME EnergyInv, [EnergyNext]_energyVars
  PROVE  EnergyInv'
<1>1. CASE CheckOffset
  BY <1>1, CheckKeeps
<1>2. CASE StartEnergy
  BY <1>2, StartKeeps
<1>3. CASE AnswerEnergy
  BY <1>3, AnswerKeeps
<1>4. CASE FailEnergy
  BY <1>4, FailKeeps
<1>5. CASE PassTick
  BY <1>5, TickKeeps
<1>6. CASE UNCHANGED energyVars
  BY <1>6, IdleKeeps
<1> QED
  BY <1>1, <1>2, <1>3, <1>4, <1>5, <1>6 DEF EnergyNext

\* The invariant of the offset, the poll and what it stores.
THEOREM EnergyInvariant == EnergySpec => []EnergyInv
<1>1. EnergyInit => EnergyInv
  BY InitKeeps
<1>2. EnergyInv /\ [EnergyNext]_energyVars => EnergyInv'
  BY EnergyKeeps
<1> QED
  BY <1>1, <1>2, PTL DEF EnergySpec

\* The offset of a site of power stations is never less than what the cloud is
\* ahead, and exact after 40 minutes of polls (get_energy_offset).
THEOREM OffsetsSettle == EnergySpec => []OffsetSettles
<1>1. EnergyInv => OffsetSettles
  BY Settles DEF EnergyInv, OffsetSettles
<1> QED
  BY <1>1, EnergyInvariant, PTL

\* Between polls, banks that no failure cut off hold yesterday if the site does
\* (poll_device_energy).
THEOREM BreakdownsFollow == EnergySpec => []BreakdownFollows
<1>1. EnergyInv => BreakdownFollows
  <2> SUFFICES ASSUME EnergyInv, poll = NoPoll, NEW i \in 1..Len(site.banks),
                      Len(site.banks) > 1, site.banks[i] \notin cut
               PROVE  energy[site.banks[i]].lastDate = energy["site"].lastDate
    BY DEF BreakdownFollows
  <2> QED
    BY DEF EnergyInv, FollowInv, Agree
<1> QED
  BY <1>1, EnergyInvariant, PTL

\* An answer that enters yesterday enters the whole day.
LEMMA YesterdaysWhole ==
  ASSUME EnergyInv, AnswerEnergy, NEW u \in DOMAIN energy,
         energy'[u].lastDate # energy[u].lastDate,
         site.pps => poll.settled /\ empty = {}
  PROVE  \A f \in DOMAIN energy'[u].last \ PeriodTotals :
           energy'[u].last[f] = DayLength
<1>1. ~(Len(poll.queue) > 1)
  BY DEF AnswerEnergy
<1>2. DOMAIN energy = Units
  BY DEF EnergyInv
<1>3. /\ \A v \in Units \ {poll.at} : energy'[v] = energy[v]
      /\ Final => \/ energy'[poll.at].lastDate = energy[poll.at].lastDate
                  \/ \A f \in DOMAIN energy'[poll.at].last \ PeriodTotals :
                       energy'[poll.at].last[f] = DayLength
  BY <1>1, StoredFacts
<1>4. u = poll.at /\ Final
  BY <1>2, <1>3 DEF Final
<1> QED
  BY <1>3, <1>4

\* What a poll stores for yesterday is that of the whole day, where its offset
\* is exact (poll_device_energy, energy_daily).
THEOREM YesterdaysFinal == EnergySpec => YesterdayFinal
<1> DEFINE A == \A u \in DOMAIN energy :
                  /\ energy'[u].lastDate # energy[u].lastDate
                  /\ site.pps => poll.settled /\ empty = {}
                  => \A f \in DOMAIN energy'[u].last \ PeriodTotals :
                       energy'[u].last[f] = DayLength
<1>1. EnergyInv /\ [EnergyNext]_energyVars => [A]_energyVars
  <2> SUFFICES ASSUME EnergyInv, EnergyNext PROVE A
    OBVIOUS
  <2>1. CASE AnswerEnergy
    BY <2>1, YesterdaysWhole
  <2>2. CASE CheckOffset \/ StartEnergy \/ FailEnergy \/ PassTick
    <3>1. energy' = energy
      BY <2>2 DEF CheckOffset, StartEnergy, FailEnergy, PassTick
    <3> QED
      BY <3>1
  <2> QED
    BY <2>1, <2>2 DEF EnergyNext
<1>2. EnergySpec => [][A]_energyVars
  BY <1>1, EnergyInvariant, PTL DEF EnergySpec
<1> QED
  BY <1>2 DEF YesterdayFinal

----------------------------------------------------------------------------
(* SolarForecast: the slots that are kept *)

\* The slots of trends.
Slot == [ts : Nat, seen : Nat]

\* No hour occurs twice, and later ones come later.
Ordered(s) == \A i, j \in 1..Len(s) : i < j => s[i].ts < s[j].ts

\* Induction over natural numbers, for a set of them.
LEMMA NatSet ==
  ASSUME NEW S \in SUBSET Nat, 0 \in S, \A n \in S : n + 1 \in S
  PROVE  S = Nat
<1> SUFFICES ASSUME Nat \ S # {} PROVE FALSE
  OBVIOUS
<1>1. PICK x \in Nat \ S : \A y \in Nat \ S : ~(<<y, x>> \in OpToRel(<,Nat))
  <2>1. Nat \ S \subseteq Nat OBVIOUS
  <2> QED BY <2>1, WFMin, NatLessThanWellFounded
<1>2. x # 0 /\ x - 1 \in Nat
  OBVIOUS
<1>3. CASE x - 1 \in S
  <2>1. (x - 1) + 1 \in S BY <1>3
  <2> QED BY <2>1
<1>4. CASE x - 1 \notin S
  <2>1. <<x - 1, x>> \in OpToRel(<,Nat)
    BY <1>2 DEF OpToRel
  <2> QED BY <2>1, <1>1, <1>2, <1>4
<1> QED BY <1>3, <1>4

\* What Between() asks of a slot.
Fits(slot, first, start) ==
  slot.ts >= first /\ (start = Never \/ slot.ts < start)

\* kept is the function of Between(), up to place n.
IsKept(kept, slots, first, start, n) ==
  kept = [i \in 0..n |->
            IF i = 0 THEN <<>>
            ELSE IF Fits(slots[i], first, start) THEN Append(kept[i - 1], slots[i])
            ELSE kept[i - 1]]

\* One round of the loop.
LEMMA KeptStep ==
  ASSUME NEW slots, NEW first, NEW start, NEW n \in Nat, NEW kept,
         IsKept(kept, slots, first, start, n), NEW i \in 1..n
  PROVE  kept[i] = IF Fits(slots[i], first, start)
                     THEN Append(kept[i - 1], slots[i]) ELSE kept[i - 1]
<1>1. i \in 0..n /\ i # 0
  OBVIOUS
<1> QED BY <1>1 DEF IsKept

\* The recursive function exists, so that CHOOSE finds it.
LEMMA KeptExists ==
  ASSUME NEW slots, NEW first, NEW start
  PROVE  \A n \in Nat : \E kept : IsKept(kept, slots, first, start, n)
<1> DEFINE S == {n \in Nat : \E kept : IsKept(kept, slots, first, start, n)}
<1>1. 0 \in S
  <2>1. IsKept([i \in 0..0 |-> <<>>], slots, first, start, 0)
    BY DEF IsKept
  <2> QED BY <2>1
<1>2. ASSUME NEW n \in S PROVE n + 1 \in S
  <2>1. PICK kept : IsKept(kept, slots, first, start, n)
    OBVIOUS
  <2> DEFINE last == IF Fits(slots[n + 1], first, start)
                       THEN Append(kept[n], slots[n + 1]) ELSE kept[n]
             more == [i \in 0..(n + 1) |-> IF i = n + 1 THEN last ELSE kept[i]]
             step == [i \in 0..(n + 1) |->
                        IF i = 0 THEN <<>>
                        ELSE IF Fits(slots[i], first, start)
                          THEN Append(more[i - 1], slots[i])
                          ELSE more[i - 1]]
  <2>2. ASSUME NEW i \in 0..(n + 1) PROVE more[i] = step[i]
    <3>1. CASE i = 0
      <4>1. kept[0] = <<>>
        BY <2>1 DEF IsKept
      <4> QED BY <3>1, <4>1
    <3>2. CASE i = n + 1
      <4>1. i - 1 = n /\ n \in 0..(n + 1) /\ n # n + 1 /\ i # 0
        BY <3>2
      <4>2. more[i - 1] = kept[n]
        BY <4>1
      <4> HIDE DEF more
      <4>3. step[i] = last
        BY <3>2, <4>1, <4>2
      <4> QED BY <3>2, <4>3 DEF more
    <3>3. CASE i \in 1..n
      <4>1. i # 0 /\ i # n + 1 /\ i - 1 \in 0..(n + 1) /\ i - 1 # n + 1
        BY <3>3
      <4>2. more[i - 1] = kept[i - 1] /\ more[i] = kept[i]
        BY <4>1
      <4>3. kept[i] = IF Fits(slots[i], first, start)
                        THEN Append(kept[i - 1], slots[i]) ELSE kept[i - 1]
        BY <2>1, <3>3, KeptStep
      <4> HIDE DEF more, last
      <4> QED BY <4>1, <4>2, <4>3
    <3> QED BY <3>1, <3>2, <3>3
  <2>3. more = step
    BY <2>2
  <2>4. IsKept(more, slots, first, start, n + 1)
    BY <2>3 DEF IsKept
  <2> QED BY <2>4
<1> QED BY <1>1, <1>2, NatSet

\* What the loop has kept of the first i slots.
KeptOf(q, slots, first, start, i) ==
  /\ q \in Seq(Slot)
  /\ Ordered(q)
  /\ \A k \in 1..Len(q) :
       \E j \in 1..i : q[k] = slots[j] /\ Fits(slots[j], first, start)
  /\ \A j \in 1..i :
       Fits(slots[j], first, start) => \E k \in 1..Len(q) : q[k] = slots[j]

\* A slot that fits is appended, and comes after the others.
LEMMA KeptMore ==
  ASSUME NEW slots \in Seq(Slot), Ordered(slots), NEW first, NEW start,
         NEW i \in Nat, i + 1 <= Len(slots), NEW q,
         KeptOf(q, slots, first, start, i),
         Fits(slots[i + 1], first, start)
  PROVE  KeptOf(Append(q, slots[i + 1]), slots, first, start, i + 1)
<1> DEFINE s == slots[i + 1]
           r == Append(q, s)
<1>1. s \in Slot
  OBVIOUS
<1>2. q \in Seq(Slot)
  BY DEF KeptOf
<1>3. /\ r \in Seq(Slot) /\ Len(r) = Len(q) + 1 /\ r[Len(q) + 1] = s
      /\ \A k \in 1..Len(q) : r[k] = q[k]
  BY <1>1, <1>2
<1>4. \A k \in 1..Len(q) : q[k].ts < s.ts
  <2> SUFFICES ASSUME NEW k \in 1..Len(q) PROVE q[k].ts < s.ts
    OBVIOUS
  <2>1. PICK j \in 1..i : q[k] = slots[j]
    BY DEF KeptOf
  <2> QED BY <2>1 DEF Ordered
<1> HIDE DEF r, s
<1>5. Ordered(r)
  <2> SUFFICES ASSUME NEW k \in 1..Len(r), NEW l \in 1..Len(r), k < l
               PROVE  r[k].ts < r[l].ts
    BY DEF Ordered
  <2>0. Len(q) \in Nat BY <1>2
  <2>1. CASE l = Len(q) + 1
    <3>1. k \in 1..Len(q) BY <2>1, <2>0, <1>3
    <3> QED BY <2>1, <3>1, <1>3, <1>4
  <2>2. CASE l # Len(q) + 1
    <3>1. k \in 1..Len(q) /\ l \in 1..Len(q) BY <2>2, <2>0, <1>3
    <3> QED BY <3>1, <1>3 DEF KeptOf, Ordered
  <2> QED BY <2>1, <2>2
<1>6. \A k \in 1..Len(r) : \E j \in 1..(i + 1) :
        r[k] = slots[j] /\ Fits(slots[j], first, start)
  <2> SUFFICES ASSUME NEW k \in 1..Len(r)
               PROVE  \E j \in 1..(i + 1) :
                        r[k] = slots[j] /\ Fits(slots[j], first, start)
    OBVIOUS
  <2>0. Len(q) \in Nat BY <1>2
  <2>1. CASE k = Len(q) + 1
    BY <2>1, <1>3 DEF s
  <2>2. CASE k \in 1..Len(q)
    <3>1. PICK j \in 1..i : q[k] = slots[j] /\ Fits(slots[j], first, start)
      BY <2>2 DEF KeptOf
    <3>2. j \in 1..(i + 1) BY <3>1
    <3> QED BY <2>2, <3>1, <3>2, <1>3
  <2> QED BY <2>0, <2>1, <2>2, <1>3
<1>7. \A j \in 1..(i + 1) : Fits(slots[j], first, start) =>
        \E k \in 1..Len(r) : r[k] = slots[j]
  <2> SUFFICES ASSUME NEW j \in 1..(i + 1), Fits(slots[j], first, start)
               PROVE  \E k \in 1..Len(r) : r[k] = slots[j]
    OBVIOUS
  <2>0. Len(q) \in Nat BY <1>2
  <2>1. CASE j = i + 1
    <3>1. Len(q) + 1 \in 1..Len(r) BY <2>0, <1>3
    <3> QED BY <2>1, <3>1, <1>3 DEF s
  <2>2. CASE j \in 1..i
    <3>1. PICK k \in 1..Len(q) : q[k] = slots[j]
      BY <2>2 DEF KeptOf
    <3>2. k \in 1..Len(r) BY <2>0, <1>3
    <3> QED BY <3>1, <3>2, <1>3
  <2> QED BY <2>1, <2>2
<1> QED BY <1>3, <1>5, <1>6, <1>7 DEF KeptOf, r, s

\* What the whole loop keeps.
LEMMA KeptFacts ==
  ASSUME NEW slots \in Seq(Slot), Ordered(slots), NEW first, NEW start
  PROVE  KeptOf(Between(slots, first, start), slots, first, start, Len(slots))
<1> DEFINE n == Len(slots)
           kept == CHOOSE kept : IsKept(kept, slots, first, start, n)
<1>0. n \in Nat
  OBVIOUS
<1>1. Between(slots, first, start) = kept[n]
  BY DEF Between, IsKept, Fits
<1>2. IsKept(kept, slots, first, start, n)
  BY <1>0, KeptExists
<1> HIDE DEF kept
<1>3. kept[0] = <<>>
  BY <1>0, <1>2 DEF IsKept
<1>4. \A i \in 1..n : kept[i] = IF Fits(slots[i], first, start)
                                  THEN Append(kept[i - 1], slots[i])
                                  ELSE kept[i - 1]
  BY <1>0, <1>2, KeptStep
<1> DEFINE S == {i \in Nat : i <= n => KeptOf(kept[i], slots, first, start, i)}
<1>5. 0 \in S
  <2>1. KeptOf(<<>>, slots, first, start, 0)
    BY DEF KeptOf, Ordered
  <2> QED BY <2>1, <1>3
<1>6. ASSUME NEW i \in S PROVE i + 1 \in S
  <2> SUFFICES ASSUME i + 1 <= n
               PROVE  KeptOf(kept[i + 1], slots, first, start, i + 1)
    OBVIOUS
  <2>0. i \in Nat /\ i + 1 \in 1..n /\ (i + 1) - 1 = i
    BY <1>0
  <2>1. KeptOf(kept[i], slots, first, start, i)
    BY <1>0, <2>0
  <2>2. CASE Fits(slots[i + 1], first, start)
    <3>1. kept[i + 1] = Append(kept[i], slots[i + 1])
      BY <2>0, <2>2, <1>4
    <3> QED BY <2>0, <2>1, <2>2, <3>1, KeptMore
  <2>3. CASE ~Fits(slots[i + 1], first, start)
    <3>1. kept[i + 1] = kept[i]
      BY <2>0, <2>3, <1>4
    <3> QED BY <2>0, <2>1, <2>3, <3>1 DEF KeptOf
  <2> QED BY <2>2, <2>3
<1>7. S = Nat
  BY <1>5, <1>6, NatSet
<1> QED BY <1>0, <1>1, <1>7

----------------------------------------------------------------------------
(* Trends, and what is shown of them *)

\* Hours of slots are hours.
LEMMA SlotTs ==
  ASSUME NEW slot \in Slot
  PROVE  slot.ts \in Nat /\ slot.ts # Never /\ slot # NoHour
<1>1. slot.ts \in Nat
  BY DEF Slot
<1>2. slot.ts # Never
  BY <1>1 DEF Never
<1> QED BY <1>1, <1>2 DEF NoHour

\* A slot is in a trend.
Has(trend, slot) == \E k \in 1..Len(trend) : trend[k] = slot

\* An older trend before a newer one.
Grown(old, asked, new) == KeptTrend(old, asked, FirstTs(new)) \o new

\* It is in order, and has all of the newer one; nothing of today is lost
\* where nothing new comes.
LEMMA GrownFacts ==
  ASSUME NEW old \in Seq(Slot), Ordered(old), NEW new \in Seq(Slot), Ordered(new),
         NEW asked
  PROVE  /\ Grown(old, asked, new) \in Seq(Slot) /\ Ordered(Grown(old, asked, new))
         /\ \A slot : Has(new, slot) => Has(Grown(old, asked, new), slot)
         /\ new = <<>> =>
              \A slot : Has(old, slot) /\ slot.ts >= DayStart(asked)
                         => Has(Grown(old, asked, new), slot)
<1> DEFINE trend == Grown(old, asked, new)
           start == FirstTs(new)
           first == DayStart(asked)
           kept == KeptTrend(old, asked, start)
<1>1. KeptOf(kept, old, first, start, Len(old))
  BY KeptFacts DEF KeptTrend
<1> HIDE DEF kept, first, start, trend
<1>2. kept \in Seq(Slot) /\ Ordered(kept)
  BY <1>1 DEF KeptOf
<1>3. trend = kept \o new
  BY DEF kept, start, trend, Grown
<1>4. /\ Len(kept) \in Nat /\ Len(new) \in Nat
      /\ trend \in Seq(Slot) /\ Len(trend) = Len(kept) + Len(new)
      /\ \A k \in 1..Len(kept) : trend[k] = kept[k] /\ kept[k] \in Slot
      /\ \A k \in 1..Len(new) : trend[Len(kept) + k] = new[k] /\ new[k] \in Slot
  BY <1>2, <1>3
<1>5. ASSUME NEW k \in 1..Len(kept), NEW l \in 1..Len(new)
      PROVE  kept[k].ts < new[l].ts
  <2>1. PICK j \in 1..Len(old) : kept[k] = old[j] /\ Fits(old[j], first, start)
    BY <1>1 DEF KeptOf
  <2>2. start = new[1].ts /\ new[1] \in Slot /\ 1 \in 1..Len(new)
    BY <1>4 DEF start, FirstTs
  <2>3. start # Never
    BY <2>2, SlotTs
  <2>4. kept[k].ts < new[1].ts
    BY <2>1, <2>2, <2>3 DEF Fits
  <2>5. l = 1 \/ new[1].ts < new[l].ts
    BY <2>2 DEF Ordered
  <2>6. kept[k].ts \in Nat /\ new[1].ts \in Nat /\ new[l].ts \in Nat
    BY <1>4, <2>2 DEF Slot
  <2> QED BY <2>4, <2>5, <2>6
<1>6. Ordered(trend)
  <2> SUFFICES ASSUME NEW i \in 1..Len(trend), NEW j \in 1..Len(trend), i < j
               PROVE  trend[i].ts < trend[j].ts
    BY DEF Ordered
  <2>1. CASE j <= Len(kept)
    <3>1. i \in 1..Len(kept) /\ j \in 1..Len(kept)
      BY <2>1, <1>4
    <3> QED BY <3>1, <1>2, <1>4 DEF Ordered
  <2>2. CASE i > Len(kept)
    <3> DEFINE k == i - Len(kept)
               l == j - Len(kept)
    <3>1. /\ k \in 1..Len(new) /\ l \in 1..Len(new) /\ k < l
          /\ i = Len(kept) + k /\ j = Len(kept) + l
      BY <2>2, <1>4
    <3> HIDE DEF k, l
    <3>2. trend[i] = new[k] /\ trend[j] = new[l]
      BY <3>1, <1>4
    <3> QED BY <3>1, <3>2 DEF Ordered
  <2>3. CASE i <= Len(kept) /\ j > Len(kept)
    <3> DEFINE l == j - Len(kept)
    <3>1. i \in 1..Len(kept) /\ l \in 1..Len(new) /\ j = Len(kept) + l
      BY <2>3, <1>4
    <3> HIDE DEF l
    <3>2. trend[i] = kept[i] /\ trend[j] = new[l]
      BY <3>1, <1>4
    <3> QED BY <3>1, <3>2, <1>5
  <2> QED BY <1>4, <2>1, <2>2, <2>3
<1>7. ASSUME NEW slot, Has(new, slot) PROVE Has(trend, slot)
  <2>1. PICK k \in 1..Len(new) : new[k] = slot
    BY <1>7 DEF Has
  <2>2. Len(kept) + k \in 1..Len(trend)
    BY <1>4
  <2> QED BY <1>4, <2>1, <2>2 DEF Has
<1>8. ASSUME new = <<>>, NEW slot, Has(old, slot), slot.ts >= DayStart(asked)
      PROVE  Has(trend, slot)
  <2>1. PICK j \in 1..Len(old) : old[j] = slot
    BY <1>8 DEF Has
  <2>2. start = Never
    BY <1>8 DEF start, FirstTs
  <2>3. Fits(old[j], first, start)
    BY <2>1, <2>2, <1>8 DEF Fits, first
  <2>4. PICK k \in 1..Len(kept) : kept[k] = old[j]
    BY <2>3, <1>1 DEF KeptOf
  <2>5. k \in 1..Len(trend)
    BY <1>4
  <2> QED BY <1>4, <2>1, <2>4, <2>5 DEF Has
<1> QED BY <1>4, <1>6, <1>7, <1>8 DEF trend

\* The slot of an hour is the one of the trend, which has at most one.
LEMMA SlotAtIs ==
  ASSUME NEW trend \in Seq(Slot), Ordered(trend), NEW ts, NEW found,
         found = SlotAt(trend, ts)
  PROVE  \/ found = NoHour /\ \A slot : Has(trend, slot) => slot.ts # ts
         \/ Has(trend, found) /\ found.ts = ts /\ found \in Slot
<1> DEFINE places == {i \in 1..Len(trend) : trend[i].ts = ts}
           last == CHOOSE i \in places : \A j \in places : j <= i
<1>1. CASE places = {}
  <2>1. found = NoHour
    BY <1>1 DEF SlotAt
  <2> QED BY <1>1, <2>1 DEF Has
<1>2. CASE places # {}
  <2>1. PICK i \in places : TRUE
    BY <1>2
  <2>2. \A j \in places : ~(i < j) /\ ~(j < i)
    <3> SUFFICES ASSUME NEW j \in places PROVE ~(i < j) /\ ~(j < i)
      OBVIOUS
    <3>1. trend[i] \in Slot /\ trend[i].ts = trend[j].ts
      OBVIOUS
    <3>2. trend[i].ts \in Nat
      BY <3>1, SlotTs
    <3> QED BY <3>1, <3>2 DEF Ordered
  <2>3. \A j \in places : j <= i
    BY <2>2
  <2>4. last \in places
    BY <2>3
  <2>5. found = trend[last]
    BY <1>2 DEF SlotAt
  <2> HIDE DEF last
  <2> QED BY <2>4, <2>5 DEF Has
<1> QED BY <1>1, <1>2

\* What a refresh stores.
Details == [known : {TRUE}, poll : Int, trend : Seq(Slot),
            this : Slot \cup {NoHour}, next : Slot \cup {NoHour}]

\* A shown hour is none or one of the trend.
Of(trend, slot) == slot = NoHour \/ Has(trend, slot)

\* The hours shown are in the trend and follow each other.
ShownOf(d) ==
  /\ Of(d.trend, d.this) /\ Of(d.trend, d.next)
  /\ d.this = NoHour \/ d.next = NoHour \/ d.next.ts = d.this.ts + 1

\* What extractSolarForecast() makes of the details.
LEMMA ShownIs ==
  ASSUME NEW d \in Details, Ordered(d.trend), hour \in Nat,
         d.this.ts = hour + 1 => ShownOf(d),
         NEW r, r = Shown(d)
  PROVE  /\ r \in Details /\ r.trend = d.trend /\ r.poll = d.poll
         /\ ShownOf(r)
         /\ (\E slot : Has(d.trend, slot) /\ slot.ts = hour + 1)
              => r.this.ts = hour + 1
<1>1. CASE d.this.ts = hour + 1
  BY <1>1 DEF Shown
<1>2. CASE d.this.ts # hour + 1
  <2> DEFINE this == SlotAt(d.trend, hour + 1)
             next == SlotAt(d.trend, hour + 2)
  <2>0. d.trend \in Seq(Slot)
    BY DEF Details
  <2>1. \/ this = NoHour /\ \A slot : Has(d.trend, slot) => slot.ts # hour + 1
        \/ Has(d.trend, this) /\ this.ts = hour + 1 /\ this \in Slot
    BY <2>0, SlotAtIs
  <2>2. \/ next = NoHour
        \/ Has(d.trend, next) /\ next.ts = hour + 2 /\ next \in Slot
    BY <2>0, SlotAtIs
  <2>3. r = [d EXCEPT !.this = this, !.next = next]
    BY <1>2 DEF Shown
  <2> HIDE DEF this, next
  <2>4. /\ r.trend = d.trend /\ r.poll = d.poll
        /\ r.this = this /\ r.next = next
    BY <2>3 DEF Details
  <2>5. r \in Details
    BY <2>1, <2>2, <2>3 DEF Details
  <2>6. ShownOf(r)
    BY <2>1, <2>2, <2>4 DEF ShownOf, Of
  <2>7. (\E slot : Has(d.trend, slot) /\ slot.ts = hour + 1)
           => r.this.ts = hour + 1
    BY <2>1, <2>4
  <2> QED BY <2>4, <2>5, <2>6, <2>7
<1> QED BY <1>1, <1>2

----------------------------------------------------------------------------
(* Days and answers *)

\* What \div is.
LEMMA DivisionFacts ==
  ASSUME NEW n \in Nat \ {0}, NEW x \in Nat
  PROVE  /\ x \div n \in Nat /\ (x \div n) * n <= x /\ x < (x \div n) * n + n
         /\ (x \div n) * n \in Nat
<1>1. x \div n \in Int /\ x % n \in 0..(n - 1) /\ x = n * (x \div n) + (x % n)
  OBVIOUS
<1> DEFINE q == x \div n
<1>2. q >= 0
  <2> SUFFICES ASSUME q <= -1 PROVE FALSE
    BY <1>1
  <2> HIDE DEF q
  <2>1. q \in Int BY <1>1 DEF q
  <2>2. n * q <= -n BY <2>1
  <2> QED BY <2>1, <2>2, <1>1 DEF q
<1> QED BY <1>1, <1>2

\* The day of an hour, the day after and the one after that.
LEMMA ForecastDayFacts ==
  ASSUME NEW h \in Nat
  PROVE  /\ DayOf(h) \in Nat /\ DayStart(h) \in Nat
         /\ DayStart(h) <= h /\ h < NextDay(h) /\ NextDay(h) = DayStart(h) + DayHours
         /\ DayOf(h) * DayHours = DayStart(h)
         /\ (DayOf(h) + 1) * DayHours = NextDay(h)
         /\ (DayOf(h) + 2) * DayHours = NextDay(h) + DayHours
<1>1. DayHours \in Nat \ {0}
  BY ForecastAssumption
<1>2. /\ DayOf(h) \in Nat /\ DayStart(h) \in Nat
      /\ DayStart(h) <= h /\ h < DayStart(h) + DayHours
  BY <1>1, DivisionFacts DEF DayOf, DayStart
<1>3. NextDay(h) = DayStart(h) + DayHours /\ DayOf(h) * DayHours = DayStart(h)
  BY DEF NextDay, DayStart
<1> DEFINE d == DayOf(h)
<1>4. /\ (d + 1) * DayHours = d * DayHours + DayHours
      /\ (d + 2) * DayHours = d * DayHours + DayHours + DayHours
  <2>1. d \in Nat BY <1>2
  <2> HIDE DEF d
  <2> QED BY <2>1, <1>1
<1> QED BY <1>1, <1>2, <1>3, <1>4

\* The hours after one hour up to another, in order.
Run(s, a, b) ==
  /\ s \in Seq(Slot) /\ Len(s) = b - a
  /\ \A i \in 1..Len(s) : s[i].ts = a + i

\* A run that goes on where another ends.
LEMMA JoinedRuns ==
  ASSUME NEW a \in Nat, NEW b \in Nat, NEW c \in Nat, NEW s, NEW t,
         Run(s, a, b), Run(t, b, c)
  PROVE  Run(s \o t, a, c)
<1>1. s \in Seq(Slot) /\ t \in Seq(Slot) /\ Len(s) = b - a /\ Len(t) = c - b
  BY DEF Run
<1> DEFINE r == s \o t
<1>2. /\ r \in Seq(Slot) /\ Len(r) = Len(s) + Len(t)
      /\ \A i \in 1..Len(s) : r[i] = s[i]
      /\ \A i \in 1..Len(t) : r[Len(s) + i] = t[i]
      /\ Len(s) \in Nat /\ Len(t) \in Nat
  BY <1>1
<1> HIDE DEF r
<1>3. ASSUME NEW i \in 1..Len(r) PROVE r[i].ts = a + i
  <2>1. CASE i <= Len(s)
    <3>1. i \in 1..Len(s) BY <2>1, <1>2
    <3> QED BY <3>1, <1>2 DEF Run
  <2>2. CASE i > Len(s)
    <3> DEFINE k == i - Len(s)
    <3>1. k \in 1..Len(t) /\ i = Len(s) + k BY <2>2, <1>2
    <3> HIDE DEF k
    <3>2. r[i] = t[k] /\ t[k].ts = b + k BY <3>1, <1>2 DEF Run
    <3> QED BY <3>1, <3>2, <1>1
  <2> QED BY <2>1, <2>2, <1>2
<1>4. Len(r) = c - a
  BY <1>1, <1>2
<1>5. Run(r, a, c)
  BY <1>2, <1>3, <1>4 DEF Run
<1> QED BY <1>5 DEF r

\* A run is in order.
LEMMA RunOrdered ==
  ASSUME NEW a \in Nat, NEW b \in Nat, NEW s, Run(s, a, b)
  PROVE  Ordered(s)
  BY DEF Run, Ordered

\* A run keeps its last slot, if it has more than one.
LEMMA RunNotRepeated ==
  ASSUME NEW a \in Nat, NEW b \in Nat, NEW s, Run(s, a, b), b - a # 1
  PROVE  WithoutRepeated(s) = s
<1>1. s \in Seq(Slot) /\ Len(s) \in Nat /\ Len(s) = b - a
  BY DEF Run
<1>2. CASE Len(s) > 1
  <2>1. Len(s) \in 1..Len(s) /\ Len(s) - 1 \in 1..Len(s)
    BY <1>1, <1>2
  <2>2. s[Len(s)].ts = a + Len(s) /\ s[Len(s) - 1].ts = a + (Len(s) - 1)
    BY <2>1 DEF Run
  <2>3. LastTs(s) = s[Len(s)].ts
    BY <1>1, <1>2 DEF LastTs
  <2>4. ~(LastTs(s) < s[Len(s) - 1].ts)
    BY <1>1, <2>2, <2>3
  <2> QED BY <1>1, <1>2, <2>4 DEF WithoutRepeated
<1>3. CASE Len(s) = 0
  BY <1>1, <1>3 DEF WithoutRepeated
<1> QED BY <1>1, <1>2, <1>3

\* A run is without its last slot where 00:00 of the same day follows.
LEMMA RunRepeated ==
  ASSUME NEW a \in Nat, NEW b \in Nat, a < b, NEW s \in Seq(Slot),
         Len(s) = b - a, \A i \in 1..(Len(s) - 1) : s[i].ts = a + i,
         s[Len(s)].ts <= a
  PROVE  Run(WithoutRepeated(s), a, b - 1)
<1> DEFINE r == SubSeq(s, 1, Len(s) - 1)
<1>1. Len(s) \in Nat /\ Len(s) > 0
  OBVIOUS
<1>2. WithoutRepeated(s) = r
  <2>1. CASE Len(s) = 1
    BY <2>1 DEF WithoutRepeated
  <2>2. CASE Len(s) > 1
    <3>1. Len(s) - 1 \in 1..(Len(s) - 1) /\ Len(s) \in 1..Len(s)
      BY <2>2, <1>1
    <3>2. s[Len(s) - 1].ts = a + (Len(s) - 1)
      BY <3>1
    <3>3. LastTs(s) = s[Len(s)].ts
      BY <2>2 DEF LastTs
    <3>4. s[Len(s)].ts \in Nat
      <4>1. s[Len(s)] \in Slot
        BY <3>1
      <4> QED BY <4>1, SlotTs
    <3>5. LastTs(s) < s[Len(s) - 1].ts
      BY <2>2, <1>1, <3>2, <3>3, <3>4
    <3> QED BY <2>2, <3>5 DEF WithoutRepeated
  <2> QED BY <1>1, <2>1, <2>2
<1>3. r \in Seq(Slot) /\ Len(r) = Len(s) - 1 /\ \A i \in 1..(Len(s) - 1) : r[i] = s[i]
  BY <1>1
<1> QED BY <1>1, <1>2, <1>3 DEF Run

\* The hours an answer for a day has.
DayFrom(day) == day * DayHours
DayTo(day) == (day + 1) * DayHours
FirstHour(day) == IF hour + 1 >= DayFrom(day) THEN hour + 1 ELSE DayFrom(day)
LastHour(day) == IF hour + DayHours <= DayTo(day) THEN hour + DayHours
                 ELSE DayTo(day)
HoursOf(day) ==
  IF LastHour(day) < FirstHour(day) THEN 0
  ELSE LastHour(day) - FirstHour(day) + 1

\* What the answer for a day consists of.
LEMMA ForecastIs ==
  ASSUME NEW day \in Nat, hour \in Nat, NEW s, s = ForecastOf(day)
  PROVE  /\ s \in Seq(Slot) /\ Len(s) = HoursOf(day)
         /\ \A i \in 1..HoursOf(day) :
              s[i].ts = IF FirstHour(day) + i - 1 = DayTo(day) THEN DayFrom(day)
                        ELSE FirstHour(day) + i - 1
<1> DEFINE ts(i) == IF FirstHour(day) + i - 1 = DayTo(day) THEN DayFrom(day)
                    ELSE FirstHour(day) + i - 1
           n == HoursOf(day)
<1>1. s = [i \in 1..n |-> [ts |-> ts(i), seen |-> hour]]
  BY DEF ForecastOf, HoursOf, FirstHour, LastHour, DayFrom, DayTo
<1>2. n \in Nat /\ \A i \in 1..n : ts(i) \in Nat
  <2>1. DayHours \in Nat
    BY ForecastAssumption
  <2>2. DayFrom(day) \in Nat /\ DayTo(day) \in Nat
    BY <2>1 DEF DayFrom, DayTo
  <2>3. FirstHour(day) \in Nat /\ LastHour(day) \in Nat
    BY <2>1, <2>2 DEF FirstHour, LastHour
  <2> QED BY <2>2, <2>3 DEF HoursOf
<1> HIDE DEF ts, n
<1>3. \A i \in 1..n : [ts |-> ts(i), seen |-> hour] \in Slot
  BY <1>2 DEF Slot
<1>4. s \in [1..n -> Slot]
  BY <1>1, <1>3
<1>5. s \in Seq(Slot) /\ Len(s) = n
  BY <1>2, <1>4
<1>6. \A i \in 1..n : s[i].ts = ts(i)
  BY <1>1
<1> QED BY <1>5, <1>6 DEF ts, n

\* Today's answer covers the hours up to the last full one of the day.
LEMMA TodaysAnswer ==
  ASSUME NEW asked \in Nat, hour \in asked..(asked + 1)
  PROVE  \E a \in asked..hour :
           /\ a <= NextDay(asked) - 1
           /\ Run(WithoutRepeated(<<>> \o ForecastOf(DayOf(asked))), a,
                  NextDay(asked) - 1)
<1> DEFINE start == DayStart(asked)
           end == NextDay(asked)
           s == ForecastOf(DayOf(asked))
<1>1. /\ DayOf(asked) \in Nat /\ start \in Nat /\ start <= asked /\ asked < end
      /\ end = start + DayHours /\ DayOf(asked) * DayHours = start
      /\ (DayOf(asked) + 1) * DayHours = end
  BY ForecastDayFacts
<1>2. DayHours \in Nat /\ DayHours > 2 /\ hour \in Nat
  BY ForecastAssumption
<1> HIDE DEF start, end, s
<1>3. /\ s \in Seq(Slot) /\ Len(s) = end - hour
      /\ \A i \in 1..(end - hour) : s[i].ts = IF hour + i = end THEN start
                                              ELSE hour + i
  <2> DEFINE day == DayOf(asked)
  <2>1. DayFrom(day) = start /\ DayTo(day) = end
    BY <1>1 DEF DayFrom, DayTo
  <2>2. day \in Nat
    BY <1>1
  <2> HIDE DEF day
  <2>3. FirstHour(day) = hour + 1 /\ LastHour(day) = end /\ HoursOf(day) = end - hour
    BY <1>1, <1>2, <2>1 DEF FirstHour, LastHour, HoursOf
  <2>4. s = ForecastOf(day)
    BY DEF s, day
  <2>5. /\ s \in Seq(Slot) /\ Len(s) = HoursOf(day)
        /\ \A i \in 1..HoursOf(day) :
             s[i].ts = IF FirstHour(day) + i - 1 = DayTo(day) THEN DayFrom(day)
                       ELSE FirstHour(day) + i - 1
    BY <1>2, <2>2, <2>4, ForecastIs
  <2>6. \A i \in 1..(end - hour) : (hour + 1) + i - 1 = hour + i
    BY <1>1, <1>2
  <2> QED BY <2>1, <2>3, <2>5, <2>6
<1>4. <<>> \o s = s
  BY <1>3
<1>5. CASE hour < end
  <2>1. /\ hour < end /\ Len(s) = end - hour
        /\ \A i \in 1..(Len(s) - 1) : s[i].ts = hour + i
    BY <1>1, <1>2, <1>3, <1>5
  <2>2. s[Len(s)].ts <= hour
    BY <1>1, <1>2, <1>3, <1>5
  <2>3. end \in Nat
    BY <1>1, <1>2
  <2>4. Run(WithoutRepeated(s), hour, end - 1)
    BY <1>2, <1>3, <2>1, <2>2, <2>3, RunRepeated
  <2>5. hour \in asked..hour /\ hour <= end - 1
    BY <1>1, <1>2, <1>5
  <2> QED BY <1>4, <2>4, <2>5 DEF s, end
<1>6. CASE hour = end
  <2>1. Len(s) = 0
    BY <1>1, <1>2, <1>3, <1>6
  <2>2. WithoutRepeated(s) = s
    BY <2>1 DEF WithoutRepeated
  <2>3. Run(s, end - 1, end - 1)
    BY <1>1, <1>2, <1>3, <2>1 DEF Run
  <2>4. end - 1 \in asked..hour /\ end - 1 <= end - 1
    BY <1>1, <1>2, <1>6
  <2> QED BY <1>4, <2>2, <2>3, <2>4 DEF s, end
<1> QED BY <1>1, <1>2, <1>5, <1>6

\* With tomorrow's, the hours go on without a gap.
LEMMA TomorrowsAnswer ==
  ASSUME NEW asked \in Nat, hour \in asked..(asked + 1),
         NEW a \in asked..hour, a <= NextDay(asked) - 1,
         NEW pre, Run(pre, a, NextDay(asked) - 1)
  PROVE  \E c \in asked..hour, b \in Nat :
           /\ c < b
           /\ Run(WithoutRepeated(pre \o ForecastOf(DayOf(asked) + 1)), c, b)
<1> DEFINE start == NextDay(asked)
           end == start + DayHours
           s == ForecastOf(DayOf(asked) + 1)
<1>1. /\ DayOf(asked) \in Nat /\ start \in Nat /\ asked < start
      /\ (DayOf(asked) + 1) * DayHours = start
      /\ (DayOf(asked) + 2) * DayHours = end
      /\ start <= asked + DayHours
  <2>1. /\ DayOf(asked) \in Nat /\ DayStart(asked) \in Nat
        /\ DayStart(asked) <= asked /\ asked < NextDay(asked)
        /\ NextDay(asked) = DayStart(asked) + DayHours
        /\ (DayOf(asked) + 1) * DayHours = NextDay(asked)
        /\ (DayOf(asked) + 2) * DayHours = NextDay(asked) + DayHours
    BY ForecastDayFacts
  <2>2. NextDay(asked) \in Nat
    BY <2>1, ForecastAssumption
  <2> QED BY <2>1, <2>2, ForecastAssumption
<1>2. DayHours \in Nat /\ DayHours > 2 /\ hour \in Nat /\ end \in Nat
  BY ForecastAssumption, <1>1
<1> DEFINE day == DayOf(asked) + 1
<1>3. day \in Nat /\ start = DayFrom(day) /\ end = DayTo(day)
  <2>1. day \in Nat /\ day + 1 = DayOf(asked) + 2
    BY <1>1
  <2> QED BY <1>1, <2>1 DEF DayFrom, DayTo
<1> DEFINE first == FirstHour(day)
           last == LastHour(day)
           n == HoursOf(day)
<1>5. /\ s \in Seq(Slot) /\ Len(s) = n
      /\ \A i \in 1..n : s[i].ts = IF first + i - 1 = end THEN start
                                   ELSE first + i - 1
  <2>1. s = ForecastOf(day)
    OBVIOUS
  <2> HIDE DEF start, end, day, s
  <2> QED BY <1>2, <1>3, <2>1, ForecastIs
<1>6. end = start + DayHours
  OBVIOUS
<1> HIDE DEF start, end, s, day
<1>7. CASE hour < start
  <2> DEFINE b == hour + DayHours
  <2>1. first = start /\ last = b /\ n = b - (start - 1) /\ n \in Nat /\ b < end
    <3>1. b < end /\ start <= b
      BY <1>1, <1>2, <1>6, <1>7
    <3>2. first = start
      BY <1>1, <1>2, <1>3, <1>7 DEF FirstHour
    <3>3. last = b
      BY <1>2, <1>3, <3>1 DEF LastHour
    <3>4. n = b - start + 1
      BY <1>1, <1>2, <3>1, <3>2, <3>3 DEF HoursOf
    <3> QED BY <1>1, <1>2, <3>1, <3>2, <3>3, <3>4
  <2> HIDE DEF first, last, n
  <2>2. Run(s, start - 1, b)
    <3>1. ASSUME NEW i \in 1..n PROVE s[i].ts = (start - 1) + i
      <4>1. first + i - 1 = (start - 1) + i /\ first + i - 1 # end
        BY <1>1, <1>2, <2>1
      <4> QED BY <1>5, <4>1
    <3> QED BY <1>5, <2>1, <3>1 DEF Run
  <2>3. start - 1 \in Nat /\ b \in Nat /\ a \in Nat
    BY <1>1, <1>2
  <2> HIDE DEF b
  <2>4. Run(pre \o s, a, b)
    BY <2>2, <2>3, JoinedRuns DEF start
  <2>5. a < b /\ b - a # 1
    BY <1>2 DEF b
  <2>6. WithoutRepeated(pre \o s) = pre \o s
    BY <2>3, <2>4, <2>5, RunNotRepeated
  <2> QED BY <2>3, <2>4, <2>5, <2>6 DEF s
<1>8. CASE hour = start
  <2>1. first = start + 1 /\ last = end /\ n = DayHours
    BY <1>1, <1>2, <1>3, <1>6, <1>8 DEF FirstHour, LastHour, HoursOf
  <2>2. pre = <<>>
    <3>1. a = start - 1
      BY <1>1, <1>2, <1>8 DEF start
    <3>2. pre \in Seq(Slot) /\ Len(pre) = 0
      BY <3>1, <1>1 DEF Run, start
    <3> QED BY <3>2
  <2> HIDE DEF first, last, n
  <2>3. pre \o s = s
    BY <1>5, <2>2
  <2>4. /\ Len(s) = end - start
        /\ \A i \in 1..(Len(s) - 1) : s[i].ts = start + i
        /\ s[Len(s)].ts <= start
    BY <1>1, <1>2, <1>5, <1>6, <1>8, <2>1
  <2>5. start < end
    BY <1>1, <1>2, <1>6
  <2>6. Run(WithoutRepeated(s), start, end - 1)
    BY <1>1, <1>2, <1>5, <2>4, <2>5, RunRepeated
  <2>7. start \in asked..hour /\ end - 1 \in Nat /\ start < end - 1
    BY <1>1, <1>2, <1>6, <1>8
  <2> HIDE DEF end
  <2> QED BY <2>3, <2>6, <2>7 DEF s
<1> QED BY <1>1, <1>2, <1>7, <1>8

----------------------------------------------------------------------------
(* The invariant *)

\* The details: what is shown is in the trend, and of the hour of the last
\* request while that is the current one.
DetailsTrue(d) ==
  /\ d \in Details /\ Ordered(d.trend) /\ d.poll <= hour
  /\ ShownOf(d)
  /\ d.poll = hour => d.this.ts = hour + 1

\* What is stored, if anything is.
DetailsInv == details = NoForecast \/ DetailsTrue(details)

\* What the sensor had saved is a trend.
SavedInv == saved \in Seq(Slot) /\ Ordered(saved)

\* A refresh asks for today, or has the rest of today and asks for tomorrow.
AsksToday(asked) ==
  /\ refresh = [at |-> "today", now |-> asked, new |-> <<>>]
  /\ hour \in asked..(asked + 1)

\* The rest of today is there, from the hour of the first answer on.
AsksTomorrow(asked, new) ==
  /\ refresh = [at |-> "tomorrow", now |-> asked, new |-> new]
  /\ hour \in asked..(asked + 1)
  /\ \E a \in asked..hour :
       a <= NextDay(asked) - 1 /\ Run(new, a, NextDay(asked) - 1)

\* How far a refresh is.
RefreshInv ==
  \/ refresh = NoRefresh
  \/ \E asked \in Nat : AsksToday(asked)
  \/ \E asked \in Nat : \E new : AsksTomorrow(asked, new)

\* The whole invariant.
ForecastInv == hour \in Nat /\ DetailsInv /\ SavedInv /\ RefreshInv

----------------------------------------------------------------------------
(* What the steps do to the details *)

\* What is shown is true again after an extraction.
LEMMA ShownTrue ==
  ASSUME NEW d \in Details, Ordered(d.trend), d.poll <= hour, hour \in Nat,
         d.this.ts = hour + 1 => ShownOf(d),
         d.poll = hour => \E slot : Has(d.trend, slot) /\ slot.ts = hour + 1
  PROVE  DetailsTrue(Shown(d))
<1> DEFINE r == Shown(d)
<1>1. /\ r \in Details /\ r.trend = d.trend /\ r.poll = d.poll
      /\ ShownOf(r)
      /\ (\E slot : Has(d.trend, slot) /\ slot.ts = hour + 1)
           => r.this.ts = hour + 1
  BY ShownIs
<1> HIDE DEF r
<1>2. DetailsTrue(r)
  BY <1>1 DEF DetailsTrue
<1> QED BY <1>2 DEF r

\* The current hour is in the trend after a request within it.
LEMMA HasCurrent ==
  ASSUME NEW d, DetailsTrue(d), d.poll = hour, hour \in Nat
  PROVE  Has(d.trend, d.this) /\ d.this.ts = hour + 1
<1>1. d.this.ts = hour + 1
  BY DEF DetailsTrue
<1>2. d.this # NoHour
  BY <1>1 DEF NoHour, Never
<1> QED BY <1>1, <1>2 DEF DetailsTrue, ShownOf, Of

\* A refresh starts from what is known, or from nothing.
LEMMA OldTrue ==
  ASSUME DetailsInv, hour \in Nat
  PROVE  /\ DetailsTrue(OldDetails)
<1>1. CASE details = NoForecast
  <2>1. OldDetails = Blank
    BY <1>1 DEF OldDetails, NoForecast
  <2>2. Blank \in Details
    BY DEF Blank, Details, Never
  <2>3. Ordered(Blank.trend) /\ Blank.poll <= hour /\ Blank.poll # hour
    BY DEF Blank, Ordered, Never
  <2>4. ShownOf(Blank)
    BY DEF ShownOf, Of, Blank
  <2> QED BY <2>1, <2>2, <2>3, <2>4 DEF DetailsTrue
<1>2. CASE DetailsTrue(details)
  <2>1. details.known
    BY <1>2 DEF DetailsTrue, Details
  <2> QED BY <1>2, <2>1 DEF OldDetails
<1> QED BY <1>1, <1>2 DEF DetailsInv

\* An hour shown that is still to come is of today or later.
LEMMA CurrentIsToday ==
  ASSUME hour \in Nat
  PROVE  hour + 1 >= DayStart(hour) /\ hour + 2 >= DayStart(hour)
<1>1. DayStart(hour) \in Nat /\ DayStart(hour) <= hour
  BY ForecastDayFacts
<1> QED BY <1>1

\* A refresh that asks for nothing.
LEMMA RefreshedIdle ==
  ASSUME NEW d, DetailsTrue(d), hour \in Nat
  PROVE  DetailsTrue(Refreshed(d, hour, <<>>))
<1> DEFINE trend == Grown(d.trend, hour, <<>>)
           e == [d EXCEPT !.trend = trend]
<1>1. d \in Details /\ d.trend \in Seq(Slot) /\ Ordered(d.trend)
  BY DEF DetailsTrue, Details
<1>2. /\ trend \in Seq(Slot) /\ Ordered(trend)
      /\ \A slot : Has(d.trend, slot) /\ slot.ts >= DayStart(hour) => Has(trend, slot)
  <2>1. <<>> \in Seq(Slot) /\ Ordered(<<>>)
    BY DEF Ordered
  <2> QED BY <1>1, <2>1, GrownFacts
<1>3. Refreshed(d, hour, <<>>) = Shown(e)
  BY DEF Refreshed, Grown
<1> HIDE DEF trend
<1>4. /\ e \in Details /\ e.trend = trend /\ e.poll = d.poll
      /\ e.this = d.this /\ e.next = d.next
  BY <1>1, <1>2 DEF Details
<1> HIDE DEF e
<1>5. hour + 1 >= DayStart(hour) /\ hour + 2 >= DayStart(hour)
  BY CurrentIsToday
<1>6. ASSUME e.this.ts = hour + 1 PROVE ShownOf(e)
  <2>1. d.this # NoHour
    BY <1>4, <1>6 DEF NoHour, Never
  <2>2. Has(trend, d.this)
    BY <1>2, <1>4, <1>5, <1>6, <2>1 DEF DetailsTrue, ShownOf, Of
  <2>3. d.next = NoHour \/ d.next.ts = hour + 2
    BY <1>4, <1>6, <2>1 DEF DetailsTrue, ShownOf
  <2>4. Of(trend, d.next)
    BY <1>2, <1>5, <2>3 DEF DetailsTrue, ShownOf, Of
  <2> QED BY <1>4, <2>2, <2>4 DEF ShownOf, Of, DetailsTrue
<1>7. ASSUME e.poll = hour
      PROVE  \E slot : Has(e.trend, slot) /\ slot.ts = hour + 1
  <2>1. Has(d.trend, d.this) /\ d.this.ts = hour + 1
    BY <1>4, <1>7, HasCurrent
  <2> QED BY <1>2, <1>4, <1>5, <2>1
<1>8. e.poll <= hour
  BY <1>4 DEF DetailsTrue
<1> QED BY <1>2, <1>3, <1>4, <1>6, <1>7, <1>8, ShownTrue

\* A refresh with an answer, which begins after the hour "a".
LEMMA RefreshedNew ==
  ASSUME NEW d, DetailsTrue(d), hour \in Nat, NEW asked \in Nat,
         hour \in asked..(asked + 1), NEW a \in asked..hour, NEW b \in Nat, a < b,
         NEW new, Run(new, a, b)
  PROVE  DetailsTrue(Refreshed(ShownAgain([d EXCEPT !.poll = asked]), asked, new))
<1> DEFINE b0 == [d EXCEPT !.poll = asked]
           c == ShownAgain(b0)
           trend == Grown(d.trend, asked, new)
           e == [c EXCEPT !.trend = trend]
<1>1. d \in Details /\ d.trend \in Seq(Slot) /\ Ordered(d.trend)
  BY DEF DetailsTrue, Details
<1>2. /\ c.trend = d.trend /\ c.poll = asked /\ c.this = NoHour /\ c.next = d.next
      /\ c \in Details
  <2>1. b0 \in Details
    <3>1. asked \in Int
      OBVIOUS
    <3> QED BY <1>1, <3>1 DEF Details
  <2>2. b0.trend = d.trend /\ b0.poll = asked /\ b0.next = d.next
    BY <1>1 DEF Details
  <2> HIDE DEF b0
  <2> QED BY <2>1, <2>2 DEF ShownAgain, Details
<1> HIDE DEF c
<1>3. Refreshed(c, asked, new) = Shown(e)
  BY <1>2 DEF Refreshed, Grown
<1>4. /\ new \in Seq(Slot) /\ Ordered(new)
      /\ 1 \in 1..Len(new) /\ new[1].ts = a + 1
  <2>1. new \in Seq(Slot) /\ Len(new) = b - a
    BY DEF Run
  <2>2. 1 \in 1..Len(new)
    BY <2>1
  <2>3. a \in Nat
    OBVIOUS
  <2> QED BY <2>1, <2>2, <2>3, RunOrdered DEF Run
<1>5. /\ trend \in Seq(Slot) /\ Ordered(trend)
      /\ \A slot : Has(new, slot) => Has(trend, slot)
  BY <1>1, <1>4, GrownFacts
<1> HIDE DEF trend
<1>6. e \in Details /\ e.trend = trend /\ e.poll = asked /\ e.this = NoHour
  BY <1>2, <1>5 DEF Details
<1> HIDE DEF e
<1>7. e.this.ts # hour + 1
  BY <1>6 DEF NoHour, Never
<1>8. ASSUME e.poll = hour
      PROVE  \E slot : Has(e.trend, slot) /\ slot.ts = hour + 1
  <2>1. a = hour
    BY <1>6, <1>8
  <2>2. Has(trend, new[1])
    BY <1>4, <1>5 DEF Has
  <2> QED BY <1>4, <1>6, <2>1, <2>2
<1>9. e.poll <= hour
  BY <1>6
<1>10. DetailsTrue(Shown(e))
  BY <1>5, <1>6, <1>7, <1>8, <1>9, ShownTrue
<1> QED BY <1>3, <1>10 DEF c

\* The sensor brings back what it had saved.
LEMMA RestoredTrue ==
  ASSUME NEW d, DetailsTrue(d), hour \in Nat, NEW old \in Seq(Slot), Ordered(old)
  PROVE  DetailsTrue(Shown([d EXCEPT !.trend =
                              KeptTrend(old, hour, FirstTs(@)) \o @]))
<1> DEFINE trend == Grown(old, hour, d.trend)
           e == [d EXCEPT !.trend = KeptTrend(old, hour, FirstTs(@)) \o @]
<1>1. d \in Details /\ d.trend \in Seq(Slot) /\ Ordered(d.trend)
  BY DEF DetailsTrue, Details
<1>2. /\ trend \in Seq(Slot) /\ Ordered(trend)
      /\ \A slot : Has(d.trend, slot) => Has(trend, slot)
  BY <1>1, GrownFacts
<1>3. e = [d EXCEPT !.trend = trend]
  BY <1>1 DEF Details, Grown
<1> HIDE DEF trend, e
<1>4. /\ e \in Details /\ e.trend = trend /\ e.poll = d.poll
      /\ e.this = d.this /\ e.next = d.next
  BY <1>1, <1>2, <1>3 DEF Details
<1>5. ShownOf(e)
  BY <1>2, <1>4 DEF DetailsTrue, ShownOf, Of
<1>6. ASSUME e.poll = hour
      PROVE  \E slot : Has(e.trend, slot) /\ slot.ts = hour + 1
  <2>1. Has(d.trend, d.this) /\ d.this.ts = hour + 1
    BY <1>4, <1>6, HasCurrent
  <2> QED BY <1>2, <1>4, <2>1
<1>7. e.poll <= hour
  BY <1>4 DEF DetailsTrue
<1>8. DetailsTrue(Shown(e))
  BY <1>2, <1>4, <1>5, <1>6, <1>7, ShownTrue
<1> QED BY <1>8 DEF e

\* The poll of the sites extracts the hours again.
LEMMA ExtractedShown ==
  ASSUME NEW d, DetailsTrue(d), hour \in Nat
  PROVE  DetailsTrue(Shown(d))
<1>1. ASSUME d.poll = hour
      PROVE  \E slot : Has(d.trend, slot) /\ slot.ts = hour + 1
  BY <1>1, HasCurrent
<1> QED BY <1>1, ShownTrue DEF DetailsTrue

----------------------------------------------------------------------------
(* The steps *)

\* A refresh begins, or asks for nothing.
LEMMA ForecastStarts ==
  ASSUME ForecastInv, StartForecast
  PROVE  ForecastInv'
<1>1. hour' = hour /\ saved' = saved /\ hour \in Nat /\ DetailsInv /\ SavedInv
      /\ RefreshInv
  BY DEF StartForecast, ForecastInv
<1>2. SavedInv'
  BY <1>1 DEF SavedInv
<1>3. CASE smart /\ (OldDetails.poll # hour \/ OldDetails.trend = <<>>)
  <2>1. /\ refresh' = [at |-> "today", now |-> hour, new |-> <<>>]
        /\ details' = details
    BY <1>3 DEF StartForecast
  <2>2. DetailsInv'
    BY <1>1, <2>1 DEF DetailsInv, DetailsTrue
  <2>3. AsksToday(hour)'
    BY <1>1, <2>1 DEF AsksToday
  <2>4. RefreshInv'
    BY <1>1, <2>1 DEF RefreshInv, AsksToday
  <2> QED BY <1>1, <1>2, <2>2, <2>4 DEF ForecastInv
<1>4. CASE ~(smart /\ (OldDetails.poll # hour \/ OldDetails.trend = <<>>))
  <2>1. details' = Refreshed(OldDetails, hour, <<>>) /\ refresh' = refresh
    BY <1>4 DEF StartForecast
  <2>2. DetailsTrue(details')
    BY <1>1, <2>1, OldTrue, RefreshedIdle
  <2>3. DetailsInv'
    BY <1>1, <2>2 DEF DetailsInv, DetailsTrue
  <2>4. RefreshInv'
    BY <1>1, <2>1 DEF RefreshInv, AsksToday, AsksTomorrow
  <2> QED BY <1>1, <1>2, <2>3, <2>4 DEF ForecastInv
<1> QED BY <1>3, <1>4

\* An answer arrives.
LEMMA ForecastAnswers ==
  ASSUME ForecastInv, AnswerForecast
  PROVE  ForecastInv'
<1>1. hour' = hour /\ saved' = saved /\ hour \in Nat /\ DetailsInv /\ SavedInv
  BY DEF AnswerForecast, ForecastInv
<1>2. SavedInv'
  BY <1>1 DEF SavedInv
<1>3. ASSUME NEW asked \in Nat, hour \in asked..(asked + 1), NEW a \in asked..hour,
             NEW b \in Nat, a < b, NEW new, Run(new, a, b),
             details' = Refreshed(ShownAgain([OldDetails EXCEPT !.poll = asked]),
                                  asked, new),
             refresh' = NoRefresh
      PROVE  ForecastInv'
  <2>1. DetailsTrue(details')
    BY <1>1, <1>3, OldTrue, RefreshedNew
  <2>2. DetailsInv'
    BY <1>1, <2>1 DEF DetailsInv, DetailsTrue
  <2> QED BY <1>1, <1>2, <1>3, <2>2 DEF ForecastInv, RefreshInv
<1>4. ASSUME NEW asked \in Nat, AsksToday(asked)
      PROVE  ForecastInv'
  <2> DEFINE new == WithoutRepeated(<<>> \o ForecastOf(DayOf(asked)))
  <2>1. refresh.at = "today" /\ refresh.now = asked /\ refresh.new = <<>>
        /\ hour \in asked..(asked + 1)
    BY <1>4 DEF AsksToday
  <2>2. DayOf(asked) + 0 = DayOf(asked)
    BY ForecastDayFacts
  <2>3. PICK a \in asked..hour :
          a <= NextDay(asked) - 1 /\ Run(new, a, NextDay(asked) - 1)
    BY <2>1, TodaysAnswer
  <2>4. CASE asked > DayStart(asked)
    <3>1. /\ refresh' = [refresh EXCEPT !.at = "tomorrow", !.new = new]
          /\ details' = details
      BY <2>1, <2>2, <2>4 DEF AnswerForecast
    <3> HIDE DEF new
    <3>2. refresh' = [at |-> "tomorrow", now |-> asked, new |-> new]
      BY <1>4, <3>1 DEF AsksToday
    <3>3. DetailsInv'
      BY <1>1, <3>1 DEF DetailsInv, DetailsTrue
    <3>4. RefreshInv'
      BY <1>1, <2>1, <2>3, <3>2 DEF RefreshInv, AsksTomorrow
    <3> QED BY <1>1, <1>2, <3>3, <3>4 DEF ForecastInv
  <2>5. CASE ~(asked > DayStart(asked))
    <3>1. /\ refresh' = NoRefresh
          /\ details' = Refreshed(ShownAgain([OldDetails EXCEPT !.poll = asked]),
                                  asked, new)
      BY <2>1, <2>2, <2>5 DEF AnswerForecast
    <3> HIDE DEF new
    <3>2. /\ DayStart(asked) \in Nat /\ NextDay(asked) = DayStart(asked) + DayHours
          /\ DayHours \in Nat /\ DayHours > 2
      BY ForecastDayFacts, ForecastAssumption
    <3>3. a < NextDay(asked) - 1 /\ NextDay(asked) - 1 \in Nat
      BY <2>1, <2>5, <3>2
    <3> QED BY <2>1, <2>3, <3>1, <3>3, <1>3
  <2> QED BY <2>4, <2>5
<1>5. ASSUME NEW asked \in Nat, NEW pre, AsksTomorrow(asked, pre)
      PROVE  ForecastInv'
  <2> DEFINE new == WithoutRepeated(pre \o ForecastOf(DayOf(asked) + 1))
  <2>1. refresh.at = "tomorrow" /\ refresh.now = asked /\ refresh.new = pre
        /\ hour \in asked..(asked + 1)
    BY <1>5 DEF AsksTomorrow
  <2>2. PICK a \in asked..hour :
          a <= NextDay(asked) - 1 /\ Run(pre, a, NextDay(asked) - 1)
    BY <1>5 DEF AsksTomorrow
  <2>3. PICK c \in asked..hour, b \in Nat : c < b /\ Run(new, c, b)
    BY <2>1, <2>2, TomorrowsAnswer
  <2>4. "tomorrow" # "today"
    OBVIOUS
  <2>5. /\ refresh' = NoRefresh
        /\ details' = Refreshed(ShownAgain([OldDetails EXCEPT !.poll = asked]),
                                asked, new)
    BY <2>1, <2>4 DEF AnswerForecast
  <2> HIDE DEF new
  <2> QED BY <2>1, <2>3, <2>5, <1>3
<1>6. refresh # NoRefresh
  BY DEF AnswerForecast
<1> QED BY <1>4, <1>5, <1>6 DEF ForecastInv, RefreshInv

\* An hour passes: the last request was in an earlier one then.
LEMMA HourPasses ==
  ASSUME ForecastInv, PassHour
  PROVE  ForecastInv'
<1>1. /\ hour' = hour + 1 /\ saved' = saved /\ details' = details
      /\ refresh' = refresh /\ hour \in Nat
      /\ refresh # NoRefresh => hour = refresh.now
  BY DEF PassHour, ForecastInv
<1>2. DetailsInv'
  <2>1. CASE details = NoForecast
    BY <1>1, <2>1 DEF DetailsInv
  <2>2. CASE DetailsTrue(details)
    <3>1. details.poll \in Int /\ details.poll <= hour
      BY <2>2 DEF DetailsTrue, Details
    <3>2. details.poll <= hour + 1 /\ details.poll # hour + 1
      BY <1>1, <3>1
    <3>3. DetailsTrue(details)'
      BY <1>1, <2>2, <3>2 DEF DetailsTrue
    <3> QED BY <3>3 DEF DetailsInv
  <2> QED BY <2>1, <2>2 DEF ForecastInv, DetailsInv
<1>3. RefreshInv'
  <2>1. CASE refresh = NoRefresh
    BY <1>1, <2>1 DEF RefreshInv
  <2>2. ASSUME NEW asked \in Nat, AsksToday(asked) PROVE RefreshInv'
    <3>1. refresh # NoRefresh /\ refresh.now = asked
      BY <2>2 DEF AsksToday, NoRefresh
    <3>2. hour + 1 \in asked..(asked + 1)
      BY <1>1, <3>1
    <3>3. AsksToday(asked)'
      BY <1>1, <2>2, <3>2 DEF AsksToday
    <3> QED BY <3>3 DEF RefreshInv
  <2>3. ASSUME NEW asked \in Nat, NEW new, AsksTomorrow(asked, new)
        PROVE  RefreshInv'
    <3>1. refresh # NoRefresh /\ refresh.now = asked
      BY <2>3 DEF AsksTomorrow, NoRefresh
    <3>2. hour + 1 \in asked..(asked + 1) /\ asked..hour \subseteq asked..(hour + 1)
      BY <1>1, <3>1
    <3>3. AsksTomorrow(asked, new)'
      BY <1>1, <2>3, <3>2 DEF AsksTomorrow
    <3> QED BY <3>3 DEF RefreshInv
  <2> QED BY <2>1, <2>2, <2>3 DEF ForecastInv, RefreshInv
<1> QED BY <1>1, <1>2, <1>3 DEF ForecastInv, SavedInv

\* Every step keeps the invariant.
LEMMA ForecastSteps ==
  ASSUME ForecastInv, [ForecastNext]_forecastVars
  PROVE  ForecastInv'
<1>1. hour \in Nat /\ DetailsInv /\ SavedInv /\ RefreshInv
  BY DEF ForecastInv
<1>2. ASSUME hour' = hour, details' = details PROVE DetailsInv'
  BY <1>1, <1>2 DEF DetailsInv, DetailsTrue
<1>3. ASSUME hour' = hour, refresh' = refresh PROVE RefreshInv'
  BY <1>1, <1>3 DEF RefreshInv, AsksToday, AsksTomorrow
<1>4. ASSUME refresh' = NoRefresh PROVE RefreshInv'
  BY <1>4 DEF RefreshInv
<1>5. ASSUME saved' = saved PROVE SavedInv'
  BY <1>1, <1>5 DEF SavedInv
<1>6. ASSUME hour' = hour, DetailsTrue(details') PROVE DetailsInv'
  BY <1>6 DEF DetailsInv, DetailsTrue
<1>7. ASSUME details.known PROVE DetailsTrue(details)
  BY <1>1, <1>7 DEF DetailsInv, NoForecast
<1>8. CASE StartForecast
  BY <1>8, ForecastStarts
<1>9. CASE AnswerForecast
  BY <1>9, ForecastAnswers
<1>10. CASE FailForecast
  <2>1. hour' = hour /\ details' = details /\ saved' = saved /\ refresh' = NoRefresh
    BY <1>10 DEF FailForecast
  <2> QED BY <1>1, <1>2, <1>4, <1>5, <2>1 DEF ForecastInv
<1>11. CASE ExtractForecast
  <2>1. /\ hour' = hour /\ saved' = saved /\ refresh' = refresh
        /\ details.known /\ details' = Shown(details)
    BY <1>11 DEF ExtractForecast
  <2>2. DetailsTrue(details')
    BY <1>1, <1>7, <2>1, ExtractedShown
  <2> QED BY <1>1, <1>3, <1>5, <1>6, <2>1, <2>2 DEF ForecastInv
<1>12. CASE RestoreForecast
  <2>1. /\ hour' = hour /\ refresh' = refresh /\ details.known /\ saved' = <<>>
        /\ \/ details' = details
           \/ details' = Shown([details EXCEPT !.trend =
                                  KeptTrend(saved, hour, FirstTs(@)) \o @])
    BY <1>12 DEF RestoreForecast
  <2>2. DetailsTrue(details')
    BY <1>1, <1>7, <2>1, RestoredTrue DEF SavedInv
  <2>3. SavedInv'
    BY <2>1 DEF SavedInv, Ordered
  <2> QED BY <1>1, <1>3, <1>6, <2>1, <2>2, <2>3 DEF ForecastInv
<1>13. CASE RestartForecast
  <2>1. /\ hour' = hour /\ details' = NoForecast /\ refresh' = NoRefresh
        /\ saved' = IF details.known THEN details.trend ELSE saved
    BY <1>13 DEF RestartForecast
  <2>2. SavedInv'
    <3>1. CASE details.known
      BY <1>7, <2>1, <3>1 DEF SavedInv, DetailsTrue, Details
    <3>2. CASE ~details.known
      BY <1>5, <2>1, <3>2
    <3> QED BY <3>1, <3>2
  <2>3. DetailsInv'
    BY <2>1 DEF DetailsInv
  <2> QED BY <1>1, <1>4, <2>1, <2>2, <2>3 DEF ForecastInv
<1>14. CASE SwitchSmart
  <2>1. hour' = hour /\ details' = details /\ saved' = saved /\ refresh' = refresh
    BY <1>14 DEF SwitchSmart
  <2> QED BY <1>1, <1>2, <1>3, <1>5, <2>1 DEF ForecastInv
<1>15. CASE PassHour
  BY <1>15, HourPasses
<1>16. CASE UNCHANGED forecastVars
  <2>1. hour' = hour /\ details' = details /\ saved' = saved /\ refresh' = refresh
    BY <1>16 DEF forecastVars
  <2> QED BY <1>1, <1>2, <1>3, <1>5, <2>1 DEF ForecastInv
<1> QED BY <1>8, <1>9, <1>10, <1>11, <1>12, <1>13, <1>14, <1>15, <1>16
        DEF ForecastNext

\* The invariant holds for any length of the day and any order of refreshes,
\* failures, restarts and hours (refresh_pv_forecast, energy.py:1026-1177).
THEOREM ForecastInvariant == ForecastSpec => []ForecastInv
<1>1. ForecastInit => ForecastInv
  <2> SUFFICES ASSUME ForecastInit PROVE ForecastInv
    OBVIOUS
  <2>1. hour \in Nat
    BY ForecastAssumption DEF ForecastInit
  <2>2. DetailsInv /\ SavedInv /\ RefreshInv
    BY DEF ForecastInit, DetailsInv, SavedInv, RefreshInv, Ordered
  <2> QED BY <2>1, <2>2 DEF ForecastInv
<1>2. ForecastInv /\ [ForecastNext]_forecastVars => ForecastInv'
  BY ForecastSteps
<1> QED BY <1>1, <1>2, PTL DEF ForecastSpec

\* No hour occurs twice in the trend.
THEOREM TrendsInOrder == ForecastSpec => []TrendInOrder
<1>1. ForecastInv => TrendInOrder
  <2> SUFFICES ASSUME ForecastInv, details.known,
                      NEW i \in 1..(Len(details.trend) - 1)
               PROVE  details.trend[i].ts < details.trend[i + 1].ts
    BY DEF TrendInOrder
  <2>1. DetailsTrue(details)
    BY DEF ForecastInv, DetailsInv, NoForecast
  <2>2. Ordered(details.trend) /\ Len(details.trend) \in Nat
    BY <2>1 DEF DetailsTrue, Details
  <2>3. i \in 1..Len(details.trend) /\ i + 1 \in 1..Len(details.trend) /\ i < i + 1
    BY <2>2
  <2> QED BY <2>2, <2>3 DEF Ordered
<1> QED BY <1>1, ForecastInvariant, PTL

\* The hours shown are the newest ones of the trend, and of the current hour
\* after a request within it.
THEOREM ShownHoursCurrent == ForecastSpec => []ShownHourCurrent
<1>1. ASSUME ForecastInv, details.known, NEW slot, Of(details.trend, slot),
             NEW i \in 1..Len(details.trend), details.trend[i].ts = slot.ts
      PROVE  details.trend[i] = slot
  <2>1. DetailsTrue(details)
    BY <1>1 DEF ForecastInv, DetailsInv, NoForecast
  <2>2. Ordered(details.trend) /\ details.trend \in Seq(Slot)
    BY <2>1 DEF DetailsTrue, Details
  <2>3. details.trend[i] \in Slot /\ details.trend[i].ts \in Nat
        /\ details.trend[i].ts # Never
    BY <2>2, SlotTs
  <2>4. slot # NoHour
    BY <1>1, <2>3 DEF NoHour
  <2>5. PICK k \in 1..Len(details.trend) : details.trend[k] = slot
    BY <1>1, <2>4 DEF Of, Has
  <2>6. ~(i < k) /\ ~(k < i)
    BY <1>1, <2>2, <2>3, <2>5 DEF Ordered
  <2>7. i = k
    BY <2>6
  <2> QED BY <2>5, <2>7
<1>2. ForecastInv => ShownHourCurrent
  <2> SUFFICES ASSUME ForecastInv, details.known
               PROVE  /\ (details.poll = hour => details.this.ts = hour + 1)
                      /\ \A i \in 1..Len(details.trend) :
                           /\ (details.trend[i].ts = details.this.ts
                                 => details.trend[i] = details.this)
                           /\ (details.trend[i].ts = details.next.ts
                                 => details.trend[i] = details.next)
    BY DEF ShownHourCurrent
  <2>1. DetailsTrue(details)
    BY DEF ForecastInv, DetailsInv, NoForecast
  <2>2. Of(details.trend, details.this) /\ Of(details.trend, details.next)
    BY <2>1 DEF DetailsTrue, ShownOf
  <2>3. details.poll = hour => details.this.ts = hour + 1
    BY <2>1 DEF DetailsTrue
  <2> QED BY <2>2, <2>3, <1>1
<1> QED BY <1>2, ForecastInvariant, PTL

----------------------------------------------------------------------------
(* DynamicPrices *)

\* The fee a price of a provider includes.
FeeOf(p, with) == IF p \in SpotProviders THEN with ELSE 0

\* The forecast is one of the provider's table with the fee given.
ListTrue(pr, with) ==
  pr.list # NoList =>
    /\ pr.list.provider = pr.provider
    /\ pr.list.fee = FeeOf(pr.provider, with)
    /\ pr.list.from = Midnights(pr.poll)

\* The price shown is the slot of the forecast for the hour of the extraction.
TotalTrue(pr) ==
  pr.total # NoPrice =>
    /\ pr.list # NoList
    /\ pr.total.provider = pr.list.provider
    /\ pr.total.fee = pr.list.fee
    /\ (pr.at < pr.list.to => pr.total.hour = pr.at)

PriceInv == ListTrue(prices, fee) /\ TotalTrue(prices)

\* Nothing is shown that was not calculated.
LEMMA EmptyTrue ==
  ASSUME NEW pr, NEW with, pr.list = NoList, pr.total = NoPrice
  PROVE  ListTrue(pr, with) /\ TotalTrue(pr)
  BY DEF ListTrue, TotalTrue

\* An extraction keeps true prices true, and one that is forced makes them so.
LEMMA ExtractedTrue ==
  ASSUME NEW old, NEW p, NEW table, NEW with, NEW force \in BOOLEAN,
         NEW initialize \in BOOLEAN,
         force \/ ListTrue(old, with)
  PROVE  /\ ListTrue(Extracted(old, p, table, with, force, initialize), with)
         /\ TotalTrue(Extracted(old, p, table, with, force, initialize))
<1> DEFINE new == Extracted(old, p, table, with, force, initialize)
<1>1. CASE ~old.known /\ ~initialize
  <2>1. new.list = NoList /\ new.total = NoPrice
    BY <1>1 DEF Extracted, NoPrices
  <2> QED BY <2>1, EmptyTrue
<1>2. CASE ~(~old.known /\ ~initialize) /\ table = NoTable
  <2>1. new.list = NoList /\ new.total = NoPrice
    BY <1>2 DEF Extracted, NoPrices
  <2> QED BY <2>1, EmptyTrue
<1>3. CASE ~(~old.known /\ ~initialize) /\ table # NoTable
  <2> DEFINE again == Recalculates(old, p, table, force)
             list == IF again THEN List(p, table, with) ELSE old.list
  <2>1. new = [known |-> TRUE, provider |-> p, list |-> list,
               poll |-> IF again THEN table.poll ELSE old.poll,
               total |-> PriceNow(list), at |-> now]
    BY <1>3 DEF Extracted
  <2>2. ListTrue(new, with)
    <3>1. CASE again
      BY <2>1, <3>1 DEF ListTrue, List, FeeOf
    <3>2. CASE ~again
      <4>1. ~force /\ old.provider = p
        BY <3>2 DEF Recalculates
      <4> QED BY <2>1, <3>2, <4>1 DEF ListTrue
    <3> QED BY <3>1, <3>2
  <2>3. TotalTrue(new)
    <3>1. CASE list = NoList \/ now < list.from
      BY <2>1, <3>1 DEF TotalTrue, PriceNow
    <3>2. CASE ~(list = NoList \/ now < list.from)
      <4>1. new.total = [hour |-> IF now < list.to THEN now ELSE list.to - 1,
                         provider |-> list.provider, fee |-> list.fee]
        BY <2>1, <3>2 DEF PriceNow
      <4>2. new.list = list /\ new.at = now
        BY <2>1
      <4> QED BY <3>2, <4>1, <4>2 DEF TotalTrue
    <3> QED BY <3>1, <3>2
  <2> QED BY <2>2, <2>3
<1> QED BY <1>1, <1>2, <1>3

\* What a step may do to the prices and the fee.
Kept == prices' = prices /\ fee' = fee
Extracts ==
  /\ fee' = fee
  /\ \E p, table : \E force, initialize \in BOOLEAN :
       prices' = Extracted(prices, p, table, fee, force, initialize)
ExtractsAgain ==
  \E p, table : prices' = Extracted(prices, p, table, fee', TRUE, FALSE)

\* A job of a poll or a call changes the prices by an extraction only.
LEMMA ProceedExtracts ==
  ASSUME NEW task, NEW job, NEW table, Proceed(task, job, table), fee' = fee
  PROVE  Kept \/ Extracts
  BY DEF Proceed, Customized, Kept, Extracts

\* So does its start.
LEMMA BeginExtracts ==
  ASSUME NEW task, NEW kind, NEW p, Begin(task, kind, p)
  PROVE  Kept \/ Extracts
<1> DEFINE job == [at |-> "prices", kind |-> kind, provider |-> p, now |-> now]
<1>1. fee' = fee
  BY DEF Begin
<1>2. prices' = prices \/ Proceed(task, job, AllTables)
  BY DEF Begin
<1> QED BY <1>1, <1>2, ProceedExtracts DEF Kept

\* And so does every step.
LEMMA StepExtracts ==
  ASSUME [PriceNext]_priceVars
  PROVE  Kept \/ Extracts \/ ExtractsAgain
<1>1. CASE ExtractPrice
  BY <1>1 DEF ExtractPrice, Extracts
<1>2. CASE PollPrices
  BY <1>2, BeginExtracts DEF PollPrices
<1>3. CASE SelectProvider
  BY <1>3, BeginExtracts DEF SelectProvider
<1>4. CASE RestoreProvider
  BY <1>4, BeginExtracts DEF RestoreProvider
<1>5. CASE AnswerSetting
  BY <1>5, ProceedExtracts DEF AnswerSetting
<1>6. CASE SetFee
  BY <1>6 DEF SetFee, Customized, ExtractsAgain
<1>7. CASE ChangeSetting
  BY <1>7 DEF ChangeSetting, Kept
<1>8. CASE ReadSetting
  BY <1>8 DEF ReadSetting, Kept
<1>9. CASE PassPriceHour
  BY <1>9 DEF PassPriceHour, Kept
<1>10. ASSUME NEW t \in Tasks, AnswerPrices(t)
       PROVE  Kept \/ Extracts
  BY <1>10, ProceedExtracts DEF AnswerPrices
<1>11. ASSUME NEW t \in Tasks, FailPrices(t)
       PROVE  Kept
  BY <1>11 DEF FailPrices, Kept
<1>12. CASE UNCHANGED priceVars
  BY <1>12 DEF priceVars, Kept
<1> QED BY <1>1, <1>2, <1>3, <1>4, <1>5, <1>6, <1>7, <1>8, <1>9, <1>10, <1>11,
           <1>12 DEF PriceNext

\* The prices a site shows are true (extractPriceData, apibase.py:2204): they
\* are those of the provider named beside them, with the fee of the user, for
\* the hour in which they were extracted, whatever polls, selections, fees and
\* failures come in between.
THEOREM PricesStayTrue == PriceSpec => []PriceShownTrue
<1>1. PriceInit => PriceInv
  <2> SUFFICES ASSUME PriceInit PROVE PriceInv
    OBVIOUS
  <2>1. prices.list = NoList /\ prices.total = NoPrice
    BY DEF PriceInit, NoPrices
  <2> QED BY <2>1, EmptyTrue DEF PriceInv
<1>2. PriceInv /\ [PriceNext]_priceVars => PriceInv'
  <2> SUFFICES ASSUME PriceInv, [PriceNext]_priceVars PROVE PriceInv'
    OBVIOUS
  <2>1. CASE Kept
    BY <2>1 DEF Kept, PriceInv, ListTrue, TotalTrue, NoList, NoPrice, FeeOf,
                Midnights
  <2>2. CASE Extracts
    <3>1. PICK p, table : \E force, initialize \in BOOLEAN :
            prices' = Extracted(prices, p, table, fee, force, initialize)
      BY <2>2 DEF Extracts
    <3>2. ListTrue(prices', fee) /\ TotalTrue(prices')
      BY <3>1, ExtractedTrue DEF PriceInv
    <3> QED BY <2>2, <3>2 DEF Extracts, PriceInv, ListTrue, TotalTrue
  <2>3. CASE ExtractsAgain
    <3>1. ListTrue(prices', fee') /\ TotalTrue(prices')
      BY <2>3, ExtractedTrue DEF ExtractsAgain
    <3> QED BY <3>1 DEF PriceInv, ListTrue, TotalTrue
  <2> QED BY <2>1, <2>2, <2>3, StepExtracts
<1>3. PriceInv => PriceShownTrue
  BY DEF PriceInv, ListTrue, TotalTrue, PriceShownTrue, FeeOf
<1> QED BY <1>1, <1>2, <1>3, PTL DEF PriceSpec
=============================================================================
