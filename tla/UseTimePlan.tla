---------------------------- MODULE UseTimePlan ----------------------------
(***************************************************************************)
(* The use time plan of a solarbank with AC charging: set_sb2_use_time()   *)
(* of solixapi/schedule.py.  The plan is a list of seasons; a season has   *)
(* time slots with tariffs for the weekdays and for the weekend, the       *)
(* prices of the tariffs used, and a flag that both day types are the      *)
(* same.  One call changes, inserts, splits, merges or deletes seasons,    *)
(* day types, slots, tariffs and prices in one pass over the seasons.      *)
(*                                                                         *)
(* A call leaves things out (Unset, or "none" for the day type).  The      *)
(* currency and the price of selling are left out.                         *)
(***************************************************************************)
EXTENDS Integers, Sequences, FiniteSets

CONSTANTS
  Months,        \* 12
  Hours,         \* 24
  Tariffs,       \* SolixTariffTypes, numbers
  TariffDef,     \* SolixDefaults.TARIFF_DEF
  PriceDef,      \* the fixed price of the site
  UseCalls,      \* the calls tried
  UsePlans,      \* the plans the schedule may hold first
  UseMonths,     \* the months calls are made in
  MaxUseCalls    \* bound on the calls of a behaviour

VARIABLES
  seasons,       \* schedule["use_time"]
  useMode,       \* the usage mode is the one of this plan
  useCall,       \* the last call, after its validation
  useCalls       \* number of calls made

useVars == <<seasons, useMode, useCall, useCalls>>

Missing == -1    \* Python's None

DayTypes == {"weekday", "weekend"}
Other(day) == IF day = "weekday" THEN "weekend" ELSE "weekday"

Larger(a, b) == IF a >= b THEN a ELSE b
Smaller(a, b) == IF a <= b THEN a ELSE b

\* The last element of a list of seasons or slots ends at a time.
EndLast(list, end) ==
  IF list = <<>> THEN <<>> ELSE [list EXCEPT ![Len(list)].end = end]

DefaultPlan(c) ==
  LET type == IF c.tariff = Missing THEN TariffDef ELSE c.tariff
      price == IF c.price = Missing THEN PriceDef ELSE c.price
  IN <<[start |-> 1, end |-> Months, same |-> TRUE,
        slots |-> [d \in DayTypes |->
                     <<[start |-> 0, end |-> Hours, type |-> type]>>],
        price |-> [d \in DayTypes |-> <<[type |-> type, price |-> price]>>]]>>

(***************************************************************************)
(* What is given: months, hours and tariffs within their ranges, as the    *)
(* code brings them, and plans of the form the cloud has.                  *)
(***************************************************************************)
TariffSlots == [start : Int, end : Int, type : Int]

TariffPrices == [type : Int, price : Int]

Seasons ==
  [start : Int, end : Int, same : BOOLEAN, slots : [DayTypes -> Seq(TariffSlots)],
   price : [DayTypes -> Seq(TariffPrices)]]

UseOrders ==
  [startMonth : 1..Months \cup {Missing}, endMonth : 1..Months \cup {Missing},
   startHour : 0..(Hours - 1) \cup {Missing}, endHour : 0..Hours \cup {Missing},
   day : DayTypes \cup {"all", "none"}, tariff : Tariffs \cup {Missing},
   price : Nat \cup {Missing}, delete : BOOLEAN, merge : BOOLEAN, clear : BOOLEAN,
   month : Int, hour : Int, today : DayTypes, raised : BOOLEAN]

ASSUME UseAssumption ==
  /\ Months \in Nat \ {0} /\ Hours \in Nat \ {0}
  /\ Tariffs \subseteq Nat /\ TariffDef \in Tariffs /\ PriceDef \in Nat
  /\ UseCalls \subseteq UseOrders /\ UseMonths \subseteq 1..Months
  /\ UsePlans \subseteq Seq(Seasons)

(***************************************************************************)
(* The call.  An end before the start is ignored.  What a deletion is for  *)
(* follows from what else was given, the smallest scope first.             *)
(***************************************************************************)
Validated(c) ==
  [c EXCEPT
     !.endMonth = IF c.startMonth # Missing /\ @ < c.startMonth
                  THEN Missing ELSE @,
     !.endHour = IF c.startHour # Missing /\ @ <= c.startHour
                 THEN Missing ELSE @]

HourGiven(c) == c.startHour # Missing \/ c.endHour # Missing

\* An end at midnight, the time 0:00, names no slot to delete.
SlotGiven(c) == c.startHour # Missing \/ c.endHour \notin {Missing, 0}

Scope(c) ==
  IF ~c.delete THEN "none"
  ELSE IF SlotGiven(c) THEN "slot"
  ELSE IF c.tariff # Missing THEN "tariff"
  ELSE IF c.day \in DayTypes THEN "daytype"
  ELSE IF c.startMonth # Missing \/ c.endMonth # Missing THEN "season"
  ELSE IF c.price = Missing THEN "plan" ELSE "none"

\* Deletions within seasons.
Low(c) == Scope(c) \in {"daytype", "tariff", "slot"}

FindMonth(c) ==
  IF c.startMonth # Missing THEN c.startMonth
  ELSE IF c.endMonth # Missing THEN c.endMonth ELSE c.month

FindHour(c) ==
  IF c.startHour # Missing THEN c.startHour
  ELSE IF c.endHour # Missing THEN c.endHour - 1 ELSE c.hour

(***************************************************************************)
(* The slots of a day type.  State of the walk: the new slots, the tariffs *)
(* found, the hour the next slot is delayed to, the hours of the call and  *)
(* the tariff whose price it changes.                                      *)
(***************************************************************************)
\* A price without hours is for the tariff, it does not change slots.
ChangesTariff(c, slots) ==
  /\ c.tariff # Missing
  /\ c.price = Missing \/ HourGiven(c) \/ Len(slots) = 1
  /\ ~Low(c)

SlotStart(c) ==
  [out |-> <<>>, found |-> {}, delay |-> Missing,
   start |-> c.startHour, end |-> c.endHour, type |-> c.tariff]

\* Faulty: a slot is merged with one of another tariff.
JoinedAlways(c, w, slot) ==
  IF w.out # <<>> /\ c.merge THEN [w EXCEPT !.out = EndLast(@, slot.end)]
  ELSE [w EXCEPT !.out = Append(@, slot), !.found = @ \cup {slot.type}]

\* A slot is appended, or merged with one of the same tariff before it.
Joined(c, w, slot) ==
  IF w.out # <<>> /\ w.out[Len(w.out)].type = slot.type /\ c.merge
  THEN [w EXCEPT !.out = EndLast(@, slot.end)]
  ELSE [w EXCEPT !.out = Append(@, slot), !.found = @ \cup {slot.type}]

\* Slots up to an hour are gone: the slot before them fills the gap.
Gone(w, to) == [w EXCEPT !.delay = to, !.out = EndLast(@, to)]

\* The slot is the one looked for; from is its start as it is now.
SlotHit(c, w, slot, old, change) ==
  LET none == w.start = Missing
      start == IF none THEN old.start ELSE w.start
      asked == IF none THEN old.end ELSE w.end
      before == IF ~none /\ start > old.start /\ asked # Missing
                THEN Joined(c, w, [slot EXCEPT !.end = start]) ELSE w
      splits == /\ asked # Missing
                /\ asked < old.end
                /\ (change /\ c.tariff # slot.type) \/ ~c.merge
      end == IF splits THEN asked ELSE Larger(asked, old.end)
      new == [slot EXCEPT !.start = start, !.end = end,
                          !.type = IF change THEN c.tariff ELSE @]
      done == Joined(c, [before EXCEPT
                !.start = start, !.end = end,
                !.delay = IF asked > old.end THEN asked ELSE @,
                !.type = IF ~change /\ @ = Missing THEN slot.type ELSE @],
                new)
  IN IF splits
     THEN [done EXCEPT !.out = Append(@, [slot EXCEPT !.start = asked]),
                       !.found = @ \cup {slot.type}]
     ELSE done

SlotTurn(c, w, old, change) ==
  LET first == w.delay # Missing /\ w.out = <<>> /\ w.delay < Hours
      over == w.delay # Missing /\ old.end <= w.delay
      slot == IF w.delay = Missing THEN old
              ELSE [old EXCEPT !.start = IF w.out = <<>> THEN 0 ELSE w.delay]
      v == [w EXCEPT !.delay = Missing]
      hit == old.start <= FindHour(c) /\ FindHour(c) < old.end
      gone == Scope(c) = "tariff" /\ old.type = c.tariff
      to == Larger(v.end, old.end)
  IN CASE gone -> Gone(w, Larger(w.delay, old.end))
       [] ~gone /\ first ->
            [v EXCEPT !.out = <<[old EXCEPT !.start = 0]>>,
                      !.found = @ \cup {old.type}]
       [] ~gone /\ ~first /\ over -> w
       [] ~gone /\ ~first /\ ~over /\ hit ->
            IF Scope(c) = "slot"
            THEN [Gone(v, to) EXCEPT !.start = old.start, !.end = to]
            ELSE SlotHit(c, v, slot, old, change)
       [] OTHER -> Joined(c, v, slot)

SlotWalk(c, slots) ==
  LET change == ChangesTariff(c, slots)
      turn[i \in 0..Len(slots)] ==
        IF i = 0 THEN SlotStart(c) ELSE SlotTurn(c, turn[i - 1], slots[i], change)
  IN turn[Len(slots)]

(***************************************************************************)
(* The prices of a day type: those of tariffs no slot has any more are     *)
(* cleared, that of the call is changed, and the tariffs found without a   *)
(* price get one in line with the others (lower types are dearer).         *)
(***************************************************************************)
Ascending(types) ==
  LET n == Cardinality(types)
  IN [i \in 1..n |-> CHOOSE t \in types :
                       Cardinality({u \in types : u <= t}) = i]

PriceTurn(c, found, type, w, old) ==
  LET gone == /\ c.clear
              /\ (Scope(c) = "tariff" /\ old.type = type)
                 \/ old.type \notin found
      new == IF c.price # Missing /\ old.type = type
             THEN [old EXCEPT !.price = c.price] ELSE old
      default == IF c.price # Missing \/ type = Missing \/ type = old.type
                 THEN w.default
                 ELSE IF type < old.type THEN Larger(w.default, new.price)
                 ELSE Smaller(w.default, new.price)
  IN IF gone THEN w
     ELSE [out |-> Append(w.out, new), default |-> default]

\* The prices after a walk over the slots, and the default of the next one.
PriceWalk(c, walked, prices, default) ==
  LET turn[i \in 0..Len(prices)] ==
        IF i = 0 THEN [out |-> <<>>, default |-> default]
        ELSE PriceTurn(c, walked.found, walked.type, turn[i - 1], prices[i])
      done == turn[Len(prices)]
      missing == Ascending(walked.found \ {prices[i].type : i \in 1..Len(prices)})
      added == [i \in 1..Len(missing) |->
                  [type |-> missing[i],
                   price |-> IF c.price # Missing THEN c.price
                             ELSE done.default]]
  IN [done EXCEPT !.out = @ \o added]

(***************************************************************************)
(* The day types of a season.  A deletion for one day type is made to the  *)
(* other one, which is then copied.  State of the walk over the seasons w: *)
(* out are the new seasons, find the month looked for, start and end the   *)
(* months of the call, delay the month the next season is delayed to, days *)
(* the day types last chosen, default the default price; failed: no day    *)
(* type was ever chosen, the code raises.                                  *)
(***************************************************************************)
DaysOf(c, w, season) ==
  CASE Low(c) /\ season.same ->
         IF Scope(c) = "daytype" THEN <<>> ELSE <<"weekday">>
    [] Low(c) /\ ~season.same /\ c.day \in DayTypes -> <<Other(c.day)>>
    [] Low(c) /\ ~season.same /\ c.day \notin DayTypes -> w.days
    [] ~Low(c) /\ c.day \in DayTypes -> <<c.day>>
    [] ~Low(c) /\ c.day \notin DayTypes /\ season.same -> <<"weekday">>
    [] ~Low(c) /\ c.day = "all" /\ ~season.same -> <<"weekday", "weekend">>
    [] OTHER -> <<c.today>>

\* The day type the changed one is copied to.
CopyOf(c, season) ==
  IF Low(c)
  THEN IF season.same
       THEN IF Scope(c) = "daytype" THEN "none" ELSE "weekend"
       ELSE IF c.day \in DayTypes THEN c.day ELSE "none"
  ELSE IF season.same /\ c.day \notin DayTypes THEN "weekend" ELSE "none"

SameFirst(c, season) ==
  IF Low(c) THEN season.same \/ c.day \in DayTypes
  ELSE season.same /\ c.day \notin DayTypes

\* Faulty: the copied day type keeps its own prices.
CopiedSlots(season, day, to) ==
  [season EXCEPT !.slots[to] = season.slots[day]]

Copied(season, day, to) ==
  [season EXCEPT !.slots[to] = season.slots[day],
                 !.price[to] = season.price[day]]

\* A day type that has slots left: new is the season with them.
DayKept(v, new, day, copy, isLast, default) ==
  LET same == \/ v.same
              \/ /\ copy = "none"
                 /\ isLast
                 /\ new.slots[day] = new.slots[Other(day)]
                 /\ new.price[day] = new.price[Other(day)]
      copied == IF copy = "none" THEN new ELSE Copied(new, day, copy)
  IN [season |-> <<[copied EXCEPT !.same = same]>>, same |-> same,
      default |-> default]

DayPriced(v, season, day, copy, isLast, out, priced) ==
  IF out # <<>>
  THEN DayKept(v, [season EXCEPT !.slots[day] = out,
                                 !.price[day] = priced.out],
               day, copy, isLast, priced.default)
  ELSE IF ~v.same
  THEN [v EXCEPT !.same = TRUE,
          !.season = <<[Copied(season, Other(day), day)
                          EXCEPT !.same = TRUE]>>]
  ELSE [v EXCEPT !.season = <<>>]

DayWalked(c, v, season, day, copy, isLast, walked) ==
  DayPriced(v, season, day, copy, isLast, walked.out,
            PriceWalk(c, walked, season.price[day], v.default))

\* One day type.  v.season is <<>> when no slot is left of both day types.
DayTurn(c, v, day, copy, isLast) ==
  DayWalked(c, v, v.season[1], day, copy, isLast,
            SlotWalk(c, v.season[1].slots[day]))

DaysWalk(c, w, season, old) ==
  LET days == DaysOf(c, w, old)
      turn[i \in 0..Len(days)] ==
        IF i = 0
        THEN [season |-> <<season>>, same |-> SameFirst(c, old),
              default |-> w.default]
        ELSE DayTurn(c, turn[i - 1], days[i], CopyOf(c, old), i = Len(days))
  IN turn[Len(days)]

(***************************************************************************)
(* The seasons.                                                            *)
(***************************************************************************)
SeasonStart(c) ==
  [out |-> <<>>, find |-> FindMonth(c), start |-> c.startMonth,
   end |-> c.endMonth, delay |-> Missing, days |-> <<>>,
   default |-> IF c.price = Missing THEN PriceDef ELSE c.price,
   failed |-> FALSE]

\* The season is deleted, up to the last month of the call if that is later.
SeasonGone(c, w, old) ==
  LET end == IF w.start # Missing THEN Larger(w.end, old.end) ELSE old.end
  IN [w EXCEPT !.end = end, !.delay = end + 1, !.out = EndLast(@, end)]

\* The months of a season before those of the call go on as they were.
SplitBefore(w, season, splits) ==
  IF splits THEN Append(w.out, [season EXCEPT !.end = w.start - 1]) ELSE w.out

\* A deletion within seasons goes on with the seasons that follow, up to the
\* last month of the call.
NextMonth(c, w, old, end) ==
  IF Low(c) /\ end > old.end THEN old.end + 1 ELSE w.find

\* What the walk over the day types left of the season, with the months
\* before and after those of the call.
SeasonWalked(c, w, old, end, out, rest, walked) ==
  [w EXCEPT
     !.default = walked.default,
     !.delay = IF walked.season = <<>> THEN old.end + 1
               ELSE IF ~Low(c) /\ end > old.end THEN end + 1 ELSE @,
     !.out = (IF walked.season = <<>> THEN EndLast(out, old.end)
              ELSE Append(out, walked.season[1])) \o rest]

\* The season is the one looked for.
SeasonHit(c, w, season, old) ==
  LET low == Low(c)
      none == w.start = Missing
      start == IF low \/ none THEN old.start ELSE w.start
      asked == IF ~low /\ none THEN old.end ELSE w.end
      end == IF asked = Missing THEN old.end ELSE asked
      out == SplitBefore(w, season,
               ~low /\ ~none /\ start > old.start /\ asked # Missing)
      new == IF low THEN season
             ELSE [season EXCEPT !.start = start, !.end = end]
      days == DaysOf(c, w, old)
      rest == IF ~low /\ asked # Missing /\ asked < old.end
              THEN <<[season EXCEPT !.start = asked + 1]>> ELSE <<>>
      hit == [w EXCEPT !.start = start, !.end = end, !.days = days,
                       !.find = NextMonth(c, w, old, end)]
  IN IF low /\ ~old.same /\ days = <<>> THEN [w EXCEPT !.failed = TRUE]
     ELSE SeasonWalked(c, hit, old, end, out, rest,
                       DaysWalk(c, w, new, old))

SeasonTurn(c, w, old) ==
  LET first == /\ w.delay # Missing
               /\ w.out = <<>>
               /\ w.delay <= Months
               /\ w.find < old.start
      over == /\ w.delay # Missing
              /\ old.end < w.delay
              /\ w.find < old.start
      season == IF w.delay = Missing THEN old
                ELSE [old EXCEPT !.start = IF w.out = <<>> THEN 1 ELSE w.delay]
      v == [w EXCEPT !.delay = Missing]
      hit == old.start <= w.find /\ w.find <= old.end
  IN CASE w.failed -> w
       [] ~w.failed /\ first -> [v EXCEPT !.out = <<[old EXCEPT !.start = 1]>>]
       [] ~w.failed /\ ~first /\ over -> w
       [] ~w.failed /\ ~first /\ ~over /\ hit ->
            IF Scope(c) = "season" THEN SeasonGone(c, v, old)
            ELSE SeasonHit(c, v, season, old)
       [] OTHER -> [v EXCEPT !.out = Append(@, season)]

SeasonWalk(c, plan) ==
  LET turn[i \in 0..Len(plan)] ==
        IF i = 0 THEN SeasonStart(c) ELSE SeasonTurn(c, turn[i - 1], plan[i])
  IN turn[Len(plan)]

UseInit ==
  /\ seasons \in UsePlans
  /\ useMode \in BOOLEAN
  /\ useMode => seasons # <<>>
  /\ useCall = [raised |-> FALSE]
  /\ useCalls = 0

\* The call is accepted and the plan read again.  When the whole plan goes
\* while the usage mode needs it, or no day type was chosen, the code raises
\* and nothing is sent.
SetUseTime(c, month, hour, today) ==
  LET call == Validated([c EXCEPT !.month = month, !.hour = hour,
                                  !.today = today])
      plan == IF seasons = <<>> THEN DefaultPlan(call) ELSE seasons
      done == SeasonWalk(call, plan)
      out == IF Scope(call) = "plan" THEN <<>> ELSE done.out
      raises == done.failed \/ (out = <<>> /\ useMode)
  IN /\ seasons' = IF done.failed /\ Scope(call) # "plan" THEN seasons ELSE out
     /\ useCall' = [call EXCEPT !.raised = raises]
     /\ useCalls' = useCalls + 1
     /\ UNCHANGED useMode

UseNext ==
  \E c \in UseCalls, month \in UseMonths, hour \in 0..(Hours - 1),
     today \in DayTypes :
    useCalls < MaxUseCalls /\ SetUseTime(c, month, hour, today)

UseSpec == UseInit /\ [][UseNext]_useVars

(***************************************************************************)
(* Properties.                                                             *)
(***************************************************************************)
\* The seasons follow each other through the year.
CoversYear(plan) ==
  /\ plan # <<>>
  /\ plan[1].start = 1
  /\ plan[Len(plan)].end = Months
  /\ \A i \in 1..Len(plan) : plan[i].start <= plan[i].end
  /\ \A i \in 2..Len(plan) : plan[i].start = plan[i - 1].end + 1

\* The slots follow each other through the day.
CoversDay(slots) ==
  /\ slots # <<>>
  /\ slots[1].start = 0
  /\ slots[Len(slots)].end = Hours
  /\ \A i \in 1..Len(slots) : slots[i].start < slots[i].end
  /\ \A i \in 2..Len(slots) : slots[i].start = slots[i - 1].end

\* No tariff has two prices, and each tariff of a slot has one.
PricedOnce(prices) ==
  \A i, j \in 1..Len(prices) : i # j => prices[i].type # prices[j].type
PricedAll(slots, prices) ==
  \A i \in 1..Len(slots) : \E j \in 1..Len(prices) : prices[j].type = slots[i].type
Priced(season) ==
  \A d \in DayTypes : /\ PricedOnce(season.price[d])
                      /\ PricedAll(season.slots[d], season.price[d])

Complete(plan) ==
  /\ CoversYear(plan)
  /\ \A i \in 1..Len(plan) :
       /\ \A d \in DayTypes : CoversDay(plan[i].slots[d])
       /\ Priced(plan[i])
       /\ plan[i].same => /\ plan[i].slots["weekday"] = plan[i].slots["weekend"]
                          /\ plan[i].price["weekday"] = plan[i].price["weekend"]

\* A start without an end leaves what was before the start without a season
\* or slot (schedule.py:2699, 2837: the split waits for an end, unlike what
\* the docstring says at 2358, "If start month splits existing season, reduce
\* end month of previous season slot", and at 2376).
OpenEnded(c) ==
  ~c.delete /\ (\/ c.startMonth # Missing /\ c.endMonth = Missing
                \/ c.startHour # Missing /\ c.endHour = Missing)

\* A complete plan stays complete whatever a call splits, extends, merges or
\* deletes, unless it is deleted whole: the seasons cover the year and the
\* slots the day without a gap or an overlap, each tariff used has one price,
\* and the flag that both day types are the same is true.
UsePlanStaysComplete ==
  [][useCalls' # useCalls /\ Complete(seasons) /\ ~OpenEnded(useCall')
     => seasons' = <<>> \/ Complete(seasons')]_useVars

SeasonOf(plan, m) ==
  plan[CHOOSE i \in 1..Len(plan) : plan[i].start <= m /\ m <= plan[i].end]
SlotOf(slots, h) ==
  slots[CHOOSE i \in 1..Len(slots) : slots[i].start <= h /\ h < slots[i].end]
TariffAt(plan, m, d, h) == SlotOf(SeasonOf(plan, m).slots[d], h).type

\* Calls whose effect is not what the docstring (schedule.py:2353-2408) or the
\* rules of INFO.md:934-970 say:
\*  - a change with a start and no end is OpenEnded, above; one with an end and
\*    no start is made to the whole season or slot (2695, 2833), as INFO.md:939
\*    has it, but the docstring splits them at the end (2364, 2382);
\*  - an end at midnight, 0:00, is before every hour for a change and no hour
\*    at all for a deletion (2540, 2548);
\*  - a tariff with a price and no hours changes the price only, where there is
\*    more than one slot (2778); INFO.md:946 changes the tariff, too;
\*  - a deletion of slots or tariffs for one day type is made to both where they
\*    are the same (2728), and to the other one, or that of an earlier season,
\*    where they are not (2735); the docstring has the selected one (2398, 2400);
\*  - a deletion with a tariff and an hour deletes the slot (2548), as INFO.md:961
\*    has it; in the docstring the tariff comes first (2398);
\*  - a deletion of one day type changes nothing where they are the same (2734);
\*    INFO.md:966 deletes the season;
\*  - a deletion from the first season or slot on, to the end of the next one or
\*    later, deletes the first only: the next is stretched to the start (2664,
\*    2800) unless the range goes to the end; the documents have all of them;
\*  - a deletion with a price only deletes nothing (2556), one of all day types
\*    without months the plan (2554); in the docstring these delete the plan
\*    (2408) and the season (2405).
\* Where the two documents differ and the code does as the docstring says, the
\* docstring is meant: a new range keeps the tariff it had (2385; off peak in
\* INFO.md:943), and whole slots and seasons are deleted (2400, 2406; the range
\* as given in INFO.md:960, 969).
UnlikeDocs(c, plan) ==
  LET equal == \E i \in 1..Len(plan) : plan[i].same
      odd == \E i \in 1..Len(plan) : ~plan[i].same
      several == \E i \in 1..Len(plan), d \in DayTypes : Len(plan[i].slots[d]) > 1
  IN \/ OpenEnded(c) \/ c.endHour = 0
     \/ /\ ~c.delete
        /\ \/ c.startMonth = Missing /\ c.endMonth # Missing
           \/ c.startHour = Missing /\ c.endHour # Missing
           \/ c.tariff # Missing /\ c.price # Missing /\ ~HourGiven(c) /\ several
     \/ Scope(c) \in {"slot", "tariff"} /\ (c.day \in DayTypes \/ odd)
     \/ Scope(c) = "slot" /\ c.tariff # Missing
     \/ Scope(c) = "daytype" /\ equal
     \/ Scope(c) = "season" /\ Len(plan) > 1 /\ FindMonth(c) <= plan[1].end
                           /\ plan[2].end <= c.endMonth
     \/ Scope(c) = "slot" /\ \E i \in 1..Len(plan) :
          LET slots == plan[i].slots["weekday"]
          IN Len(slots) > 1 /\ FindHour(c) < slots[1].end /\ slots[2].end <= c.endHour
     \/ c.delete /\ Scope(c) = "none"
     \/ Scope(c) = "plan" /\ c.day = "all"

\* The months, the day types and the hours a change is for.
MonthsOf(c, plan) ==
  LET season == SeasonOf(plan, FindMonth(c))
  IN IF c.startMonth = Missing THEN season.start..season.end
     ELSE c.startMonth..c.endMonth
DayTypesOf(c, season) ==
  IF c.day \in DayTypes THEN {c.day}
  ELSE IF c.day = "all" \/ season.same THEN DayTypes ELSE {c.today}
HoursOf(c, slots) ==
  LET slot == SlotOf(slots, FindHour(c))
  IN IF c.startHour = Missing THEN slot.start..(slot.end - 1)
     ELSE c.startHour..(c.endHour - 1)

\* A change makes one season of the months it is for, like the season of the
\* first of them, with the tariff that was asked for in the hours it is for
\* (one tariff for all of these hours, if none was asked for); all other
\* months, day types and hours keep their tariffs.
ChangeExact(c) ==
  LET like == SeasonOf(seasons, FindMonth(c))
  IN \A m \in 1..Months, d \in DayTypes, h \in 0..(Hours - 1) :
       TariffAt(seasons', m, d, h) =
         IF m \notin MonthsOf(c, seasons) THEN TariffAt(seasons, m, d, h)
         ELSE IF d \in DayTypesOf(c, like) /\ h \in HoursOf(c, like.slots[d])
         THEN IF c.tariff # Missing THEN c.tariff
              ELSE SlotOf(like.slots[d], FindHour(c)).type
         ELSE SlotOf(like.slots[d], h).type

\* The months a deletion is for, and the hours one of a slot is for.
DeletedMonths(c, plan) ==
  LET season == SeasonOf(plan, FindMonth(c))
      last == IF c.startMonth = Missing \/ c.endMonth = Missing THEN season.end
              ELSE SeasonOf(plan, c.endMonth).end
  IN season.start..(IF Scope(c) = "season" /\ c.startMonth # Missing
                    THEN Larger(season.end, c.endMonth) ELSE last)
DeletedHours(c, slots) ==
  LET slot == SlotOf(slots, FindHour(c))
  IN slot.start..((IF c.startHour = Missing THEN slot.end
                   ELSE Larger(slot.end, c.endHour)) - 1)

\* The times next to those deleted.
Beside(times, deleted) ==
  {n \in times \ deleted : n - 1 \in deleted \/ n + 1 \in deleted}

\* A deletion is felt in the months and hours it is for and in no other.  What
\* is deleted goes to the season or slot before or after it, a deleted day type
\* becomes like the other one, and a tariff that is deleted is gone, as long as
\* another one remains that day (a season without slots is filled by its
\* neighbour).
DeletionExact(c) ==
  LET months == DeletedMonths(c, seasons)
  IN \A m \in 1..Months, d \in DayTypes, h \in 0..(Hours - 1) :
       LET slots == SeasonOf(seasons, m).slots
           was == SlotOf(slots[d], h).type
           is == TariffAt(seasons', m, d, h)
           left == \E i \in 1..Len(slots[d]) : slots[d][i].type # c.tariff
           hours == DeletedHours(c, slots[d])
           near == Beside(0..(Hours - 1), hours)
       IN IF m \notin months THEN is = was
          ELSE CASE Scope(c) = "season" ->
                      \E n \in Beside(1..Months, months) :
                        is = TariffAt(seasons, n, d, h)
                 [] Scope(c) = "daytype" ->
                      is = SlotOf(slots[Other(c.day)], h).type
                 [] Scope(c) = "tariff" ->
                      IF was # c.tariff THEN is = was ELSE left => is # c.tariff
                 [] OTHER ->
                      IF h \notin hours THEN is = was
                      ELSE near = {} \/ \E n \in near : is = SlotOf(slots[d], n).type

\* Changes and deletions reach what the docstring says they are for, and nothing
\* else, but for the calls named above.
UseEditsExact ==
  [][useCalls' # useCalls /\ Complete(seasons) /\ seasons' # <<>>
       /\ ~UnlikeDocs(useCall', seasons)
     => IF useCall'.delete THEN DeletionExact(useCall')
        ELSE ChangeExact(useCall')]_useVars
=============================================================================
