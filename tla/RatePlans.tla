----------------------------- MODULE RatePlans -----------------------------
(***************************************************************************)
(* The schedule of a solarbank of the second or a later generation:        *)
(* set_sb2_home_load() and set_sb2_ac_charge() of solixapi/schedule.py.    *)
(*                                                                         *)
(* The schedule names the usage mode and holds a list of plans for each of *)
(* the manual mode and the smart plug mode.  A plan has an index, a set of *)
(* weekdays and a list of slots.  A call finds the plan of the weekdays it *)
(* is for, reuses, extends or clones it, takes the weekdays away from the  *)
(* other plans, and walks over the plan's slots like SlotList says.  The   *)
(* cached schedule is changed in place before the request is sent; an      *)
(* accepted request is followed by reading the schedule again.             *)
(***************************************************************************)
EXTENDS SlotList, FiniteSets

CONSTANTS
  Days,         \* the weekdays, 0..6 in the code
  MinPower,     \* min_load of the schedule
  MaxPower,     \* the largest of max_load and the inverter's outputs
  PowerDef,     \* SolixDefaults.PRESET_DEF
  ModeOptions,  \* the usage modes the site allows
  PlanCalls,    \* the calls of set_sb2_home_load() tried
  PlanLists,    \* the plans of the manual mode the cloud may hold first
  MaxPlanCalls, \* bound on the calls of a behaviour
  ChargeCalls,  \* the calls of set_sb2_ac_charge() tried
  ChargeTimes,  \* the times such a call is made at
  ChargeDef,    \* the default duration of a backup charge
  Backups       \* the backup charges the cloud may hold first

VARIABLES
  cached,       \* the schedule in the device cache
  stored,       \* the schedule of the cloud
  planCall,     \* the last call, with its time and weekday
  sending,      \* "no", or the part of the schedule a request carries
  planCalls     \* number of calls made

planVars == <<cached, stored, planCall, sending, planCalls>>

Supply == 0     \* SolixDefaults.PRESET_TYPE

\* The backup charge of a schedule that has none yet (the key is empty).
NoBackup == [known |-> FALSE, start |-> Unset, end |-> Unset, switch |-> FALSE]

\* The plan a usage mode uses (SolarbankRatePlan).
PlanOf(mode) ==
  CASE mode = "manual" -> "custom"
    [] mode = "smartplugs" -> "blend"
    [] mode = "use_time" -> "use_time"
    [] OTHER -> ""

HasSlots(name) == name \in {"custom", "blend"}

(***************************************************************************)
(* What is given: calls with a start before their end where they need      *)
(* both, plans with slots in order, and charges that end after they start. *)
(***************************************************************************)
PowerSlots == [start : 0..Midnight, end : 0..Midnight, power : Int, type : Int]

Plans == [index : Nat, week : SUBSET Days, slots : Seq(PowerSlots)]

PlanOrders ==
  [kind : {"now", "insert", "set", "delete", "mode"},
   plan : {"", "custom", "blend", "use_time"}, mode : STRING, week : SUBSET Days,
   power : Nat \cup {Unset}, type : Nat \cup {Unset},
   start : 0..LastMinute, end : 0..LastMinute, now : Int, day : Days]

Charges == [known : BOOLEAN, start : Int, end : Int, switch : BOOLEAN]

ChargeOrders ==
  [kind : {"backup"}, start : Nat \cup {Unset}, end : Nat \cup {Unset},
   duration : Nat \cup {Unset}, switch : {Unset, 0, 1}, cacheOnly : BOOLEAN,
   now : Int]

ASSUME PlanAssumption ==
  /\ IsFiniteSet(Days) /\ Days # {}
  /\ MinPower \in Nat /\ MaxPower \in Nat /\ MinPower <= MaxPower
  /\ PowerDef \in Nat /\ ChargeDef \in Nat
  /\ PlanCalls \subseteq {c \in PlanOrders : c.kind \notin {"delete", "mode"}
                                            => c.start < c.end}
  /\ \A plans \in PlanLists : /\ plans \in Seq(Plans)
                             /\ \A i \in 1..Len(plans) : InOrder(plans[i].slots)
  /\ ChargeCalls \subseteq ChargeOrders /\ ChargeTimes \subseteq Nat
  /\ Backups \subseteq {b \in Charges : b.start # Unset => b.start < b.end}

(***************************************************************************)
(* Which plan a call is for.  m.index is its index and m.week the weekdays *)
(* the call turns out to be for.                                           *)
(***************************************************************************)

\* The plan with most of the weekdays, the first of several.
Best(plans, week) ==
  CHOOSE i \in 1..Len(plans) :
    /\ \A j \in 1..Len(plans) :
         Cardinality(plans[j].week \cap week)
           <= Cardinality(plans[i].week \cap week)
    /\ \A j \in 1..(i - 1) :
         Cardinality(plans[j].week \cap week)
           < Cardinality(plans[i].week \cap week)

\* Without weekdays of its own a call is for all days of the first plan that
\* has today.
Match(plans, week, given) ==
  IF given THEN Best(plans, week)
  ELSE CHOOSE i \in 1..Len(plans) :
         /\ plans[i].week \cap week # {}
         /\ \A j \in 1..(i - 1) : plans[j].week \cap week = {}

\* A new plan's index: int(index or -1) + 1 when no plan has a day of the
\* call (an index of 0 gives 0 again), else the last index and one.
NextIndex(plans) ==
  LET last == plans[Len(plans)].index
  IN IF last = 0 THEN 0 ELSE last + 1

Choose(plans, week, given) ==
  IF \A i \in 1..Len(plans) : plans[i].week \cap week = {}
  THEN LET index == IF plans = <<>> THEN 0 ELSE NextIndex(plans)
       IN [index |-> index, week |-> week,
           plans |-> Append(plans, [index |-> index, week |-> week,
                                    slots |-> <<>>])]
  ELSE LET i == Match(plans, week, given)
           found == plans[i].week
           wanted == IF given THEN week ELSE found
           last == plans[Len(plans)].index
           index == IF last = 0 THEN Len(plans) ELSE last + 1
       IN IF found \subseteq wanted
          THEN [index |-> plans[i].index, week |-> wanted, plans |-> plans]
          ELSE [index |-> index, week |-> wanted,
                plans |-> Append(plans, [index |-> index, week |-> wanted,
                                         slots |-> plans[i].slots])]

\* Faulty: the other plans keep the weekdays of the call.
LeftAll(m, plan, index) == IF plan.index = index THEN m.week ELSE plan.week

\* The weekdays a plan is left with.
Left(m, plan, index) ==
  IF plan.index = index THEN m.week ELSE plan.week \ m.week

\* The other plans lose the weekdays of the call; a plan without weekdays is
\* dropped and the plans are numbered anew, the number looked for with them.
Curated(m) ==
  LET n == Len(m.plans)
      turn[i \in 0..n] ==
        IF i = 0 THEN [out |-> <<>>, index |-> m.index]
        ELSE LET done == turn[i - 1]
                 plan == m.plans[i]
                 week == Left(m, plan, done.index)
                 place == Len(done.out)
             IN IF week = {} THEN done
                ELSE [out |-> Append(done.out,
                        [plan EXCEPT !.index = place, !.week = week]),
                      index |-> IF plan.index = done.index THEN place
                                ELSE done.index]
  IN turn[n]

(***************************************************************************)
(* The walk over the slots of the plan.                                    *)
(***************************************************************************)
InLimits(power) == IF power = Unset THEN Unset
                   ELSE Clamp(power, MinPower, MaxPower)

PlanWalkStart(c) ==
  [out |-> <<>>, last |-> 0, next |-> Unset, split |-> <<>>,
   pending |-> c.kind = "insert", current |-> c.kind # "insert",
   power |-> InLimits(c.power), type |-> c.type]

PlanGap(w, slot, from, to) ==
  [slot EXCEPT !.start = from, !.end = to,
     !.power = Clamp(Or(w.power, PowerDef), MinPower, MaxPower),
     !.type = Or(w.type, @)]

PlanSetTurn(w, now, slot, isLast) ==
  LET start == Clock(slot.start)
      before == GapBefore(w, now, slot)
      gap == IF before THEN PlanGap(w, slot, w.last, Text(start))
             ELSE PlanGap(w, slot, Clock(slot.end), Midnight)
      v == IF before
           THEN [w EXCEPT !.out = Append(@, gap), !.last = start] ELSE w
      new == [slot EXCEPT !.power = Or(w.power, @), !.type = Or(w.type, @)]
  IN IF Covers(slot, now)
     THEN Take([v EXCEPT !.current = FALSE], new, <<>>)
     ELSE Take(v, slot,
               IF GapAfter(w, now, slot, isLast) THEN <<gap>> ELSE <<>>)

\* The parameters of the call, with those of the slot it replaces a part of.
PlanReused(w, slot) ==
  [w EXCEPT !.power = Or(@, slot.power), !.type = Or(@, slot.type)]

PlanInsertSlot(w, c, slot) ==
  [slot EXCEPT !.start = c.start, !.end = Text(c.end),
     !.power = Clamp(Or(w.power, PowerDef), MinPower, MaxPower),
     !.type = Or(w.type, Supply)]

PlanInsertTurn(w, c, slot, isLast) ==
  LET v == IF Overwrites(c, slot) THEN w ELSE PlanReused(w, slot)
  IN CASE BeginsHere(w, c, slot, isLast)
            -> InsertHere(v, c, slot, PlanInsertSlot(v, c, slot))
       [] BeginsIn(w, c, slot, isLast)
            -> InsertNext([w EXCEPT !.power =
                             IF c.end = Clock(slot.end) THEN Or(@, slot.power)
                             ELSE @], c, slot)
       [] Delayed(w, slot) -> Delay(w, slot)
       [] OTHER -> Take(w, slot, <<>>)

PlanWalk(slots, c, now) ==
  LET n == Len(slots)
      turn[i \in 0..n] ==
        IF i = 0 THEN PlanWalkStart(c)
        ELSE IF c.kind = "insert"
        THEN PlanInsertTurn(turn[i - 1], c, slots[i], i = n)
        ELSE PlanSetTurn(turn[i - 1], now, slots[i], i = n)
  IN turn[n].out

NewSlot(c) ==
  [start |-> c.start, end |-> Text(c.end),
   power |-> Or(InLimits(c.power), PowerDef), type |-> Or(c.type, Supply)]

\* The slots of the plan after a call.
PlanSlots(slots, c, now) ==
  IF c.kind = "set" \/ slots = <<>> THEN <<NewSlot(c)>>
  ELSE PlanWalk(slots, c, now)

(***************************************************************************)
(* set_sb2_home_load(): a call names a plan or changes the one of the      *)
(* usage mode.  kind is "now" (values for the current time), "insert" and  *)
(* "set" (a slot), "delete" (a slot without times) or "mode" (the usage    *)
(* mode alone).                                                            *)
(***************************************************************************)
Options == ModeOptions \ (IF cached.use THEN {} ELSE {"use_time"})

Mode(c) == IF c.mode \in Options THEN c.mode ELSE cached.mode

PlanName(c) == IF c.plan = "" THEN PlanOf(Mode(c)) ELSE c.plan

\* The weekdays of the call: its own, today, or all.
Weekdays(c, plans, day) ==
  IF c.week # {} THEN c.week
  ELSE IF plans # <<>> /\ c.kind # "delete" THEN {day} ELSE Days

Deleted(plans, week) ==
  Curated([index |-> Unset, week |-> week, plans |-> plans]).out

Changed(plans, c, now, day) ==
  LET week == Weekdays(c, plans, day)
      done == Curated(Choose(plans, week, c.week # {}))
  IN CASE c.kind = "delete" -> Deleted(plans, week)
       [] c.kind = "mode" ->
            IF plans # <<>> THEN plans
            ELSE <<[index |-> 0, week |-> week, slots |-> <<>>]>>
       [] OTHER -> [done.out EXCEPT ![done.index + 1].slots =
                      PlanSlots(@, c, now)]

\* The cached schedule after the call changed it in place.
Edited(c, now, day) ==
  LET name == PlanName(c)
      use == cached.use /\ ~(name = "use_time" /\ c.kind = "delete")
  IN [cached EXCEPT
        !.use = use,
        !.custom = IF name = "custom" THEN Changed(@, c, now, day) ELSE @,
        !.blend = IF name = "blend" THEN Changed(@, c, now, day) ELSE @]

\* The part of the schedule that is sent, with the mode.
SlotPart(s) == [part |-> "slots", mode |-> s.mode,
                custom |-> s.custom, blend |-> s.blend]
ChargePart(s) == [part |-> "charge", mode |-> s.mode,
                  backup |-> s.backup, use |-> s.use]

PlanInit ==
  /\ \E plans \in PlanLists, mode \in ModeOptions, use \in BOOLEAN,
        backup \in Backups :
       /\ mode = "use_time" => use
       /\ stored = [mode |-> mode, custom |-> plans, blend |-> <<>>,
                    use |-> use, backup |-> backup]
  /\ cached = stored
  /\ planCall = [kind |-> "none"]
  /\ sending = [part |-> "none"]
  /\ planCalls = 0

Idle == sending.part = "none" /\ planCalls < MaxPlanCalls

\* The fall back from a use time mode without its plan is a set of a set: it
\* raises, the cached plans are changed by then and nothing is sent.
SetPlan(c, now, day) ==
  /\ Idle
  /\ c.kind = "mode" => c.mode \in Options
  /\ LET done == Edited(c, now, day)
         raises == Mode(c) = "use_time" /\ ~done.use
         final == [done EXCEPT !.mode = Mode(c)]
     IN /\ cached' = IF raises THEN done ELSE final
        /\ sending' = IF raises THEN [part |-> "none"]
                      ELSE IF HasSlots(PlanName(c)) THEN SlotPart(final)
                      ELSE ChargePart(final)
        /\ planCall' = [c EXCEPT !.now = now, !.day = day,
                                 !.plan = PlanName(c)]
  /\ planCalls' = planCalls + 1
  /\ UNCHANGED stored

(***************************************************************************)
(* set_sb2_ac_charge(): the interval of the backup charge and its switch.  *)
(* Unset stands for a time, a duration or a switch that was not given.     *)
(* The entities of the two times change the cached schedule only.          *)
(***************************************************************************)

\* Faulty: an interval that has passed is enabled again as it is.
PassedNever(b, end, c, now) == FALSE

\* The charge is to be enabled and has no end after now.
Passed(b, end, c, now) == ~b.switch /\ Or(end, now) <= now

Backup(b, c, now) ==
  LET on == c.switch = 1
      given == IF b.known THEN Or(c.start, Most(b.start, 0)) ELSE c.start
      to == IF b.known THEN Or(c.end, Most(b.end, 0)) ELSE c.end
      from == IF on /\ (given = Unset \/ Passed(b, to, c, now)) THEN now
              ELSE given
      start == Or(from, to)
      end == Most(start, to)
      long == Most(Or(c.duration, ChargeDef), 1)
      switched == [b EXCEPT !.known = TRUE,
                            !.switch = IF c.switch = Unset THEN @ ELSE on]
  IN IF from = Unset /\ to = Unset THEN switched
     ELSE [switched EXCEPT !.start = start,
             !.end = IF start = end \/ c.duration # Unset THEN start + long
                     ELSE end]

BackupCharge(c, now) ==
  /\ Idle
  /\ cached' = [cached EXCEPT !.backup = Backup(@, c, now)]
  /\ sending' = IF c.cacheOnly THEN sending ELSE ChargePart(cached')
  /\ planCall' = [c EXCEPT !.now = now]
  /\ planCalls' = planCalls + 1
  /\ UNCHANGED stored

(***************************************************************************)
(* set_device_parm(): an accepted request is followed by reading the       *)
(* schedule again; after a rejected one the cached schedule stays changed. *)
(* The poller reads the schedule at any time.                              *)
(***************************************************************************)
Accept ==
  /\ sending.part # "none"
  /\ stored' = IF sending.part = "slots"
               THEN [stored EXCEPT !.mode = sending.mode,
                       !.custom = sending.custom, !.blend = sending.blend]
               ELSE [stored EXCEPT !.mode = sending.mode,
                       !.backup = sending.backup, !.use = sending.use]
  /\ cached' = stored'
  /\ sending' = [part |-> "none"]
  /\ UNCHANGED <<planCall, planCalls>>

Reject ==
  /\ sending.part # "none"
  /\ sending' = [part |-> "none"]
  /\ UNCHANGED <<cached, stored, planCall, planCalls>>

ReadSchedule ==
  /\ cached # stored
  /\ cached' = stored
  /\ UNCHANGED <<stored, planCall, sending, planCalls>>

PlanNext ==
  \/ \E c \in PlanCalls, now \in NowTimes, day \in Days : SetPlan(c, now, day)
  \/ \E c \in ChargeCalls, now \in ChargeTimes : BackupCharge(c, now)
  \/ Accept
  \/ Reject
  \/ ReadSchedule

PlanSpec == PlanInit /\ [][PlanNext]_planVars

(***************************************************************************)
(* Properties.                                                             *)
(***************************************************************************)
Edits(kinds) ==
  planCalls' # planCalls /\ planCall'.kind \in kinds /\ HasSlots(planCall'.plan)

PlansOf(schedule, name) ==
  IF name = "custom" THEN schedule.custom ELSE schedule.blend

\* Each weekday is in one plan at most, and the plans are numbered by place.
Tidy(plans) ==
  /\ \A i \in 1..Len(plans) : plans[i].index = i - 1
  /\ \A i, j \in 1..Len(plans) : i # j => plans[i].week \cap plans[j].week = {}

\* A call for weekdays that the only plan does not have: its new plan gets
\* the index of that plan, which loses its weekdays (schedule.py:1678).
Clash(plans, week) == Len(plans) = 1 /\ plans[1].week \cap week = {}

\* The slots of a day.
SlotsOn(plans, d) ==
  UNION {{plans[i].slots} : i \in {j \in 1..Len(plans) : d \in plans[j].week}}

LoadOn(plans, d, t) ==
  UNION {{<<s.power, s.type>> : s \in At(slots, t)}
         : slots \in SlotsOn(plans, d)}

\* The weekdays a call turns out to change, and the slots it may start from.
WeekOf(c, plans) ==
  LET week == Weekdays(c, plans, c.day)
      todays == {i \in 1..Len(plans) : c.day \in plans[i].week}
  IN IF c.week # {} \/ todays = {} \/ c.kind = "delete" THEN week
     ELSE UNION {plans[i].week : i \in todays}

Bases(plans, week) ==
  LET hit == {i \in 1..Len(plans) : plans[i].week \cap week # {}}
  IN IF hit = {} THEN {<<>>} ELSE {plans[i].slots : i \in hit}

\* What a call may make of the load at a time of a day it is for, given the
\* slots it starts from.
Honoured(c, base, load, t) ==
  LET asked == \E x \in load : Given(InLimits(c.power), x[1])
                               /\ Given(c.type, x[2])
      was == {<<s.power, s.type>> : s \in At(base, t)}
  IN CASE c.kind = "delete" -> load = {}
       [] c.kind = "now" /\ base # <<>> ->
            IF t = c.now THEN asked
            ELSE load = was \/ At(base, t) = At(base, c.now)
       [] OTHER -> IF c.start <= t /\ t < c.end THEN asked
                   ELSE load = IF c.kind = "insert" THEN was ELSE {}

\* A call changes the days it is for and no other: on these days one of the
\* plans they had goes on, with the slot or the value that was asked for
\* within its times only; every other day asks for what it asked before.  The
\* weekdays stay in one plan at most and the plans numbered by place, so that
\* a clone, a merge and a removal of plans never hit the wrong one.  (The call
\* of Clash is left out: there the weekdays of the only plan are lost.)
PlanEditExact ==
  [][Edits({"insert", "set", "now", "delete"})
     => LET before == PlansOf(cached, planCall'.plan)
            after == PlansOf(cached', planCall'.plan)
            week == WeekOf(planCall', before)
        IN Tidy(before) /\ (planCall'.kind = "delete" \/ ~Clash(before, week))
           => /\ Tidy(after)
              /\ \A i \in 1..Len(after) : InOrder(after[i].slots)
              /\ \A d \in Days \ week, t \in NowTimes :
                   LoadOn(after, d, t) = LoadOn(before, d, t)
              /\ \E base \in Bases(before, week) :
                   \A d \in week, t \in NowTimes :
                     Honoured(planCall', base, LoadOn(after, d, t), t)]_planVars

\* A backup charge always ends after it starts; one that is enabled without a
\* duration ends after now, even when the times are those of a charge long
\* over (schedule.py:2235), and times that were given in order are used when
\* they do not lie in the past.
BackupAhead ==
  [][planCalls' # planCalls /\ planCall'.kind = "backup"
     => LET c == planCall'
            b == cached'.backup
        IN /\ b.start # Unset => b.start < b.end
           /\ b.switch /\ ~cached.backup.switch /\ c.duration = Unset
              => b.end > c.now
           /\ c.start # Unset /\ c.start < c.end /\ c.now < c.end
                /\ c.duration = Unset
              => b.start = c.start /\ b.end = c.end]_planVars
=============================================================================
