-------------------------- MODULE HomeLoadSchedule --------------------------
(***************************************************************************)
(* The daily schedule of a first generation solarbank: set_home_load() of  *)
(* solixapi/schedule.py.  The cached schedule is a list of time slots.  A  *)
(* call changes the slot of the current time (or all slots), inserts a     *)
(* slot, or replaces the whole schedule by one slot; it walks once over    *)
(* the list, shortens, splits and drops slots on the way and builds a new  *)
(* list.                                                                   *)
(*                                                                         *)
(* A site has one or two solarbanks: own is the load of the bank a call    *)
(* names, other the load of the second one.  The priority of discharging   *)
(* is kept like the priority of charging and is left out.                  *)
(***************************************************************************)
EXTENDS SlotList

CONSTANTS
  PresetMax,    \* SolixDefaults.PRESET_MAX
  PresetDef,    \* SolixDefaults.PRESET_DEF
  MinLoad,      \* min_load of the schedule
  MaxLoad,      \* max_load of the schedule
  DevMin,       \* advanced_mode_min_load of the schedule
  PrioDef,      \* SolixDefaults.CHARGE_PRIORITY_DEF
  HomeCalls,    \* the calls tried
  Schedules,    \* the schedules the cloud may hold first, with the banks
  MaxHomeCalls  \* bound on the calls of a behaviour

VARIABLES
  ranges,       \* the schedule's slots, schedule["ranges"]
  homeBanks,    \* number of solarbanks of the site
  homeCall,     \* the last call, with the time it was made at
  homeCalls     \* number of calls made

homeVars == <<ranges, homeBanks, homeCall, homeCalls>>

(***************************************************************************)
(* Slots.  A slot has no mode when the schedule does not know device loads *)
(* (the key power_setting_mode is missing).                                *)
(***************************************************************************)
HasMode(slot) == slot.mode # "none"

\* The banks as the first slot tells them.
Banks(slots) == IF slots # <<>> /\ ~HasMode(slots[1]) THEN 1 ELSE homeBanks

TopLoad(n) == Least(PresetMax * n, MaxLoad * n)

(***************************************************************************)
(* What is given: calls with a start before their end, and schedules in    *)
(* order, within the limits, with device loads in all slots or in none.    *)
(***************************************************************************)
LoadSlots ==
  [start : 0..Midnight, end : 0..Midnight, power : Int, on : Int, prio : Int,
   mode : {"none", "normal", "advanced"}, own : Int, other : Int]

Orders ==
  [kind : {"now", "all", "insert", "set"}, start : 0..LastMinute, end : 0..LastMinute,
   power : Nat \cup {Unset}, own : Nat \cup {Unset}, on : {Unset, 0, 1},
   prio : Nat \cup {Unset}, now : Int]

OneKind(slots) == \A i, j \in 1..Len(slots) : HasMode(slots[i]) = HasMode(slots[j])

\* The loads of a slot, and of the banks where it knows them.
InLoads(slot, n) ==
  /\ slot.power \in MinLoad..TopLoad(n)
  /\ HasMode(slot) => {slot.own, slot.other} \subseteq DevMin..PresetMax

ASSUME HomeAssumption ==
  /\ PresetMax \in Nat /\ PresetDef \in Nat /\ PrioDef \in Nat
  /\ MinLoad \in Nat /\ MaxLoad \in Nat /\ DevMin \in Nat
  /\ DevMin <= MinLoad /\ MinLoad <= PresetMax /\ PresetMax <= MaxLoad
  /\ HomeCalls \subseteq {c \in Orders : c.start < c.end}
  /\ \A s \in Schedules :
       /\ s.banks \in {1, 2} /\ s.ranges \in Seq(LoadSlots)
       /\ InOrder(s.ranges) /\ OneKind(s.ranges)
       /\ \A i \in 1..Len(s.ranges) : InLoads(s.ranges[i], s.banks)

(***************************************************************************)
(* The parameters of a call within their limits.  With one bank a device   *)
(* load is taken for the appliance load.                                   *)
(***************************************************************************)
Limited(c, n) ==
  LET own == IF n = 1 \/ c.own = Unset THEN Unset
             ELSE Clamp(c.own, DevMin, PresetMax)
      power == IF n = 1 THEN Or(c.power, c.own) ELSE c.power
  IN [c EXCEPT !.own = own,
               !.power = IF power = Unset THEN Unset
                         ELSE Clamp(power, MinLoad, TopLoad(n))]

PowerMode(c, n) ==
  IF n = 1 THEN "unset"
  ELSE IF c.own # Unset THEN "advanced"
  ELSE IF c.power # Unset THEN "normal" ELSE "unset"

\* Faulty: the load of the other bank is not kept within its limits.
FollowedNever(power, own, n) == power

\* The appliance load the other bank can follow, given the own load.
Followed(power, own, n) ==
  Most(Least(power, own + PresetMax * (n - 1)), own + DevMin * (n - 1))

\* The appliance load of a new slot.
Appliance(power, own, n, exact) ==
  IF power = Unset THEN IF own = Unset THEN PresetDef ELSE own * n
  ELSE IF own = Unset \/ exact THEN power ELSE Followed(power, own, n)

(***************************************************************************)
(* State of the walk: the new list, the end of its last slot, the          *)
(* remembered start of the next one, the second half of a split slot, and  *)
(* the parameters, which the walk itself changes.                          *)
(***************************************************************************)
WalkStart(c, n) ==
  [out |-> <<>>, last |-> 0, next |-> Unset, split |-> <<>>,
   pending |-> c.kind = "insert", current |-> c.kind # "insert",
   power |-> c.power, own |-> c.own, on |-> c.on, prio |-> c.prio,
   mode |-> PowerMode(c, n)]

\* A slot for the gap the current time falls into, a changed copy of slot.
GapSlot(w, n, slot, from, to) ==
  LET load == Appliance(w.power, w.own, n,
                        w.mode = "unset" \/ ~HasMode(slot))
      device == HasMode(slot) /\ w.mode = "advanced" /\ w.own # Unset
  IN [slot EXCEPT !.start = from, !.end = to,
        !.power = Clamp(load, MinLoad, TopLoad(n)),
        !.mode = IF HasMode(slot) /\ w.mode # "unset" THEN w.mode ELSE @,
        !.own = IF device THEN w.own ELSE @,
        !.other = IF device THEN load - w.own ELSE @,
        !.on = Or(w.on, 1), !.prio = Or(w.prio, PrioDef)]

\* The parameters of a call that inserts a slot, with those of the slot it
\* replaces a part of.
Reused(w, slot) ==
  LET device == slot.mode = "advanced" /\ w.own = Unset
  IN IF w.power # Unset THEN w
     ELSE IF device
          THEN [w EXCEPT !.power = slot.power, !.own = slot.own,
                         !.mode = "advanced"]
          ELSE [w EXCEPT !.power = IF w.own = Unset THEN slot.power
                                   ELSE w.own + slot.other]

ReusedAll(w, slot) ==
  [Reused(w, slot) EXCEPT !.on = Or(@, slot.on), !.prio = Or(@, slot.prio)]

\* The appliance load of the inserted slot, within its limits.
InsertLoad(w, n, slot) ==
  Clamp(Appliance(w.power, w.own, n, w.mode = "unset" \/ ~HasMode(slot)),
        MinLoad, TopLoad(n))

\* The inserted slot: a copy of slot with the parameters of the call.
InsertSlot(w, n, c, slot, overwrite) ==
  [slot EXCEPT !.start = c.start, !.end = Text(c.end), !.power = w.power,
     !.mode = IF ~HasMode(slot) THEN @
              ELSE IF w.mode = "unset" THEN "normal" ELSE w.mode,
     !.own = IF ~HasMode(slot) THEN @
             ELSE IF w.own = Unset THEN w.power \div n ELSE w.own,
     !.other = IF ~HasMode(slot) \/ n = 1 THEN @
               ELSE IF w.own = Unset THEN w.power \div n
               ELSE w.power - w.own,
     !.on = IF w.on # Unset THEN w.on ELSE IF overwrite THEN 1 ELSE @,
     !.prio = IF w.prio # Unset THEN w.prio
              ELSE IF overwrite THEN PrioDef ELSE @]

\* The slot of the current time, or any slot of the day, with the
\* parameters of the call.
UpdateSlot(w, slot) ==
  LET device == HasMode(slot) /\ w.mode = "advanced" /\ w.own # Unset
  IN [slot EXCEPT
        !.power = Or(w.power, @),
        !.mode = IF HasMode(slot) /\ w.mode # "unset" THEN w.mode ELSE @,
        !.own = IF device THEN w.own ELSE @,
        !.other = IF device THEN w.power - w.own ELSE @,
        !.on = Or(w.on, @), !.prio = Or(w.prio, @)]

\* The load of the call for this slot: it is kept for the slots that follow.
SlotLoad(w, n, slot) ==
  IF w.own = Unset THEN w.power
  ELSE IF w.power = Unset THEN w.own + slot.other
  ELSE Followed(w.power, w.own, n)

\* The slots a call changes: that of the current time, or all.
Hit(c, slot, now) == c.kind = "all" \/ Covers(slot, now)

(***************************************************************************)
(* One turn of the walk, for a call that sets values at the time now.      *)
(***************************************************************************)
SetTurn(w, n, c, now, slot, isLast) ==
  LET start == Clock(slot.start)
      before == GapBefore(w, now, slot)
      after == GapAfter(w, now, slot, isLast)
      gap == IF before THEN GapSlot(w, n, slot, w.last, Text(start))
             ELSE GapSlot(w, n, slot, Clock(slot.end), Midnight)
      v == IF before
           THEN [w EXCEPT !.out = Append(@, gap), !.last = start] ELSE w
      hit == Hit(c, slot, now)
      u == IF ~hit THEN v
           ELSE [v EXCEPT !.power = SlotLoad(w, n, slot),
                          !.current = @ /\ ~Covers(slot, now)]
  IN Take(u, IF hit THEN UpdateSlot(u, slot) ELSE slot,
          IF after THEN <<gap>> ELSE <<>>)

(***************************************************************************)
(* One turn of the walk, for a call that inserts a slot.                   *)
(***************************************************************************)
InsertTurn(w, n, c, slot, isLast) ==
  LET overwrite == Overwrites(c, slot)
      r == IF overwrite THEN w ELSE Reused(w, slot)
      v == [r EXCEPT !.power = InsertLoad(r, n, slot)]
  IN CASE BeginsHere(w, c, slot, isLast)
            -> InsertHere(v, c, slot, InsertSlot(v, n, c, slot, overwrite))
       [] BeginsIn(w, c, slot, isLast)
            -> InsertNext(IF c.end = Clock(slot.end) THEN ReusedAll(w, slot)
                          ELSE w, c, slot)
       [] Delayed(w, slot) -> Delay(w, slot)
       [] OTHER -> Take(w, slot, <<>>)

Walk(c, n, now) ==
  LET count == Len(ranges)
      turn[i \in 0..count] ==
        IF i = 0 THEN WalkStart(c, n)
        ELSE IF c.kind = "insert"
        THEN InsertTurn(turn[i - 1], n, c, ranges[i], i = count)
        ELSE SetTurn(turn[i - 1], n, c, now, ranges[i], i = count)
  IN turn[count].out

(***************************************************************************)
(* A single slot for the whole schedule.  It knows device loads only when  *)
(* both loads were given.                                                  *)
(***************************************************************************)
WholeSlot(c, n) ==
  LET load == Appliance(c.power, c.own, n, FALSE)
      device == PowerMode(c, n) = "advanced" /\ c.power # Unset
  IN [start |-> c.start, end |-> Text(c.end),
      power |-> Clamp(load, MinLoad, TopLoad(n)),
      on |-> Or(c.on, 1), prio |-> Or(c.prio, PrioDef),
      mode |-> IF device THEN "advanced" ELSE "none",
      own |-> IF device THEN c.own ELSE 0,
      other |-> IF device THEN load - c.own ELSE 0]

HomeInit ==
  /\ \E s \in Schedules : ranges = s.ranges /\ homeBanks = s.banks
  /\ homeCall = [kind |-> "none"]
  /\ homeCalls = 0

SetHomeLoad(c, now) ==
  LET n == Banks(ranges)
      limited == Limited(c, n)
  IN /\ ranges' = IF c.kind = "set" \/ ranges = <<>>
                  THEN <<WholeSlot(limited, n)>>
                  ELSE Walk(limited, n, now)
     /\ homeCall' = [limited EXCEPT !.now = now]
     /\ homeCalls' = homeCalls + 1
     /\ UNCHANGED homeBanks

HomeNext ==
  \E c \in HomeCalls, now \in NowTimes :
    homeCalls < MaxHomeCalls /\ SetHomeLoad(c, now)

HomeSpec == HomeInit /\ [][HomeNext]_homeVars

(***************************************************************************)
(* Properties.                                                             *)
(***************************************************************************)

\* The slots of the schedule stay in order whatever calls were made: no slot
\* is empty, none reaches into the next one (the walk of schedule.py:786 to
\* 1318 shortens, splits, delays and drops slots by comparing texts).
HomeSlotsInOrder == InOrder(ranges)

\* A slot asks for what the call has given, a device load where it has one.
Asks(c, slot) ==
  /\ Given(c.on, slot.on)
  /\ Given(c.prio, slot.prio)
  /\ c.own = Unset => Given(c.power, slot.power)
  /\ HasMode(slot) => Given(c.own, slot.own)

\* What the slots of a list ask for at a time.
AskedAt(slots, t) ==
  {<<s.power, s.on, s.prio, s.mode, s.own, s.other>> : s \in At(slots, t)}

\* An inserted slot rules exactly its own times: at each of them the schedule
\* asks for what was given, at every other time for what it asked before.
\* The docstring promises it (schedule.py:600, "Adjacent overlapping slot
\* times will be updated and overlay slots will be replaced").
HomeInsertExact ==
  homeCall'.kind = "insert" /\ ranges # <<>>
     => \A t \in NowTimes :
          IF homeCall'.start <= t /\ t < homeCall'.end
          THEN \E s \in At(ranges', t) : Asks(homeCall', s)
          ELSE AskedAt(ranges', t) = AskedAt(ranges, t)

\* A change for the current time rules the slot or the gap of that time and
\* nothing else (unless all slots were asked for): no other slot changes, no
\* other gap is filled (docstring, schedule.py:598).
HomeNowExact ==
  homeCall'.kind \in {"now", "all"} /\ ranges # <<>>
     => LET now == homeCall'.now
        IN /\ \E s \in At(ranges', now) : Asks(homeCall', s)
           /\ \A t \in NowTimes :
                \/ AskedAt(ranges', t) = AskedAt(ranges, t)
                \/ At(ranges, t) = At(ranges, now)
                \/ homeCall'.kind = "all" /\ At(ranges, t) # {}

\* The loads of the appliance and of both banks stay within their limits, in
\* each of the modes and however a slot's load was derived from other slots
\* (with a limit of the schedule that is the limit of a bank).
HomeLoadsInLimits ==
  \A i \in 1..Len(ranges) :
    LET s == ranges[i]
    IN /\ s.power \in MinLoad..TopLoad(homeBanks)
       /\ s.mode = "advanced"
          => {s.own, s.other} \subseteq DevMin..PresetMax

\* The schedule that calls leave behind can be sent: slots in order, loads
\* within the limits.
HomeScheduleSound == HomeSlotsInOrder /\ HomeLoadsInLimits

\* A call changes the times it is for and no others, with times or for now.
HomeEditsExact == [][HomeInsertExact /\ HomeNowExact]_homeVars
=============================================================================
