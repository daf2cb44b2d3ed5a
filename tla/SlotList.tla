------------------------------ MODULE SlotList ------------------------------
(***************************************************************************)
(* The walk over the time slots of a day that set_home_load() and          *)
(* set_sb2_home_load() of solixapi/schedule.py share word for word: a new  *)
(* list is built from the old one, slots that a new slot reaches into are  *)
(* shortened, split, delayed or dropped.                                   *)
(*                                                                         *)
(* Time is counted in ticks.  The tick Midnight is the text "24:00" and    *)
(* Midnight - 1 is 23:59, the time "24:00" is read as.                     *)
(***************************************************************************)
EXTENDS Integers, Sequences

CONSTANT Midnight     \* "24:00"

ASSUME MidnightAssumption == Midnight \in Nat /\ Midnight >= 2

Unset == -1           \* Python's None

Least(a, b) == IF a <= b THEN a ELSE b
Most(a, b) == IF a >= b THEN a ELSE b
Clamp(x, lo, hi) == Least(Most(x, lo), hi)
Or(x, default) == IF x = Unset THEN default ELSE x

LastMinute == Midnight - 1

\* datetime.strptime(text.replace("24:00", "23:59"))
Clock(t) == IF t = Midnight THEN LastMinute ELSE t

\* strftime().replace("23:59", "24:00")
Text(t) == IF t = LastMinute THEN Midnight ELSE t

\* The times a call is made at.  The last minute of the day is left out:
\* "24:00" is read as 23:59, so now_time >= end_time holds in it although a
\* slot covers it, and the code adds a second slot over that minute.
NowTimes == 0..(LastMinute - 1)

Covers(slot, t) == Clock(slot.start) <= t /\ t < Clock(slot.end)

\* The slots of a list that cover a time.
At(slots, t) == {slots[i] : i \in {j \in 1..Len(slots) : Covers(slots[j], t)}}

(***************************************************************************)
(* State of the walk w: out is the new list and last the end of its last   *)
(* slot; next is the remembered start of the next slot; split the second   *)
(* half of a slot; pending: the new slot is not in yet; current: the       *)
(* values for the current time are not in yet.                             *)
(***************************************************************************)
EndOf(w) == Clock(w.out[Len(w.out)].end)

\* The end of a turn: the slot is taken over unless an earlier one reaches
\* into it; what follows it comes next.
Take(w, slot, after) ==
  LET kept == IF w.last <= Clock(slot.start) THEN Append(w.out, slot)
              ELSE w.out
      done == [w EXCEPT !.out = kept \o after,
                        !.split = IF after = <<>> THEN @ ELSE <<>>]
  IN [done EXCEPT !.last = EndOf(done)]

\* The current time falls into the gap before the slot, or after the last.
GapBefore(w, now, slot) ==
  w.current /\ w.last <= now /\ now < Clock(slot.start)
GapAfter(w, now, slot, isLast) ==
  /\ w.current
  /\ ~GapBefore(w, now, slot)
  /\ isLast
  /\ now >= Clock(slot.end)

\* The new slot replaces the slot's borders: none of its values is kept.
Overwrites(c, slot) == c.start # Clock(slot.start) /\ c.end # Clock(slot.end)

\* The slot new of call c begins at or before this slot, or this is the last.
InsertHere(w, c, slot, new) ==
  LET start == Clock(slot.start)
      end == Clock(slot.end)
      first == [w EXCEPT !.out = Append(@, new), !.pending = FALSE]
      rest == [slot EXCEPT !.start = Text(c.end)]
  IN IF c.start <= start
     THEN IF c.end >= end
          THEN [first EXCEPT !.last = c.end,
                  !.next = IF end < LastMinute THEN c.end ELSE @]
          ELSE IF w.split # <<>>
          THEN Take([first EXCEPT !.out = @ \o w.split, !.split = <<>>],
                    slot, <<>>)
          ELSE Take(first, IF c.end > start THEN rest ELSE slot, <<>>)
     ELSE Take(w, IF c.start < end THEN [slot EXCEPT !.end = Text(c.start)]
                  ELSE slot,
               <<new>> \o (IF c.end < end THEN <<rest>> ELSE w.split))

\* The new slot begins in this one, which is not the last.
InsertNext(w, c, slot) ==
  LET rest == <<[slot EXCEPT !.start = Text(c.end)]>>
  IN Take([w EXCEPT !.split = IF c.end < Clock(slot.end) THEN rest ELSE @],
          [slot EXCEPT !.end = c.start], <<>>)

\* Faulty: a slot the new one reaches into keeps its start.
DelayNever(w, slot) == Take([w EXCEPT !.next = Unset], slot, <<>>)

\* A slot after the new one begins where the new one ends.
Delay(w, slot) ==
  Take([w EXCEPT !.next = Unset],
       IF w.next > Clock(slot.start) THEN [slot EXCEPT !.start = Text(w.next)]
       ELSE slot,
       <<>>)

\* Which of the turns a slot is for, when a call inserts a slot.
BeginsHere(w, c, slot, isLast) ==
  w.pending /\ (c.start <= Clock(slot.start) \/ isLast)
BeginsIn(w, c, slot, isLast) ==
  /\ w.pending
  /\ ~BeginsHere(w, c, slot, isLast)
  /\ c.start <= Clock(slot.end)
Delayed(w, slot) ==
  ~w.pending /\ w.next # Unset /\ w.next < Clock(slot.end)

(***************************************************************************)
(* Slots in order: none is empty and none reaches into the next.           *)
(***************************************************************************)
InOrder(slots) ==
  /\ \A i \in 1..Len(slots) : Clock(slots[i].start) < Clock(slots[i].end)
  /\ \A i \in 2..Len(slots) : Clock(slots[i - 1].end) <= Clock(slots[i].start)

\* What a call asks for, where it asks for anything.
Given(asked, value) == asked = Unset \/ asked = value
=============================================================================
